-------------------------------- MODULE Upload --------------------------------
(***************************************************************************)
(* Sending a file to Taiga in one streamed request.                        *)
(*   internal/taiga/attachments.go        CreateAttachment                 *)
(*   internal/taiga/project_transfer.go   ImportProjectDump, the same      *)
(*   internal/taiga/transfer.go           transferWatch, progressReader    *)
(* A goroutine copies the source into a pipe; the HTTP transport reads the *)
(* pipe through a progressReader and sends what it reads; the caller waits *)
(* for the answer in Do, reads it, and then waits for the goroutine.  The  *)
(* transport and Taiga are external.  The transport goes on reading the    *)
(* pipe after an early answer, until it closes it.  Taiga may answer       *)
(* before it has all, and may take what it has for the whole; the gateway  *)
(* before it may answer 5xx for it, whatever Taiga does.                   *)
(***************************************************************************)
EXTENDS Integers

CONSTANT Parts      \* what there is to send, the closing boundary included

ASSUME PartsAssumption == Parts \in Nat \ {0}

VARIABLES
  caller,    \* "ready", "sending" (in Do), "reading" (the answer),
             \* "joining" (waits for writeDone), "returned"
  writer,    \* "source" (reads the source), "pipe" (writes the part it read),
             \* "done" or "failed", as it says on writeDone
  pipe,      \* "open", "closed" by the reader, "ended" or "broken" by the writer
  sent,      \* parts the transport has read from the pipe, to send
  ctx,       \* "live", "interrupted" by the operator, or "stalled"
  answer,    \* what is answered: "none", "created", "refused", "garbled", or
             \* "gateway": a 5xx that does not say what Taiga did
  stored,    \* what Taiga keeps: "none", "whole", a file that was "cut" short
             \* and ended, or what it had "early", before the end
  read,      \* how much of the answer was read: "none", "cut" short or "all"
  report     \* what the caller is told

vars == <<caller, writer, pipe, sent, ctx, answer, stored, read, report>>

TypeOK ==
  /\ caller \in {"ready", "sending", "reading", "joining", "returned"}
  /\ writer \in {"source", "pipe", "done", "failed"}
  /\ pipe \in {"open", "closed", "ended", "broken"} /\ sent \in 0 .. Parts
  /\ ctx \in {"live", "interrupted", "stalled"}
  /\ answer \in {"none", "created", "refused", "garbled", "gateway"}
  /\ stored \in {"none", "whole", "cut", "early"} /\ read \in {"none", "cut", "all"}
  /\ report \in {"none", "success", "refused", "unavailable", "ambiguous", "interrupted"}

Init ==
  /\ caller = "ready" /\ writer = "source" /\ pipe = "open" /\ sent = 0
  /\ ctx = "live" /\ answer = "none" /\ stored = "none"
  /\ read = "none" /\ report = "none"

Return(r) == caller' = "returned" /\ report' = r

-----------------------------------------------------------------------------
(* The goroutine.                                                          *)

\* Mutant of ReadSource: it goes on after the end.
ReadSourceBeyond ==
  /\ writer = "source"
  /\ \/ sent <= Parts /\ writer' = "pipe" /\ UNCHANGED pipe
     \/ sent = Parts /\ writer' = "done" /\ pipe' = IF pipe = "open" THEN "ended" ELSE pipe
  /\ UNCHANGED <<caller, sent, ctx, answer, stored, read, report>>

\* Mutant of ReadSource: a source that cannot be read is taken for its end.
ReadSourceShort ==
  /\ writer = "source"
  /\ \/ sent < Parts /\ writer' = "pipe" /\ UNCHANGED pipe
     \/ writer' = "done" /\ pipe' = IF pipe = "open" THEN "ended" ELSE pipe
  /\ UNCHANGED <<caller, sent, ctx, answer, stored, read, report>>

\* The source gives its next part, or has none left, or cannot be read.
ReadSource ==
  /\ writer = "source"
  /\ \/ sent < Parts /\ writer' = "pipe" /\ UNCHANGED pipe
     \/ sent = Parts /\ writer' = "done" /\ pipe' = IF pipe = "open" THEN "ended" ELSE pipe
     \/ writer' = "failed" /\ pipe' = IF pipe = "open" THEN "broken" ELSE pipe
  /\ UNCHANGED <<caller, sent, ctx, answer, stored, read, report>>

\* A write to the pipe blocks until the transport reads it, or closes it.
WritePart ==
  /\ writer = "pipe"
  /\ \/ /\ pipe = "open" /\ caller # "ready"
        /\ writer' = "source" /\ sent' = sent + 1
     \/ pipe = "closed" /\ writer' = "failed" /\ UNCHANGED sent
  /\ UNCHANGED <<caller, pipe, ctx, answer, stored, read, report>>

-----------------------------------------------------------------------------
(* The caller.                                                             *)

\* A context that is already finished leaves nothing to reconcile.
Start ==
  /\ caller = "ready"
  /\ IF ctx = "interrupted"
     THEN Return("interrupted") /\ pipe' = "closed"
     ELSE caller' = "sending" /\ UNCHANGED <<pipe, report>>
  /\ UNCHANGED <<writer, sent, ctx, answer, stored, read>>

AnswerArrives ==
  /\ caller = "sending" /\ answer # "none" /\ ctx = "live"
  /\ caller' = "reading"
  /\ UNCHANGED <<writer, pipe, sent, ctx, answer, stored, read, report>>

\* Mutant of DoFails: an interrupt is reported as one, as a download does.
DoFailsInterrupted ==
  /\ caller = "sending"
  /\ Return(IF ctx = "interrupted" THEN "interrupted" ELSE "ambiguous")
  /\ pipe' = IF pipe = "open" THEN "closed" ELSE pipe
  /\ UNCHANGED <<writer, sent, ctx, answer, stored, read>>

\* The connection breaks, the body cannot be read, or the context ends.
DoFails ==
  /\ caller = "sending"
  /\ Return("ambiguous") /\ pipe' = IF pipe = "open" THEN "closed" ELSE pipe
  /\ UNCHANGED <<writer, sent, ctx, answer, stored, read>>

ReadAnswer ==
  /\ caller = "reading" /\ caller' = "joining"
  /\ read' \in (IF ctx = "live" THEN {"all", "cut"} ELSE {"cut"})
  /\ UNCHANGED <<writer, pipe, sent, ctx, answer, stored, report>>

\* Mutant of Verdict: an accepted answer is taken at its word.
VerdictTrusts ==
  IF read # "all" THEN "ambiguous"
  ELSE IF answer = "refused" THEN "refused"
  ELSE IF answer = "gateway" THEN "unavailable"
  ELSE IF answer = "garbled" THEN "ambiguous"
  ELSE "success"

\* Mutant of Verdict: what the goroutine says comes first.
VerdictOfWriter ==
  IF read # "all" \/ writer = "failed" THEN "ambiguous"
  ELSE IF answer = "refused" THEN "refused"
  ELSE IF answer = "gateway" THEN "unavailable"
  ELSE IF answer = "garbled" THEN "ambiguous"
  ELSE "success"

\* A status outside 2xx outranks the write error that answering early causes;
\* a 5xx among them is a transport error that may be tried again.
Verdict ==
  IF read # "all" THEN "ambiguous"
  ELSE IF answer = "refused" THEN "refused"
  ELSE IF answer = "gateway" THEN "unavailable"
  ELSE IF writer = "failed" \/ answer = "garbled" THEN "ambiguous"
  ELSE "success"

\* The answer is judged once the goroutine has said how it ended.
Join ==
  /\ caller = "joining" /\ writer \in {"done", "failed"}
  /\ Return(Verdict)
  /\ UNCHANGED <<writer, pipe, sent, ctx, answer, stored, read>>

-----------------------------------------------------------------------------
(* The transport, the stall timer, the operator, and Taiga.                *)

\* Answered early, the transport gives up on the body it has not sent, sooner
\* or later.
TransportCloses ==
  /\ caller \in {"reading", "joining"} /\ pipe = "open"
  /\ pipe' = "closed"
  /\ UNCHANGED <<caller, writer, sent, ctx, answer, stored, read, report>>

\* Mutant of Stall: the timer stops once data has moved.
StallBeforeData ==
  /\ ctx = "live" /\ caller \in {"sending", "reading"} /\ sent = 0
  /\ ctx' = "stalled"
  /\ UNCHANGED <<caller, writer, pipe, sent, answer, stored, read, report>>

\* Nothing has moved for as long as the timer waits: it may be that the answer
\* is arriving just then.
Stall ==
  /\ ctx = "live" /\ caller \in {"sending", "reading"}
  /\ ctx' = "stalled"
  /\ UNCHANGED <<caller, writer, pipe, sent, answer, stored, read, report>>

Interrupt ==
  /\ ctx = "live" /\ caller # "returned"
  /\ ctx' = "interrupted"
  /\ UNCHANGED <<caller, writer, pipe, sent, answer, stored, read, report>>

\* Taiga keeps what it was sent, even of a request given up on or answered for
\* by the gateway: the file when it has ended, or before that what it has.
TaigaTakes ==
  /\ stored = "none" /\ answer # "refused" /\ sent > 0
  /\ \/ pipe = "ended" /\ stored' = IF sent = Parts THEN "whole" ELSE "cut"
     \/ stored' = "early"
  /\ UNCHANGED <<caller, writer, pipe, sent, ctx, answer, read, report>>

\* Taiga says what it did, in words that may make no sense, or refuses and does
\* nothing; the gateway may answer at any time, for a Taiga it has not heard.
TaigaAnswers ==
  /\ caller = "sending" /\ answer = "none"
  /\ \/ stored # "none" /\ answer' \in {"created", "garbled"}
     \/ stored = "none" /\ answer' = "refused"
     \/ answer' = "gateway"
  /\ UNCHANGED <<caller, writer, pipe, sent, ctx, stored, read, report>>

Next ==
  \/ ReadSource \/ WritePart
  \/ Start \/ AnswerArrives \/ DoFails \/ ReadAnswer \/ Join
  \/ TransportCloses \/ Stall \/ Interrupt \/ TaigaTakes \/ TaigaAnswers

\* The processor runs the goroutine, the caller and the transport, which closes
\* the pipe once it has the answer; a timer that is due goes off, and a context
\* that ended ends what waits on it.  Nothing is assumed of Taiga, of the
\* operator, of the source, or of a network that takes the parts.
Fairness ==
  /\ WF_vars(pipe = "closed" /\ WritePart) /\ WF_vars(Start) /\ WF_vars(AnswerArrives)
  /\ WF_vars(ctx # "live" /\ DoFails) /\ WF_vars(ReadAnswer) /\ WF_vars(Join)
  /\ WF_vars(TransportCloses) /\ WF_vars(Stall)

AnySourceSpec == Init /\ [][Next]_vars /\ Fairness

\* A file gives its next part, or an error, when it is read.
Spec == AnySourceSpec /\ WF_vars(ReadSource)

-----------------------------------------------------------------------------
(* Properties.                                                             *)

\* A command reports success only of a file it gave the transport to the end,
\* and that Taiga keeps: whole, unless Taiga took what it had while the rest was
\* still on its way to it.  An acceptance after which the rest could not be sent
\* is no success (attachments.go:150-152), nor is a source that broke off.
SuccessIsSentWhole ==
  report = "success" => sent = Parts /\ stored \in {"whole", "early"}

\* What is reported refused, or interrupted before it was sent, is not there.
\* Nothing of the kind is promised of "unavailable": a gateway's 5xx says
\* nothing of what Taiga keeps.
RefusedIsAbsent == report \in {"refused", "interrupted"} => stored = "none"

\* A refusal that was read to its end is what the caller hears, though it made
\* the goroutine fail (attachments.go:142-146).
RefusalIsHeard == report # "none" /\ read = "all" /\ answer = "refused" => report = "refused"

\* A command that sends a file ends (transfer.go:14-17), and leaves no
\* goroutine behind that waits on the pipe.
UploadReturns == <>(caller = "returned") /\ <>[](writer # "pipe")
===============================================================================
