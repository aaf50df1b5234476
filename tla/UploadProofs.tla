----------------------------- MODULE UploadProofs -----------------------------
(***************************************************************************)
(* For a file of any number of parts, whenever Taiga answers, the operator *)
(* interrupts and the timer goes off: what an upload reports is true.      *)
(***************************************************************************)
EXTENDS Upload, TLAPS

\* The goroutine is done, and the pipe ends, only when all was sent, so nothing
\* ends cut short; Taiga says created of what it keeps, and keeps nothing it
\* refuses; the caller reads an answer there is, and returns what it says.
UploadInv ==
  /\ TypeOK
  /\ caller = "ready" => answer = "none"
  /\ caller \in {"reading", "joining"} => answer # "none"
  /\ caller \in {"ready", "sending", "reading"} => read # "all"
  /\ read = "all" => answer # "none"
  /\ (report = "none") <=> (caller # "returned")
  /\ writer = "done" \/ pipe = "ended" => sent = Parts
  /\ writer = "pipe" => sent < Parts
  /\ stored # "cut"
  /\ answer = "refused" => stored = "none"
  /\ answer \in {"created", "garbled"} => stored # "none"
  /\ report = "success" => answer = "created" /\ writer = "done"
  /\ report = "refused" => answer = "refused"
  /\ report = "interrupted" => sent = 0 /\ pipe = "closed" /\ stored = "none"
  /\ caller = "ready" => sent = 0 /\ stored = "none" /\ pipe # "closed"
  /\ RefusalIsHeard

LEMMA UploadInvInit == Init => UploadInv
<1> SUFFICES ASSUME Init PROVE UploadInv
  OBVIOUS
<1>1. TypeOK
  BY PartsAssumption DEF Init, TypeOK
<1>2. sent = 0 /\ sent < Parts
  BY PartsAssumption DEF Init
<1> QED
  BY <1>1, <1>2 DEF Init, UploadInv, RefusalIsHeard

LEMMA UploadInvStep == UploadInv /\ [Next]_vars => UploadInv'
<1> SUFFICES ASSUME UploadInv, [Next]_vars PROVE UploadInv'
  OBVIOUS
<1> USE PartsAssumption DEF UploadInv, TypeOK, RefusalIsHeard, Return
<1>1. CASE ReadSource
  BY <1>1 DEF ReadSource
<1>2. CASE WritePart
  BY <1>2 DEF WritePart
<1>3. CASE Start
  BY <1>3 DEF Start
<1>4. CASE AnswerArrives
  BY <1>4 DEF AnswerArrives
<1>5. CASE DoFails
  BY <1>5 DEF DoFails
<1>6. CASE ReadAnswer
  BY <1>6 DEF ReadAnswer
<1>7. CASE Join
  BY <1>7 DEF Join, Verdict
<1>8. CASE TransportCloses
  BY <1>8 DEF TransportCloses
<1>9. CASE Stall
  BY <1>9 DEF Stall
<1>10. CASE Interrupt
  BY <1>10 DEF Interrupt
<1>11. CASE TaigaTakes
  BY <1>11 DEF TaigaTakes
<1>12. CASE TaigaAnswers
  BY <1>12 DEF TaigaAnswers
<1>13. CASE UNCHANGED vars
  BY <1>13 DEF vars
<1> QED
  BY <1>1, <1>2, <1>3, <1>4, <1>5, <1>6, <1>7, <1>8, <1>9, <1>10, <1>11, <1>12, <1>13 DEF Next

LEMMA UploadInvHolds == AnySourceSpec => []UploadInv
  BY UploadInvInit, UploadInvStep, PTL DEF AnySourceSpec

\* Every variable keeps its type, the parts sent their bound.
THEOREM UploadTypeCorrect == AnySourceSpec => []TypeOK
<1>1. UploadInv => TypeOK
  BY DEF UploadInv
<1> QED
  BY <1>1, UploadInvHolds, PTL

\* An upload from any source, one that may block for ever included, reports
\* success only of a file it sent to its end, and that Taiga says it keeps.
THEOREM UploadSuccessIsSentWhole == AnySourceSpec => []SuccessIsSentWhole
<1>1. UploadInv => SuccessIsSentWhole
  BY DEF UploadInv, TypeOK, SuccessIsSentWhole
<1> QED
  BY <1>1, UploadInvHolds, PTL

\* What is reported refused, or interrupted, is not kept by Taiga; a gateway's
\* answer is reported as neither.
THEOREM UploadRefusedIsAbsent == AnySourceSpec => []RefusedIsAbsent
<1>1. UploadInv => RefusedIsAbsent
  BY DEF UploadInv, RefusedIsAbsent
<1> QED
  BY <1>1, UploadInvHolds, PTL

\* A refusal the caller has read is what it reports.
THEOREM UploadRefusalIsHeard == AnySourceSpec => []RefusalIsHeard
<1>1. UploadInv => RefusalIsHeard
  BY DEF UploadInv
<1> QED
  BY <1>1, UploadInvHolds, PTL
===============================================================================
