------------------------------- MODULE Downloads -------------------------------
(***************************************************************************)
(* Commands that fetch a file from Taiga and put it at one path.           *)
(*   internal/cli/attachment.go     attachmentDownloadCommand,             *)
(*                                  replaceLocalFile                       *)
(*   internal/cli/csv.go            csvExportCommand                       *)
(*   internal/taiga/attachments.go  DownloadAttachment                     *)
(*   internal/taiga/csv.go          CreateCSVToken, DownloadCSV,           *)
(*                                  RevokeCSVToken                         *)
(* A CSV is fetched under a token, of which Taiga keeps one per resource:  *)
(* creating one replaces it, revoking removes whichever there is.  Taiga,  *)
(* the network, the file system and whoever else writes at the path are    *)
(* external.  A body that is cut short usually ends in an error, but not   *)
(* one that only the end of its connection delimits.                       *)
(***************************************************************************)
EXTENDS Integers

CONSTANTS
  Commands,    \* the processes
  Nothing, User    \* no file or token; the file, or the link, of somebody else

ASSUME OwnersAssumption == Nothing \notin Commands \cup {User} /\ User \notin Commands

VARIABLES
  kind, force,  \* what each command fetches: a "csv", an "attachment", or an
                \* "unrecorded" one, of neither size nor SHA-1; who has --force
  pc,           \* where it is
  ctx,          \* "live" or "done": its context
  path,         \* whose file is at the path
  temp,         \* its temporary file: "none", "part" until the body ends, then
                \* "whole", or "short" when the end came early and unnoticed
  backup,       \* whose file it moved aside
  landed,       \* what it put at the path: one of those
  token,        \* whose CSV token Taiga honours
  debt,         \* what became of its own token: "none", "owed" (to be revoked),
                \* "unknown" (the answer was lost), "tried" (not revoked)
  report        \* what its caller is told

local == <<path, temp, backup, landed>>
vars == <<kind, force, pc, ctx, local, token, debt, report>>

Kinds  == {"csv", "attachment", "unrecorded"}
Bodies == {"none", "part", "short", "whole"}
Pcs == {"inspect", "token", "open", "download", "land", "aside", "place",
        "discard", "revoke", "clean", "revoke_last", "returned", "crashed"}

TypeOK ==
  /\ kind \in [Commands -> Kinds] /\ force \in SUBSET Commands
  /\ pc \in [Commands -> Pcs] /\ ctx \in [Commands -> {"live", "done"}]
  /\ path \in Commands \cup {Nothing, User} /\ token \in Commands \cup {Nothing, User}
  /\ temp \in [Commands -> Bodies]
  /\ backup \in [Commands -> Commands \cup {Nothing, User}]
  /\ landed \in [Commands -> Bodies]
  /\ debt \in [Commands -> {"none", "owed", "unknown", "tried"}]
  /\ report \in [Commands -> {"none", "success", "failed"}]
  /\ \A c \in Commands : pc[c] \in {"place", "discard"} => backup[c] # Nothing

Init ==
  /\ kind \in [Commands -> Kinds] /\ force \in SUBSET Commands
  /\ pc = [c \in Commands |-> "inspect"] /\ ctx = [c \in Commands |-> "live"]
  /\ path \in {Nothing, User} /\ token \in {Nothing, User}
  /\ temp = [c \in Commands |-> "none"] /\ backup = [c \in Commands |-> Nothing]
  /\ landed = [c \in Commands |-> "none"] /\ debt = [c \in Commands |-> "none"]
  /\ report = [c \in Commands |-> "none"]

Goto(c, l) == pc' = [pc EXCEPT ![c] = l] /\ UNCHANGED report

\* The command returns r once what it deferred is done.
Leave(c, r) ==
  pc' = [pc EXCEPT ![c] = "clean"] /\ report' = [report EXCEPT ![c] = r]

Given == UNCHANGED <<kind, force, ctx>>

-----------------------------------------------------------------------------
\* Without --force an existing output ends the command.
Inspect(c) ==
  /\ pc[c] = "inspect"
  /\ IF c \notin force /\ path # Nothing
     THEN Leave(c, "failed")
     ELSE Goto(c, IF kind[c] = "csv" THEN "token" ELSE "open")
  /\ UNCHANGED <<local, token, debt>> /\ Given

Owe(c, d) == debt' = [debt EXCEPT ![c] = d]

\* A POST that makes a new token.  It is revoked by nobody when its answer is
\* lost, or holds no token.
CreateCSVToken(c) ==
  /\ pc[c] = "token"
  /\ \/ ctx[c] = "live" /\ token' = c /\ Owe(c, "owed") /\ Goto(c, "open")
     \/ ctx[c] = "live" /\ token' = c /\ Owe(c, "unknown") /\ Leave(c, "failed")
     \/ Leave(c, "failed") /\ UNCHANGED <<token, debt>>
  /\ UNCHANGED local /\ Given

OpenTemp(c) ==
  /\ pc[c] = "open"
  /\ \/ Goto(c, "download") /\ temp' = [temp EXCEPT ![c] = "part"]
     \/ Leave(c, "failed") /\ UNCHANGED temp
  /\ UNCHANGED <<path, backup, landed, token, debt>> /\ Given

\* Does Taiga serve the file?  A CSV only under the token it honours.
Served(c) == ctx[c] = "live" /\ (kind[c] = "csv" => token = c)

\* Mutant of Ended: the size and the digest are not compared.
EndedUnchecked(c) == {"whole", "short"}

\* What a body that ended without an error may be.  The size and the digest
\* that Taiga recorded of an attachment are compared; there are none of a CSV.
Ended(c) == IF kind[c] = "attachment" THEN {"whole"} ELSE {"whole", "short"}

\* The body is streamed to the temporary file, synced and closed.  One that
\* breaks off, differs from what is recorded, stalls, or cannot be written, is
\* an error.
Download(c) ==
  /\ pc[c] = "download"
  /\ \/ Served(c) /\ Goto(c, "land") /\ \E body \in Ended(c) : temp' = [temp EXCEPT ![c] = body]
     \/ Leave(c, "failed") /\ UNCHANGED temp
  /\ UNCHANGED <<path, backup, landed, token, debt>> /\ Given

-----------------------------------------------------------------------------
(* replaceLocalFile                                                        *)

\* The file is in place: an attachment is done, a CSV has its token to revoke.
Landed(c) ==
  IF kind[c] = "csv" THEN Goto(c, "revoke") ELSE Leave(c, "success")

PutAtPath(c) ==
  /\ path' = c
  /\ landed' = [landed EXCEPT ![c] = temp[c]]

\* Mutant of Link: what was inspected before the download still counts.
LinkOver(c) ==
  /\ pc[c] = "land" /\ c \notin force
  /\ \/ PutAtPath(c) /\ Landed(c)
     \/ Leave(c, "failed") /\ UNCHANGED <<path, landed>>
  /\ UNCHANGED <<temp, backup, token, debt>> /\ Given

\* Without --force a link, which another file at the path refuses.
Link(c) ==
  /\ pc[c] = "land" /\ c \notin force
  /\ \/ path = Nothing /\ PutAtPath(c) /\ Landed(c)
     \/ Leave(c, "failed") /\ UNCHANGED <<path, landed>>
  /\ UNCHANGED <<temp, backup, token, debt>> /\ Given

\* With --force a rename; where it is refused, the long way round.
Rename(c) ==
  /\ pc[c] = "land" /\ c \in force
  /\ \/ PutAtPath(c) /\ temp' = [temp EXCEPT ![c] = "none"] /\ Landed(c)
     \/ Goto(c, "aside") /\ UNCHANGED <<path, temp, landed>>
  /\ UNCHANGED <<backup, token, debt>> /\ Given

\* Mutant of MoveAside: its error is not looked at.
MoveAsideAnyway(c) ==
  /\ pc[c] = "aside" /\ Goto(c, "place")
  /\ path' = Nothing /\ backup' = [backup EXCEPT ![c] = path]
  /\ UNCHANGED <<temp, landed, token, debt>> /\ Given

MoveAside(c) ==
  /\ pc[c] = "aside"
  /\ \/ /\ path # Nothing /\ path' = Nothing
        /\ backup' = [backup EXCEPT ![c] = path] /\ Goto(c, "place")
     \/ Leave(c, "failed") /\ UNCHANGED <<path, backup>>
  /\ UNCHANGED <<temp, landed, token, debt>> /\ Given

\* Mutant of Place: the backup is removed first.
PlaceAfterDiscard(c) ==
  /\ pc[c] = "place" /\ backup' = [backup EXCEPT ![c] = Nothing]
  /\ \/ PutAtPath(c) /\ temp' = [temp EXCEPT ![c] = "none"] /\ Landed(c)
     \/ Leave(c, "failed") /\ UNCHANGED <<path, temp, landed>>
  /\ UNCHANGED <<token, debt>> /\ Given

\* A refused rename moves the backup back, if it can.
Place(c) ==
  /\ pc[c] = "place"
  /\ \/ /\ PutAtPath(c) /\ temp' = [temp EXCEPT ![c] = "none"]
        /\ Goto(c, "discard") /\ UNCHANGED backup
     \/ /\ path' = backup[c] /\ backup' = [backup EXCEPT ![c] = Nothing]
        /\ Leave(c, "failed") /\ UNCHANGED <<temp, landed>>
     \/ Leave(c, "failed") /\ UNCHANGED <<path, temp, backup, landed>>
  /\ UNCHANGED <<token, debt>> /\ Given

DiscardBackup(c) ==
  /\ pc[c] = "discard"
  /\ \/ backup' = [backup EXCEPT ![c] = Nothing] /\ Landed(c)
     \/ Leave(c, "failed") /\ UNCHANGED backup
  /\ UNCHANGED <<path, temp, landed, token, debt>> /\ Given

-----------------------------------------------------------------------------
\* The command's own revocation, under its context.
Revoke(c) ==
  /\ pc[c] = "revoke"
  /\ \/ ctx[c] = "live" /\ token' = Nothing /\ Owe(c, "none") /\ Leave(c, "success")
     \/ /\ Leave(c, "failed") /\ UNCHANGED debt
        /\ token' \in (IF ctx[c] = "live" THEN {token, Nothing} ELSE {token})
  /\ UNCHANGED local /\ Given

\* What was deferred last runs first: the temporary file is removed, then the
\* token that is still owed is revoked.
Clean(c) ==
  /\ pc[c] = "clean"
  /\ temp' = [temp EXCEPT ![c] = "none"]
  /\ Goto(c, IF debt[c] = "owed" THEN "revoke_last" ELSE "returned")
  /\ UNCHANGED <<path, backup, landed, token, debt>> /\ Given

\* Mutant of RevokeLast: it goes out under the command's own context.
RevokeLastCancelled(c) ==
  /\ pc[c] = "revoke_last" /\ Goto(c, "returned")
  /\ \/ ctx[c] = "live" /\ token' = Nothing /\ Owe(c, "none")
     \/ ctx[c] = "live" /\ token' \in {token, Nothing} /\ Owe(c, "tried")
     \/ ctx[c] = "done" /\ UNCHANGED <<token, debt>>
  /\ UNCHANGED local /\ Given

\* The deferred revocation goes out although the command was interrupted; its
\* error is dropped.
RevokeLast(c) ==
  /\ pc[c] = "revoke_last" /\ Goto(c, "returned")
  /\ \/ token' = Nothing /\ Owe(c, "none")
     \/ token' \in {token, Nothing} /\ Owe(c, "tried")
  /\ UNCHANGED local /\ Given

-----------------------------------------------------------------------------
Running(c) == pc[c] \notin {"returned", "crashed"}

Interrupt(c) ==
  /\ Running(c) /\ ctx[c] = "live" /\ ctx' = [ctx EXCEPT ![c] = "done"]
  /\ UNCHANGED <<kind, force, pc, local, token, debt, report>>

Crash(c) ==
  /\ Running(c) /\ Goto(c, "crashed")
  /\ UNCHANGED <<local, token, debt>> /\ Given

\* Somebody else makes a file there.
UserWrites ==
  /\ path = Nothing /\ path' = User
  /\ UNCHANGED <<kind, force, pc, ctx, temp, backup, landed, token, debt, report>>

\* Every command ends: TLC is told that this is no deadlock.
AllEnded == (\A c \in Commands : ~Running(c)) /\ path # Nothing /\ UNCHANGED vars

Next ==
  \/ \E c \in Commands :
       \/ Inspect(c) \/ CreateCSVToken(c) \/ OpenTemp(c) \/ Download(c)
       \/ Link(c) \/ Rename(c) \/ MoveAside(c) \/ Place(c) \/ DiscardBackup(c)
       \/ Revoke(c) \/ Clean(c) \/ RevokeLast(c) \/ Interrupt(c) \/ Crash(c)
  \/ UserWrites \/ AllEnded

Spec == Init /\ [][Next]_vars

-----------------------------------------------------------------------------
(* Properties.                                                             *)

\* What a command may put at the path: an attachment as Taiga recorded it, or a
\* body that ended without an error; never what a failure broke off.  Of a CSV no
\* more is claimed: there is nothing to verify its digest with (README:100-102).
Complete(c) ==
  landed[c] \in IF kind[c] = "attachment" THEN {"whole"} ELSE {"whole", "short"}

\* What a command put at the path is complete, whoever crashed or was
\* interrupted, and a command that reports success did put it there.
LandedIsComplete ==
  \A c \in Commands : path = c \/ report[c] = "success" => Complete(c)

\* Without --force no file is replaced or moved, though one that was not there
\* when the command looked appears during the download (README:100-104).
NoClobber ==
  [][path' # path /\ path # Nothing => \E c \in Commands : c \in force /\ pc'[c] # pc[c]]_vars

\* The files there are: at the path, and moved aside.
Files == ({path} \cup {backup[c] : c \in Commands}) \ {Nothing}

\* A --force command gives up what was at the path only for a complete file of
\* a command: at no step, and so at no crash, are both missing.
OneFileSurvives ==
  [][Files # {} => Files' \cap (Files \cup {c \in Commands : Complete(c)'}) # {}]_vars

\* A command that returned left no token behind that it could have revoked: not
\* when it was interrupted, and never with a report of success (csv.go:56-61).
TokensRevoked ==
  \A c \in Commands :
    pc[c] = "returned" /\ token = c => report[c] = "failed" /\ debt[c] \in {"unknown", "tried"}
===============================================================================
