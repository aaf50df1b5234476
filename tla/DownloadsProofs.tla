---------------------------- MODULE DownloadsProofs ----------------------------
(***************************************************************************)
(* For any number of commands that fetch to one path, interrupted or dying *)
(* anywhere: no file is clobbered or lost, what lands is complete, and a   *)
(* token that was made is revoked.                                         *)
(***************************************************************************)
EXTENDS Downloads, TLAPS

Owners == Commands \cup {Nothing, User}

\* Only a complete file is put in place, and a token is owed until it is revoked.
OneCommand(c) ==
  /\ pc[c] \in {"land", "aside", "place"} => temp[c] \in Ended(c)
  /\ pc[c] \in {"aside", "place"} => c \in force
  /\ path = c \/ report[c] = "success" \/ pc[c] \in {"discard", "revoke"} => Complete(c)
  /\ \A d \in Commands : backup[d] = c => Complete(c)
  /\ pc[c] \in {"inspect", "token"} => debt[c] = "none"
  /\ kind[c] # "csv" => debt[c] = "none" /\ pc[c] \notin {"token", "revoke"}
  /\ report[c] = "success" => debt[c] = "none"
  /\ pc[c] = "revoke_last" => debt[c] = "owed"
  /\ pc[c] \in {"clean", "revoke_last", "returned"} => report[c] # "none"
  /\ report[c] # "none" => pc[c] \in {"clean", "revoke_last", "returned", "crashed"}
  /\ pc[c] = "returned" => debt[c] # "owed"
  /\ debt[c] = "none" => token # c

\* A command about to discard what it moved aside is not alone with a file.
OthersHold ==
  path = Nothing /\ (\E c \in Commands : pc[c] = "discard")
    => \E e \in Commands : backup[e] # Nothing /\ pc[e] # "discard"

DownloadsInv ==
  TypeOK /\ (\A c \in Commands : OneCommand(c)) /\ OthersHold

LEMMA DownloadsInvInit == Init => DownloadsInv
  BY OwnersAssumption DEF Init, DownloadsInv, OneCommand, OthersHold, TypeOK, Pcs,
         Kinds, Bodies, Complete, Ended

LEMMA DownloadsInvStep == DownloadsInv /\ [Next]_vars => DownloadsInv'
<1> SUFFICES ASSUME DownloadsInv, [Next]_vars PROVE DownloadsInv'
  OBVIOUS
<1> USE OwnersAssumption
    DEF DownloadsInv, OneCommand, OthersHold, TypeOK, Pcs, Goto, Leave, Given, Owe, local, PutAtPath, Landed,
        Ended, Complete, Kinds, Bodies
<1>1. ASSUME NEW c \in Commands, Inspect(c) PROVE DownloadsInv'
  BY <1>1 DEF Inspect
<1>2. ASSUME NEW c \in Commands, CreateCSVToken(c) PROVE DownloadsInv'
  <2>1. TypeOK'
    BY <1>2 DEF CreateCSVToken
  <2>2. ASSUME NEW d \in Commands PROVE OneCommand(d)'
    BY <1>2 DEF CreateCSVToken
  <2>3. OthersHold'
    BY <1>2 DEF CreateCSVToken
  <2> QED
    BY <2>1, <2>2, <2>3 DEF DownloadsInv
<1>3. ASSUME NEW c \in Commands, OpenTemp(c) PROVE DownloadsInv'
  BY <1>3 DEF OpenTemp
<1>4. ASSUME NEW c \in Commands, Download(c) PROVE DownloadsInv'
  BY <1>4 DEF Download, Served
<1>5. ASSUME NEW c \in Commands, Link(c) PROVE DownloadsInv'
  <2>1. TypeOK'
    BY <1>5 DEF Link
  <2>2. ASSUME NEW d \in Commands PROVE OneCommand(d)'
    BY <1>5 DEF Link
  <2>3. OthersHold'
    BY <1>5 DEF Link
  <2> QED
    BY <2>1, <2>2, <2>3 DEF DownloadsInv
<1>6. ASSUME NEW c \in Commands, Rename(c) PROVE DownloadsInv'
  BY <1>6 DEF Rename
<1>7. ASSUME NEW c \in Commands, MoveAside(c) PROVE DownloadsInv'
  BY <1>7 DEF MoveAside
<1>8. ASSUME NEW c \in Commands, Place(c) PROVE DownloadsInv'
  <2>1. TypeOK'
    BY <1>8 DEF Place
  <2>2. ASSUME NEW d \in Commands PROVE OneCommand(d)'
    BY <1>8 DEF Place
  <2>3. OthersHold'
    BY <1>8 DEF Place
  <2> QED
    BY <2>1, <2>2, <2>3 DEF DownloadsInv
<1>9. ASSUME NEW c \in Commands, DiscardBackup(c) PROVE DownloadsInv'
  BY <1>9 DEF DiscardBackup
<1>10. ASSUME NEW c \in Commands, Revoke(c) PROVE DownloadsInv'
  BY <1>10 DEF Revoke
<1>11. ASSUME NEW c \in Commands, Clean(c) PROVE DownloadsInv'
  BY <1>11 DEF Clean
<1>12. ASSUME NEW c \in Commands, RevokeLast(c) PROVE DownloadsInv'
  <2>1. TypeOK'
    BY <1>12 DEF RevokeLast
  <2>2. ASSUME NEW d \in Commands PROVE OneCommand(d)'
    BY <1>12 DEF RevokeLast
  <2>3. OthersHold'
    BY <1>12 DEF RevokeLast
  <2> QED
    BY <2>1, <2>2, <2>3 DEF DownloadsInv
<1>13. ASSUME NEW c \in Commands, Interrupt(c) PROVE DownloadsInv'
  BY <1>13 DEF Interrupt
<1>14. ASSUME NEW c \in Commands, Crash(c) PROVE DownloadsInv'
  BY <1>14 DEF Crash
<1>15. CASE UserWrites
  BY <1>15 DEF UserWrites
<1>16. CASE UNCHANGED vars
  BY <1>16 DEF vars
<1> QED
  BY <1>1, <1>2, <1>3, <1>4, <1>5, <1>6, <1>7, <1>8, <1>9, <1>10, <1>11, <1>12,
     <1>13, <1>14, <1>15, <1>16 DEF Next, AllEnded

LEMMA DownloadsInvHolds == Spec => []DownloadsInv
  BY DownloadsInvInit, DownloadsInvStep, PTL DEF Spec

\* Every variable keeps its type, and what is put in place of a file that was
\* moved aside has that file to restore.
THEOREM DownloadsTypeCorrect == Spec => []TypeOK
<1>1. DownloadsInv => TypeOK
  BY DEF DownloadsInv
<1> QED
  BY <1>1, DownloadsInvHolds, PTL

\* Whoever is interrupted or dies, what a command put at the path is complete:
\* an attachment as recorded, and of no body that broke off.
THEOREM WhatLandsIsComplete == Spec => []LandedIsComplete
<1>1. DownloadsInv => LandedIsComplete
  BY DEF DownloadsInv, OneCommand, LandedIsComplete
<1> QED
  BY <1>1, DownloadsInvHolds, PTL

\* A token that a command made, and that Taiga honours still when the command
\* has returned, is one it could not revoke, and its caller was told of a failure.
THEOREM NoTokenIsLeft == Spec => []TokensRevoked
<1>1. DownloadsInv => TokensRevoked
  BY DEF DownloadsInv, OneCommand, TypeOK, TokensRevoked
<1> QED
  BY <1>1, DownloadsInvHolds, PTL

\* A file at the path is replaced or moved by no command without --force.
THEOREM NothingIsClobbered == Spec => NoClobber
<1> DEFINE Step == path' # path /\ path # Nothing => \E c \in Commands : c \in force /\ pc'[c] # pc[c]
<1>1. ASSUME DownloadsInv, [Next]_vars PROVE [Step]_vars
  <2>1. ASSUME NEW c \in Commands, Link(c) PROVE Step
    BY <2>1 DEF Link, Leave
  <2>2. ASSUME NEW c \in Commands, Rename(c) PROVE Step
    BY <1>1, <2>2 DEF DownloadsInv, TypeOK, Rename, Landed, Leave, Goto
  <2>3. ASSUME NEW c \in Commands, MoveAside(c) PROVE Step
    BY <1>1, <2>3 DEF DownloadsInv, TypeOK, OneCommand, MoveAside, Leave, Goto
  <2>4. ASSUME NEW c \in Commands, Place(c) PROVE Step
    BY <1>1, <2>4 DEF DownloadsInv, TypeOK, OneCommand, Place, Leave, Goto
  <2> QED
    BY <1>1, <2>1, <2>2, <2>3, <2>4
       DEF Next, AllEnded, vars, local, Inspect, CreateCSVToken, OpenTemp, Download,
           DiscardBackup, Revoke, Clean, RevokeLast, Interrupt, Crash, UserWrites
<1> QED
  BY <1>1, DownloadsInvHolds, PTL DEF Spec, NoClobber

\* A complete file that is put in place is one of the files there.
LEMMA NewFile ==
  ASSUME DownloadsInv, NEW c \in Commands, pc[c] \in {"land", "place"}, PutAtPath(c) PROVE
    kind' = kind => Files' \cap (Files \cup {d \in Commands : Complete(d)'}) # {}
<1>1. c \in Files'
  BY OwnersAssumption DEF PutAtPath, Files
<1>2. kind' = kind => Complete(c)'
  BY DEF DownloadsInv, OneCommand, TypeOK, PutAtPath, Complete, Ended
<1> QED
  BY <1>1, <1>2

\* At no step, and so at no crash, is what was at the path gone and nothing
\* complete in its place.
THEOREM AFileSurvives == Spec => OneFileSurvives
<1> DEFINE Step == Files # {} => Files' \cap (Files \cup {c \in Commands : Complete(c)'}) # {}
<1>1. ASSUME DownloadsInv, [Next]_vars PROVE [Step]_vars
  <2>1. ASSUME path' = path, backup' = backup PROVE Step
    BY <2>1 DEF Files
  <2>2. ASSUME NEW c \in Commands, Link(c) PROVE Step
    BY <1>1, <2>1, <2>2, NewFile DEF Link, Leave, Given
  <2>3. ASSUME NEW c \in Commands, Rename(c) PROVE Step
    BY <1>1, <2>1, <2>3, NewFile DEF Rename, Given
  <2>4. ASSUME NEW c \in Commands, MoveAside(c) PROVE Step
    <3>1. CASE path # Nothing /\ backup' = [backup EXCEPT ![c] = path]
      <4>1. backup'[c] = path
        BY <1>1, <3>1 DEF DownloadsInv, TypeOK
      <4> QED
        BY <3>1, <4>1 DEF Files
    <3> QED
      BY <2>1, <2>4, <3>1 DEF MoveAside
  <2>5. ASSUME NEW c \in Commands, Place(c) PROVE Step
    <3>1. CASE path' = backup[c] /\ backup' = [backup EXCEPT ![c] = Nothing]
      <4>1. backup[c] # Nothing
        BY <1>1, <2>5 DEF Place, DownloadsInv, TypeOK
      <4> QED
        BY <3>1, <4>1 DEF Files
    <3> QED
      BY <1>1, <2>1, <2>5, <3>1, NewFile DEF Place, Given
  <2>6. ASSUME NEW c \in Commands, DiscardBackup(c) PROVE Step
    <3>1. CASE path # Nothing
      BY <2>6, <3>1 DEF DiscardBackup, Files
    <3>2. CASE path = Nothing
      <4>1. PICK e \in Commands : backup[e] # Nothing /\ pc[e] # "discard"
        BY <1>1, <2>6, <3>2 DEF DiscardBackup, DownloadsInv, OthersHold
      <4>2. backup'[e] = backup[e]
        BY <1>1, <2>6, <4>1 DEF DiscardBackup, DownloadsInv, TypeOK
      <4> QED
        BY <4>1, <4>2 DEF Files
    <3> QED
      BY <3>1, <3>2
  <2>7. CASE UserWrites
    BY <2>7 DEF UserWrites, Files
  <2> QED
    BY <1>1, <2>1, <2>2, <2>3, <2>4, <2>5, <2>6, <2>7
       DEF Next, AllEnded, vars, local, Inspect, CreateCSVToken, OpenTemp, Download,
           Revoke, Clean, RevokeLast, Interrupt, Crash
<1> QED
  BY <1>1, DownloadsInvHolds, PTL DEF Spec, OneFileSurvives
===============================================================================
