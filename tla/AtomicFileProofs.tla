-------------------------- MODULE AtomicFileProofs --------------------------
(***************************************************************************)
(* For any number of writers and every fault: the file is never torn, a    *)
(* failed Write leaves nothing, and where rename replaces a file the path  *)
(* never loses its file.                                                   *)
(***************************************************************************)
EXTENDS AtomicFile, TLAPS

\* The writers whose temporary file is complete, and those past the sync.
Filled == {"sync", "close", "rename", "remove", "rename_again"}
PastSync == Filled \ {"sync"}

\* A writer that is about to rename holds its whole data on the disk, and no
\* data is at the path before its writer has renamed it there.
FileInv ==
  /\ TypeOK
  /\ NeverTorn
  /\ \A w \in Writers:
       /\ pc[w] \in Filled => temp[w] = w
       /\ pc[w] \in PastSync => w \in synced
       /\ pc[w] # "ok" => path # w /\ w \notin survives
       /\ pc[w] \in {"create", "ok", "failed"} => temp[w] = Absent
       /\ platform # "windows" => pc[w] \notin {"remove", "rename_again"}

LEMMA FileInvInit == Init => FileInv
  BY FileAssumption DEF Init, FileInv, TypeOK, NeverTorn, Contents, Working, Filled, PastSync

\* A rename of a complete and synced temporary file keeps the invariant.
LEMMA RenamedKeeps ==
  ASSUME FileInv, NEW w \in Writers, pc[w] \in {"rename", "rename_again"}, Renamed(w)
  PROVE  FileInv'
<1>1. temp[w] = w /\ w \in synced /\ w \in Contents
  BY DEF FileInv, Filled, PastSync, Contents
<1>2. path' = w /\ survives' = survives \cup {w}
  BY <1>1 DEF Renamed
<1>3. TypeOK'
  BY <1>1, <1>2 DEF Renamed, Goto, FileInv, TypeOK, Contents, Working
<1>4. NeverTorn'
  BY <1>2, FileAssumption DEF FileInv, NeverTorn
<1> QED
  BY <1>1, <1>2, <1>3, <1>4, FileAssumption
     DEF Renamed, Goto, FileInv, TypeOK, Filled, PastSync

LEMMA FileInvStep == FileInv /\ [Next]_vars => FileInv'
<1> SUFFICES ASSUME FileInv, [Next]_vars PROVE FileInv'
  OBVIOUS
<1> USE FileAssumption DEF FileInv, TypeOK, NeverTorn, Contents, Working, Filled, PastSync, Goto
<1>1. ASSUME NEW w \in Writers, Create(w) PROVE FileInv'
  BY <1>1 DEF Create
<1>2. ASSUME NEW w \in Writers, Fill(w) PROVE FileInv'
  BY <1>2 DEF Fill
<1>3. ASSUME NEW w \in Writers, Sync(w) PROVE FileInv'
  BY <1>3 DEF Sync
<1>4. ASSUME NEW w \in Writers, Close(w) PROVE FileInv'
  BY <1>4 DEF Close
<1>5. ASSUME NEW w \in Writers, Rename(w) PROVE FileInv'
  BY <1>5, RenamedKeeps DEF Rename
<1>6. ASSUME NEW w \in Writers, RenameRefused(w) PROVE FileInv'
  BY <1>6 DEF RenameRefused
<1>7. ASSUME NEW w \in Writers, RemovePrevious(w) PROVE FileInv'
  BY <1>7 DEF RemovePrevious
<1>8. ASSUME NEW w \in Writers, RenameAgain(w) PROVE FileInv'
  BY <1>8, RenamedKeeps DEF RenameAgain
<1>9. ASSUME NEW w \in Writers, Fail(w) PROVE FileInv'
  BY <1>9 DEF Fail
<1>10. ASSUME NEW w \in Writers, Crash(w) PROVE FileInv'
  BY <1>10 DEF Crash
<1>11. CASE PowerCut
  BY <1>11 DEF PowerCut
<1>12. CASE UNCHANGED vars
  BY <1>12 DEF vars
<1> QED
  BY <1>1, <1>2, <1>3, <1>4, <1>5, <1>6, <1>7, <1>8, <1>9, <1>10, <1>11, <1>12
     DEF Next, Write, Finished

\* Whatever the writers do and wherever the power is cut, a reader finds no
\* partial write: writeAndClose syncs before replace renames.
THEOREM NoReaderSeesATornFile == Spec => []NeverTorn
<1>1. FileInv => NeverTorn
  BY DEF FileInv
<1> QED
  BY <1>1, FileInvInit, FileInvStep, PTL DEF Spec

\* A Write that fails changes nothing, and one that returns leaves no
\* temporary file.
THEOREM WriteCleansUp == Spec => []CleansUp
<1>1. FileInv => CleansUp
  BY DEF FileInv, CleansUp
<1> QED
  BY <1>1, FileInvInit, FileInvStep, PTL DEF Spec

\* Where rename replaces a file, the path holds the previous file or the new
\* one at every moment short of a power cut.
THEOREM PathKeepsAFile == Spec => PreviousOrNew
<1>1. ASSUME FileInv, [Next]_vars
      PROVE  [platform # "windows" /\ path # Absent /\ path' = Absent => PowerCut]_vars
  <2>1. ASSUME NEW w \in Writers, Write(w) \/ Fail(w) \/ Crash(w), path # Absent, platform # "windows"
        PROVE  path' # Absent
    <3>1. CASE Rename(w)
      BY <1>1, <3>1, FileAssumption DEF FileInv, Filled, Rename, Renamed
    <3>2. ~RemovePrevious(w) /\ ~RenameAgain(w)
      BY <1>1, <2>1 DEF FileInv, RemovePrevious, RenameAgain
    <3> QED
      BY <2>1, <3>1, <3>2
         DEF Write, Create, Fill, Sync, Close, RenameRefused, Fail, Crash
  <2> QED
    BY <1>1, <2>1 DEF Next, Finished, vars
<1> QED
  BY <1>1, FileInvInit, FileInvStep, PTL DEF Spec, PreviousOrNew
=============================================================================
