----------------------------- MODULE AtomicFile -----------------------------
(***************************************************************************)
(* Replacing the contents of one file while other processes read and       *)
(* replace it too.  The credentials file, the configuration and the        *)
(* completion cache are all written this way.                              *)
(*   internal/atomicfile/atomicfile.go   Write, writeAndClose, replace     *)
(* A writer fills a temporary file of its own and renames it over the      *)
(* path.  What the path holds is named by the writer whose data it is.     *)
(* A reader opens the path at one instant and reads what it opened, so it  *)
(* observes `path` as it is in one state.                                  *)
(***************************************************************************)
CONSTANTS
  Writers,          \* processes that call Write, once each
  Before,           \* the data of an earlier Write
  Absent,           \* no file
  Torn,             \* part of some data
  Platforms,        \* a subset of {"posix", "windows"}
  Faults            \* a subset of {"io", "crash", "power"}

ASSUME FileAssumption ==
  /\ Before \notin Writers \cup {Absent, Torn}
  /\ Absent \notin Writers \cup {Torn}
  /\ Torn \notin Writers
  /\ Platforms \subseteq {"posix", "windows"}

VARIABLES
  platform,  \* the program runs on; on Windows a rename onto a file may fail
  path,      \* what a reader of the path finds
  survives,  \* what the path may hold after a power cut
  temp,      \* temp[w] is what the temporary file of w holds
  synced,    \* the writers whose temporary file has reached the disk
  pc         \* where Write is; "ok" and "failed" are its returns

vars == <<platform, path, survives, temp, synced, pc>>

Contents == Writers \cup {Before, Absent, Torn}
Working  == {"write", "sync", "close", "rename", "remove", "rename_again"}

TypeOK ==
  /\ platform \in Platforms
  /\ path \in Contents
  /\ survives \subseteq Contents
  /\ temp \in [Writers -> Contents]
  /\ synced \subseteq Writers
  /\ pc \in [Writers -> Working \cup {"create", "ok", "failed", "crashed"}]

Init ==
  /\ platform \in Platforms
  /\ path \in {Before, Absent}
  /\ survives = {path}
  /\ temp = [w \in Writers |-> Absent]
  /\ synced = {}
  /\ pc = [w \in Writers |-> "create"]

Goto(w, l) == pc' = [pc EXCEPT ![w] = l]

\* os.CreateTemp: a file of the writer's own, empty and private.
Create(w) ==
  /\ pc[w] = "create"
  /\ temp' = [temp EXCEPT ![w] = Torn]
  /\ Goto(w, "write")
  /\ UNCHANGED <<platform, path, survives, synced>>

\* The data goes in; until then a crash leaves part of it.
Fill(w) ==
  /\ pc[w] = "write"
  /\ temp' = [temp EXCEPT ![w] = w]
  /\ Goto(w, "sync")
  /\ UNCHANGED <<platform, path, survives, synced>>

\* Mutant of Sync: nothing is flushed.
SyncSkipped(w) ==
  /\ pc[w] = "sync"
  /\ Goto(w, "close")
  /\ UNCHANGED <<platform, path, survives, temp, synced>>

Sync(w) ==
  /\ pc[w] = "sync"
  /\ synced' = synced \cup {w}
  /\ Goto(w, "close")
  /\ UNCHANGED <<platform, path, survives, temp>>

Close(w) ==
  /\ pc[w] = "close"
  /\ Goto(w, "rename")
  /\ UNCHANGED <<platform, path, survives, temp, synced>>

\* The path holds the new file.  Nothing syncs the directory, so a power cut
\* may leave the path as it was or as it is now.
Renamed(w) ==
  /\ path' = temp[w]
  /\ survives' = survives \cup {IF w \in synced THEN temp[w] ELSE Torn}
  /\ temp' = [temp EXCEPT ![w] = Absent]
  /\ Goto(w, "ok")
  /\ UNCHANGED <<platform, synced>>

Rename(w) == pc[w] = "rename" /\ Renamed(w)

\* Mutant of RenameRefused: the previous file is removed on every platform.
RenameRefusedAnywhere(w) ==
  /\ pc[w] = "rename"
  /\ path # Absent
  /\ Goto(w, "remove")
  /\ UNCHANGED <<platform, path, survives, temp, synced>>

\* Windows refuses a rename onto a file, and the previous file is removed.
RenameRefused(w) ==
  /\ pc[w] = "rename"
  /\ platform = "windows" /\ path # Absent
  /\ Goto(w, "remove")
  /\ UNCHANGED <<platform, path, survives, temp, synced>>

RemovePrevious(w) ==
  /\ pc[w] = "remove"
  /\ path' = Absent
  /\ survives' = survives \cup {Absent}
  /\ Goto(w, "rename_again")
  /\ UNCHANGED <<platform, temp, synced>>

RenameAgain(w) == pc[w] = "rename_again" /\ Renamed(w)

\* Mutant of Fail: without the deferred os.Remove.
FailLeavesTemp(w) ==
  /\ "io" \in Faults
  /\ pc[w] \in Working \cup {"create"}
  /\ Goto(w, "failed")
  /\ UNCHANGED <<platform, path, survives, temp, synced>>

\* Any step may fail; the deferred os.Remove takes the temporary file away.
Fail(w) ==
  /\ "io" \in Faults
  /\ pc[w] \in Working \cup {"create"}
  /\ temp' = [temp EXCEPT ![w] = Absent]
  /\ Goto(w, "failed")
  /\ UNCHANGED <<platform, path, survives, synced>>

\* The process dies, and leaves its temporary file.
Crash(w) ==
  /\ "crash" \in Faults
  /\ pc[w] \in Working
  /\ Goto(w, "crashed")
  /\ UNCHANGED <<platform, path, survives, temp, synced>>

\* The machine loses power: what had not reached the disk is torn.
PowerCut ==
  /\ "power" \in Faults
  /\ \E w \in Writers: pc[w] \in Working
  /\ path' \in survives
  /\ survives' = {path'}
  /\ temp' = [w \in Writers |-> IF temp[w] = Absent \/ w \in synced THEN temp[w] ELSE Torn]
  /\ pc' = [w \in Writers |-> IF pc[w] \in Working \cup {"create"} THEN "crashed" ELSE pc[w]]
  /\ UNCHANGED <<platform, synced>>

Finished == (\A w \in Writers: pc[w] \in {"ok", "failed", "crashed"}) /\ UNCHANGED vars

Write(w) ==
  \/ Create(w) \/ Fill(w) \/ Sync(w) \/ Close(w) \/ Rename(w)
  \/ RenameRefused(w) \/ RemovePrevious(w) \/ RenameAgain(w)

Next == (\E w \in Writers: Write(w) \/ Fail(w) \/ Crash(w)) \/ PowerCut \/ Finished

Spec == Init /\ [][Next]_vars

-----------------------------------------------------------------------------
\* A reader never finds part of a write, and neither does the next process
\* after a power cut: the data is on the disk before the rename is.
NeverTorn == path # Torn /\ Torn \notin survives

\* A reader finds the previous file or the new one: once there is a file, no step
\* of any writer leaves the path without one, where a rename replaces a file.  On
\* Windows a refused rename removes the previous file first (atomicfile.go:67).
PreviousOrNew ==
  [][platform # "windows" /\ path # Absent /\ path' = Absent => PowerCut]_vars

\* A Write that fails leaves the path to the others, and one that returns
\* leaves no temporary file behind.
CleansUp ==
  \A w \in Writers:
    /\ pc[w] = "failed" => path # w
    /\ pc[w] \in {"ok", "failed"} => temp[w] = Absent
=============================================================================
