--------------------------- MODULE CredentialStore ---------------------------
(***************************************************************************)
(* Where credentials are kept: the OS keyring, the credentials file, or    *)
(* the keyring with the file behind it.                                    *)
(*   internal/credential/store.go   KeyringStore                           *)
(*   internal/credential/file.go    FileStore, fileStore                   *)
(*   internal/credential/mode.go    Mode.Resolve, NewStore, noStore        *)
(*   internal/credential/lock.go    lockFile                               *)
(* A refresh, a login and a logout write under credentials.lock; commands  *)
(* read without it.  Writing the file is atomic (module AtomicFile).  The  *)
(* OS keyring is external: it works, refuses (locked, or its prompt        *)
(* dismissed), or is provably missing.                                     *)
(*                                                                         *)
(* The n-th credential saved is n, so a larger one is newer.               *)
(***************************************************************************)
EXTENDS Integers

CONSTANTS
  Procs,          \* processes, each running one command after another
  Nobody,         \* the lock is free
  Accounts,       \* profile and API URL
  Modes,          \* the values --credential-store takes
  Platforms,      \* a subset of {"linux", "other"}
  FaultSets,      \* what may go wrong together: subsets of {"crash", "file", "leaves"}
  MaxSaves        \* bound on the credentials saved

ASSUME StoreAssumption ==
  /\ Nobody \notin Procs
  /\ Modes \subseteq {"auto", "keyring", "file", "none"}
  /\ Platforms \subseteq {"linux", "other"}
  /\ FaultSets \subseteq SUBSET {"crash", "file", "leaves"}
  /\ MaxSaves \in Nat

VARIABLES
  platform,        \* the commands run on
  faults,          \* what may go wrong
  keyring, file,   \* what each place holds for each account
  service,         \* the keyring: "works", "refuses" or "missing"
  lock,            \* the process holding credentials.lock
  pc,              \* where each process is in its operation
  op, mode, account,   \* its operation
  entries, entry,  \* fileStore: the file as loaded, and the entry to leave
  got, result,     \* what the operation returned
  saves,           \* history: how many credentials were saved
  seen             \* history: what was saved while each operation ran

placeVars == <<keyring, file, service>>
opVars    == <<op, mode, account>>
vars == <<platform, faults, placeVars, lock, pc, opVars, entries, entry, got, result, saves, seen>>

None   == 0                       \* no credential
Tokens == 1 .. MaxSaves
Held   == [Accounts -> Tokens \cup {None}]
Ops    == {"get", "set", "delete"}
Pcs    == {"idle", "wait", "read_file", "keyring", "ask", "load", "save"}
Results == {"none", "ok", "found", "not_found", "disabled", "refused", "file_error", "crashed"}

TypeOK ==
  /\ platform \in Platforms /\ faults \in FaultSets
  /\ keyring \in Held /\ file \in Held
  /\ service \in {"works", "refuses", "missing"}
  /\ lock \in Procs \cup {Nobody}
  /\ pc \in [Procs -> Pcs] /\ op \in [Procs -> Ops]
  /\ mode \in [Procs -> Modes] /\ account \in [Procs -> Accounts]
  /\ entries \in [Procs -> Held] /\ entry \in [Procs -> Tokens \cup {None}]
  /\ got \in [Procs -> Tokens \cup {None}] /\ result \in [Procs -> Results]
  /\ saves \in 0 .. MaxSaves
  /\ seen \in [Procs -> SUBSET (Tokens \cup {None})]

\* Where auto keeps credentials in the file and never asks the OS keyring.
autoUsesFile == platform = "linux"

\* Mode.Resolve and NewStore: which places a mode uses.
Places(m) ==
  CASE m = "none" -> {}
    [] m = "keyring" -> {"keyring"}
    [] m = "file" \/ (m = "auto" /\ autoUsesFile) -> {"file"}
    [] OTHER -> {"keyring", "file"}

\* What a command in mode m finds saved for an account: the file comes first.
Saved(m, a) ==
  IF "file" \in Places(m) /\ file[a] # None THEN file[a]
  ELSE IF "keyring" \in Places(m) THEN keyring[a] ELSE None

Init ==
  /\ platform \in Platforms /\ faults \in FaultSets
  /\ keyring = [a \in Accounts |-> None] /\ file = keyring
  /\ service \in {"works", "refuses", "missing"}
  /\ lock = Nobody
  /\ pc = [p \in Procs |-> "idle"] /\ op = [p \in Procs |-> "get"]
  /\ mode \in [Procs -> Modes] /\ account \in [Procs -> Accounts]
  /\ entries = [p \in Procs |-> file] /\ entry = [p \in Procs |-> None]
  /\ got = entry /\ result = [p \in Procs |-> "none"]
  /\ saves = 0
  /\ seen = [p \in Procs |-> {}]

-----------------------------------------------------------------------------
Go(p, l)   == pc' = [pc EXCEPT ![p] = l] /\ UNCHANGED <<got, result, lock>>
Goto(p, l) == Go(p, l) /\ UNCHANGED <<entries, entry>>

\* The operation returns: its locals are gone, and a writer releases the lock.
Return(p, r, v) ==
  /\ pc' = [pc EXCEPT ![p] = "idle"]
  /\ result' = [result EXCEPT ![p] = r]
  /\ got' = [got EXCEPT ![p] = v]
  /\ lock' = IF lock = p THEN Nobody ELSE lock
  /\ entries' = [entries EXCEPT ![p] = [a \in Accounts |-> None]]
  /\ entry' = [entry EXCEPT ![p] = None]

\* What a writer leaves saved.
Value(p) == IF op[p] = "set" THEN saves ELSE None

\* A command starts an operation in the mode it was given.
Begin(p) ==
  /\ pc[p] = "idle"
  /\ \E o \in Ops, m \in Modes, a \in Accounts:
       /\ op' = [op EXCEPT ![p] = o]
       /\ mode' = [mode EXCEPT ![p] = m]
       /\ account' = [account EXCEPT ![p] = a]
       /\ IF Places(m) = {}
          THEN Return(p, CASE o = "get" -> "not_found" [] o = "set" -> "disabled"
                           [] o = "delete" -> "ok", None)
          ELSE Goto(p, IF o # "get" THEN "wait"
                       ELSE IF "file" \in Places(m) THEN "read_file" ELSE "keyring")
  /\ UNCHANGED <<platform, faults, placeVars, saves>>

\* Mutant of Acquire: the lock is not looked at.
AcquireAnyway(p) ==
  /\ pc[p] = "wait"
  /\ op[p] = "set" => saves < MaxSaves
  /\ lock' = p
  /\ saves' = IF op[p] = "set" THEN saves + 1 ELSE saves
  /\ entry' = [entry EXCEPT ![p] = IF op[p] = "set" THEN saves' ELSE None]
  /\ pc' = [pc EXCEPT ![p] = IF "keyring" \in Places(mode[p]) THEN "keyring" ELSE "load"]
  /\ UNCHANGED <<platform, faults, placeVars, opVars, entries, got, result>>

\* A writer takes the lock.  What it saves is newer than all saved before: a
\* refresh is issued its pair under the lock.
Acquire(p) ==
  /\ pc[p] = "wait" /\ lock = Nobody
  /\ op[p] = "set" => saves < MaxSaves
  /\ lock' = p
  /\ saves' = IF op[p] = "set" THEN saves + 1 ELSE saves
  /\ entry' = [entry EXCEPT ![p] = IF op[p] = "set" THEN saves' ELSE None]
  /\ pc' = [pc EXCEPT ![p] = IF "keyring" \in Places(mode[p]) THEN "keyring" ELSE "load"]
  /\ UNCHANGED <<platform, faults, placeVars, opVars, entries, got, result>>

\* Mutant of ReadFile: the keyring is not asked.
ReadFileOnly(p) ==
  /\ pc[p] = "read_file"
  /\ IF file[account[p]] # None THEN Return(p, "found", file[account[p]])
     ELSE Return(p, "not_found", None)
  /\ UNCHANGED <<platform, faults, placeVars, opVars, saves>>

\* fileStore.get, from the file as it is in one state.
ReadFile(p) ==
  /\ pc[p] = "read_file"
  /\ IF file[account[p]] # None THEN Return(p, "found", file[account[p]])
     ELSE IF "keyring" \in Places(mode[p]) THEN Goto(p, "keyring")
     ELSE Return(p, "not_found", None)
  /\ UNCHANGED <<platform, faults, placeVars, opVars, saves>>

\* Mutant of KeyringAnswers: what the file holds is left there.
KeyringLeavesFile(p) ==
  /\ pc[p] = "keyring" /\ service = "works"
  /\ IF op[p] = "get"
     THEN /\ IF keyring[account[p]] # None THEN Return(p, "found", keyring[account[p]])
             ELSE Return(p, "not_found", None)
          /\ UNCHANGED keyring
     ELSE /\ keyring' = [keyring EXCEPT ![account[p]] = Value(p)]
          /\ Return(p, "ok", None)
  /\ UNCHANGED <<platform, faults, file, service, opVars, saves>>

\* The keyring answers.  A writer goes on to take the entry out of the file.
KeyringAnswers(p) ==
  /\ pc[p] = "keyring" /\ service = "works"
  /\ IF op[p] = "get"
     THEN /\ IF keyring[account[p]] # None THEN Return(p, "found", keyring[account[p]])
             ELSE Return(p, "not_found", None)
          /\ UNCHANGED keyring
     ELSE /\ keyring' = [keyring EXCEPT ![account[p]] = Value(p)]
          /\ IF "file" \in Places(mode[p])
             THEN /\ entry' = [entry EXCEPT ![p] = None]
                  /\ Go(p, "load") /\ UNCHANGED entries
             ELSE Return(p, "ok", None)
  /\ UNCHANGED <<platform, faults, file, service, opVars, saves>>

\* The keyring fails, and keyringMissing asks whether there is one at all.
KeyringFails(p) ==
  /\ pc[p] = "keyring" /\ service # "works"
  /\ Goto(p, "ask")
  /\ UNCHANGED <<platform, faults, placeVars, opVars, saves>>

Ask(p) ==
  /\ pc[p] = "ask"
  /\ IF service # "missing" \/ "file" \notin Places(mode[p]) THEN Return(p, "refused", None)
     ELSE IF op[p] = "get" THEN Return(p, "not_found", None)
     ELSE Goto(p, "load")
  /\ UNCHANGED <<platform, faults, placeVars, opVars, saves>>

\* fileStore.set and fileStore.delete load every entry and write them back
\* with one changed; deleting an entry that is not there writes nothing.
Load(p) ==
  /\ pc[p] = "load"
  /\ IF entry[p] = None /\ file[account[p]] = None THEN Return(p, "ok", None)
     ELSE /\ entries' = [entries EXCEPT ![p] = file]
          /\ Go(p, "save") /\ UNCHANGED entry
  /\ UNCHANGED <<platform, faults, placeVars, opVars, saves>>

\* Mutant of Save: the other entries are not written back.
SaveAlone(p) ==
  /\ pc[p] = "save"
  /\ file' = [a \in Accounts |-> IF a = account[p] THEN entry[p] ELSE None]
  /\ Return(p, "ok", None)
  /\ UNCHANGED <<platform, faults, keyring, service, opVars, saves>>

Save(p) ==
  /\ pc[p] = "save"
  /\ file' = [entries[p] EXCEPT ![account[p]] = entry[p]]
  /\ Return(p, "ok", None)
  /\ UNCHANGED <<platform, faults, keyring, service, opVars, saves>>

\* Mutant of FileFails: the error is swallowed.
FileFailsSilently(p) ==
  /\ "file" \in faults
  /\ pc[p] \in {"read_file", "load", "save"}
  /\ Return(p, "ok", None)
  /\ UNCHANGED <<platform, faults, placeVars, opVars, saves>>

\* The file cannot be read, written or removed.
FileFails(p) ==
  /\ "file" \in faults
  /\ pc[p] \in {"read_file", "load", "save"}
  /\ Return(p, "file_error", None)
  /\ UNCHANGED <<platform, faults, placeVars, opVars, saves>>

\* The process dies between two steps, or is interrupted waiting for the lock.
Crash(p) ==
  /\ "crash" \in faults
  /\ pc[p] # "idle"
  /\ Return(p, "crashed", None)
  /\ UNCHANGED <<platform, faults, placeVars, opVars, saves>>

\* A keyring is locked, unlocked, installed; with the fault, it goes away.
Service ==
  /\ \/ service' \in {"works", "refuses"} \ {service}
     \/ "leaves" \in faults /\ service # "missing" /\ service' = "missing"
  /\ UNCHANGED <<platform, faults, keyring, file, lock, pc, opVars, entries, entry, got, result, saves>>

\* Every operation under way sees each change of what is saved.
Watch ==
  seen' = [p \in Procs |->
             IF pc'[p] = "idle" THEN {}
             ELSE (IF pc[p] = "idle" THEN {} ELSE seen[p]) \cup {Saved(mode[p], account[p])'}]

Next ==
  \/ \E p \in Procs:
       \/ Begin(p) /\ Watch
       \/ Acquire(p) /\ Watch
       \/ ReadFile(p) /\ Watch
       \/ KeyringAnswers(p) /\ Watch
       \/ KeyringFails(p) /\ Watch
       \/ Ask(p) /\ Watch
       \/ Load(p) /\ Watch
       \/ Save(p) /\ Watch
       \/ FileFails(p) /\ Watch
       \/ Crash(p) /\ Watch
  \/ Service /\ Watch

Spec == Init /\ [][Next]_vars

-----------------------------------------------------------------------------
\* The file is read first, so what it holds must be the newest credential of
\* its account: the keyring, though it goes away and comes back, is never ahead
\* of it once no writer is at work.  A writer that dies, or fails on the file,
\* between the two places breaks this.
FileIsNewest ==
  lock = Nobody /\ faults \cap {"crash", "file"} = {} =>
    \A a \in Accounts: file[a] # None => file[a] >= keyring[a]

\* What is saved for an account only moves forward, to the credential being
\* saved or to none: one replaced or logged out does not come back, though a
\* command dies, or fails on the file, or the keyring is installed or refuses
\* meanwhile.  A logout while the keyring is away is undone when it is back.
NothingOldComesBack ==
  []["leaves" \notin faults => \A a \in Accounts, m \in Modes:
       Saved(m, a)' # Saved(m, a) => Saved(m, a)' \in {None, saves'}]_vars

\* Saving or removing the credential of one account leaves the others: what
\* was loaded with them is still what the file holds when it is written back.
OthersKept ==
  [][\A a \in Accounts, m \in Modes:
       Saved(m, a)' # Saved(m, a) => \E p \in Procs: lock = p /\ account[p] = a]_vars

\* A command that reads while others write finds a credential that was saved
\* at some moment of its reading, or one newer than all of those (a keyring
\* just written, the file not yet cleared), and is told there is none only if
\* there was none at some moment, or the keyring was away.
ReadsAreCurrent ==
  []["leaves" \notin faults => \A p \in Procs:
       /\ op[p] = "get" /\ pc[p] # "idle" /\ pc'[p] = "idle"
       /\ result'[p] \in {"found", "not_found"}
       => got'[p] \in seen[p] \/ (\A s \in seen[p]: s < got'[p])]_vars

\* A save, or a logout, that returns success is what the next command finds,
\* unless the keyring was away.
SavedMeansFound ==
  []["leaves" \notin faults => \A p \in Procs:
       /\ lock = p /\ lock' # p /\ result'[p] = "ok"
       => Saved(mode[p], account[p])' = Value(p)]_vars
=============================================================================
