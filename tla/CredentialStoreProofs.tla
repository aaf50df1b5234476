------------------------ MODULE CredentialStoreProofs ------------------------
(***************************************************************************)
(* The properties of CredentialStore, for any processes, accounts, modes   *)
(* and faults.                                                             *)
(*                                                                         *)
(* What a writer holds in its locals agrees with the two places because    *)
(* nobody else writes while it has the lock (Locked, Held); a reader, who  *)
(* has no lock, is followed by what was saved while it ran (Seen, Reads).  *)
(* Where the property is about one place being newer than the other, the   *)
(* commands of the user must use the same places: see Uniform.             *)
(***************************************************************************)
EXTENDS CredentialStore, TLAPS

\* The commands that keep credentials at all keep them in the same places.
Uniform ==
  \A m, n \in Modes: Places(m) # {} /\ Places(n) # {} => Places(m) = Places(n)

Both(p)     == Places(mode[p]) = {"keyring", "file"}
InKeyring(p) == pc[p] \in {"keyring", "ask"}
InFile(p)   == pc[p] \in {"load", "save"}
Writes(p)   == op[p] # "get" /\ (InKeyring(p) \/ InFile(p))

\* The lock is held by whoever is writing, and by nobody else.
Locked == \A p \in Procs: lock = p <=> Writes(p)

\* Where an operation can be, given what it is and the places it uses.
Where ==
  \A p \in Procs:
    /\ pc[p] # "idle" => Places(mode[p]) # {}
    /\ pc[p] = "wait" => op[p] # "get"
    /\ pc[p] = "read_file" => op[p] = "get" /\ "file" \in Places(mode[p])
    /\ InKeyring(p) => "keyring" \in Places(mode[p])
    /\ InFile(p) => op[p] # "get" /\ "file" \in Places(mode[p])

\* A writer's locals.  On the file, it leaves no entry when the keyring took
\* what it saves.
Locals ==
  \A p \in Procs:
    /\ Writes(p) /\ InKeyring(p) => entry[p] = Value(p)
    /\ InFile(p) => \/ entry[p] = Value(p)
                    \/ /\ entry[p] = None /\ "keyring" \in Places(mode[p])
                       /\ keyring[account[p]] = Value(p)
    /\ pc[p] = "save" => entries[p] = file

\* A keyring that never goes away holds nothing while it is missing, so a
\* writer on the file either left it empty or has just written to it.
Missing ==
  "leaves" \notin faults =>
    /\ service = "missing" => \A a \in Accounts: keyring[a] = None
    /\ \A p \in Procs: InFile(p) /\ Both(p) =>
         IF entry[p] = None THEN keyring[account[p]] = Value(p)
         ELSE \A a \in Accounts: keyring[a] = None

\* Nothing is newer than the last credential saved, and until it is written
\* everything is older.
Older ==
  /\ \A a \in Accounts: keyring[a] <= saves /\ file[a] <= saves
  /\ \A p \in Procs: \A s \in seen[p]: s <= saves
  /\ \A p \in Procs: Writes(p) /\ InKeyring(p) /\ op[p] = "set" =>
       /\ \A a \in Accounts: keyring[a] < saves /\ file[a] < saves
       /\ \A q \in Procs: \A s \in seen[q]: s < saves

\* A file no mode uses is empty.
Unused ==
  (\A m \in Modes: "file" \notin Places(m)) => \A a \in Accounts: file[a] = None

\* The file is the newest of the two places, except for an account whose entry
\* is about to be taken out of it.
Newest ==
  Uniform /\ faults \cap {"crash", "file"} = {} =>
    \A a \in Accounts:
      \/ file[a] = None \/ file[a] >= keyring[a]
      \/ \E p \in Procs: InFile(p) /\ account[p] = a /\ entry[p] = None

\* Every operation has seen what is saved now.
Seen ==
  \A p \in Procs: pc[p] # "idle" => Saved(mode[p], account[p]) \in seen[p]

\* A command that found nothing in the file and goes on to the keyring.
Reads ==
  Uniform /\ "leaves" \notin faults =>
    \A p \in Procs: op[p] = "get" /\ InKeyring(p) /\ Both(p) =>
      /\ service = "missing" => None \in seen[p]
      /\ file[account[p]] # None => None \in seen[p]
      /\ \/ keyring[account[p]] \in seen[p]
         \/ \A s \in seen[p]: s < keyring[account[p]]

IInv ==
  /\ TypeOK /\ Locked /\ Where /\ Locals /\ Missing /\ Older
  /\ Unused /\ Newest /\ Seen /\ Reads

-----------------------------------------------------------------------------
(* The places, and what is watched.                                        *)

\* The steps of the proofs below use these shapes of a step, and of a state.
USE DEF placeVars, opVars, Go, Goto, InKeyring, InFile, Writes, None

LEMMA PlacesAre ==
  ASSUME NEW m
  PROVE  Places(m) \in {{}, {"keyring"}, {"file"}, {"keyring", "file"}}
  BY DEF Places

\* The platform never changes, so neither do the places of a mode.
LEMMA PlacesStay ==
  ASSUME platform' = platform
  PROVE  \A m: Places(m)' = Places(m)
  BY DEF Places, autoUsesFile

LEMMA SavedTyped ==
  ASSUME keyring \in Held, file \in Held, NEW m, NEW a \in Accounts
  PROVE  Saved(m, a) \in Tokens \cup {None}
  BY DEF Saved, Held

\* Every operation under way has seen what is saved, whatever the step.
LEMMA WatchSees ==
  ASSUME Watch, TypeOK, pc' \in [Procs -> Pcs]
  PROVE  Seen'
  BY DEF Watch, Seen

\* What was saved for an operation that runs on stays what it has seen, when
\* neither place changes.
LEMMA NothingNew ==
  ASSUME TypeOK, Seen, Watch, UNCHANGED <<platform, keyring, file, opVars>>,
         pc' \in [Procs -> Pcs],
         NEW q \in Procs, pc[q] # "idle", pc'[q] # "idle"
  PROVE  seen'[q] = seen[q]
<1>1. Saved(mode[q], account[q])' = Saved(mode[q], account[q])
  BY PlacesStay DEF Saved
<1>2. QED
  BY <1>1 DEF Watch, Seen, TypeOK

\* What an operation watches is no newer than the last credential saved.
LEMMA WatchTyped ==
  ASSUME TypeOK, Watch, keyring' \in Held, file' \in Held, pc' \in [Procs -> Pcs],
         mode' \in [Procs -> Modes], account' \in [Procs -> Accounts]
  PROVE  seen' \in [Procs -> SUBSET (Tokens \cup {None})]
<1>1. ASSUME NEW q \in Procs PROVE Saved(mode[q], account[q])' \in Tokens \cup {None}
  BY DEF Saved, Held
<1>2. QED
  BY <1>1 DEF Watch, TypeOK

\* An operation that returns, and changes nothing else, leaves all of it true:
\* one on the file only if it left no entry there, or failed.
LEMMA ReturnKeeps ==
  ASSUME IInv, NEW p \in Procs, NEW r \in Results, NEW v \in Tokens \cup {None},
         Return(p, r, v), Watch, pc[p] # "idle",
         UNCHANGED <<platform, faults, placeVars, opVars, saves>>,
         \/ faults \cap {"crash", "file"} # {}
         \/ ~InFile(p)
         \/ file[account[p]] = None
  PROVE  IInv'
<1> USE DEF IInv
<1>1. /\ pc' \in [Procs -> Pcs] /\ pc'[p] = "idle"
      /\ \A q \in Procs \ {p}: pc'[q] = pc[q] /\ entry'[q] = entry[q] /\ entries'[q] = entries[q]
  BY DEF Return, TypeOK, Pcs
<1>2. \A q \in Procs: pc'[q] # "idle" => seen'[q] = seen[q]
  BY <1>1, NothingNew
<1>3. \A m: Places(m)' = Places(m)
  BY PlacesStay
<1>4. TypeOK'
  <2>1. seen' \in [Procs -> SUBSET (Tokens \cup {None})]
    BY <1>1, WatchTyped DEF TypeOK
  <2>2. entries' \in [Procs -> Held] /\ entry' \in [Procs -> Tokens \cup {None}]
    BY DEF Return, TypeOK, Held
  <2>3. QED
    BY <1>1, <2>1, <2>2 DEF Return, TypeOK
<1>5. Locked'
  BY <1>1, StoreAssumption DEF Return, Locked, TypeOK
<1>6. Where'
  BY <1>1, <1>3 DEF Where
<1>7. Locals'
  BY <1>1, <1>3 DEF Locals, Value
<1>8. Missing'
  BY <1>1, <1>3 DEF Missing, Both, Value
<1>9. Older'
  BY <1>1, <1>2 DEF Older, Watch, TypeOK
<1>10. Unused'
  BY <1>3 DEF Unused
<1>11. Newest'
  BY <1>1, <1>3 DEF Newest, Uniform
<1>12. Seen'
  BY <1>1, WatchSees
<1>13. Reads'
  BY <1>1, <1>2, <1>3 DEF Reads, Both, Uniform
<1>14. QED
  BY <1>4, <1>5, <1>6, <1>7, <1>8, <1>9, <1>10, <1>11, <1>12, <1>13

-----------------------------------------------------------------------------
(* The steps of one process.                                               *)

\* What an operation returns when its mode keeps nothing is one of the results.
LEMMA BeginReturns ==
  ASSUME NEW p \in Procs, Begin(p)
  PROVE  \E o \in Ops, m \in Modes, a \in Accounts, r \in Results:
           /\ op' = [op EXCEPT ![p] = o]
           /\ mode' = [mode EXCEPT ![p] = m]
           /\ account' = [account EXCEPT ![p] = a]
           /\ IF Places(m) = {} THEN Return(p, r, None)
              ELSE Goto(p, IF o # "get" THEN "wait"
                           ELSE IF "file" \in Places(m) THEN "read_file" ELSE "keyring")
<1>1. \A o \in Ops:
        (CASE o = "get" -> "not_found" [] o = "set" -> "disabled" [] o = "delete" -> "ok") \in Results
  BY DEF Ops, Results
<1>2. QED
  BY <1>1, Zenon DEF Begin

LEMMA BeginKeeps ==
  ASSUME IInv, NEW p \in Procs, Begin(p), Watch
  PROVE  IInv'
<1> USE DEF IInv
<1>1. PICK o \in Ops, m \in Modes, a \in Accounts, r \in Results:
        /\ op' = [op EXCEPT ![p] = o]
        /\ mode' = [mode EXCEPT ![p] = m]
        /\ account' = [account EXCEPT ![p] = a]
        /\ IF Places(m) = {} THEN Return(p, r, None)
           ELSE Goto(p, IF o # "get" THEN "wait"
                        ELSE IF "file" \in Places(m) THEN "read_file" ELSE "keyring")
  BY BeginReturns
<1>2. /\ pc[p] = "idle" /\ UNCHANGED <<platform, faults, placeVars, saves>>
  BY DEF Begin
<1>3. \A n: Places(n)' = Places(n)
  BY <1>2, PlacesStay
<1>4. lock # p /\ lock' = lock
  BY <1>1, <1>2 DEF Locked, Return
<1>5. /\ pc' \in [Procs -> Pcs]
      /\ \A q \in Procs \ {p}: pc'[q] = pc[q] /\ entry'[q] = entry[q] /\ entries'[q] = entries[q]
                            /\ op'[q] = op[q] /\ mode'[q] = mode[q] /\ account'[q] = account[q]
  BY <1>1 DEF Return, TypeOK, Pcs
<1>6. /\ op'[p] = o /\ mode'[p] = m /\ account'[p] = a
      /\ \/ pc'[p] = "idle"
         \/ pc'[p] = "wait" /\ o # "get" /\ Places(m) # {}
         \/ pc'[p] = "read_file" /\ o = "get" /\ "file" \in Places(m)
         \/ pc'[p] = "keyring" /\ o = "get" /\ "file" \notin Places(m) /\ Places(m) # {}
  BY <1>1 DEF Return, TypeOK
<1>7. ASSUME NEW q \in Procs PROVE Saved(mode[q], account[q])' <= saves
  BY <1>1, <1>2, <1>5, <1>6 DEF Saved, Older, TypeOK, Held, Tokens
<1>8. TypeOK'
  <2>1. /\ op' \in [Procs -> Ops] /\ mode' \in [Procs -> Modes] /\ account' \in [Procs -> Accounts]
    BY <1>1 DEF TypeOK
  <2>2. seen' \in [Procs -> SUBSET (Tokens \cup {None})]
    BY <1>2, <1>5, <2>1, WatchTyped DEF TypeOK
  <2>3. /\ entries' \in [Procs -> Held] /\ entry' \in [Procs -> Tokens \cup {None}]
        /\ got' \in [Procs -> Tokens \cup {None}]
        /\ result' \in [Procs -> Results]
    <3>1. CASE Places(m) = {}
      <4>1. Return(p, r, None)
        BY <1>1, <3>1
      <4>2. entries' \in [Procs -> Held] /\ entry' \in [Procs -> Tokens \cup {None}]
        BY <4>1 DEF Return, TypeOK, Held
      <4>3. QED
        BY <4>1, <4>2 DEF Return, TypeOK
    <3>2. CASE Places(m) # {}
      BY <1>1, <3>2 DEF TypeOK
    <3>3. QED
      BY <3>1, <3>2
  <2>4. QED
    BY <1>2, <1>4, <1>5, <2>1, <2>2, <2>3 DEF TypeOK
<1>9. Locked'
  BY <1>2, <1>4, <1>5, <1>6 DEF Locked
<1>10. Where'
  BY <1>3, <1>5, <1>6, PlacesAre DEF Where
<1>11. Locals'
  BY <1>2, <1>3, <1>5, <1>6 DEF Locals, Value
<1>12. Missing'
  BY <1>2, <1>3, <1>5, <1>6 DEF Missing, Both, Value
<1>13. Older'
  <2>1. \A q \in Procs: \A s \in seen'[q]: s <= saves
    BY <1>7 DEF Older, Watch, TypeOK
  <2>2. ASSUME NEW w \in Procs, Writes(w)', InKeyring(w)', op'[w] = "set"
        PROVE  \A q \in Procs: \A s \in seen'[q]: s < saves
    <3>1. Writes(w) /\ InKeyring(w) /\ op[w] = "set"
      BY <1>5, <1>6, <2>2
    <3>2. ASSUME NEW q \in Procs PROVE Saved(mode[q], account[q])' < saves
      <4>1. account'[q] \in Accounts
        BY <1>8 DEF TypeOK
      <4>2. file[account'[q]] < saves /\ keyring[account'[q]] < saves /\ 0 < saves
        BY <3>1, <4>1 DEF Older, TypeOK, Held, Tokens
      <4>3. QED
        BY <1>2, <4>2 DEF Saved
    <3>3. QED
      BY <3>1, <3>2 DEF Older, Watch, TypeOK
  <2>3. QED
    BY <1>2, <1>5, <1>6, <2>1, <2>2 DEF Older
<1>14. Unused'
  BY <1>2, <1>3 DEF Unused
<1>15. Newest'
  BY <1>2, <1>3, <1>5, <1>6 DEF Newest, Uniform
<1>16. Seen'
  BY <1>5, WatchSees
<1>17. Reads'
  <2>1. ~Both(p)' \/ ~InKeyring(p)'
    BY <1>3, <1>6 DEF Both
  <2>2. ASSUME NEW q \in Procs \ {p}, pc[q] # "idle"
        PROVE  seen'[q] = seen[q]
    <3>1. Saved(mode[q], account[q])' = Saved(mode[q], account[q])
      BY <1>2, <1>3, <1>5 DEF Saved
    <3>2. QED
      BY <1>5, <2>2, <3>1 DEF Watch, Seen, TypeOK
  <2>3. QED
    BY <1>2, <1>3, <1>5, <2>1, <2>2 DEF Reads, Both, Uniform
<1>18. QED
  BY <1>8, <1>9, <1>10, <1>11, <1>12, <1>13, <1>14, <1>15, <1>16, <1>17

LEMMA AcquireKeeps ==
  ASSUME IInv, NEW p \in Procs, Acquire(p), Watch
  PROVE  IInv'
<1> USE DEF IInv
<1>1. /\ pc[p] = "wait" /\ lock = Nobody /\ lock' = p
      /\ UNCHANGED <<platform, faults, placeVars, opVars, entries, got, result>>
  BY DEF Acquire
<1>2. \A m: Places(m)' = Places(m)
  BY <1>1, PlacesStay
<1>3. \A q \in Procs: ~Writes(q)
  BY <1>1, StoreAssumption DEF Locked
<1>4. /\ pc' \in [Procs -> Pcs] /\ pc'[p] \in {"keyring", "load"}
      /\ \A q \in Procs \ {p}: pc'[q] = pc[q] /\ entry'[q] = entry[q]
      /\ pc'[p] = "keyring" => "keyring" \in Places(mode[p])
      /\ pc'[p] = "load" => "keyring" \notin Places(mode[p])
  BY DEF Acquire, TypeOK, Pcs
<1>5. op[p] # "get" /\ Places(mode[p]) # {}
  BY <1>1 DEF Where
<1>6. /\ saves' \in 0 .. MaxSaves /\ saves <= saves'
      /\ op[p] = "set" => saves' = saves + 1
      /\ op[p] # "set" => saves' = saves
  BY StoreAssumption DEF Acquire, TypeOK
<1>7. entry'[p] = Value(p)'
  BY <1>1 DEF Acquire, TypeOK, Value
<1>8. \A q \in Procs: pc'[q] # "idle" => seen'[q] = seen[q]
  BY <1>1, <1>4, NothingNew
<1>9. TypeOK'
  <2>1. seen' \in [Procs -> SUBSET (Tokens \cup {None})]
    BY <1>1, <1>4, WatchTyped DEF TypeOK
  <2>2. entry' \in [Procs -> Tokens \cup {None}]
    <3>1. op[p] = "set" => saves' \in Tokens
      BY <1>6, StoreAssumption DEF Tokens, TypeOK
    <3>2. QED
      BY <3>1 DEF Acquire, TypeOK
  <2>3. QED
    BY <1>1, <1>4, <1>6, <2>1, <2>2 DEF TypeOK
<1>10. Locked'
  BY <1>1, <1>3, <1>4, <1>5 DEF Locked
<1>11. Where'
  BY <1>1, <1>2, <1>4, <1>5, PlacesAre DEF Where
<1>12. Locals'
  BY <1>1, <1>2, <1>3, <1>4, <1>7 DEF Locals, Where
<1>13. Missing'
  BY <1>1, <1>2, <1>3, <1>4 DEF Missing, Both, Where
<1>14. Older'
  <2>1. \A a \in Accounts: keyring[a] <= saves' /\ file[a] <= saves'
    BY <1>6 DEF Older, TypeOK, Held, Tokens
  <2>2. \A q \in Procs: \A s \in seen'[q]: s <= saves
    BY <1>8 DEF Older, Watch
  <2>3. op[p] = "set" => /\ \A a \in Accounts: keyring[a] < saves' /\ file[a] < saves'
    BY <1>6 DEF Older, TypeOK, Held, Tokens
  <2>4. \A q \in Procs: seen'[q] \subseteq Nat
    BY <1>9 DEF TypeOK, Tokens
  <2>5. QED
    BY <1>1, <1>3, <1>4, <1>6, <2>1, <2>2, <2>3, <2>4 DEF Older, TypeOK
<1>15. Unused'
  BY <1>1, <1>2 DEF Unused
<1>16. Newest'
  BY <1>1, <1>2, <1>3, <1>4 DEF Newest, Uniform, Where
<1>17. Seen'
  BY <1>4, WatchSees
<1>18. Reads'
  BY <1>1, <1>2, <1>4, <1>5, <1>8 DEF Reads, Both, Uniform
<1>19. QED
  BY <1>9, <1>10, <1>11, <1>12, <1>13, <1>14, <1>15, <1>16, <1>17, <1>18

\* A step on the way of an operation that changes neither place: a reader that
\* found no entry in the file, or whoever asked the keyring and was refused.
LEMMA GotoKeeps ==
  ASSUME IInv, NEW p \in Procs, NEW l \in {"keyring", "ask", "load"}, Goto(p, l), Watch,
         UNCHANGED <<platform, faults, placeVars, opVars, saves>>,
         InKeyring(p) \/ (pc[p] = "read_file" /\ l = "keyring" /\ file[account[p]] = None),
         l # "load" => "keyring" \in Places(mode[p]),
         l = "load" => op[p] # "get" /\ "file" \in Places(mode[p]) /\ service = "missing"
  PROVE  IInv'
<1> USE DEF IInv
<1>1. /\ pc' \in [Procs -> Pcs] /\ pc'[p] = l /\ pc[p] # "idle"
      /\ \A q \in Procs \ {p}: pc'[q] = pc[q]
  BY DEF TypeOK, Pcs
<1>2. \A q \in Procs: pc'[q] # "idle" => seen'[q] = seen[q]
  BY <1>1, NothingNew
<1>3. \A m: Places(m)' = Places(m)
  BY PlacesStay
<1>4. TypeOK'
  BY <1>1, WatchTyped DEF TypeOK
<1>5. Locked'
  BY <1>1 DEF Locked, Where
<1>6. Where'
  BY <1>1, <1>3 DEF Where
<1>7. Locals'
  BY <1>1, <1>3 DEF Locals, Value, Where
<1>8. Missing'
  <2>1. ASSUME "leaves" \notin faults, l = "load", Both(p)
        PROVE  IF entry[p] = None THEN keyring[account[p]] = Value(p)
               ELSE \A a \in Accounts: keyring[a] = None
    BY <2>1 DEF Missing, Locals, TypeOK
  <2>2. QED
    BY <1>1, <1>3, <2>1 DEF Missing, Both, Value
<1>9. Older'
  BY <1>1, <1>2 DEF Older, Watch, TypeOK, Where
<1>10. Unused'
  BY <1>3 DEF Unused
<1>11. Newest'
  BY <1>1, <1>3 DEF Newest, Uniform
<1>12. Seen'
  BY <1>1, WatchSees
<1>13. Reads'
  <2>1. ASSUME Uniform, "leaves" \notin faults, pc[p] = "read_file", Both(p)
        PROVE  /\ service = "missing" => None \in seen[p]
               /\ keyring[account[p]] \in seen[p]
    <3>1. Saved(mode[p], account[p]) = keyring[account[p]]
      BY <2>1 DEF Saved, Both
    <3>2. QED
      BY <2>1, <3>1 DEF Seen, Missing, TypeOK
  <2>2. QED
    BY <1>1, <1>2, <1>3, <2>1 DEF Reads, Both, Uniform
<1>14. QED
  BY <1>4, <1>5, <1>6, <1>7, <1>8, <1>9, <1>10, <1>11, <1>12, <1>13

LEMMA ReadFileKeeps ==
  ASSUME IInv, NEW p \in Procs, ReadFile(p), Watch
  PROVE  IInv'
<1>1. /\ pc[p] = "read_file" /\ UNCHANGED <<platform, faults, placeVars, opVars, saves>>
      /\ {"found", "not_found"} \subseteq Results
  BY DEF ReadFile, Results
<1>2. CASE Return(p, "found", file[account[p]])
  <2>1. file[account[p]] \in Tokens \cup {None}
    BY DEF IInv, TypeOK, Held
  <2>2. QED
    BY <1>1, <1>2, <2>1, ReturnKeeps
<1>3. CASE Return(p, "not_found", None)
  BY <1>1, <1>3, ReturnKeeps
<1>4. CASE Goto(p, "keyring") /\ "keyring" \in Places(mode[p]) /\ file[account[p]] = None
  BY <1>1, <1>4, GotoKeeps
<1>5. QED
  BY <1>2, <1>3, <1>4 DEF ReadFile

LEMMA KeyringFailsKeeps ==
  ASSUME IInv, NEW p \in Procs, KeyringFails(p), Watch
  PROVE  IInv'
<1>1. "keyring" \in Places(mode[p])
  BY DEF IInv, Where, KeyringFails
<1>2. QED
  BY <1>1, GotoKeeps DEF KeyringFails

LEMMA AskKeeps ==
  ASSUME IInv, NEW p \in Procs, Ask(p), Watch
  PROVE  IInv'
<1>1. /\ pc[p] = "ask" /\ UNCHANGED <<platform, faults, placeVars, opVars, saves>>
      /\ {"refused", "not_found"} \subseteq Results
  BY DEF Ask, Results
<1>2. CASE Return(p, "refused", None)
  BY <1>1, <1>2, ReturnKeeps
<1>3. CASE Return(p, "not_found", None)
  BY <1>1, <1>3, ReturnKeeps
<1>4. CASE Goto(p, "load") /\ op[p] # "get" /\ "file" \in Places(mode[p]) /\ service = "missing"
  BY <1>1, <1>4, GotoKeeps
<1>5. QED
  BY <1>2, <1>3, <1>4 DEF Ask

\* The keyring takes what a writer saves: the file is left older than it, but
\* only until its entry is taken out.
LEMMA KeyringTakes ==
  ASSUME IInv, NEW p \in Procs, pc[p] = "keyring", op[p] # "get", service = "works",
         keyring' = [keyring EXCEPT ![account[p]] = Value(p)],
         IF "file" \in Places(mode[p])
         THEN entry' = [entry EXCEPT ![p] = None] /\ Go(p, "load") /\ UNCHANGED entries
         ELSE Return(p, "ok", None),
         Watch, UNCHANGED <<platform, faults, file, service, opVars, saves>>
  PROVE  IInv'
<1> USE DEF IInv
<1>1. /\ pc' \in [Procs -> Pcs] /\ InKeyring(p) /\ Writes(p)
      /\ pc'[p] = IF "file" \in Places(mode[p]) THEN "load" ELSE "idle"
      /\ entry'[p] = None
      /\ \A q \in Procs \ {p}: pc'[q] = pc[q] /\ entry'[q] = entry[q] /\ entries'[q] = entries[q]
      /\ \A q \in Procs \ {p}: ~Writes(q)
  BY DEF Return, TypeOK, Pcs, Locked
<1>2. \A m: Places(m)' = Places(m)
  BY PlacesStay
<1>3. /\ Value(p) \in Tokens \cup {None} /\ Value(p)' = Value(p) /\ Value(p) <= saves
      /\ Value(p) = None \/ Value(p) = saves
      /\ entry[p] = Value(p)
  BY <1>1 DEF Value, Locals, TypeOK, Tokens
<1>4. /\ keyring' \in Held /\ keyring'[account[p]] = Value(p)
      /\ \A a \in Accounts \ {account[p]}: keyring'[a] = keyring[a]
  BY <1>3 DEF TypeOK, Held
<1>5. ASSUME NEW q \in Procs PROVE Saved(mode[q], account[q])' <= saves
  <2>1. account[q] \in Accounts /\ file[account[q]] <= saves /\ keyring'[account[q]] <= saves
    BY <1>3, <1>4 DEF Older, TypeOK
  <2>2. QED
    BY <2>1 DEF Saved, TypeOK
<1>6. TypeOK'
  <2>1. seen' \in [Procs -> SUBSET (Tokens \cup {None})]
    BY <1>1, <1>4, WatchTyped DEF TypeOK
  <2>2. CASE "file" \in Places(mode[p])
    BY <1>1, <1>4, <2>1, <2>2 DEF TypeOK
  <2>3. CASE "file" \notin Places(mode[p])
    <3>1. Return(p, "ok", None)
      BY <2>3
    <3>2. entries' \in [Procs -> Held] /\ entry' \in [Procs -> Tokens \cup {None}]
      BY <3>1 DEF Return, TypeOK, Held
    <3>3. QED
      BY <1>1, <1>4, <2>1, <3>1, <3>2 DEF Return, TypeOK, Results
  <2>4. QED
    BY <2>2, <2>3
<1>7. Locked'
  BY <1>1, StoreAssumption DEF Return, Locked, TypeOK
<1>8. Where'
  BY <1>1, <1>2 DEF Where
<1>9. Locals'
  BY <1>1, <1>2, <1>3, <1>4 DEF Locals, Where
<1>10. Missing'
  BY <1>1, <1>2, <1>3, <1>4 DEF Missing, Both, Where
<1>11. Older'
  <2>1. \A q \in Procs: \A s \in seen'[q]: s <= saves
    BY <1>5 DEF Older, Watch, TypeOK
  <2>2. \A a \in Accounts: keyring'[a] <= saves /\ file[a] <= saves
    BY <1>3, <1>4 DEF Older
  <2>3. QED
    BY <1>1, <2>1, <2>2 DEF Older
<1>12. Unused'
  BY <1>2 DEF Unused
<1>13. Newest'
  <2>1. ASSUME Uniform, "file" \notin Places(mode[p]) PROVE \A a \in Accounts: file[a] = None
    BY <1>1, <2>1 DEF Uniform, Unused, Where, TypeOK
  <2>2. QED
    BY <1>1, <1>2, <1>4, <2>1 DEF Newest, Uniform, Where
<1>14. Seen'
  BY <1>1, WatchSees
<1>15. Reads'
  <2>1. SUFFICES ASSUME Uniform, "leaves" \notin faults, NEW q \in Procs,
                        op[q] = "get", InKeyring(q), Both(q)
                 PROVE  /\ file[account[q]] # None => None \in seen'[q]
                        /\ \/ keyring'[account[q]] \in seen'[q]
                           \/ \A s \in seen'[q]: s < keyring'[account[q]]
    BY <1>1, <1>2 DEF Reads, Both, Uniform
  <2>2. /\ q # p /\ pc'[q] = pc[q]
        /\ seen'[q] = seen[q] \cup {Saved(mode[q], account[q])'}
    BY <1>1, <2>1 DEF Watch
  <2>3. Saved(mode[q], account[q])' =
          IF file[account[q]] # None THEN file[account[q]] ELSE keyring'[account[q]]
    BY <1>2, <2>1 DEF Saved, Both
  <2>4. /\ file[account[q]] # None => None \in seen[q]
        /\ \/ keyring[account[q]] \in seen[q]
           \/ \A s \in seen[q]: s < keyring[account[q]]
    BY <2>1 DEF Reads
  <2>5. CASE file[account[q]] = None
    BY <2>2, <2>3, <2>4, <2>5
  <2>6. CASE file[account[q]] # None /\ account[q] # account[p]
    <3>1. Saved(mode[q], account[q]) = file[account[q]]
      BY <2>1, <2>6 DEF Saved, Both
    <3>2. seen'[q] = seen[q]
      BY <2>1, <2>2, <2>3, <2>6, <3>1 DEF Seen
    <3>3. keyring'[account[q]] = keyring[account[q]]
      BY <1>4, <2>6 DEF TypeOK
    <3>4. QED
      BY <2>4, <3>2, <3>3
  <2>7. CASE file[account[q]] # None /\ account[q] = account[p]
    <3>1. CASE Value(p) = None
      BY <1>4, <2>2, <2>4, <2>7, <3>1
    <3>2. CASE Value(p) # None
      <4>1. op[p] = "set" /\ Value(p) = saves
        BY <3>2 DEF Value
      <4>2. file[account[q]] < saves /\ \A s \in seen[q]: s < saves
        BY <1>1, <4>1 DEF Older, TypeOK
      <4>3. QED
        BY <1>4, <2>2, <2>3, <2>4, <2>7, <4>1, <4>2
    <3>3. QED
      BY <3>1, <3>2
  <2>8. QED
    BY <2>5, <2>6, <2>7
<1>16. QED
  BY <1>6, <1>7, <1>8, <1>9, <1>10, <1>11, <1>12, <1>13, <1>14, <1>15

LEMMA KeyringAnswersKeeps ==
  ASSUME IInv, NEW p \in Procs, KeyringAnswers(p), Watch
  PROVE  IInv'
<1>1. /\ pc[p] = "keyring" /\ service = "works"
      /\ UNCHANGED <<platform, faults, file, service, opVars, saves>>
  BY DEF KeyringAnswers
<1>2. CASE op[p] = "get"
  <2>1. /\ UNCHANGED keyring
        /\ Return(p, "found", keyring[account[p]]) \/ Return(p, "not_found", None)
    BY <1>2 DEF KeyringAnswers
  <2>2. keyring[account[p]] \in Tokens \cup {None} /\ {"found", "not_found"} \subseteq Results
    BY DEF IInv, TypeOK, Held, Results
  <2>3. QED
    BY <1>1, <2>1, <2>2, ReturnKeeps
<1>3. CASE op[p] # "get"
  BY <1>1, <1>3, KeyringTakes DEF KeyringAnswers
<1>4. QED
  BY <1>2, <1>3

LEMMA LoadKeeps ==
  ASSUME IInv, NEW p \in Procs, Load(p), Watch
  PROVE  IInv'
<1> USE DEF IInv
<1>1. pc[p] = "load" /\ UNCHANGED <<platform, faults, placeVars, opVars, saves>>
  BY DEF Load
<1>2. CASE entry[p] = None /\ file[account[p]] = None
  BY <1>1, <1>2, ReturnKeeps DEF Load, Results
<1>3. CASE ~(entry[p] = None /\ file[account[p]] = None)
  <2>1. entries' = [entries EXCEPT ![p] = file] /\ Go(p, "save") /\ UNCHANGED entry
    BY <1>3 DEF Load
  <2>2. /\ pc' \in [Procs -> Pcs] /\ pc'[p] = "save"
        /\ \A q \in Procs \ {p}: pc'[q] = pc[q] /\ entries'[q] = entries[q]
        /\ entries'[p] = file
    BY <2>1 DEF TypeOK, Pcs
  <2>3. \A q \in Procs: pc'[q] # "idle" => seen'[q] = seen[q]
    BY <1>1, <2>2, NothingNew
  <2>4. \A m: Places(m)' = Places(m)
    BY <1>1, PlacesStay
  <2>5. TypeOK'
    BY <1>1, <2>1, <2>2, WatchTyped DEF TypeOK
  <2>6. Locked' /\ Where'
    BY <1>1, <2>1, <2>2, <2>4 DEF Locked, Where
  <2>7. Locals'
    BY <1>1, <2>1, <2>2, <2>4 DEF Locals, Value, Where
  <2>8. Missing'
    BY <1>1, <2>1, <2>2, <2>4 DEF Missing, Both, Value
  <2>9. Older' /\ Unused'
    BY <1>1, <2>2, <2>3, <2>4 DEF Older, Unused, Watch, TypeOK
  <2>10. Newest'
    BY <1>1, <2>1, <2>2, <2>4 DEF Newest, Uniform
  <2>11. Seen'
    BY <2>2, WatchSees
  <2>12. Reads'
    BY <1>1, <2>2, <2>3, <2>4 DEF Reads, Both, Uniform
  <2>13. QED
    BY <2>5, <2>6, <2>7, <2>8, <2>9, <2>10, <2>11, <2>12
<1>4. QED
  BY <1>2, <1>3

\* The file is written back with one entry changed.
LEMMA SaveKeeps ==
  ASSUME IInv, NEW p \in Procs, Save(p), Watch
  PROVE  IInv'
<1> USE DEF IInv
<1>1. /\ pc[p] = "save" /\ InFile(p) /\ Writes(p) /\ entries[p] = file
      /\ Return(p, "ok", None) /\ UNCHANGED <<platform, faults, keyring, service, opVars, saves>>
  BY DEF Save, Where, Locals
<1>2. /\ pc' \in [Procs -> Pcs] /\ pc'[p] = "idle"
      /\ \A q \in Procs \ {p}: pc'[q] = pc[q] /\ entry'[q] = entry[q] /\ entries'[q] = entries[q]
      /\ \A q \in Procs \ {p}: ~Writes(q)
  BY <1>1 DEF Return, TypeOK, Pcs, Locked
<1>3. \A m: Places(m)' = Places(m)
  BY <1>1, PlacesStay
<1>4. /\ entry[p] \in Tokens \cup {None} /\ entry[p] <= saves
      /\ entry[p] = None \/ entry[p] = saves
  BY <1>1 DEF Value, Locals, TypeOK, Tokens
<1>5. /\ file' \in Held /\ file'[account[p]] = entry[p]
      /\ \A a \in Accounts \ {account[p]}: file'[a] = file[a]
  BY <1>1, <1>4 DEF Save, TypeOK, Held
<1>6. ASSUME NEW q \in Procs PROVE Saved(mode[q], account[q])' <= saves
  <2>1. account[q] \in Accounts /\ file'[account[q]] <= saves /\ keyring[account[q]] <= saves
    BY <1>4, <1>5 DEF Older, TypeOK
  <2>2. QED
    BY <1>1, <2>1 DEF Saved, TypeOK
<1>7. TypeOK'
  <2>1. seen' \in [Procs -> SUBSET (Tokens \cup {None})]
    BY <1>1, <1>2, <1>5, WatchTyped DEF TypeOK
  <2>2. entries' \in [Procs -> Held] /\ entry' \in [Procs -> Tokens \cup {None}]
    BY <1>1 DEF Return, TypeOK, Held
  <2>3. QED
    BY <1>1, <1>2, <1>5, <2>1, <2>2 DEF Return, TypeOK, Results
<1>8. Locked'
  BY <1>1, <1>2, StoreAssumption DEF Return, Locked, TypeOK
<1>9. Where'
  BY <1>1, <1>2, <1>3 DEF Where
<1>10. Locals'
  BY <1>1, <1>2, <1>3 DEF Locals, Where
<1>11. Missing'
  BY <1>1, <1>2, <1>3 DEF Missing, Both, Where
<1>12. Older'
  <2>1. \A q \in Procs: \A s \in seen'[q]: s <= saves
    BY <1>6 DEF Older, Watch, TypeOK
  <2>2. \A a \in Accounts: keyring[a] <= saves /\ file'[a] <= saves
    BY <1>4, <1>5 DEF Older
  <2>3. QED
    BY <1>1, <1>2, <2>1, <2>2 DEF Older
<1>13. Unused'
  BY <1>1, <1>3 DEF Unused, Where, TypeOK
<1>14. Newest'
  <2>1. \A a \in Accounts: keyring[a] <= saves
    BY DEF Older
  <2>2. QED
    BY <1>1, <1>2, <1>3, <1>4, <1>5, <2>1 DEF Newest, Uniform, Where
<1>15. Seen'
  BY <1>2, WatchSees
<1>16. Reads'
  <2>1. SUFFICES ASSUME Uniform, "leaves" \notin faults, NEW q \in Procs,
                        op[q] = "get", InKeyring(q), Both(q)
                 PROVE  /\ file'[account[q]] # None => None \in seen'[q]
                        /\ \/ keyring[account[q]] \in seen'[q]
                           \/ \A s \in seen'[q]: s < keyring[account[q]]
                        /\ service = "missing" => None \in seen'[q]
    BY <1>1, <1>2, <1>3 DEF Reads, Both, Uniform
  <2>2. /\ q # p /\ pc'[q] = pc[q]
        /\ seen'[q] = seen[q] \cup {Saved(mode[q], account[q])'}
    BY <1>1, <1>2, <2>1 DEF Watch
  <2>3. Saved(mode[q], account[q])' =
          IF file'[account[q]] # None THEN file'[account[q]] ELSE keyring[account[q]]
    BY <1>1, <1>3, <2>1 DEF Saved, Both
  <2>4. /\ file[account[q]] # None => None \in seen[q]
        /\ service = "missing" => None \in seen[q]
        /\ \/ keyring[account[q]] \in seen[q]
           \/ \A s \in seen[q]: s < keyring[account[q]]
    BY <2>1 DEF Reads
  <2>5. (IF file[account[q]] # None THEN file[account[q]] ELSE keyring[account[q]]) \in seen[q]
    BY <2>1 DEF Seen, Saved, Both
  <2>6. Both(p)
    BY <1>1, <2>1 DEF Uniform, Both, Where, TypeOK
  <2>7. CASE account[q] # account[p]
    <3>1. file'[account[q]] = file[account[q]]
      BY <1>5, <2>7 DEF TypeOK
    <3>2. QED
      BY <2>2, <2>3, <2>4, <2>5, <3>1
  <2>8. CASE account[q] = account[p] /\ entry[p] = None
    BY <1>5, <2>2, <2>3, <2>4, <2>8
  <2>9. CASE account[q] = account[p] /\ entry[p] # None
    <3>1. keyring[account[q]] = None
      BY <1>1, <2>1, <2>6, <2>9 DEF Missing, TypeOK
    <3>2. None \in seen[q]
      BY <2>4, <2>5, <3>1
    <3>3. QED
      BY <2>2, <3>1, <3>2
  <2>10. QED
    BY <2>7, <2>8, <2>9
<1>17. QED
  BY <1>7, <1>8, <1>9, <1>10, <1>11, <1>12, <1>13, <1>14, <1>15, <1>16

LEMMA FailureKeeps ==
  ASSUME IInv, NEW p \in Procs, FileFails(p) \/ Crash(p), Watch
  PROVE  IInv'
<1>1. /\ faults \cap {"crash", "file"} # {} /\ pc[p] # "idle"
      /\ UNCHANGED <<platform, faults, placeVars, opVars, saves>>
      /\ Return(p, "file_error", None) \/ Return(p, "crashed", None)
      /\ {"file_error", "crashed"} \subseteq Results
  BY DEF FileFails, Crash, Results
<1>2. QED
  BY <1>1, ReturnKeeps

LEMMA ServiceKeeps ==
  ASSUME IInv, Service, Watch
  PROVE  IInv'
<1> USE DEF IInv
<1>1. UNCHANGED <<platform, faults, keyring, file, lock, pc, opVars, entries, entry, got, result, saves>>
  BY DEF Service
<1>2. \A q \in Procs: pc'[q] # "idle" => seen'[q] = seen[q]
  BY <1>1, NothingNew DEF TypeOK
<1>3. \A m: Places(m)' = Places(m)
  BY <1>1, PlacesStay
<1>4. /\ service' \in {"works", "refuses", "missing"}
      /\ "leaves" \notin faults => service' # "missing"
  BY DEF Service
<1>5. TypeOK'
  BY <1>1, <1>4, WatchTyped DEF TypeOK
<1>6. Locked' /\ Where' /\ Locals'
  BY <1>1, <1>3 DEF Locked, Where, Locals, Value
<1>7. Missing'
  BY <1>1, <1>3, <1>4 DEF Missing, Both, Value
<1>8. Older' /\ Unused' /\ Newest'
  BY <1>1, <1>2, <1>3 DEF Older, Unused, Newest, Uniform, Watch, TypeOK
<1>9. Seen'
  BY <1>1, WatchSees DEF TypeOK
<1>10. Reads'
  BY <1>1, <1>2, <1>3, <1>4 DEF Reads, Both, Uniform
<1>11. QED
  BY <1>5, <1>6, <1>7, <1>8, <1>9, <1>10

-----------------------------------------------------------------------------
LEMMA InitHolds == Init => IInv
<1> SUFFICES ASSUME Init PROVE IInv
  OBVIOUS
<1>1. TypeOK
  BY StoreAssumption DEF Init, TypeOK, Held, Pcs, Ops, Results
<1>2. Locked /\ Where /\ Locals /\ Missing
  BY StoreAssumption DEF Init, Locked, Where, Locals, Missing
<1>3. Older /\ Unused /\ Newest /\ Seen /\ Reads
  BY DEF Init, Older, Unused, Newest, Seen, Reads
<1>4. QED
  BY <1>1, <1>2, <1>3 DEF IInv

LEMMA StepKeeps == IInv /\ [Next]_vars => IInv'
<1> SUFFICES ASSUME IInv, [Next]_vars PROVE IInv'
  OBVIOUS
<1>1. ASSUME NEW p \in Procs, Begin(p), Watch PROVE IInv'
  BY <1>1, BeginKeeps
<1>2. ASSUME NEW p \in Procs, Acquire(p), Watch PROVE IInv'
  BY <1>2, AcquireKeeps
<1>3. ASSUME NEW p \in Procs, ReadFile(p), Watch PROVE IInv'
  BY <1>3, ReadFileKeeps
<1>4. ASSUME NEW p \in Procs, KeyringAnswers(p), Watch PROVE IInv'
  BY <1>4, KeyringAnswersKeeps
<1>5. ASSUME NEW p \in Procs, KeyringFails(p), Watch PROVE IInv'
  BY <1>5, KeyringFailsKeeps
<1>6. ASSUME NEW p \in Procs, Ask(p), Watch PROVE IInv'
  BY <1>6, AskKeeps
<1>7. ASSUME NEW p \in Procs, Load(p), Watch PROVE IInv'
  BY <1>7, LoadKeeps
<1>8. ASSUME NEW p \in Procs, Save(p), Watch PROVE IInv'
  BY <1>8, SaveKeeps
<1>9. ASSUME NEW p \in Procs, FileFails(p) \/ Crash(p), Watch PROVE IInv'
  BY <1>9, FailureKeeps
<1>10. CASE Service /\ Watch
  BY <1>10, ServiceKeeps
<1>11. CASE UNCHANGED vars
  <2>1. UNCHANGED <<platform, faults, placeVars, lock, pc, opVars, entries, entry, got, result, saves, seen>>
    BY <1>11 DEF vars
  <2>2. \A m: Places(m)' = Places(m)
    BY <2>1, PlacesStay
  <2>3. /\ \A m, a: Saved(m, a)' = Saved(m, a)
        /\ \A q \in Procs: Saved(mode[q], account[q])' = Saved(mode[q], account[q])
    BY <2>1, <2>2 DEF Saved
  <2>4. QED
    BY <2>1, <2>2, <2>3
    DEF IInv, TypeOK, Locked, Where, Locals, Missing, Older, Unused, Newest, Seen, Reads, Both, Value, Uniform
<1>12. QED
  BY <1>1, <1>2, <1>3, <1>4, <1>5, <1>6, <1>7, <1>8, <1>9, <1>10, <1>11 DEF Next

LEMMA Invariant == Spec => []IInv
  BY InitHolds, StepKeeps, PTL DEF Spec

\* Whatever is done and whatever fails, each variable keeps its type: in
\* particular no entry holds what was never saved.
THEOREM StoreTypeCorrect == Spec => []TypeOK
<1>1. IInv => TypeOK
  BY DEF IInv
<1>2. QED
  BY <1>1, Invariant, PTL

-----------------------------------------------------------------------------
(* What is saved.                                                          *)

\* Only two steps write, both of the process that has the lock.
LEMMA WhoWrites ==
  ASSUME IInv, [Next]_vars
  PROVE  /\ platform' = platform
         /\ \/ UNCHANGED <<keyring, file>>
            \/ \E p \in Procs:
                 /\ lock = p /\ saves' = saves /\ UNCHANGED file
                 /\ keyring' = [keyring EXCEPT ![account[p]] = Value(p)]
            \/ \E p \in Procs:
                 /\ lock = p /\ saves' = saves /\ UNCHANGED keyring
                 /\ pc[p] = "save" /\ file' = [file EXCEPT ![account[p]] = entry[p]]
<1>1. ASSUME NEW p \in Procs, KeyringAnswers(p)
      PROVE  /\ platform' = platform
             /\ \/ UNCHANGED <<keyring, file>>
                \/ /\ lock = p /\ saves' = saves /\ UNCHANGED file
                   /\ keyring' = [keyring EXCEPT ![account[p]] = Value(p)]
  BY <1>1 DEF KeyringAnswers, IInv, Locked
<1>2. ASSUME NEW p \in Procs, Save(p)
      PROVE  /\ platform' = platform
             /\ lock = p /\ saves' = saves /\ UNCHANGED keyring
             /\ pc[p] = "save" /\ file' = [file EXCEPT ![account[p]] = entry[p]]
  BY <1>2 DEF Save, IInv, Locked, Where, Locals
<1>3. ASSUME NEW p \in Procs, \/ Begin(p) \/ Acquire(p) \/ ReadFile(p) \/ KeyringFails(p)
                              \/ Ask(p) \/ Load(p) \/ FileFails(p) \/ Crash(p)
      PROVE  UNCHANGED <<platform, keyring, file>>
  BY <1>3, Zenon DEF Begin, Acquire, ReadFile, KeyringFails, Ask, Load, FileFails, Crash
<1>4. ASSUME Service PROVE UNCHANGED <<platform, keyring, file>>
  BY <1>4 DEF Service
<1>5. ASSUME UNCHANGED vars PROVE UNCHANGED <<platform, keyring, file>>
  BY <1>5 DEF vars
<1>6. QED
  BY <1>1, <1>2, <1>3, <1>4, <1>5 DEF Next

\* A process moves by its own steps only, and no other takes its lock.
LEMMA OneMoves ==
  ASSUME IInv, [Next]_vars, NEW p \in Procs
  PROVE  \/ pc'[p] = pc[p] /\ (lock = p => lock' = p)
         \/ pc[p] = "idle" /\ lock # p
         \/ Acquire(p) \/ ReadFile(p) \/ KeyringAnswers(p) \/ KeyringFails(p) \/ Ask(p)
         \/ Load(p) \/ Save(p) \/ FileFails(p) \/ Crash(p)
<1>1. ASSUME NEW q \in Procs, Begin(q)
      PROVE  pc[q] = "idle" /\ lock # q /\ lock' = lock /\ \A r \in Procs \ {q}: pc'[r] = pc[r]
  <2>1. pc[q] = "idle" /\ lock # q
    BY <1>1 DEF Begin, IInv, Locked
  <2>2. (\E r \in Results: Return(q, r, None)) \/ (\E l \in Pcs: Goto(q, l))
    BY <1>1, BeginReturns DEF Pcs
  <2>3. QED
    BY <2>1, <2>2 DEF Return, IInv, TypeOK
<1>2. ASSUME NEW q \in Procs, q # p,
             \/ Acquire(q) \/ ReadFile(q) \/ KeyringAnswers(q) \/ KeyringFails(q) \/ Ask(q)
             \/ Load(q) \/ Save(q) \/ FileFails(q) \/ Crash(q)
      PROVE  pc'[p] = pc[p] /\ (lock = p => lock' = p)
  BY <1>2, StoreAssumption
     DEF IInv, TypeOK, Return, Acquire, ReadFile, KeyringAnswers, KeyringFails, Ask, Load, Save,
         FileFails, Crash
<1>3. ASSUME Service \/ UNCHANGED vars PROVE pc'[p] = pc[p] /\ lock' = lock
  BY <1>3 DEF Service, vars
<1>4. QED
  BY <1>1, <1>2, <1>3 DEF Next

LEMMA UniformStays == IInv /\ Uniform /\ [Next]_vars => Uniform'
<1> SUFFICES ASSUME IInv, Uniform, [Next]_vars PROVE Uniform'
  OBVIOUS
<1>1. \A n: Places(n)' = Places(n)
  BY WhoWrites, PlacesStay
<1>2. QED
  BY <1>1 DEF Uniform

\* A credential appears, changes or goes only for the account of the process
\* that has the lock, in whatever mode it is looked for.
THEOREM OtherAccountsAreKept == Spec => OthersKept
<1> DEFINE Step == \A a \in Accounts, m \in Modes:
               Saved(m, a)' # Saved(m, a) => \E p \in Procs: lock = p /\ account[p] = a
<1>1. ASSUME IInv, [Next]_vars, NEW a \in Accounts, NEW m \in Modes, Saved(m, a)' # Saved(m, a)
      PROVE  \E p \in Procs: lock = p /\ account[p] = a
  <2>1. Places(m)' = Places(m)
    BY <1>1, WhoWrites, PlacesStay
  <2>2. keyring'[a] # keyring[a] \/ file'[a] # file[a]
    BY <1>1, <2>1 DEF Saved
  <2>3. QED
    BY <1>1, <2>2, WhoWrites DEF IInv, TypeOK, Held
<1>2. IInv /\ [Next]_vars => [Step]_vars
  BY <1>1
<1>3. QED
  BY <1>2, Invariant, PTL DEF Spec, OthersKept

\* For a user whose commands use the same places, what is found moves to the
\* credential being saved or to none, unless the keyring goes away.
THEOREM NoOldCredentialReturns == Spec /\ Uniform => NothingOldComesBack
<1> DEFINE Step == "leaves" \notin faults => \A a \in Accounts, m \in Modes:
               Saved(m, a)' # Saved(m, a) => Saved(m, a)' \in {None, saves'}
<1>1. ASSUME IInv, Uniform, [Next]_vars, "leaves" \notin faults,
             NEW a \in Accounts, NEW m \in Modes, Saved(m, a)' # Saved(m, a)
      PROVE  Saved(m, a)' \in {None, saves'}
  <2>1. Places(m)' = Places(m)
    BY <1>1, WhoWrites, PlacesStay
  <2>2. ASSUME NEW p \in Procs, lock = p, saves' = saves, UNCHANGED file,
               keyring' = [keyring EXCEPT ![account[p]] = Value(p)]
        PROVE  Saved(m, a)' \in {None, saves'}
    <3>1. keyring'[a] = keyring[a] \/ keyring'[a] = Value(p)
      BY <1>1, <2>2 DEF IInv, TypeOK, Held
    <3>2. QED
      BY <1>1, <2>1, <2>2, <3>1 DEF Saved, Value
  <2>3. ASSUME NEW p \in Procs, lock = p, saves' = saves, UNCHANGED keyring,
               pc[p] = "save", file' = [file EXCEPT ![account[p]] = entry[p]]
        PROVE  Saved(m, a)' \in {None, saves'}
    <3>1. a = account[p] /\ file'[a] = entry[p] /\ "file" \in Places(m)
      BY <1>1, <2>1, <2>3 DEF Saved, IInv, TypeOK, Held
    <3>2. entry[p] \in {None, saves}
      BY <2>3, <1>1 DEF IInv, Locals, Value
    <3>3. CASE entry[p] = None /\ "keyring" \in Places(m)
      <4>1. Both(p)
        BY <1>1, <2>3, <3>1, <3>3, PlacesAre DEF Uniform, Both, IInv, Where, TypeOK
      <4>2. keyring[a] = Value(p)
        BY <1>1, <2>3, <3>1, <3>3, <4>1 DEF IInv, Missing
      <4>3. QED
        BY <2>1, <2>3, <3>1, <3>3, <4>2 DEF Saved, Value
    <3>4. CASE ~(entry[p] = None /\ "keyring" \in Places(m))
      BY <2>1, <2>3, <3>1, <3>2, <3>4 DEF Saved
    <3>5. QED
      BY <3>3, <3>4
  <2>4. ASSUME UNCHANGED <<keyring, file>> PROVE FALSE
    BY <1>1, <2>1, <2>4 DEF Saved
  <2>5. QED
    BY <1>1, <2>2, <2>3, <2>4, WhoWrites
<1>2. IInv /\ Uniform /\ [Next]_vars => [Step]_vars
  BY <1>1
<1>3. QED
  BY <1>2, UniformStays, Invariant, PTL DEF Spec, NothingOldComesBack

\* The file is read first, and is never the older of the two once no writer is
\* at work, for a user whose commands use the same places.
THEOREM TheFileIsNewest == Spec /\ Uniform => []FileIsNewest
<1>1. IInv /\ Uniform => FileIsNewest
  BY StoreAssumption DEF IInv, Locked, Where, Newest, FileIsNewest
<1>2. QED
  BY <1>1, UniformStays, Invariant, PTL DEF Spec

LEMMA SaveIsFound ==
  ASSUME IInv, [Next]_vars, "leaves" \notin faults,
         NEW p \in Procs, lock = p, lock' # p, result'[p] = "ok"
  PROVE  Saved(mode[p], account[p])' = Value(p)
<1>1. /\ Writes(p) /\ pc[p] # "idle"
      /\ \/ KeyringAnswers(p) \/ Ask(p) \/ Load(p) \/ Save(p) \/ FileFails(p) \/ Crash(p)
  BY OneMoves DEF IInv, Locked, Acquire, ReadFile, KeyringFails
<1>2. Places(mode[p])' = Places(mode[p]) /\ account'[p] = account[p] /\ mode'[p] = mode[p]
  BY <1>1, WhoWrites, PlacesStay
     DEF KeyringAnswers, Ask, Load, Save, FileFails, Crash
<1>3. CASE KeyringAnswers(p)
  <2>1. keyring'[account[p]] = Value(p) /\ "file" \notin Places(mode[p])
    BY <1>1, <1>3, StoreAssumption DEF KeyringAnswers, IInv, TypeOK, Held, Return
  <2>2. "keyring" \in Places(mode[p])
    BY <1>3 DEF KeyringAnswers, IInv, Where
  <2>3. QED
    BY <1>2, <2>1, <2>2 DEF Saved
<1>4. CASE Load(p)
  <2>1. /\ pc[p] = "load" /\ entry[p] = None /\ file[account[p]] = None
        /\ UNCHANGED <<keyring, file>>
    BY <1>4 DEF Load
  <2>2. "keyring" \in Places(mode[p]) => Both(p)
    BY <2>1, PlacesAre DEF Both, IInv, Where
  <2>3. QED
    BY <1>2, <2>1, <2>2 DEF Saved, IInv, Locals, Missing
<1>5. CASE Save(p)
  <2>1. /\ pc[p] = "save" /\ "file" \in Places(mode[p])
        /\ file'[account[p]] = entry[p] /\ UNCHANGED keyring
    BY <1>5 DEF Save, IInv, TypeOK, Held, Where, Locals
  <2>2. "keyring" \in Places(mode[p]) => Both(p)
    BY <2>1, PlacesAre DEF Both
  <2>3. QED
    BY <1>2, <2>1, <2>2 DEF Saved, IInv, Locals, Missing
<1>6. CASE Ask(p) \/ FileFails(p) \/ Crash(p)
  BY <1>1, <1>6 DEF Ask, FileFails, Crash, Return, IInv, TypeOK
<1>7. QED
  BY <1>1, <1>3, <1>4, <1>5, <1>6

\* What a save or a logout that succeeds leaves is what the next command finds
\* in that mode.
THEOREM WhatIsSavedIsFound == Spec => SavedMeansFound
<1> DEFINE Step == "leaves" \notin faults => \A p \in Procs:
              /\ lock = p /\ lock' # p /\ result'[p] = "ok"
              => Saved(mode[p], account[p])' = Value(p)
<1>1. IInv /\ [Next]_vars => [Step]_vars
  BY SaveIsFound
<1>2. QED
  BY <1>1, Invariant, PTL DEF Spec, SavedMeansFound

LEMMA ReadIsCurrent ==
  ASSUME IInv, Uniform, [Next]_vars, "leaves" \notin faults,
         NEW p \in Procs, op[p] = "get", pc[p] # "idle", pc'[p] = "idle",
         result'[p] \in {"found", "not_found"}
  PROVE  got'[p] \in seen[p] \/ (\A s \in seen[p]: s < got'[p])
<1>1. \/ ReadFile(p) \/ KeyringAnswers(p) \/ KeyringFails(p) \/ Ask(p) \/ FileFails(p) \/ Crash(p)
  BY OneMoves DEF IInv, Where, Acquire, Load, Save
<1>2. Saved(mode[p], account[p]) \in seen[p]
  BY DEF IInv, Seen
<1>3. CASE ReadFile(p)
  <2>1. "file" \in Places(mode[p])
    BY <1>3 DEF ReadFile, IInv, Where
  <2>2. CASE file[account[p]] # None
    <3>1. got'[p] = file[account[p]]
      BY <1>3, <2>2 DEF ReadFile, Return, IInv, TypeOK
    <3>2. QED
      BY <1>2, <2>1, <2>2, <3>1 DEF Saved
  <2>3. CASE file[account[p]] = None
    <3>1. got'[p] = None /\ "keyring" \notin Places(mode[p])
      BY <1>3, <2>3 DEF ReadFile, Return, IInv, TypeOK, Pcs
    <3>2. QED
      BY <1>2, <2>3, <3>1 DEF Saved
  <2>4. QED
    BY <2>2, <2>3
<1>4. CASE KeyringAnswers(p)
  <2>1. got'[p] = keyring[account[p]]
    BY <1>4 DEF KeyringAnswers, Return, IInv, TypeOK
  <2>2. InKeyring(p) /\ "keyring" \in Places(mode[p])
    BY <1>4 DEF KeyringAnswers, IInv, Where
  <2>3. CASE Both(p)
    BY <2>1, <2>2, <2>3 DEF IInv, Reads
  <2>4. CASE ~Both(p)
    BY <1>2, <2>1, <2>2, <2>4, PlacesAre DEF Saved, Both
  <2>5. QED
    BY <2>3, <2>4
<1>5. CASE Ask(p)
  <2>1. got'[p] = None /\ service = "missing" /\ "file" \in Places(mode[p])
    BY <1>5 DEF Ask, Return, IInv, TypeOK
  <2>2. InKeyring(p) /\ Both(p)
    BY <1>5, <2>1, PlacesAre DEF Ask, IInv, Where, Both
  <2>3. QED
    BY <2>1, <2>2 DEF IInv, Reads
<1>6. CASE KeyringFails(p) \/ FileFails(p) \/ Crash(p)
  BY <1>6 DEF KeyringFails, FileFails, Crash, Return, IInv, TypeOK
<1>7. QED
  BY <1>1, <1>3, <1>4, <1>5, <1>6

\* A reader is given what was saved at some moment of its reading, or newer,
\* for a user whose commands use the same places.
THEOREM ReadersAreCurrent == Spec /\ Uniform => ReadsAreCurrent
<1> DEFINE Step == "leaves" \notin faults => \A p \in Procs:
              /\ op[p] = "get" /\ pc[p] # "idle" /\ pc'[p] = "idle"
              /\ result'[p] \in {"found", "not_found"}
              => got'[p] \in seen[p] \/ (\A s \in seen[p]: s < got'[p])
<1>1. IInv /\ Uniform /\ [Next]_vars => [Step]_vars
  BY ReadIsCurrent
<1>2. QED
  BY <1>1, UniformStays, Invariant, PTL DEF Spec, ReadsAreCurrent

=============================================================================
