----------------------- MODULE CredentialRefreshProofs -----------------------
(***************************************************************************)
(* What CredentialRefresh promises, for any number of processes, requests, *)
(* logins and expiries, and any combination of faults.  First come the     *)
(* type invariant and the lock, then the strengthened invariant under      *)
(* which no refresh is wasted and the stored pair stays usable, then that  *)
(* each expiry is refreshed once and no command is left without its        *)
(* credential, and last the refinement: seen from outside, a refresh does  *)
(* nothing.                                                                *)
(***************************************************************************)
EXTENDS CredentialRefresh, FiniteSetTheorems, TLAPS

\* The steps of the proofs below use these definitions of what a command does.
USE DEF taigaVars, procVars, Goto, Finish, Unlock, Issue, Strand

\* Appending a pair keeps the sessions of the others.
LEMMA IssuePair ==
  ASSUME NEW r \in Seq(Nat \ {0}), NEW s \in Nat \ {0}
  PROVE  /\ Append(r, s) \in Seq(Nat \ {0})
         /\ Len(Append(r, s)) = Len(r) + 1
         /\ \A n \in 1 .. Len(r): Append(r, s)[n] = r[n]
         /\ Append(r, s)[Len(r) + 1] = s
  OBVIOUS

-----------------------------------------------------------------------------
(* Types.                                                                  *)

\* What a program counter says of the command and of the tokens it holds; the
\* part of the invariant the types of Taiga's steps rest on.
Stages ==
  \A p \in Procs:
    /\ pc[p] \in {"send", "post", "answered", "refused"} => kind[p] = "use"
    /\ pc[p] \in {"post", "refused"} => held[p].refresh \in Pairs
    /\ kind[p] = "use" /\ pc[p] \in {"wait", "locked", "answered"} => held[p].refresh \in Pairs
    /\ pc[p] # "done" => left[p] > 0

TypeInv == TypeOK /\ Stages

\* A pair issued by Taiga leaves everything typed before typed still.
LEMMA PairsGrow ==
  ASSUME TypeOK, NEW s \in Nat \ {0}, Issue(s)
  PROVE  /\ root' \in Seq(Nat \ {0})
         /\ Len(root') = Len(root) + 1
         /\ Len(root) + 1 \in Pairs'
         /\ Pairs \subseteq Pairs'
         /\ Tokens \subseteq Tokens'
         /\ \A n \in Pairs: root'[n] = root[n]
         /\ root'[Len(root) + 1] = s
  BY IssuePair DEF TypeOK, Pairs, Tokens

\* Steps that reach no pair of Taiga's leave what is typed by pairs typed.
LEMMA PairsStay == root' = root => Pairs' = Pairs /\ Tokens' = Tokens
  BY DEF Pairs, Tokens

\* Taking tokens over those in memory gives tokens.
LEMMA KeepRefreshTyped ==
  ASSUME NEW old \in Tokens, NEW new \in Tokens
  PROVE  /\ KeepRefresh(old, new) \in Tokens
         /\ KeepRefresh(old, new).access = new.access
         /\ KeepRefresh(old, new).refresh = IF new.refresh = NoToken THEN old.refresh ELSE new.refresh
  BY DEF KeepRefresh, Tokens

LEMMA NoPairTyped == NoPair \in Tokens /\ NoPair.access = NoToken /\ NoPair.refresh = NoToken
  BY DEF NoPair, Tokens

\* The refresh token of typed tokens is a pair's or empty.
LEMMA RefreshTyped == ASSUME NEW t \in Tokens, t.refresh # NoToken PROVE t.refresh \in Pairs
  BY DEF Tokens

LEMMA TypeInit == Init => TypeInv
  <1> SUFFICES ASSUME Init PROVE TypeInv
      OBVIOUS
  <1>1. 1 \in Pairs /\ Pairs \subseteq Nat
      BY DEF Init, Pairs
  <1>2. NoPair \in Tokens /\ store \in Tokens
      BY <1>1 DEF Init, NoPair, Tokens
  <1> QED
      BY <1>1, <1>2, ConstantsAssumption DEF Init, TypeInv, TypeOK, Stages, Pcs, Results

LEMMA TypeNext == TypeInv /\ [Next]_vars => TypeInv'
  <1> SUFFICES ASSUME TypeInv, [Next]_vars PROVE TypeInv'
      OBVIOUS
  <1> USE PairsStay, NoPairTyped DEF TypeInv
  <1>b. Requests \in Nat
      BY ConstantsAssumption
  <1>a. \A n \in Pairs: n \in Nat \ {0} /\ root[n] \in Nat \ {0}
      BY DEF TypeOK, Pairs
  <1>1. ASSUME NEW p \in Procs, Resolve(p) PROVE TypeInv'
    <2>1. CASE store = NoPair
        BY <1>1, <2>1 DEF Resolve, TypeOK, Stages, Pcs, Results
    <2>2. CASE store # NoPair
        BY <1>1, <2>2 DEF Resolve, TypeOK, Stages, Pcs, Results
    <2> QED
        BY <2>1, <2>2
  <1>2. ASSUME NEW p \in Procs, Accepted(p) PROVE TypeInv'
    <2>1. /\ pc[p] = "send" /\ left[p] > 0 /\ left' = [left EXCEPT ![p] = left[p] - 1]
          /\ refreshed' = [refreshed EXCEPT ![p] = FALSE]
          /\ UNCHANGED <<root, expired, spent, store, lock, kind, held, answer, stranded>>
        BY <1>2 DEF Accepted, Stages
    <2>2. \/ pc' = [pc EXCEPT ![p] = "done"] /\ result' = [result EXCEPT ![p] = "ok"]
          \/ pc' = [pc EXCEPT ![p] = "send"] /\ result' = result /\ left[p] # 1
        BY <1>2 DEF Accepted
    <2>3. left' \in [Procs -> 0 .. Requests]
        BY <2>1, <1>b DEF TypeOK
    <2>4. TypeOK'
        BY <2>1, <2>2, <2>3 DEF TypeOK, Pcs, Results
    <2>5. ASSUME NEW q \in Procs, pc'[q] # "done" PROVE left'[q] > 0
        BY <2>1, <2>2, <2>5, <1>b DEF TypeOK, Stages
    <2> QED
        BY <2>1, <2>2, <2>4, <2>5 DEF Stages, TypeOK
  <1>3. ASSUME NEW p \in Procs, Rejected(p) PROVE TypeInv'
    <2>1. CASE ~refreshed[p] /\ held[p].refresh # NoToken
        BY <1>3, <2>1, RefreshTyped DEF Rejected, TypeOK, Stages, Pcs, Results
    <2>2. CASE ~(~refreshed[p] /\ held[p].refresh # NoToken)
        BY <1>3, <2>2 DEF Rejected, TypeOK, Stages, Pcs, Results
    <2> QED
        BY <2>1, <2>2
  <1>4. ASSUME NEW p \in Procs, Acquire(p) PROVE TypeInv'
      BY <1>4 DEF Acquire, TypeOK, Stages, Pcs, Results
  <1>5. ASSUME NEW p \in Procs, FindRemoved(p) PROVE TypeInv'
      BY <1>5 DEF FindRemoved, TypeOK, Stages, Pcs, Results
  <1>6. ASSUME NEW p \in Procs, Adopt(p) PROVE TypeInv'
      BY <1>6, KeepRefreshTyped DEF Adopt, TypeOK, Stages, Pcs, Results
  <1>7. ASSUME NEW p \in Procs, MustRefresh(p) PROVE TypeInv'
    <2>1. KeepRefresh(held[p], store) \in Tokens /\ KeepRefresh(held[p], store).refresh \in Pairs
      <3>1. held[p] \in Tokens /\ store \in Tokens
          BY DEF TypeOK
      <3>2. held[p].refresh \in Pairs
          BY <1>7 DEF MustRefresh, Stages
      <3>3. store.refresh = NoToken \/ store.refresh \in Pairs
          BY <3>1, RefreshTyped
      <3> QED
          BY <3>1, <3>2, <3>3, KeepRefreshTyped
    <2>2. TypeOK'
        BY <1>7, <2>1 DEF MustRefresh, TypeOK, Pcs
    <2> QED
        BY <1>7, <2>1, <2>2 DEF MustRefresh, TypeOK, Stages
  <1>8. ASSUME NEW p \in Procs, TaigaRefreshes(p) PROVE TypeInv'
    <2>1. held[p].refresh \in Pairs /\ Issue(root[held[p].refresh]) /\ root[held[p].refresh] \in Nat \ {0}
        BY <1>8, <1>a DEF TaigaRefreshes, Stages
    <2>2. Len(root) + 1 \in Pairs' /\ Pairs \subseteq Pairs' /\ Tokens \subseteq Tokens' /\ root' \in Seq(Nat \ {0})
        BY <2>1, PairsGrow
    <2>3. answer' \in [Procs -> Tokens'] /\ spent' \subseteq Pairs'
      <3>1. \E r \in {Len(root) + 1, NoToken}:
              answer' = [answer EXCEPT ![p] = [access |-> Len(root) + 1, refresh |-> r]]
          BY <1>8 DEF TaigaRefreshes
      <3>2. spent' \subseteq spent \cup {held[p].refresh}
          BY <1>8 DEF TaigaRefreshes
      <3>3. \A r \in {Len(root) + 1, NoToken}: [access |-> Len(root) + 1, refresh |-> r] \in Tokens'
          BY <2>2 DEF Tokens
      <3> QED
          BY <2>1, <2>2, <3>1, <3>2, <3>3 DEF TypeOK
    <2>4. TypeOK'
        BY <1>8, <2>2, <2>3 DEF TaigaRefreshes, TypeOK, Pcs
    <2>5. /\ pc[p] = "post" /\ pc' = [pc EXCEPT ![p] = "answered"]
          /\ UNCHANGED <<kind, held, left>>
        BY <1>8 DEF TaigaRefreshes
    <2> QED
        BY <2>1, <2>2, <2>4, <2>5 DEF Stages, TypeOK
  <1>9. ASSUME NEW p \in Procs, TaigaRefuses(p) PROVE TypeInv'
      BY <1>9 DEF TaigaRefuses, TypeOK, Stages, Pcs, Results
  <1>10. ASSUME NEW p \in Procs, ReportRefused(p) PROVE TypeInv'
      BY <1>10 DEF ReportRefused, TypeOK, Stages, Pcs, Results
  <1>11. ASSUME NEW p \in Procs, SaveRefreshed(p) PROVE TypeInv'
      BY <1>11, KeepRefreshTyped DEF SaveRefreshed, TypeOK, Stages, Pcs, Results
  <1>12. ASSUME NEW p \in Procs, SaveFails(p) PROVE TypeInv'
      BY <1>12, KeepRefreshTyped DEF SaveFails, TypeOK, Stages, Pcs, Results
  <1>13. ASSUME NEW p \in Procs, RefreshUnanswered(p) PROVE TypeInv'
      BY <1>13 DEF RefreshUnanswered, TypeOK, Stages, Pcs, Results
  <1>14. ASSUME NEW p \in Procs, Authenticate(p) PROVE TypeInv'
    <2>1. Issue(Len(root) + 1) /\ Len(root) + 1 \in Nat \ {0}
        BY <1>14 DEF Authenticate, TypeOK
    <2>2. Len(root) + 1 \in Pairs' /\ Pairs \subseteq Pairs' /\ Tokens \subseteq Tokens' /\ root' \in Seq(Nat \ {0})
        BY <2>1, PairsGrow
    <2>3. TypeOK'
        BY <1>14, <2>1, <2>2 DEF Authenticate, TypeOK, Tokens, Pcs, Results
    <2> QED
        BY <1>14, <2>2, <2>3 DEF Authenticate, Stages, TypeOK, Pcs
  <1>15. ASSUME NEW p \in Procs, StoreLogin(p) PROVE TypeInv'
    <2>1. /\ pc' = [pc EXCEPT ![p] = "done"] /\ lock' = Nobody
          /\ UNCHANGED <<taigaVars, kind, held, answer, left, refreshed, stranded>>
        BY <1>15 DEF StoreLogin
    <2>2. store' \in {store, answer[p]} /\ \E r \in Results: result' = [result EXCEPT ![p] = r]
        BY <1>15 DEF StoreLogin, Results
    <2>3. TypeOK'
        BY <2>1, <2>2 DEF TypeOK, Pcs
    <2> QED
        BY <2>3, <2>1 DEF TypeOK, Stages
  <1>16. ASSUME NEW p \in Procs, BeginLogout(p) PROVE TypeInv'
      BY <1>16 DEF BeginLogout, TypeOK, Stages, Pcs, Results
  <1>17. ASSUME NEW p \in Procs, DeleteStored(p) PROVE TypeInv'
      BY <1>17 DEF DeleteStored, TypeOK, Stages, Pcs, Results
  <1>18. ASSUME NEW p \in Procs, Interrupt(p) PROVE TypeInv'
      BY <1>18 DEF Interrupt, TypeOK, Stages, Pcs, Results
  <1>19. ASSUME NEW p \in Procs, Crash(p) PROVE TypeInv'
      BY <1>19 DEF Crash, TypeOK, Stages, Pcs, Results
  <1>20. ASSUME NEW n \in Pairs, Expire(n) PROVE TypeInv'
      BY <1>20 DEF Expire, TypeOK, Stages
  <1>21. ASSUME UNCHANGED vars PROVE TypeInv'
      BY <1>21 DEF vars, TypeOK, Stages
  <1> QED
      BY <1>1, <1>2, <1>3, <1>4, <1>5, <1>6, <1>7, <1>8, <1>9, <1>10, <1>11, <1>12, <1>13,
         <1>14, <1>15, <1>16, <1>17, <1>18, <1>19, <1>20, <1>21
      DEF Next, Step, Use, LoginOrLogout, AllDone

\* Type correctness of every variable, for every instance.
THEOREM TypeCorrect == Spec => []TypeOK
  BY TypeInit, TypeNext, PTL DEF Spec, TypeInv

-----------------------------------------------------------------------------
(* The lock.                                                               *)

LEMMA LockInit == Init => LockExcludes
  BY ConstantsAssumption DEF Init, LockExcludes, InLock

LEMMA LockNext == TypeInv /\ LockExcludes /\ [Next]_vars => LockExcludes'
  <1> SUFFICES ASSUME TypeInv, LockExcludes, [Next]_vars PROVE LockExcludes'
      OBVIOUS
  <1> USE DEF TypeInv, TypeOK, LockExcludes, InLock
  <1>0. Nobody \notin Procs
      BY ConstantsAssumption
  <1>1. ASSUME NEW p \in Procs, Acquire(p) PROVE LockExcludes'
      BY <1>0, <1>1 DEF Acquire
  <1>2. ASSUME NEW p \in Procs,
               \/ MustRefresh(p) \/ TaigaRefreshes(p) \/ TaigaRefuses(p)
        PROVE LockExcludes'
      BY <1>2 DEF MustRefresh, TaigaRefreshes, TaigaRefuses
  <1>3. ASSUME NEW p \in Procs,
               \/ FindRemoved(p) \/ Adopt(p) \/ ReportRefused(p) \/ SaveRefreshed(p)
        PROVE LockExcludes'
      BY <1>0, <1>3 DEF FindRemoved, Adopt, ReportRefused, SaveRefreshed
  <1>4. ASSUME NEW p \in Procs,
               \/ SaveFails(p) \/ RefreshUnanswered(p) \/ StoreLogin(p) \/ DeleteStored(p)
        PROVE LockExcludes'
      BY <1>0, <1>4 DEF SaveFails, RefreshUnanswered, StoreLogin, DeleteStored
  <1>5. ASSUME NEW p \in Procs,
               \/ Resolve(p) \/ Accepted(p) \/ Rejected(p)
               \/ Authenticate(p) \/ BeginLogout(p) \/ Interrupt(p)
        PROVE LockExcludes'
      BY <1>5 DEF Resolve, Accepted, Rejected, Authenticate, BeginLogout, Interrupt
  <1>6. ASSUME NEW p \in Procs, Crash(p) PROVE LockExcludes'
      BY <1>0, <1>6 DEF Crash
  <1>7. ASSUME \/ \E n \in Pairs: Expire(n)
               \/ UNCHANGED vars
        PROVE LockExcludes'
      BY <1>7 DEF Expire, vars
  <1> QED
      BY <1>1, <1>2, <1>3, <1>4, <1>5, <1>6, <1>7 DEF Next, Step, Use, LoginOrLogout, AllDone

\* The credentials lock excludes: at most one process is between taking it and
\* giving it back, and that process is the one the lock is held by.
THEOREM LockMutualExclusion == Spec => []LockExcludes
  BY TypeInit, TypeNext, LockInit, LockNext, PTL DEF Spec

-----------------------------------------------------------------------------
(* What the lock is for.  When every login stores a refresh token, no      *)
(* refresh is wasted and the stored pair stays usable: a command that has  *)
(* decided to refresh holds the lock, and holds in memory exactly what is  *)
(* stored; nothing that is stored, or that a login waits to store, has     *)
(* been retired except by the answer the lock's holder has in hand.        *)
(* (refresh_bare_login.cfg shows why the assumption is needed.)            *)

Refreshing(p) == pc[p] \in {"post", "answered", "refused"}
Logging(p)    == kind[p] = "login" /\ pc[p] \in {"wait", "locked"}

\* The stored tokens are a pair of one session, or nothing.
StoreInv ==
  \/ store = NoPair
  \/ /\ store.access \in Pairs /\ store.refresh \in Pairs
     /\ root[store.refresh] = root[store.access]

\* A refreshing command holds what is stored.
FlightInv == \A p \in Procs: Refreshing(p) => held[p] = store /\ store # NoPair

\* The answer to a refresh continues the stored session with a live refresh token.
AnswerInv ==
  \A p \in Procs: pc[p] = "answered" =>
    /\ answer[p].access \in Pairs
    /\ root[answer[p].access] = root[store.access]
    /\ \/ answer[p].refresh = NoToken /\ store.refresh \notin spent
       \/ answer[p].refresh = answer[p].access /\ answer[p].refresh \notin spent

\* A login that waits to be stored has a session to itself.
LoginInv ==
  \A p \in Procs: Logging(p) =>
    /\ answer[p].access \in Pairs
    /\ answer[p].refresh = answer[p].access
    /\ root[answer[p].access] = answer[p].access
    /\ answer[p].access \notin spent
    /\ \A n \in Pairs: root[n] = answer[p].access => n = answer[p].access
    /\ store.access # answer[p].access
    /\ \A q \in Procs: Logging(q) /\ q # p => answer[q].access # answer[p].access

\* Sessions are named by pairs Taiga issued.
RootInv == \A n \in Pairs: root[n] \in Pairs

SafetyInv ==
  /\ TypeInv /\ LockExcludes
  /\ StoreInv /\ FlightInv /\ AnswerInv /\ LoginInv /\ RootInv /\ StoredPairUsable

-----------------------------------------------------------------------------
(* Three kinds of step change little, and are treated together.            *)

\* A step that neither writes anything shared nor begins or ends an answer.
Quiet ==
  /\ UNCHANGED <<root, spent, store, answer, kind, stranded>>
  /\ \A q \in Procs:
       /\ Refreshing(q)' => Refreshing(q) /\ held'[q] = held[q]
       /\ pc[q] = "answered" <=> pc'[q] = "answered"
       /\ pc[q] = "answered" => lock'= lock /\ held'[q] = held[q]
       /\ Logging(q) <=> Logging(q)'

\* A command ends, whatever it had in hand.
Leave(p) ==
  /\ UNCHANGED <<root, spent, store, answer, kind>>
  /\ pc' = [pc EXCEPT ![p] = "done"]
  /\ \A q \in Procs \ {p}: held'[q] = held[q] /\ (lock = q => lock' = q)
  /\ Strand(p)

\* What is left, each with an effect of its own.
Writes(p) ==
  \/ MustRefresh(p) \/ TaigaRefreshes(p) \/ SaveRefreshed(p)
  \/ Authenticate(p) \/ StoreLogin(p) \/ DeleteStored(p)

LEMMA StepKinds ==
  ASSUME TypeInv, LockExcludes, [Next]_vars
  PROVE  Quiet \/ \E p \in Procs: Leave(p) \/ Writes(p)
  <1> USE DEF TypeInv, TypeOK, LockExcludes, InLock, Refreshing, Logging
  <1>1. ASSUME NEW p \in Procs, Resolve(p) PROVE Quiet
      BY <1>1 DEF Resolve, Quiet
  <1>2. ASSUME NEW p \in Procs, Accepted(p) PROVE Quiet
      BY <1>2 DEF Accepted, Stages, Quiet
  <1>3. ASSUME NEW p \in Procs, Rejected(p) PROVE Quiet
      BY <1>3 DEF Rejected, Stages, Quiet
  <1>4. ASSUME NEW p \in Procs, Acquire(p) PROVE Quiet
      BY <1>4, ConstantsAssumption DEF Acquire, Quiet
  <1>5. ASSUME NEW p \in Procs, Adopt(p) PROVE Quiet
      BY <1>5, ConstantsAssumption DEF Adopt, Quiet
  <1>6. ASSUME NEW p \in Procs, TaigaRefuses(p) PROVE Quiet
      BY <1>6 DEF TaigaRefuses, Quiet
  <1>7. ASSUME NEW p \in Procs, BeginLogout(p) PROVE Quiet
      BY <1>7 DEF BeginLogout, Quiet
  <1>8. ASSUME NEW n \in Pairs, Expire(n) PROVE Quiet
      BY <1>8 DEF Expire, Quiet
  <1>9. ASSUME UNCHANGED vars PROVE Quiet
      BY <1>9 DEF vars, Quiet
  <1>10. ASSUME NEW p \in Procs, FindRemoved(p) \/ ReportRefused(p) PROVE Leave(p)
      BY <1>10, ConstantsAssumption DEF FindRemoved, ReportRefused, Leave
  <1>11. ASSUME NEW p \in Procs, SaveFails(p) \/ RefreshUnanswered(p) PROVE Leave(p)
      BY <1>11, ConstantsAssumption DEF SaveFails, RefreshUnanswered, Leave
  <1>12. ASSUME NEW p \in Procs, Interrupt(p) \/ Crash(p) PROVE Leave(p)
      BY <1>12, ConstantsAssumption DEF Interrupt, Crash, Leave
  <1> QED
      BY <1>1, <1>2, <1>3, <1>4, <1>5, <1>6, <1>7, <1>8, <1>9, <1>10, <1>11, <1>12
      DEF Next, Step, Use, LoginOrLogout, Writes, AllDone

LEMMA EmptyIsNoPair == TypeInv => NoToken \notin Pairs
  BY ConstantsAssumption DEF TypeInv, TypeOK, Pairs

LEMMA SafetyInit == Init => SafetyInv
  <1> SUFFICES ASSUME Init PROVE SafetyInv
      OBVIOUS
  <1>1. TypeInv /\ LockExcludes
      BY TypeInit, LockInit
  <1>2. Pairs = {1} /\ root[1] = 1
      BY DEF Init, Pairs
  <1>3. StoreInv /\ RootInv /\ StoredPairUsable
      BY <1>2 DEF Init, StoreInv, RootInv, StoredPairUsable, NoPair
  <1>4. FlightInv /\ AnswerInv /\ LoginInv
      BY DEF Init, FlightInv, AnswerInv, LoginInv, Refreshing, Logging
  <1> QED
      BY <1>1, <1>3, <1>4 DEF SafetyInv

LEMMA QuietKeepsSafety ==
  ASSUME SafetyInv, TypeInv', LockExcludes', Quiet
  PROVE  SafetyInv'
  <1> USE DEF SafetyInv, Quiet
  <1>1. Pairs' = Pairs
      BY DEF Pairs
  <1>2. StoreInv' /\ RootInv'
      BY <1>1 DEF StoreInv, RootInv, NoPair
  <1>3. FlightInv'
      BY DEF FlightInv, NoPair
  <1>4. AnswerInv'
      BY <1>1 DEF AnswerInv
  <1>5. LoginInv'
      BY <1>1 DEF LoginInv
  <1>6. StoredPairUsable'
      BY DEF StoredPairUsable
  <1> QED
      BY <1>2, <1>3, <1>4, <1>5, <1>6

LEMMA LeaveKeepsSafety ==
  ASSUME SafetyInv, TypeInv', LockExcludes', NEW p \in Procs, Leave(p)
  PROVE  SafetyInv'
  <1> USE DEF SafetyInv, Leave, TypeInv, TypeOK
  <1>1. Pairs' = Pairs
      BY DEF Pairs
  <1>2. StoreInv' /\ RootInv'
      BY <1>1 DEF StoreInv, RootInv, NoPair
  <1>3. FlightInv'
      BY DEF FlightInv, Refreshing, NoPair
  <1>4. AnswerInv'
      BY <1>1 DEF AnswerInv
  <1>5. LoginInv'
      BY <1>1 DEF LoginInv, Logging
  <1>6. StoredPairUsable'
    <2> SUFFICES ASSUME store.refresh \in spent, store.refresh \notin stranded'
                 PROVE  \E q \in Procs: lock' = q /\ pc'[q] = "answered" /\ held'[q].refresh = store.refresh
        BY DEF StoredPairUsable
    <2>1. PICK q \in Procs: lock = q /\ pc[q] = "answered" /\ held[q].refresh = store.refresh
        BY DEF StoredPairUsable
    <2>2. ASSUME q = p PROVE FALSE
      <3>1. kind[p] = "use" /\ pc[p] = "answered" /\ held[p].refresh = store.refresh
          BY <2>1, <2>2 DEF Stages
      <3>2. answer[p].refresh # NoToken
        <4>1. answer[p].refresh = answer[p].access => answer[p].refresh \in Pairs
            BY <3>1 DEF AnswerInv
        <4> QED
            BY <3>1, <4>1, EmptyIsNoPair DEF AnswerInv
      <3>3. stranded' = stranded \cup {held[p].refresh}
          BY <3>1, <3>2
      <3> QED
          BY <3>1, <3>3
    <2> QED
        BY <2>1, <2>2
  <1> QED
      BY <1>2, <1>3, <1>4, <1>5, <1>6

\* The refused pair is the stored one, so taking it over changes nothing but
\* which command holds it.
LEMMA MustRefreshKeepsSafety ==
  ASSUME SafetyInv, TypeInv', LockExcludes', NEW p \in Procs, MustRefresh(p)
  PROVE  SafetyInv'
  <1> USE DEF SafetyInv, MustRefresh, TypeInv, TypeOK
  <1>1. Pairs' = Pairs
      BY DEF Pairs
  <1>2. StoreInv' /\ RootInv'
      BY <1>1 DEF StoreInv, RootInv, NoPair
  <1>3. store.refresh # NoToken
      BY ConstantsAssumption DEF StoreInv, Pairs
  <1>4. KeepRefresh(held[p], store) = store
      BY <1>3 DEF KeepRefresh, Tokens
  <1>5. FlightInv'
      BY <1>4 DEF FlightInv, Refreshing, NoPair
  <1>6. AnswerInv'
      BY <1>1 DEF AnswerInv
  <1>7. LoginInv'
      BY <1>1 DEF LoginInv, Logging
  <1>8. StoredPairUsable'
      BY DEF StoredPairUsable, LockExcludes, InLock
  <1> QED
      BY <1>2, <1>5, <1>6, <1>7, <1>8

\* The stored refresh token is retired, by an answer its only spender holds.
LEMMA TaigaRefreshesKeepsSafety ==
  ASSUME SafetyInv, TypeInv', LockExcludes', NEW p \in Procs, TaigaRefreshes(p)
  PROVE  SafetyInv'
  <1> USE DEF SafetyInv, TypeInv
  <1> DEFINE new == Len(root) + 1
  <1>1. /\ pc[p] = "post" /\ kind[p] = "use" /\ held[p] = store /\ store # NoPair
        /\ store.access \in Pairs /\ store.refresh \in Pairs
        /\ root[store.refresh] = root[store.access]
      BY DEF TaigaRefreshes, FlightInv, Refreshing, StoreInv, Stages
  <1>2. /\ pc' = [pc EXCEPT ![p] = "answered"] /\ Issue(root[store.refresh])
        /\ UNCHANGED <<store, lock, kind, held, stranded>>
        /\ store.refresh \notin spent
      BY <1>1 DEF TaigaRefreshes
  <1>3. /\ Len(root) \in Nat /\ Pairs = 1 .. Len(root) /\ Pairs' = 1 .. new
        /\ new \notin Pairs /\ root[store.refresh] \in Pairs
        /\ \A n \in Pairs: root'[n] = root[n]
        /\ root'[new] = root[store.refresh]
    <2>1. Len(root) \in Nat /\ root[store.refresh] \in Pairs /\ root[store.refresh] \in Nat \ {0}
        BY <1>1 DEF TypeOK, RootInv, Pairs
    <2>2. /\ Len(root') = new
          /\ \A n \in Pairs: root'[n] = root[n]
          /\ root'[new] = root[store.refresh]
        BY <1>2, <2>1, PairsGrow
    <2> QED
        BY <2>1, <2>2 DEF Pairs
  <1>4. \/ /\ answer' = [answer EXCEPT ![p] = [access |-> new, refresh |-> new]]
           /\ spent' = spent \cup {store.refresh}
        \/ /\ answer' = [answer EXCEPT ![p] = [access |-> new, refresh |-> NoToken]]
           /\ spent' = spent
      BY <1>1 DEF TaigaRefreshes
  <1>5. spent \subseteq Pairs /\ answer \in [Procs -> Tokens] /\ pc \in [Procs -> Pcs]
      BY DEF TypeOK
  <1>6. StoreInv' /\ RootInv'
      BY <1>1, <1>2, <1>3 DEF StoreInv, RootInv, NoPair
  <1>7. FlightInv'
      BY <1>1, <1>2, <1>5 DEF FlightInv, Refreshing, NoPair
  <1>8. \A q \in Procs \ {p}: ~Refreshing(q)
      BY <1>1 DEF LockExcludes, InLock, Refreshing
  <1>9. AnswerInv'
    <2> SUFFICES ASSUME NEW q \in Procs, pc'[q] = "answered"
                 PROVE  /\ answer'[q].access \in Pairs'
                        /\ root'[answer'[q].access] = root'[store.access]
                        /\ \/ answer'[q].refresh = NoToken /\ store.refresh \notin spent'
                           \/ answer'[q].refresh = answer'[q].access /\ answer'[q].refresh \notin spent'
        BY <1>2 DEF AnswerInv
    <2>1. q = p
        BY <1>2, <1>5, <1>8 DEF Refreshing
    <2> QED
        BY <2>1, <1>1, <1>2, <1>3, <1>4, <1>5
  <1>10. LoginInv'
    <2> SUFFICES ASSUME NEW q \in Procs, Logging(q)'
                 PROVE  /\ answer'[q].access \in Pairs'
                        /\ answer'[q].refresh = answer'[q].access
                        /\ root'[answer'[q].access] = answer'[q].access
                        /\ answer'[q].access \notin spent'
                        /\ \A n \in Pairs': root'[n] = answer'[q].access => n = answer'[q].access
                        /\ store'.access # answer'[q].access
                        /\ \A o \in Procs: Logging(o)' /\ o # q => answer'[o].access # answer'[q].access
        BY DEF LoginInv
    <2>1. q # p /\ Logging(q) /\ \A o \in Procs: Logging(o)' => o # p /\ Logging(o)
        BY <1>1, <1>2, <1>5 DEF Logging
    <2>2. \A o \in Procs: o # p => answer'[o] = answer[o]
        BY <1>4, <1>5
    <2>3. root[store.access] # answer[q].access
        BY <2>1, <1>1 DEF LoginInv
    <2>4. store.refresh # answer[q].access
        BY <2>1, <2>3, <1>1 DEF LoginInv
    <2> QED
        BY <2>1, <2>2, <2>3, <2>4, <1>1, <1>2, <1>3, <1>4 DEF LoginInv
  <1>11. StoredPairUsable'
    <2>1. lock = p
        BY <1>1 DEF LockExcludes, InLock
    <2> QED
        BY <2>1, <1>1, <1>2, <1>4, <1>5, <1>8 DEF StoredPairUsable, Refreshing
  <1> QED
      BY <1>6, <1>7, <1>9, <1>10, <1>11

\* The pair saved is the answer in hand: the next one of the stored session.
LEMMA SaveRefreshedKeepsSafety ==
  ASSUME SafetyInv, TypeInv', LockExcludes', NEW p \in Procs, SaveRefreshed(p)
  PROVE  SafetyInv'
  <1> USE DEF SafetyInv
  <1>1. /\ pc[p] = "answered" /\ kind[p] = "use" /\ held[p] = store /\ store # NoPair
        /\ store.access \in Pairs /\ store.refresh \in Pairs
        /\ root[store.refresh] = root[store.access]
        /\ answer[p].access \in Pairs /\ root[answer[p].access] = root[store.access]
      BY DEF SaveRefreshed, FlightInv, Refreshing, StoreInv, AnswerInv
  <1>2. /\ pc' = [pc EXCEPT ![p] = "send"] /\ store' = KeepRefresh(store, answer[p])
        /\ UNCHANGED <<root, spent, kind, answer, stranded>>
      BY <1>1 DEF SaveRefreshed
  <1>3. Pairs' = Pairs /\ NoToken \notin Pairs
      BY <1>2, EmptyIsNoPair DEF Pairs
  <1>4. /\ store'.access = answer[p].access
        /\ store'.refresh \in {store.refresh, answer[p].access}
        /\ store'.refresh \notin spent
      BY <1>1, <1>2, <1>3 DEF KeepRefresh, AnswerInv
  <1>5. StoreInv' /\ RootInv'
      BY <1>1, <1>2, <1>3, <1>4 DEF StoreInv, RootInv
  <1>6. \A q \in Procs \ {p}: ~Refreshing(q)
      BY <1>1 DEF LockExcludes, InLock, Refreshing
  <1>7. \A q \in Procs: ~Refreshing(q)'
      BY <1>2, <1>6 DEF Refreshing, TypeInv, TypeOK
  <1>8. FlightInv' /\ AnswerInv'
      BY <1>7 DEF FlightInv, AnswerInv, Refreshing
  <1>9. \A q \in Procs: Logging(q)' => Logging(q) /\ root[answer[q].access] # root[store.access]
      BY <1>1, <1>2 DEF Logging, LoginInv, TypeInv, TypeOK
  <1>10. LoginInv'
      BY <1>1, <1>2, <1>3, <1>4, <1>9 DEF LoginInv
  <1>11. StoredPairUsable'
      BY <1>2, <1>4 DEF StoredPairUsable
  <1> QED
      BY <1>5, <1>8, <1>10, <1>11

\* Taiga begins a session nobody else knows.
LEMMA AuthenticateKeepsSafety ==
  ASSUME BareLogins = FALSE,
         SafetyInv, TypeInv', LockExcludes', NEW p \in Procs, Authenticate(p)
  PROVE  SafetyInv'
  <1> USE DEF SafetyInv, TypeInv
  <1> DEFINE new == Len(root) + 1
  <1>1. /\ kind[p] = "login" /\ pc[p] = "start" /\ pc' = [pc EXCEPT ![p] = "wait"]
        /\ answer' = [answer EXCEPT ![p] = [access |-> new, refresh |-> new]]
        /\ Issue(new)
        /\ UNCHANGED <<spent, store, lock, kind, held, stranded>>
      BY DEF Authenticate
  <1>2. /\ Pairs = 1 .. Len(root) /\ Pairs' = 1 .. new /\ new \notin Pairs /\ Pairs \subseteq Pairs'
        /\ new \in Pairs'
        /\ \A n \in Pairs: root'[n] = root[n]
        /\ root'[new] = new
    <2>1. Len(root) \in Nat /\ new \in Nat \ {0}
        BY DEF TypeOK
    <2>2. Len(root') = new /\ (\A n \in Pairs: root'[n] = root[n]) /\ root'[new] = new
        BY <1>1, <2>1, PairsGrow
    <2> QED
        BY <2>1, <2>2 DEF Pairs
  <1>3. spent \subseteq Pairs /\ answer \in [Procs -> Tokens] /\ pc \in [Procs -> Pcs]
      BY DEF TypeOK
  <1>4. StoreInv' /\ RootInv'
      BY <1>1, <1>2 DEF StoreInv, RootInv, NoPair
  <1>5. FlightInv'
      BY <1>1, <1>3 DEF FlightInv, Refreshing, NoPair
  <1>6. AnswerInv'
    <2> SUFFICES ASSUME NEW q \in Procs, pc'[q] = "answered"
                 PROVE  /\ answer'[q].access \in Pairs'
                        /\ root'[answer'[q].access] = root'[store.access]
                        /\ \/ answer'[q].refresh = NoToken /\ store.refresh \notin spent'
                           \/ answer'[q].refresh = answer'[q].access /\ answer'[q].refresh \notin spent'
        BY <1>1 DEF AnswerInv
    <2>1. q # p /\ pc[q] = "answered" /\ answer'[q] = answer[q]
        BY <1>1, <1>3
    <2>2. store.access \in Pairs
        BY <2>1 DEF FlightInv, Refreshing, StoreInv
    <2> QED
        BY <2>1, <2>2, <1>1, <1>2 DEF AnswerInv
  <1>7. LoginInv'
    <2> SUFFICES ASSUME NEW q \in Procs, Logging(q)'
                 PROVE  /\ answer'[q].access \in Pairs'
                        /\ answer'[q].refresh = answer'[q].access
                        /\ root'[answer'[q].access] = answer'[q].access
                        /\ answer'[q].access \notin spent'
                        /\ \A n \in Pairs': root'[n] = answer'[q].access => n = answer'[q].access
                        /\ store'.access # answer'[q].access
                        /\ \A o \in Procs: Logging(o)' /\ o # q => answer'[o].access # answer'[q].access
        BY DEF LoginInv
    <2>1. \A o \in Procs \ {p}: (Logging(o)' <=> Logging(o)) /\ answer'[o] = answer[o]
        BY <1>1, <1>3 DEF Logging
    <2>2. \A o \in Procs: Logging(o) => answer[o].access \in Pairs
        BY DEF LoginInv
    <2>3. CASE q = p
      <3>1. answer'[p].access = new /\ answer'[p].refresh = new
          BY <1>1, <1>3
      <3>2. \A n \in Pairs: root'[n] \in Pairs
          BY <1>2 DEF RootInv
      <3>3. store.access # new
          BY <1>2, EmptyIsNoPair, ConstantsAssumption DEF StoreInv, NoPair, TypeOK
      <3>4. \A o \in Procs: Logging(o)' /\ o # p => answer'[o].access # new
          BY <2>1, <2>2, <1>2
      <3> QED
          BY <2>3, <3>1, <3>2, <3>3, <3>4, <1>1, <1>2, <1>3
    <2>4. CASE q # p
      <3>1. Logging(q) /\ answer'[q] = answer[q] /\ answer[q].access \in Pairs
          BY <2>1, <2>2, <2>4
      <3>2. \A o \in Procs: Logging(o)' /\ o # q => answer'[o].access # answer[q].access
          BY <2>1, <3>1, <1>1, <1>2, <1>3 DEF LoginInv
      <3> QED
          BY <3>1, <3>2, <1>1, <1>2 DEF LoginInv
    <2> QED
        BY <2>3, <2>4
  <1>8. StoredPairUsable'
      BY <1>1, <1>3 DEF StoredPairUsable
  <1> QED
      BY <1>4, <1>5, <1>6, <1>7, <1>8

\* What a login saves is live, and belongs to no other login.
LEMMA StoreLoginKeepsSafety ==
  ASSUME SafetyInv, TypeInv', LockExcludes', NEW p \in Procs, StoreLogin(p)
  PROVE  SafetyInv'
  <1> USE DEF SafetyInv
  <1>1. /\ kind[p] = "login" /\ pc[p] = "locked" /\ pc' = [pc EXCEPT ![p] = "done"]
        /\ store' \in {store, answer[p]}
        /\ UNCHANGED <<root, spent, kind, held, answer, stranded>>
      BY DEF StoreLogin
  <1>2. Pairs' = Pairs /\ Logging(p)
      BY <1>1 DEF Pairs, Logging
  <1>3. \A q \in Procs: ~Refreshing(q) /\ ~Refreshing(q)'
      BY <1>1 DEF LockExcludes, InLock, Refreshing, TypeInv, TypeOK
  <1>4. StoreInv' /\ RootInv'
      BY <1>1, <1>2 DEF StoreInv, RootInv, LoginInv, NoPair
  <1>5. FlightInv' /\ AnswerInv'
      BY <1>3 DEF FlightInv, AnswerInv, Refreshing
  <1>6. \A q \in Procs: Logging(q)' => Logging(q) /\ q # p
      BY <1>1 DEF Logging, TypeInv, TypeOK
  <1>7. LoginInv'
      BY <1>1, <1>2, <1>6 DEF LoginInv
  <1>8. StoredPairUsable'
      BY <1>1, <1>2, <1>3 DEF StoredPairUsable, LoginInv, Refreshing
  <1> QED
      BY <1>4, <1>5, <1>7, <1>8

LEMMA DeleteStoredKeepsSafety ==
  ASSUME SafetyInv, TypeInv', LockExcludes', NEW p \in Procs, DeleteStored(p)
  PROVE  SafetyInv'
  <1> USE DEF SafetyInv
  <1>1. /\ pc[p] = "locked" /\ pc' = [pc EXCEPT ![p] = "done"] /\ kind[p] = "logout"
        /\ store' \in {store, NoPair}
        /\ UNCHANGED <<root, spent, kind, held, answer, stranded>>
      BY DEF DeleteStored
  <1>2. Pairs' = Pairs /\ NoToken \notin Pairs
      BY <1>1, EmptyIsNoPair DEF Pairs
  <1>3. \A q \in Procs: ~Refreshing(q) /\ ~Refreshing(q)'
      BY <1>1 DEF LockExcludes, InLock, Refreshing, TypeInv, TypeOK
  <1>4. StoreInv' /\ RootInv'
      BY <1>1, <1>2 DEF StoreInv, RootInv, NoPair
  <1>5. FlightInv' /\ AnswerInv'
      BY <1>3 DEF FlightInv, AnswerInv, Refreshing
  <1>6. LoginInv'
      BY <1>1, <1>2 DEF LoginInv, Logging, NoPair, TypeInv, TypeOK
  <1>7. StoredPairUsable'
      BY <1>1, <1>2, <1>3 DEF StoredPairUsable, NoPair, Refreshing, TypeInv, TypeOK
  <1> QED
      BY <1>4, <1>5, <1>6, <1>7

LEMMA SafetyNext ==
  ASSUME BareLogins = FALSE, SafetyInv, [Next]_vars
  PROVE  SafetyInv'
  <1>1. TypeInv' /\ LockExcludes'
      BY TypeNext, LockNext DEF SafetyInv
  <1> QED
      BY <1>1, StepKinds, QuietKeepsSafety, LeaveKeepsSafety, MustRefreshKeepsSafety,
         TaigaRefreshesKeepsSafety, SaveRefreshedKeepsSafety, AuthenticateKeepsSafety,
         StoreLoginKeepsSafety, DeleteStoredKeepsSafety
      DEF SafetyInv, Writes

\* With every login storing a refresh token, the saved credential stays usable
\* whatever crashes, interrupts or losses happen, save for one whose answer
\* was lost.
THEOREM StoredPairStaysUsable ==
  ASSUME BareLogins = FALSE PROVE Spec => []StoredPairUsable
  <1>1. SafetyInv => StoredPairUsable
      BY DEF SafetyInv
  <1> QED
      BY <1>1, SafetyInit, SafetyNext, PTL DEF Spec

\* Under the same assumption no command sends Taiga a refresh token another
\* has spent: it sends what is stored, and only it can be spending that.
THEOREM NoRefreshIsWasted ==
  ASSUME BareLogins = FALSE PROVE Spec => []NoWastedRefresh
  <1>1. SafetyInv => NoWastedRefresh
    <2> SUFFICES ASSUME SafetyInv, NEW p \in Procs, pc[p] = "post", held[p].refresh \in spent
                 PROVE  held[p].refresh \in stranded
        BY DEF NoWastedRefresh
    <2>1. held[p] = store /\ lock = p
        BY DEF SafetyInv, FlightInv, Refreshing, LockExcludes, InLock
    <2> QED
        BY <2>1 DEF SafetyInv, StoredPairUsable
  <1> QED
      BY <1>1, SafetyInit, SafetyNext, PTL DEF Spec

-----------------------------------------------------------------------------
(* One refresh for each expiry, when no answer is lost: a command refreshes *)
(* only the pair that is stored, and only after it was refused; the answer  *)
(* replaces it in the store before anybody else can look, and it never      *)
(* comes back.                                                             *)

\* The pairs Taiga issued for a refresh; the others began a session.
RefreshedPairs == {n \in Pairs: root[n] # n}

\* Who has in hand a pair to be saved: a login that waits, or the command whose
\* refresh was answered.
Bearer(p) == Logging(p) \/ pc[p] = "answered"

\* A command goes to refresh after it was refused, and once it has decided to,
\* the pair it was refused with is the stored one.
RefusedInv ==
  \A p \in Procs:
    /\ kind[p] = "use" /\ (pc[p] \in {"wait", "locked"} \/ Refreshing(p)) => held[p].access \in expired
    /\ Refreshing(p) => held[p].access = store.access

\* Whatever is in hand to be saved is neither stored already nor in another's.
BearerInv ==
  \A p \in Procs: Bearer(p) =>
    /\ answer[p].access \in Pairs
    /\ store.access # answer[p].access
    /\ \A q \in Procs: Bearer(q) /\ q # p => answer[q].access # answer[p].access

\* U holds the expired pairs that were exchanged for another: none of them is
\* stored, unless the answer is still in hand, or will be.
Exchanged(U) ==
  /\ Cardinality(RefreshedPairs) <= Cardinality(U)
  /\ store.access \in U => \E p \in Procs: pc[p] = "answered"
  /\ \A p \in Procs: Bearer(p) => answer[p].access \notin U

OnceInv == RootInv /\ RefusedInv /\ BearerInv /\ \E U \in SUBSET expired: Exchanged(U)

\* A step that reaches neither the store nor what is in hand.
LEMMA SameHands ==
  ASSUME OnceInv, UNCHANGED <<root, store, answer>>, expired \subseteq expired',
         \A q \in Procs: Bearer(q)' => Bearer(q),
         \A q \in Procs: pc[q] = "answered" => pc'[q] = "answered"
  PROVE  RootInv' /\ BearerInv' /\ \E U \in SUBSET expired': Exchanged(U)'
  <1>1. Pairs' = Pairs /\ RefreshedPairs' = RefreshedPairs
      BY DEF Pairs, RefreshedPairs
  <1>2. RootInv' /\ BearerInv'
      BY <1>1 DEF OnceInv, RootInv, BearerInv
  <1>3. PICK U \in SUBSET expired: Exchanged(U)
      BY DEF OnceInv
  <1>4. Exchanged(U)'
      BY <1>1, <1>3 DEF Exchanged
  <1> QED
      BY <1>2, <1>3, <1>4

\* A new pair is in nobody's hands, nor stored, nor expired.
LEMMA NewPair ==
  ASSUME TypeInv, RootInv, NEW s \in Nat \ {0}, Issue(s)
  PROVE  /\ Len(root) + 1 \notin Pairs /\ Pairs' = Pairs \cup {Len(root) + 1}
         /\ \A n \in Pairs: root'[n] = root[n] /\ root[n] \in Pairs
         /\ root'[Len(root) + 1] = s
         /\ store.access # Len(root) + 1 /\ Len(root) + 1 \notin expired
         /\ IsFiniteSet(RefreshedPairs)
         /\ RefreshedPairs' = IF s = Len(root) + 1 THEN RefreshedPairs
                              ELSE RefreshedPairs \cup {Len(root) + 1}
  <1>1. /\ Len(root) \in Nat
        /\ Len(root') = Len(root) + 1
        /\ \A n \in Pairs: root'[n] = root[n]
        /\ root'[Len(root) + 1] = s
    <2>1. TypeOK /\ Len(root) \in Nat
        BY DEF TypeInv, TypeOK
    <2> QED
        BY <2>1, PairsGrow
  <1>2. Len(root) + 1 \notin Pairs /\ Pairs' = Pairs \cup {Len(root) + 1}
      BY <1>1 DEF Pairs
  <1>3. store.access # Len(root) + 1 /\ Len(root) + 1 \notin expired
      BY <1>1, <1>2, ConstantsAssumption DEF TypeInv, TypeOK, Tokens
  <1>4. IsFiniteSet(RefreshedPairs)
    <2>1. IsFiniteSet(Pairs)
        BY <1>1, FS_Interval DEF Pairs
    <2> QED
        BY <2>1, FS_Subset DEF RefreshedPairs
  <1>5. RefreshedPairs' = IF s = Len(root) + 1 THEN RefreshedPairs
                          ELSE RefreshedPairs \cup {Len(root) + 1}
      BY <1>1, <1>2 DEF RefreshedPairs
  <1> QED
      BY <1>1, <1>2, <1>3, <1>4, <1>5 DEF RootInv

LEMMA OnceInit == Init => OnceInv
  <1> SUFFICES ASSUME Init PROVE OnceInv
      OBVIOUS
  <1>1. Pairs = {1} /\ root[1] = 1
      BY DEF Init, Pairs
  <1>2. RefreshedPairs = {}
      BY <1>1 DEF RefreshedPairs
  <1>3. Exchanged({})
      BY <1>2, FS_EmptySet DEF Exchanged
  <1>4. RootInv /\ RefusedInv /\ BearerInv
      BY <1>1 DEF Init, RootInv, RefusedInv, BearerInv, Refreshing, Bearer, Logging
  <1> QED
      BY <1>3, <1>4 DEF OnceInv

\* What is exchanged is the stored pair, whose access token had expired and was
\* not exchanged before.
LEMMA TaigaRefreshesOnce ==
  ASSUME TypeInv, LockExcludes, OnceInv, NEW p \in Procs, TaigaRefreshes(p)
  PROVE  OnceInv'
  <1> USE DEF TypeInv, TypeOK
  <1> DEFINE new == Len(root) + 1
  <1>1. /\ pc[p] = "post" /\ kind[p] = "use" /\ held[p].refresh \in Pairs
        /\ pc' = [pc EXCEPT ![p] = "answered"]
        /\ UNCHANGED <<expired, store, lock, kind, held>>
        /\ held[p].access \in expired /\ store.access = held[p].access
      BY DEF TaigaRefreshes, Stages, OnceInv, RefusedInv, Refreshing
  <1>2. Issue(root[held[p].refresh]) /\ root[held[p].refresh] \in Pairs /\ root[held[p].refresh] \in Nat \ {0}
      BY <1>1 DEF TaigaRefreshes, OnceInv, RootInv, Pairs
  <1>3. /\ new \notin Pairs /\ Pairs' = Pairs \cup {new}
        /\ \A n \in Pairs: root'[n] = root[n] /\ root[n] \in Pairs
        /\ root'[new] = root[held[p].refresh]
        /\ store.access # new /\ new \notin expired /\ IsFiniteSet(RefreshedPairs)
        /\ RefreshedPairs' = RefreshedPairs \cup {new}
      BY <1>2, NewPair DEF OnceInv
  <1>4. answer'[p].access = new /\ \A q \in Procs \ {p}: answer'[q] = answer[q]
      BY DEF TaigaRefreshes
  <1>5. \A q \in Procs \ {p}: ~Refreshing(q) /\ pc'[q] = pc[q] /\ (Bearer(q)' <=> Bearer(q))
      BY <1>1 DEF LockExcludes, InLock, Refreshing, Bearer, Logging
  <1>6. RootInv'
      BY <1>2, <1>3 DEF RootInv
  <1>7. RefusedInv'
      BY <1>1, <1>5 DEF OnceInv, RefusedInv, Refreshing
  <1>8. BearerInv'
    <2>1. \A q \in Procs \ {p}: Bearer(q)' => answer'[q].access # new
        BY <1>3, <1>4, <1>5 DEF OnceInv, BearerInv
    <2>2. ASSUME NEW q \in Procs, Bearer(q)'
          PROVE  /\ answer'[q].access \in Pairs'
                 /\ store'.access # answer'[q].access
                 /\ \A o \in Procs: Bearer(o)' /\ o # q => answer'[o].access # answer'[q].access
      <3>1. CASE q = p
          BY <1>1, <1>3, <1>4, <2>1, <2>2, <3>1
      <3>2. CASE q # p
        <4>1. Bearer(q) /\ answer'[q] = answer[q] /\ answer'[q].access # new
            BY <1>1, <1>3, <1>4, <1>5, <2>1, <2>2, <3>2
        <4>2. /\ answer[q].access \in Pairs' /\ store.access # answer[q].access
              /\ \A o \in Procs: Bearer(o) /\ o # q => answer[o].access # answer[q].access
            BY <4>1, <1>3, <1>4, <1>5 DEF OnceInv, BearerInv
        <4> QED
            BY <1>1, <1>3, <1>4, <1>5, <4>1, <4>2
      <3> QED
          BY <3>1, <3>2
    <2> QED
        BY <2>2 DEF BearerInv
  <1>9. PICK U \in SUBSET expired: Exchanged(U)
      BY DEF OnceInv
  <1>10. Exchanged(U \cup {store.access})'
    <2>1. store.access \notin U
        BY <1>1, <1>5, <1>9 DEF Exchanged, Refreshing
    <2>2. IsFiniteSet(U)
      <3>1. IsFiniteSet(Pairs)
          BY FS_Interval DEF Pairs
      <3> QED
          BY <3>1, FS_Subset
    <2>3. Cardinality(U \cup {store.access}) = Cardinality(U) + 1 /\ Cardinality(U) \in Nat
        BY <2>1, <2>2, FS_AddElement, FS_CardinalityType
    <2>4. Cardinality(RefreshedPairs') <= Cardinality(RefreshedPairs) + 1
          /\ Cardinality(RefreshedPairs) \in Nat
      <3>1. /\ Cardinality(RefreshedPairs) \in Nat
            /\ Cardinality(RefreshedPairs \cup {new}) =
                 IF new \in RefreshedPairs THEN Cardinality(RefreshedPairs) ELSE Cardinality(RefreshedPairs) + 1
          BY <1>3, FS_AddElement, FS_CardinalityType
      <3> QED
          BY <1>3, <3>1
    <2>5. Cardinality(RefreshedPairs') \in Nat
        BY <1>3, FS_AddElement, FS_CardinalityType
    <2>6. Cardinality(RefreshedPairs') <= Cardinality(U \cup {store.access})
        BY <1>9, <2>3, <2>4, <2>5 DEF Exchanged
    <2>7. pc'[p] = "answered"
        BY <1>1
    <2>8. ASSUME NEW q \in Procs, Bearer(q)'
          PROVE  answer'[q].access \notin U \cup {store.access}
      <3>1. CASE q = p
          BY <1>3, <1>4, <3>1
      <3>2. CASE q # p
          BY <1>4, <1>5, <1>9, <2>8, <3>2 DEF Exchanged, OnceInv, BearerInv
      <3> QED
          BY <3>1, <3>2
    <2> QED
        BY <1>1, <2>6, <2>7, <2>8 DEF Exchanged
  <1> QED
      BY <1>1, <1>6, <1>7, <1>8, <1>9, <1>10 DEF OnceInv

\* The store takes what its one writer has in hand, or nothing.
LEMMA SavesOnce ==
  ASSUME TypeInv, LockExcludes, OnceInv, NEW p \in Procs,
         SaveRefreshed(p) \/ StoreLogin(p) \/ DeleteStored(p)
  PROVE  OnceInv'
  <1> USE DEF TypeInv, TypeOK
  <1>1. /\ InLock(p) /\ UNCHANGED <<root, expired, kind, answer>>
        /\ pc' \in {[pc EXCEPT ![p] = "send"], [pc EXCEPT ![p] = "done"]}
        /\ \A q \in Procs \ {p}: held'[q] = held[q]
        /\ \/ store'.access = answer[p].access /\ Bearer(p)
           \/ store'.access = NoToken
           \/ store' = store /\ pc[p] # "answered"
      BY DEF SaveRefreshed, StoreLogin, DeleteStored, InLock, KeepRefresh, NoPair, Bearer, Logging
  <1>2. Pairs' = Pairs /\ RefreshedPairs' = RefreshedPairs /\ NoToken \notin Pairs
      BY <1>1, EmptyIsNoPair DEF Pairs, RefreshedPairs
  <1>3. \A q \in Procs \ {p}: ~Refreshing(q) /\ pc[q] # "answered" /\ pc'[q] = pc[q]
      BY <1>1 DEF LockExcludes, InLock, Refreshing
  <1>4. /\ ~Bearer(p)' /\ \A q \in Procs \ {p}: Bearer(q)' <=> Bearer(q)
        /\ pc'[p] \in {"send", "done"}
      BY <1>1 DEF Bearer, Logging
  <1>5. RootInv'
      BY <1>1, <1>2 DEF OnceInv, RootInv
  <1>6. RefusedInv'
      BY <1>1, <1>3, <1>4 DEF OnceInv, RefusedInv, Refreshing
  <1>7. BearerInv'
      BY <1>1, <1>2, <1>4 DEF OnceInv, BearerInv
  <1>8. PICK U \in SUBSET expired: Exchanged(U)
      BY DEF OnceInv
  <1>9. Exchanged(U)'
      BY <1>1, <1>2, <1>3, <1>4, <1>8 DEF Exchanged
  <1> QED
      BY <1>1, <1>5, <1>6, <1>7, <1>8, <1>9 DEF OnceInv

LEMMA AuthenticateOnce ==
  ASSUME TypeInv, LockExcludes, OnceInv, NEW p \in Procs, Authenticate(p)
  PROVE  OnceInv'
  <1> USE DEF TypeInv, TypeOK
  <1> DEFINE new == Len(root) + 1
  <1>1. /\ kind[p] = "login" /\ pc[p] = "start" /\ pc' = [pc EXCEPT ![p] = "wait"]
        /\ Issue(new) /\ new \in Nat \ {0}
        /\ answer'[p].access = new /\ \A q \in Procs \ {p}: answer'[q] = answer[q]
        /\ UNCHANGED <<expired, store, lock, kind, held>>
      BY DEF Authenticate
  <1>2. /\ new \notin Pairs /\ Pairs' = Pairs \cup {new}
        /\ \A n \in Pairs: root'[n] = root[n] /\ root[n] \in Pairs
        /\ root'[new] = new
        /\ store.access # new /\ new \notin expired
        /\ RefreshedPairs' = RefreshedPairs
      BY <1>1, NewPair DEF OnceInv
  <1>3. \A q \in Procs \ {p}: Bearer(q)' <=> Bearer(q)
      BY <1>1 DEF Bearer, Logging
  <1>4. RootInv' /\ RefusedInv'
      BY <1>1, <1>2 DEF OnceInv, RootInv, RefusedInv, Refreshing
  <1>5. BearerInv'
    <2>1. \A q \in Procs \ {p}: Bearer(q)' => answer'[q].access # new
        BY <1>1, <1>2, <1>3 DEF OnceInv, BearerInv
    <2>2. ASSUME NEW q \in Procs, Bearer(q)'
          PROVE  /\ answer'[q].access \in Pairs'
                 /\ store'.access # answer'[q].access
                 /\ \A o \in Procs: Bearer(o)' /\ o # q => answer'[o].access # answer'[q].access
      <3>1. CASE q = p
          BY <1>1, <1>1, <1>2, <2>1, <2>2, <3>1
      <3>2. CASE q # p
        <4>1. Bearer(q) /\ answer'[q] = answer[q] /\ answer'[q].access # new
            BY <1>1, <1>2, <1>3, <2>1, <2>2, <3>2
        <4>2. /\ answer[q].access \in Pairs' /\ store.access # answer[q].access
              /\ \A o \in Procs: Bearer(o) /\ o # q => answer[o].access # answer[q].access
            BY <4>1, <1>2, <1>3 DEF OnceInv, BearerInv
        <4> QED
            BY <1>1, <1>2, <1>3, <4>1, <4>2
      <3> QED
          BY <3>1, <3>2
    <2> QED
        BY <2>2 DEF BearerInv
  <1>6. PICK U \in SUBSET expired: Exchanged(U)
      BY DEF OnceInv
  <1>7. Exchanged(U)'
      BY <1>1, <1>2, <1>3, <1>6 DEF Exchanged
  <1> QED
      BY <1>1, <1>4, <1>5, <1>6, <1>7 DEF OnceInv

LEMMA OnceNext ==
  ASSUME Faults = {}, TypeInv, LockExcludes, OnceInv, [Next]_vars
  PROVE  OnceInv'
  <1> USE DEF TypeInv, TypeOK, Bearer, Logging, RefusedInv, Refreshing
  <1>1. RefusedInv
      BY DEF OnceInv
  <1>2. ASSUME NEW p \in Procs,
               Resolve(p) \/ Accepted(p) \/ Rejected(p) \/ Acquire(p) \/ BeginLogout(p)
        PROVE  OnceInv'
    <2>1. RefusedInv'
        BY <1>1, <1>2 DEF Resolve, Accepted, Rejected, Acquire, BeginLogout
    <2>2. /\ UNCHANGED <<root, store, answer>> /\ expired' = expired
          /\ \A q \in Procs: Bearer(q)' => Bearer(q)
          /\ \A q \in Procs: pc[q] = "answered" => pc'[q] = "answered"
        BY <1>2 DEF Resolve, Accepted, Rejected, Acquire, BeginLogout, Stages
    <2> QED
        BY <2>1, <2>2, SameHands DEF OnceInv
  <1>3. ASSUME NEW p \in Procs,
               FindRemoved(p) \/ Adopt(p) \/ MustRefresh(p) \/ TaigaRefuses(p) \/ ReportRefused(p)
        PROVE  OnceInv'
    <2>1. RefusedInv'
        BY <1>1, <1>3 DEF FindRemoved, Adopt, MustRefresh, TaigaRefuses, ReportRefused, KeepRefresh
    <2> QED
        BY <1>3, <2>1, SameHands
        DEF FindRemoved, Adopt, MustRefresh, TaigaRefuses, ReportRefused, OnceInv
  <1>4. ASSUME \/ \E n \in Pairs: Expire(n)
               \/ UNCHANGED vars
        PROVE  OnceInv'
    <2>1. RefusedInv'
        BY <1>1, <1>4 DEF Expire, vars
    <2> QED
        BY <1>4, <2>1, SameHands DEF Expire, vars, OnceInv
  <1>5. \A p \in Procs: ~SaveFails(p) /\ ~RefreshUnanswered(p) /\ ~Interrupt(p) /\ ~Crash(p)
      BY DEF SaveFails, RefreshUnanswered, Interrupt, Crash
  <1> QED
      BY <1>2, <1>3, <1>4, <1>5, TaigaRefreshesOnce, SavesOnce, AuthenticateOnce
      DEF Next, Step, Use, LoginOrLogout, AllDone

\* However many commands meet an expired token, and whatever logins and logouts
\* come between, Taiga is asked for a pair once for each expiry, when no answer
\* is lost on the way.
THEOREM EachExpiryRefreshedOnce ==
  ASSUME Faults = {} PROVE Spec => []OneRefreshPerExpiry
  <1>1. TypeInv /\ OnceInv => OneRefreshPerExpiry
    <2> SUFFICES ASSUME TypeInv, OnceInv PROVE OneRefreshPerExpiry
        OBVIOUS
    <2>1. PICK U \in SUBSET expired: Exchanged(U)
        BY DEF OnceInv
    <2>2. IsFiniteSet(Pairs)
        BY FS_Interval DEF Pairs, TypeInv, TypeOK
    <2>3. IsFiniteSet(expired) /\ IsFiniteSet(RefreshedPairs)
        BY <2>2, FS_Subset DEF TypeInv, TypeOK, RefreshedPairs
    <2>4. Cardinality(U) <= Cardinality(expired)
        BY <2>3, FS_Subset
    <2>5. IsFiniteSet(U)
        BY <2>3, FS_Subset
    <2>6. /\ Cardinality(U) \in Nat /\ Cardinality(expired) \in Nat
          /\ Cardinality(RefreshedPairs) \in Nat
        BY <2>3, <2>5, FS_CardinalityType
    <2> QED
        BY <2>1, <2>4, <2>6 DEF Exchanged, OneRefreshPerExpiry, RefreshedPairs
  <1> QED
      BY <1>1, TypeInit, TypeNext, LockInit, LockNext, OnceInit, OnceNext, PTL DEF Spec

-----------------------------------------------------------------------------
(* No command is left without its credential: with no fault and no logout, *)
(* what it resolves, adopts or is answered is stored and live, and what it *)
(* sends again with has not expired, when one pair at most does.           *)

OnePairExpires == \A m, n \in Expiring: m = n

\* A command goes on with a credential that can be refreshed, refreshed or
\* adopted after the one expiry there is, and Taiga refuses none.
GoesOn ==
  \A p \in Procs:
    /\ kind[p] = "use" /\ pc[p] \notin {"start", "done"} => store # NoPair /\ held[p].refresh \in Pairs
    /\ refreshed[p] /\ pc[p] = "send" => expired # {} /\ held[p].access \notin expired
    /\ pc[p] = "start" => ~refreshed[p]
    /\ pc[p] # "refused"

CalmInv == stranded = {} /\ expired \subseteq Expiring /\ NoCommandIsStranded /\ GoesOn

LEMMA CalmInit == Init => CalmInv
  BY DEF Init, CalmInv, NoCommandIsStranded, GoesOn

LEMMA CalmNext ==
  ASSUME Faults = {}, BareLogins = FALSE, "logout" \notin Kinds, OnePairExpires,
         SafetyInv, OnceInv, CalmInv, [Next]_vars
  PROVE  CalmInv'
  <1> USE DEF CalmInv, NoCommandIsStranded, GoesOn, SafetyInv, TypeInv, TypeOK
  <1>1. NoToken \notin Pairs
      BY EmptyIsNoPair
  <1>2. ASSUME NEW p \in Procs, Resolve(p) PROVE CalmInv'
    <2>1. store # NoPair => store.refresh \in Pairs
        BY DEF StoreInv
    <2> QED
        BY <1>2, <2>1, PairsStay DEF Resolve
  <1>3. ASSUME NEW p \in Procs, Accepted(p) PROVE CalmInv'
      BY <1>3, PairsStay DEF Accepted, Stages
  <1>4. ASSUME NEW p \in Procs, Rejected(p) PROVE CalmInv'
    <2>1. /\ kind[p] = "use" /\ ~refreshed[p] /\ held[p].refresh # NoToken
        BY <1>1, <1>4 DEF Rejected, Stages
    <2> QED
        BY <1>4, <2>1, PairsStay DEF Rejected
  <1>5. ASSUME NEW p \in Procs, Acquire(p) PROVE CalmInv'
      BY <1>5, PairsStay DEF Acquire
  <1>6. ASSUME NEW p \in Procs, FindRemoved(p) PROVE FALSE
      BY <1>6 DEF FindRemoved
  <1>7. ASSUME NEW p \in Procs, Adopt(p) PROVE CalmInv'
    <2>1. /\ kind[p] = "use" /\ pc[p] = "locked" /\ store # NoPair /\ store.access # held[p].access
          /\ held' = [held EXCEPT ![p] = KeepRefresh(held[p], store)]
          /\ UNCHANGED <<root, expired, store, kind, result, stranded>>
          /\ pc' = [pc EXCEPT ![p] = "send"] /\ refreshed' = [refreshed EXCEPT ![p] = TRUE]
        BY <1>7 DEF Adopt
    <2>2. KeepRefresh(held[p], store).refresh \in Pairs /\ KeepRefresh(held[p], store).access = store.access
        BY <1>1, <2>1 DEF StoreInv, KeepRefresh
    <2>3. held[p].access \in expired
        BY <2>1 DEF OnceInv, RefusedInv
    <2>4. store.access \notin expired
        BY <2>1, <2>3 DEF OnePairExpires
    <2> QED
        BY <2>1, <2>2, <2>3, <2>4, PairsStay
  <1>8. ASSUME NEW p \in Procs, MustRefresh(p) PROVE CalmInv'
    <2>1. KeepRefresh(held[p], store).refresh \in Pairs
        BY <1>1, <1>8 DEF MustRefresh, StoreInv, KeepRefresh
    <2> QED
        BY <1>8, <2>1, PairsStay DEF MustRefresh
  <1>9. ASSUME NEW p \in Procs, TaigaRefreshes(p) PROVE CalmInv'
    <2>1. Pairs \subseteq Pairs'
      <3>1. Issue(root[held[p].refresh]) /\ root[held[p].refresh] \in Nat \ {0}
          BY <1>9 DEF TaigaRefreshes, Stages, Pairs
      <3> QED
          BY <3>1, PairsGrow
    <2> QED
        BY <1>9, <2>1 DEF TaigaRefreshes
  <1>10. ASSUME NEW p \in Procs, TaigaRefuses(p) PROVE FALSE
    <2>1. lock = p /\ held[p] = store /\ store.refresh \in spent /\ pc[p] = "post"
        BY <1>10 DEF TaigaRefuses, LockExcludes, InLock, FlightInv, Refreshing
    <2> QED
        BY <2>1 DEF StoredPairUsable
  <1>11. ASSUME NEW p \in Procs, ReportRefused(p) PROVE FALSE
      BY <1>11 DEF ReportRefused
  <1>12. ASSUME NEW p \in Procs, SaveRefreshed(p) PROVE CalmInv'
    <2>1. /\ kind[p] = "use" /\ pc[p] = "answered"
          /\ held' = [held EXCEPT ![p] = KeepRefresh(held[p], answer[p])]
          /\ store' = KeepRefresh(held[p], answer[p])
          /\ UNCHANGED <<root, expired, kind, result, stranded>>
          /\ pc' = [pc EXCEPT ![p] = "send"] /\ refreshed' = [refreshed EXCEPT ![p] = TRUE]
        BY <1>12 DEF SaveRefreshed
    <2>2. answer[p].access \in Pairs /\ answer[p].refresh \in {NoToken, answer[p].access}
        BY <2>1 DEF AnswerInv
    <2>3. /\ KeepRefresh(held[p], answer[p]).refresh \in Pairs
          /\ KeepRefresh(held[p], answer[p]).access = answer[p].access
        BY <1>1, <2>1, <2>2 DEF KeepRefresh
    <2>4. KeepRefresh(held[p], answer[p]) # NoPair
        BY <1>1, <2>2, <2>3 DEF NoPair
    <2>5. held[p].access \in expired /\ answer[p].access # held[p].access
        BY <2>1 DEF OnceInv, RefusedInv, BearerInv, Refreshing, Bearer
    <2>6. answer[p].access \notin expired
        BY <2>5 DEF OnePairExpires
    <2> QED
        BY <2>1, <2>3, <2>4, <2>5, <2>6, PairsStay
  <1>13. ASSUME NEW p \in Procs, Authenticate(p) PROVE CalmInv'
    <2>1. Pairs \subseteq Pairs'
      <3>1. Issue(Len(root) + 1) /\ Len(root) + 1 \in Nat \ {0}
          BY <1>13 DEF Authenticate
      <3> QED
          BY <3>1, PairsGrow
    <2> QED
        BY <1>13, <2>1 DEF Authenticate
  <1>14. ASSUME NEW p \in Procs, StoreLogin(p) PROVE CalmInv'
    <2>1. answer[p] # NoPair
        BY <1>1, <1>14 DEF StoreLogin, LoginInv, Logging, NoPair
    <2> QED
        BY <1>14, <2>1, PairsStay DEF StoreLogin
  <1>15. ASSUME NEW p \in Procs, BeginLogout(p) \/ DeleteStored(p) PROVE FALSE
      BY <1>15 DEF BeginLogout, DeleteStored
  <1>16. ASSUME NEW n \in Pairs, Expire(n) PROVE CalmInv'
    <2>1. n \in Expiring /\ n \notin expired /\ expired' = expired \cup {n}
        BY <1>16 DEF Expire
    <2>2. \A p \in Procs: ~(refreshed[p] /\ pc[p] = "send")
        BY <2>1 DEF OnePairExpires
    <2> QED
        BY <1>16, <2>1, <2>2, PairsStay DEF Expire
  <1>17. ASSUME UNCHANGED vars PROVE CalmInv'
      BY <1>17, PairsStay DEF vars
  <1>18. \A p \in Procs: ~SaveFails(p) /\ ~RefreshUnanswered(p) /\ ~Interrupt(p) /\ ~Crash(p)
      BY DEF SaveFails, RefreshUnanswered, Interrupt, Crash
  <1> QED
      BY <1>2, <1>3, <1>4, <1>5, <1>6, <1>7, <1>8, <1>9, <1>10, <1>11, <1>12, <1>13, <1>14,
         <1>15, <1>16, <1>17, <1>18
      DEF Next, Step, Use, LoginOrLogout, AllDone

\* Commands that meet an expired token at the same moment, beside any logins,
\* all succeed: none is told that its credential is refused or gone.  A second
\* expiry before the request is sent again would be reported, which is why one
\* pair at most expires.
THEOREM NobodyIsStranded ==
  ASSUME Faults = {}, BareLogins = FALSE, "logout" \notin Kinds, OnePairExpires
  PROVE  Spec => []NoCommandIsStranded
  <1>1. SafetyInv => TypeInv /\ LockExcludes
      BY DEF SafetyInv
  <1>2. CalmInv => NoCommandIsStranded
      BY DEF CalmInv
  <1> QED
      BY <1>1, <1>2, SafetyInit, SafetyNext, OnceInit, OnceNext, CalmInit, CalmNext, PTL DEF Spec

-----------------------------------------------------------------------------
(* The refinement: what SavedLogin sees of a step.                         *)

Begun == {root[n]: n \in Pairs}
Waiting == {answer[p].access: p \in {q \in Procs: kind[q] = "login" /\ pc[q] \in {"wait", "locked"}}}

SavedStep ==
  Saved!Begin \/ Saved!Install \/ Saved!Abandon \/ Saved!Logout
     \/ UNCHANGED <<SavedSession, Begun, Waiting>>

\* When nothing Taiga knows and no waiting login changes, neither does what is begun
\* or pending.
LEMMA SameBegun ==
  ASSUME UNCHANGED <<root, answer>>, \A q \in Procs: Logging(q)' <=> Logging(q)
  PROVE  Begun' = Begun /\ Waiting' = Waiting
  BY DEF Begun, Waiting, Pairs, Logging

\* A login that ends takes its session, and only that one, out of the pending ones.
LEMMA LoginEnds ==
  ASSUME SafetyInv, NEW p \in Procs, Logging(p),
         UNCHANGED <<root, answer, kind>>, pc' = [pc EXCEPT ![p] = "done"]
  PROVE  /\ Begun' = Begun
         /\ answer[p].access \in Waiting
         /\ Waiting' = Waiting \ {answer[p].access}
  <1>1. Begun' = Begun /\ answer[p].access \in Waiting
      BY DEF Begun, Waiting, Pairs, Logging
  <1>2. \A q \in Procs: Logging(q)' <=> Logging(q) /\ q # p
      BY DEF Logging, SafetyInv, TypeInv, TypeOK
  <1>3. \A q \in Procs: Logging(q) /\ q # p => answer[q].access # answer[p].access
      BY DEF SafetyInv, LoginInv
  <1>4. Waiting = {answer[q].access: q \in {o \in Procs: Logging(o)}}
      BY DEF Waiting, Logging
  <1>5. Waiting' = {answer[q].access: q \in {o \in Procs: Logging(o)'}}
      BY DEF Waiting, Logging
  <1> QED
      BY <1>1, <1>2, <1>3, <1>4, <1>5

LEMMA SavedInitial == Init => Saved!SavedInit
  <1> SUFFICES ASSUME Init PROVE Saved!SavedInit
      OBVIOUS
  <1>1. Pairs = {1} /\ root[1] = 1
      BY DEF Init, Pairs
  <1>2. SavedSession \in {1, NoToken}
      BY <1>1 DEF Init, SavedSession, NoPair
  <1>3. \A p \in Procs: pc[p] = "start"
      BY DEF Init
  <1> QED
      BY <1>1, <1>2, <1>3 DEF Saved!SavedInit

LEMMA StepIsSaved ==
  ASSUME BareLogins = FALSE, SafetyInv, SafetyInv', [Next]_vars
  PROVE  SavedStep
  <1> USE DEF SafetyInv
  <1>1. CASE Quiet
      BY <1>1, SameBegun DEF Quiet, SavedSession, SavedStep, NoPair
  <1>2. ASSUME NEW p \in Procs, Leave(p) PROVE SavedStep
    <2>1. SavedSession' = SavedSession
        BY <1>2 DEF Leave, SavedSession, NoPair
    <2>2. CASE Logging(p)
      <3>1. Begun' = Begun /\ answer[p].access \in Waiting /\ Waiting' = Waiting \ {answer[p].access}
          BY <1>2, <2>2, LoginEnds DEF Leave
      <3> QED
          BY <2>1, <3>1 DEF SavedStep, Saved!Abandon, Begun, Waiting
    <2>3. CASE ~Logging(p)
      <3>1. \A q \in Procs: Logging(q)' <=> Logging(q)
          BY <1>2, <2>3 DEF Leave, Logging, TypeInv, TypeOK
      <3> QED
          BY <1>2, <2>1, <3>1, SameBegun DEF Leave, SavedStep
    <2> QED
        BY <2>2, <2>3
  <1>3. ASSUME NEW p \in Procs, MustRefresh(p) PROVE SavedStep
    <2>1. \A q \in Procs: Logging(q)' <=> Logging(q)
        BY <1>3 DEF MustRefresh, Logging, TypeInv, TypeOK
    <2> QED
        BY <1>3, <2>1, SameBegun DEF MustRefresh, SavedSession, SavedStep, NoPair
  <1>4. ASSUME NEW p \in Procs, TaigaRefreshes(p) PROVE SavedStep
    <2>1. /\ kind[p] = "use" /\ held[p] = store /\ store # NoPair
          /\ store.access \in Pairs /\ store.refresh \in Pairs
        BY <1>4 DEF TaigaRefreshes, FlightInv, Refreshing, StoreInv, TypeInv, Stages
    <2>2. /\ Issue(root[store.refresh]) /\ UNCHANGED <<store, kind>>
          /\ pc' = [pc EXCEPT ![p] = "answered"]
          /\ \A q \in Procs \ {p}: answer'[q] = answer[q]
        BY <1>4, <2>1 DEF TaigaRefreshes, TypeInv, TypeOK
    <2>3. Len(root) \in Nat /\ root[store.refresh] \in Nat \ {0}
        BY <2>1 DEF TypeInv, TypeOK, Pairs
    <2>4. /\ Pairs' = Pairs \cup {Len(root) + 1}
          /\ \A n \in Pairs: root'[n] = root[n]
          /\ root'[Len(root) + 1] = root[store.refresh]
      <3>1. /\ Len(root') = Len(root) + 1
            /\ \A n \in Pairs: root'[n] = root[n]
            /\ root'[Len(root) + 1] = root[store.refresh]
          BY <2>2, <2>3, PairsGrow DEF TypeInv
      <3> QED
          BY <2>3, <3>1 DEF Pairs
    <2>5. Begun' = Begun
        BY <2>1, <2>4 DEF Begun
    <2>6. SavedSession' = SavedSession
        BY <2>1, <2>2, <2>4 DEF SavedSession, NoPair
    <2>7. \A q \in Procs: (Logging(q)' <=> Logging(q)) /\ (Logging(q) => q # p)
        BY <2>1, <2>2 DEF Logging, TypeInv, TypeOK
    <2>8. Waiting' = Waiting
        BY <2>2, <2>7 DEF Waiting, Logging
    <2> QED
        BY <2>5, <2>6, <2>8 DEF SavedStep
  <1>5. ASSUME NEW p \in Procs, SaveRefreshed(p) PROVE SavedStep
    <2>1. /\ kind[p] = "use" /\ UNCHANGED <<root, answer, kind>>
          /\ store' = KeepRefresh(held[p], answer[p]) /\ pc' = [pc EXCEPT ![p] = "send"]
          /\ store # NoPair /\ answer[p].access \in Pairs
          /\ root[answer[p].access] = root[store.access]
        BY <1>5 DEF SaveRefreshed, FlightInv, Refreshing, AnswerInv
    <2>2. store'.access = answer[p].access /\ store' # NoPair
        BY <2>1, EmptyIsNoPair DEF KeepRefresh, NoPair
    <2>3. SavedSession' = SavedSession
        BY <2>1, <2>2 DEF SavedSession, NoPair
    <2>4. \A q \in Procs: Logging(q)' <=> Logging(q)
        BY <2>1 DEF Logging, TypeInv, TypeOK
    <2> QED
        BY <2>1, <2>3, <2>4, SameBegun DEF SavedStep
  <1>6. ASSUME NEW p \in Procs, Authenticate(p) PROVE SavedStep
    <2> DEFINE new == Len(root) + 1
    <2>1. /\ kind[p] = "login" /\ pc[p] = "start" /\ pc' = [pc EXCEPT ![p] = "wait"]
          /\ answer' = [answer EXCEPT ![p] = [access |-> new, refresh |-> new]]
          /\ Issue(new) /\ UNCHANGED <<store, kind>>
        BY <1>6 DEF Authenticate
    <2>2. Len(root) \in Nat /\ new \in Nat \ {0} /\ new \notin Pairs
        BY DEF TypeInv, TypeOK, Pairs
    <2>3. /\ Pairs' = Pairs \cup {new}
          /\ \A n \in Pairs: root'[n] = root[n]
          /\ root'[new] = new
      <3>1. Len(root') = new /\ (\A n \in Pairs: root'[n] = root[n]) /\ root'[new] = new
          BY <2>1, <2>2, PairsGrow DEF TypeInv
      <3> QED
          BY <2>2, <3>1 DEF Pairs
    <2>4. Begun' = Begun \cup {new} /\ new \notin Begun
        BY <2>2, <2>3 DEF Begun, RootInv
    <2>5. SavedSession' = SavedSession
        BY <2>1, <2>3 DEF SavedSession, StoreInv, NoPair
    <2>6. Waiting' = Waiting \cup {new}
      <3>1. \A q \in Procs \ {p}: (Logging(q)' <=> Logging(q)) /\ answer'[q] = answer[q]
          BY <2>1 DEF Logging, TypeInv, TypeOK
      <3>2. Logging(p)' /\ ~Logging(p) /\ answer'[p].access = new
          BY <2>1 DEF Logging, TypeInv, TypeOK
      <3> QED
          BY <3>1, <3>2 DEF Waiting, Logging
    <2> QED
        BY <2>4, <2>5, <2>6 DEF SavedStep, Saved!Begin, Begun, Waiting
  <1>7. ASSUME NEW p \in Procs, StoreLogin(p) PROVE SavedStep
    <2>1. /\ Logging(p) /\ pc' = [pc EXCEPT ![p] = "done"]
          /\ store' \in {store, answer[p]} /\ UNCHANGED <<root, answer, kind>>
        BY <1>7 DEF StoreLogin, Logging
    <2>2. /\ Begun' = Begun /\ answer[p].access \in Waiting
          /\ Waiting' = Waiting \ {answer[p].access}
        BY <2>1, LoginEnds
    <2>3. CASE store' = store
      <3>1. SavedSession' = SavedSession
          BY <2>1, <2>3 DEF SavedSession, NoPair
      <3> QED
          BY <2>2, <3>1 DEF SavedStep, Saved!Abandon, Begun, Waiting
    <2>4. CASE store' = answer[p]
      <3>1. answer[p].access \in Pairs /\ root[answer[p].access] = answer[p].access
          BY <2>1 DEF LoginInv
      <3>2. SavedSession' = answer[p].access
          BY <2>1, <2>4, <3>1, EmptyIsNoPair DEF SavedSession, NoPair
      <3> QED
          BY <2>2, <3>2 DEF SavedStep, Saved!Install, Begun, Waiting
    <2> QED
        BY <2>1, <2>3, <2>4
  <1>8. ASSUME NEW p \in Procs, DeleteStored(p) PROVE SavedStep
    <2>1. /\ kind[p] = "logout" /\ pc' = [pc EXCEPT ![p] = "done"]
          /\ store' \in {store, NoPair} /\ UNCHANGED <<root, answer, kind>>
        BY <1>8 DEF DeleteStored
    <2>2. Begun' = Begun /\ Waiting' = Waiting
      <3>1. \A q \in Procs: Logging(q)' <=> Logging(q)
          BY <2>1 DEF Logging, TypeInv, TypeOK
      <3> QED
          BY <2>1, <3>1, SameBegun
    <2>3. SavedSession' = SavedSession \/ SavedSession' = NoToken
        BY <2>1 DEF SavedSession, NoPair
    <2> QED
        BY <2>2, <2>3 DEF SavedStep, Saved!Logout, Begun, Waiting
  <1> QED
      BY <1>1, <1>2, <1>3, <1>4, <1>5, <1>6, <1>7, <1>8, StepKinds DEF Writes

\* Seen from outside, with every login storing a refresh token, the commands
\* are a saved login that only `auth login` and `auth logout` change: a refresh
\* neither undoes a logout nor overwrites a login.
THEOREM RefreshIsInvisibleOutside ==
  ASSUME BareLogins = FALSE PROVE Spec => RefreshIsInvisible
  <1>1. SafetyInv /\ SafetyInv' /\ [Next]_vars =>
          [Saved!Begin \/ Saved!Install \/ Saved!Abandon \/ Saved!Logout]_<<SavedSession, Begun, Waiting>>
      BY StepIsSaved DEF SavedStep
  <1> QED
      BY <1>1, SavedInitial, SafetyInit, SafetyNext, PTL
      DEF Spec, RefreshIsInvisible, Saved!SavedSpec, Saved!savedVars, Begun, Waiting
===============================================================================
