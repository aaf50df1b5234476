-------------------------- MODULE CredentialRefresh --------------------------
(***************************************************************************)
(* Commands of one user running as separate processes over one saved       *)
(* credential.  A command reads the pair without a lock, works with it,    *)
(* and when Taiga answers 401 refreshes it under the file lock, starting   *)
(* from whatever pair is stored by then.  `auth login` and `auth logout`   *)
(* write the credential under the same lock.                               *)
(*   internal/taiga/client.go      doJSON (the 401 branch), refresh        *)
(*   internal/cli/app.go           resolveSettings, refreshOptions, client *)
(*   internal/cli/auth.go          login, logout                           *)
(*   internal/credential/lock.go   lockFile                                *)
(* Taiga is external: it issues pairs, expires access tokens, and retires  *)
(* a refresh token once it is used.                                        *)
(*                                                                         *)
(* Pair n is the n-th Taiga issued; n names its access and its refresh     *)
(* token.  A login may also paste an access token that has no refresh      *)
(* token.                                                                  *)
(***************************************************************************)
EXTENDS Integers, Sequences, FiniteSets

CONSTANTS
  Procs,        \* processes, each running one command
  Nobody,       \* the lock is free
  NoToken,      \* the empty token string
  Kinds,        \* the commands run: a subset of {"use", "login", "logout"}
  Requests,     \* API requests a "use" command makes, one after the other
  BareLogins,   \* whether a login may paste an access token alone
  Faults,       \* a subset of {"crash", "interrupt", "lost", "store"}
  Expiring      \* the pairs whose access token may expire

ASSUME ConstantsAssumption ==
  /\ Nobody \notin Procs
  /\ NoToken \notin Nat
  /\ Kinds \subseteq {"use", "login", "logout"}
  /\ Requests \in Nat \ {0}
  /\ BareLogins \in BOOLEAN
  /\ Expiring \subseteq Nat \ {0}

VARIABLES
  \* Taiga
  root,       \* root[n] is the pair whose login began the session of pair n
  expired,    \* pairs whose access token Taiga now refuses
  spent,      \* refresh tokens Taiga has retired
  \* this machine
  store,      \* the saved tokens of the account
  lock,       \* the process holding credentials.lock
  \* each process
  kind, pc, result,
  held,       \* c.token and c.refreshToken
  answer,     \* the pair a refresh or login answer carries
  left,       \* requests the command still has to make
  refreshed,  \* doJSON's local of that name
  \* history
  stranded    \* refresh tokens retired by an answer nobody could store

taigaVars == <<root, expired, spent>>
procVars  == <<kind, pc, result, held, answer, left, refreshed>>
vars      == <<taigaVars, store, lock, procVars, stranded>>

-----------------------------------------------------------------------------
Pairs  == 1 .. Len(root)
Tokens == [access: Pairs \cup {NoToken}, refresh: Pairs \cup {NoToken}]
NoPair == [access |-> NoToken, refresh |-> NoToken]
Pcs == {"start", "send", "wait", "locked", "post", "answered", "refused", "done"}
Results == {"none", "ok", "no_credential", "auth",
            "removed", "transport", "cancelled", "not_stored", "crashed"}

TypeOK ==
  /\ root \in Seq(Nat \ {0})
  /\ expired \subseteq Pairs
  /\ spent \subseteq Pairs
  /\ stranded \subseteq Pairs
  /\ store \in Tokens
  /\ lock \in Procs \cup {Nobody}
  /\ kind \in [Procs -> Kinds]
  /\ pc \in [Procs -> Pcs]
  /\ result \in [Procs -> Results]
  /\ held \in [Procs -> Tokens]
  /\ answer \in [Procs -> Tokens]
  /\ left \in [Procs -> 0 .. Requests]
  /\ refreshed \in [Procs -> BOOLEAN]

\* The account starts logged in with pair 1, or with nothing saved.
Init ==
  /\ root = <<1>>
  /\ expired = {} /\ spent = {} /\ stranded = {}
  /\ store \in {[access |-> 1, refresh |-> 1], NoPair}
  /\ lock = Nobody
  /\ kind \in [Procs -> Kinds]
  /\ pc = [p \in Procs |-> "start"]
  /\ result = [p \in Procs |-> "none"]
  /\ held = [p \in Procs |-> NoPair]
  /\ answer = [p \in Procs |-> NoPair]
  /\ left = [p \in Procs |-> Requests]
  /\ refreshed = [p \in Procs |-> FALSE]

-----------------------------------------------------------------------------
\* A command returns: what it holds is released, and its exit is reported.
Finish(p, r) ==
  /\ pc' = [pc EXCEPT ![p] = "done"]
  /\ result' = [result EXCEPT ![p] = r]

Goto(p, l) == pc' = [pc EXCEPT ![p] = l] /\ UNCHANGED result

Unlock == lock' = Nobody

\* Taking the stored tokens over those in memory: an empty stored refresh
\* token leaves the one in memory in place.
KeepRefresh(old, new) ==
  [access |-> new.access,
   refresh |-> IF new.refresh = NoToken THEN old.refresh ELSE new.refresh]

\* Taiga issues pair Len(root) + 1 in the session of pair s.
Issue(s) == root' = Append(root, s)

-----------------------------------------------------------------------------
(* A command that uses the credential.                                     *)

\* resolveSettings reads the saved pair without a lock.
Resolve(p) ==
  /\ kind[p] = "use" /\ pc[p] = "start"
  /\ \/ /\ store = NoPair
        /\ Finish(p, "no_credential")
        /\ UNCHANGED held
     \/ /\ store # NoPair
        /\ held' = [held EXCEPT ![p] = store]
        /\ Goto(p, "send")
  /\ UNCHANGED <<taigaVars, store, lock, kind, answer, left, refreshed, stranded>>

\* Mutants of Accepted: one request too many, and the same request for ever.
AcceptedOnceMore(p) ==
  /\ pc[p] = "send"
  /\ held[p].access \notin expired
  /\ left' = [left EXCEPT ![p] = @ - 1]
  /\ refreshed' = [refreshed EXCEPT ![p] = FALSE]
  /\ IF left[p] = 0 THEN Finish(p, "ok") ELSE Goto(p, "send")
  /\ UNCHANGED <<taigaVars, store, lock, kind, held, answer, stranded>>
AcceptedForgotten(p) ==
  /\ pc[p] = "send"
  /\ held[p].access \notin expired
  /\ refreshed' = [refreshed EXCEPT ![p] = FALSE]
  /\ UNCHANGED <<taigaVars, store, lock, kind, pc, result, held, answer, left, stranded>>

\* doJSON sends the request and Taiga accepts its token.
Accepted(p) ==
  /\ pc[p] = "send"
  /\ held[p].access \notin expired
  /\ left' = [left EXCEPT ![p] = @ - 1]
  /\ refreshed' = [refreshed EXCEPT ![p] = FALSE]
  /\ IF left[p] = 1 THEN Finish(p, "ok") ELSE Goto(p, "send")
  /\ UNCHANGED <<taigaVars, store, lock, kind, held, answer, stranded>>

\* doJSON sends the request and Taiga answers 401: refresh once per request,
\* and only with a refresh token to spend.
Rejected(p) ==
  /\ pc[p] = "send"
  /\ held[p].access \in expired
  /\ IF ~refreshed[p] /\ held[p].refresh # NoToken
     THEN Goto(p, "wait")
     ELSE Finish(p, "auth")
  /\ UNCHANGED <<taigaVars, store, lock, kind, held, answer, left, refreshed, stranded>>

\* Mutant of Acquire: the lock is not looked at, as before 0.7.0.
AcquireAnyway(p) ==
  /\ pc[p] = "wait"
  /\ lock' = p
  /\ Goto(p, "locked")
  /\ UNCHANGED <<taigaVars, store, kind, held, answer, left, refreshed, stranded>>

\* lockFile: tryLock succeeds.  Every writer of the credential comes here.
Acquire(p) ==
  /\ pc[p] = "wait"
  /\ lock = Nobody
  /\ lock' = p
  /\ Goto(p, "locked")
  /\ UNCHANGED <<taigaVars, store, kind, held, answer, left, refreshed, stranded>>

\* Mutant of FindRemoved: a removed credential is refreshed from memory.
FindRemovedGoesOn(p) ==
  /\ kind[p] = "use" /\ pc[p] = "locked"
  /\ store = NoPair
  /\ Goto(p, "post")
  /\ UNCHANGED <<taigaVars, store, lock, kind, held, answer, left, refreshed, stranded>>

\* The lock callback of refreshOptions finds the credential removed.
FindRemoved(p) ==
  /\ kind[p] = "use" /\ pc[p] = "locked"
  /\ store = NoPair
  /\ Unlock
  /\ Finish(p, "removed")
  /\ UNCHANGED <<taigaVars, store, kind, held, answer, left, refreshed, stranded>>

\* Mutant of Adopt: the stored pair is seen but not taken.
AdoptWithoutTaking(p) ==
  /\ kind[p] = "use" /\ pc[p] = "locked"
  /\ store # NoPair
  /\ store.access # held[p].access
  /\ refreshed' = [refreshed EXCEPT ![p] = TRUE]
  /\ Unlock
  /\ Goto(p, "send")
  /\ UNCHANGED <<taigaVars, store, kind, held, answer, left, stranded>>

\* refresh finds another pair stored than the one just refused, and uses it.
Adopt(p) ==
  /\ kind[p] = "use" /\ pc[p] = "locked"
  /\ store # NoPair
  /\ store.access # held[p].access
  /\ held' = [held EXCEPT ![p] = KeepRefresh(@, store)]
  /\ refreshed' = [refreshed EXCEPT ![p] = TRUE]
  /\ Unlock
  /\ Goto(p, "send")
  /\ UNCHANGED <<taigaVars, store, kind, answer, left, stranded>>

\* Mutants of MustRefresh: the stored pair is taken but not compared with the
\* refused one, and the store is not read again at all.
RefreshAlways(p) ==
  /\ kind[p] = "use" /\ pc[p] = "locked"
  /\ store # NoPair
  /\ held' = [held EXCEPT ![p] = KeepRefresh(@, store)]
  /\ Goto(p, "post")
  /\ UNCHANGED <<taigaVars, store, lock, kind, answer, left, refreshed, stranded>>
RefreshUnread(p) ==
  /\ kind[p] = "use" /\ pc[p] = "locked"
  /\ store # NoPair
  /\ Goto(p, "post")
  /\ UNCHANGED <<taigaVars, store, lock, kind, held, answer, left, refreshed, stranded>>

\* refresh finds the refused pair still stored, and has to spend its token.
MustRefresh(p) ==
  /\ kind[p] = "use" /\ pc[p] = "locked"
  /\ store # NoPair
  /\ store.access = held[p].access
  /\ held' = [held EXCEPT ![p] = KeepRefresh(@, store)]
  /\ Goto(p, "post")
  /\ UNCHANGED <<taigaVars, store, lock, kind, answer, left, refreshed, stranded>>

\* Taiga exchanges a live refresh token for a new access token, and mostly for
\* a new refresh token too, which retires the old one.
TaigaRefreshes(p) ==
  /\ pc[p] = "post"
  /\ held[p].refresh \notin spent
  /\ Issue(root[held[p].refresh])
  /\ LET new == Len(root) + 1 IN
     \/ /\ answer' = [answer EXCEPT ![p] = [access |-> new, refresh |-> new]]
        /\ spent' = spent \cup {held[p].refresh}
     \/ /\ answer' = [answer EXCEPT ![p] = [access |-> new, refresh |-> NoToken]]
        /\ UNCHANGED spent
  /\ Goto(p, "answered")
  /\ UNCHANGED <<expired, store, lock, kind, held, left, refreshed, stranded>>

\* Taiga refuses a retired refresh token; doJSON reports the original 401.
TaigaRefuses(p) ==
  /\ pc[p] = "post"
  /\ held[p].refresh \in spent
  /\ Goto(p, "refused")
  /\ UNCHANGED <<taigaVars, store, lock, kind, held, answer, left, refreshed, stranded>>

ReportRefused(p) ==
  /\ pc[p] = "refused"
  /\ Unlock
  /\ Finish(p, "auth")
  /\ UNCHANGED <<taigaVars, store, kind, held, answer, left, refreshed, stranded>>

\* Mutant of SaveRefreshed: the new pair stays in memory.
SaveRefreshedInMemory(p) ==
  /\ kind[p] = "use" /\ pc[p] = "answered"
  /\ held' = [held EXCEPT ![p] = KeepRefresh(@, answer[p])]
  /\ refreshed' = [refreshed EXCEPT ![p] = TRUE]
  /\ Unlock
  /\ Goto(p, "send")
  /\ UNCHANGED <<taigaVars, store, kind, answer, left, stranded>>

\* The new pair goes into memory and, through onRefresh, into the store; the
\* lock is released when refresh returns and the request is sent again.
SaveRefreshed(p) ==
  /\ kind[p] = "use" /\ pc[p] = "answered"
  /\ held' = [held EXCEPT ![p] = KeepRefresh(@, answer[p])]
  /\ store' = KeepRefresh(held[p], answer[p])
  /\ refreshed' = [refreshed EXCEPT ![p] = TRUE]
  /\ Unlock
  /\ Goto(p, "send")
  /\ UNCHANGED <<taigaVars, kind, answer, left, stranded>>

\* The pair Taiga retired to answer p never reaches the store.
Strand(p) ==
  stranded' = IF kind[p] = "use" /\ pc[p] = "answered" /\ answer[p].refresh # NoToken
              THEN stranded \cup {held[p].refresh} ELSE stranded

\* store.Set fails after Taiga has rotated: refreshNotStoredMessage.
SaveFails(p) ==
  /\ "store" \in Faults
  /\ kind[p] = "use" /\ pc[p] = "answered"
  /\ held' = [held EXCEPT ![p] = KeepRefresh(@, answer[p])]
  /\ Strand(p)
  /\ Unlock
  /\ Finish(p, "not_stored")
  /\ UNCHANGED <<taigaVars, store, kind, answer, left, refreshed>>

\* The refresh request or its answer is lost, or the caller's context ends
\* while it is in flight: the command fails without the new pair.
RefreshUnanswered(p) ==
  /\ kind[p] = "use" /\ pc[p] \in {"post", "answered", "refused"}
  /\ \/ "lost" \in Faults /\ Finish(p, "transport")
     \/ "interrupt" \in Faults /\ Finish(p, "cancelled")
  /\ Strand(p)
  /\ Unlock
  /\ UNCHANGED <<taigaVars, store, kind, held, answer, left, refreshed>>

-----------------------------------------------------------------------------
(* auth login and auth logout.                                             *)

\* login authenticates before it touches the store: Taiga issues a pair that
\* begins a session of its own, of which a bare paste has only the access
\* token.  (A pair pasted that something else goes on using is left out.)
Authenticate(p) ==
  /\ kind[p] = "login" /\ pc[p] = "start"
  /\ Issue(Len(root) + 1)
  /\ \E refresh \in {Len(root) + 1} \cup (IF BareLogins THEN {NoToken} ELSE {}):
       answer' = [answer EXCEPT ![p] = [access |-> Len(root) + 1, refresh |-> refresh]]
  /\ Goto(p, "wait")
  /\ UNCHANGED <<expired, spent, store, lock, kind, held, left, refreshed, stranded>>

StoreLogin(p) ==
  /\ kind[p] = "login" /\ pc[p] = "locked"
  /\ \/ store' = answer[p] /\ Finish(p, "ok")
     \/ "store" \in Faults /\ UNCHANGED store /\ Finish(p, "not_stored")
  /\ Unlock
  /\ UNCHANGED <<taigaVars, kind, held, answer, left, refreshed, stranded>>

BeginLogout(p) ==
  /\ kind[p] = "logout" /\ pc[p] = "start"
  /\ Goto(p, "wait")
  /\ UNCHANGED <<taigaVars, store, lock, kind, held, answer, left, refreshed, stranded>>

DeleteStored(p) ==
  /\ kind[p] = "logout" /\ pc[p] = "locked"
  /\ \/ store' = NoPair /\ Finish(p, "ok")
     \/ "store" \in Faults /\ UNCHANGED store /\ Finish(p, "not_stored")
  /\ Unlock
  /\ UNCHANGED <<taigaVars, kind, held, answer, left, refreshed, stranded>>

-----------------------------------------------------------------------------
(* Interrupts, crashes, and time passing at Taiga.                         *)

\* The context ends before a request is sent, or while lockFile polls.
Interrupt(p) ==
  /\ "interrupt" \in Faults
  /\ pc[p] \in {"send", "wait"}
  /\ Finish(p, "cancelled")
  /\ UNCHANGED <<taigaVars, store, lock, kind, held, answer, left, refreshed, stranded>>

\* The process dies; the operating system releases its lock.
Crash(p) ==
  /\ "crash" \in Faults
  /\ pc[p] # "done"
  /\ Strand(p)
  /\ lock' = IF lock = p THEN Nobody ELSE lock
  /\ Finish(p, "crashed")
  /\ UNCHANGED <<taigaVars, store, kind, held, answer, left, refreshed>>

Expire(n) ==
  /\ n \in Expiring \ expired
  /\ expired' = expired \cup {n}
  /\ UNCHANGED <<root, spent, store, lock, procVars, stranded>>

\* Every command has returned.
AllDone == (\A p \in Procs: pc[p] = "done") /\ UNCHANGED vars

Use(p) ==
  \/ Resolve(p) \/ Accepted(p) \/ Rejected(p) \/ FindRemoved(p)
  \/ Adopt(p) \/ MustRefresh(p) \/ TaigaRefreshes(p) \/ TaigaRefuses(p)
  \/ ReportRefused(p) \/ SaveRefreshed(p) \/ SaveFails(p) \/ RefreshUnanswered(p)
LoginOrLogout(p) ==
  Authenticate(p) \/ StoreLogin(p) \/ BeginLogout(p) \/ DeleteStored(p)
Step(p) == Use(p) \/ LoginOrLogout(p) \/ Acquire(p)

Next ==
  \/ \E p \in Procs: Step(p) \/ Interrupt(p) \/ Crash(p)
  \/ \E n \in Pairs: Expire(n)
  \/ AllDone

Spec == Init /\ [][Next]_vars

\* The scheduler runs every process, and a request, once sent, is answered,
\* refused or timed out (client.go gives each one a requestTimeout).
Fairness == \A p \in Procs: WF_vars(Step(p))
FairSpec == Spec /\ Fairness

-----------------------------------------------------------------------------
InLock(p) == pc[p] \in {"locked", "post", "answered", "refused"}

\* The lock excludes: whoever works between taking credentials.lock and
\* returning from refresh, login or logout is its one holder, so two refreshes
\* are never in flight together and no login or logout runs inside one.
LockExcludes == \A p \in Procs: InLock(p) <=> lock = p

\* No refresh is wasted: a refresh token sent to Taiga has not been retired
\* already by another command, unless the pair that retired it was lost to a
\* crash, an interrupt, an unanswered request or a failed save.  This is what
\* re-reading the store under the lock is for.
NoWastedRefresh ==
  \A p \in Procs: pc[p] = "post" /\ held[p].refresh \in spent
                  => held[p].refresh \in stranded

\* The saved credential stays usable: its refresh token is live, except while
\* the holder of the lock has the answer that retired it in hand, or after
\* that answer was lost.
StoredPairUsable ==
  store.refresh \in spent =>
    \/ store.refresh \in stranded
    \/ \E p \in Procs: lock = p /\ pc[p] = "answered" /\ held[p].refresh = store.refresh

\* However many commands meet an expired access token, it is refreshed once:
\* Taiga never issues more refreshed pairs than tokens have expired.
OneRefreshPerExpiry ==
  Cardinality({n \in Pairs: root[n] # n}) <= Cardinality(expired)

\* The saved credential, seen as the session it belongs to.
SavedSession == IF store = NoPair THEN NoToken ELSE root[store.access]

\* A refresh never replaces a login: the pair it saves belongs to the session
\* that is saved already.
RefreshKeepsTheLogin ==
  [][\A p \in Procs: SaveRefreshed(p) => store # NoPair /\ SavedSession' = SavedSession]_vars

\* Commands that meet an expired token at the same moment all succeed: with
\* no fault and no logout, none of them is told its credential is refused.
NoCommandIsStranded ==
  \A p \in Procs: result[p] \in {"none", "ok", "no_credential"}

\* Together, all of it: seen from outside, the commands are a saved login that
\* only `auth login` and `auth logout` change.
Saved == INSTANCE SavedLogin WITH
  NoSession <- NoToken,
  current <- SavedSession,
  begun <- {root[n]: n \in Pairs},
  pending <- {answer[p].access: p \in {q \in Procs: kind[q] = "login" /\ pc[q] \in {"wait", "locked"}}}

RefreshIsInvisible == Saved!SavedSpec

\* Every command returns: none waits forever for the lock.
EveryCommandReturns == \A p \in Procs: <>(pc[p] = "done")
=============================================================================
