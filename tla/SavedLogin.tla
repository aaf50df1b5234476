------------------------------ MODULE SavedLogin ------------------------------
(***************************************************************************)
(* What the saved credential of one account promises to the person who     *)
(* logs in and out of it.  A session is what one `auth login` begins: the  *)
(* pair Taiga issued to it and every pair refreshed from that one.  The    *)
(* account holds at most one session.  A login begins a session, and once  *)
(* installs it; a logout removes whichever is held.  Nothing else changes  *)
(* what is held: a refresh is invisible here.  So a session that was       *)
(* logged out, or replaced by another login, never comes back.             *)
(*   internal/cli/auth.go:110-111, 401-403   why login and logout lock     *)
(*   CHANGELOG.md, 0.7.0, Fixed              the promise                   *)
(***************************************************************************)
CONSTANT NoSession      \* nothing is saved

VARIABLES
  current,   \* the session the account holds, or NoSession
  begun,     \* every session a login has begun
  pending    \* sessions begun and not installed yet

savedVars == <<current, begun, pending>>

\* At most one login went before.
SavedInit ==
  /\ \A s, t \in begun: s = t
  /\ pending = {}
  /\ current \in begun \cup {NoSession}

Begin ==
  \E s \in begun' \ begun:
    /\ begun' = begun \cup {s}
    /\ pending' = pending \cup {s}
    /\ UNCHANGED current

Install ==
  \E s \in pending:
    /\ current' = s
    /\ pending' = pending \ {s}
    /\ UNCHANGED begun

\* The login dies, or fails to save.
Abandon ==
  \E s \in pending:
    /\ pending' = pending \ {s}
    /\ UNCHANGED <<current, begun>>

Logout == current' = NoSession /\ UNCHANGED <<begun, pending>>

SavedSpec == SavedInit /\ [][Begin \/ Install \/ Abandon \/ Logout]_savedVars
===============================================================================
