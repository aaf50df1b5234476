------------------------------ MODULE OneChange ------------------------------
(***************************************************************************)
(* What running a command promises whoever runs it, a script above all: it *)
(* changes Taiga at most once, it says so when it did, it claims no        *)
(* success it has no reason for, nor of half a change, and when it cannot  *)
(* know it says that: "ambiguous".  An exit that says Taiga or its gateway *)
(* could not answer, "transport", promises nothing of the change.          *)
(*   README.md:109-121   "misreports what happened to your data is worse   *)
(*                       than no wrapper"                                  *)
(*   README.md:318-343   the exit codes                                    *)
(***************************************************************************)
EXTENDS Integers

VARIABLES
  excused,   \* whether the request of the command may be carried out whatever
             \* the report says: repeating it is harmless, or net/http repeats it
  world,     \* what Taiga holds
  others,    \* how often somebody else changed it
  spent,     \* whether this run has changed it
  whole,     \* whether all that was asked for is there
  owed,      \* whether an earlier uncertain answer may still become a change
  reason,    \* whether success without a change would be the truth
  report     \* what the caller is told, "none" while the command runs

promiseVars == <<excused, world, others, spent, whole, owed, reason, report>>

PromiseInit == spent = FALSE /\ owed = FALSE /\ report = "none"

\* Somebody else works in Taiga.
Others ==
  /\ others' = others + 1
  /\ UNCHANGED <<excused, spent, owed, report>>

\* The reports after which the caller has to look for itself.
Unsure == {"ambiguous", "transport"}

Truthful(s, all, why, r) ==
  /\ r = "success" => (s /\ all) \/ why
  /\ r = "unreadable" => s
  /\ r \notin Unsure \cup {"none", "success", "unreadable"} => ~s \/ excused

\* The run goes on, may change Taiga, and may end with a report.
Proceed ==
  /\ report = "none" /\ Truthful(spent', whole', reason', report')
  /\ spent => spent'
  /\ (spent \/ ~spent') => world' = world
  /\ owed' # owed => owed' /\ ((report' \in Unsure /\ ~spent') \/ excused)
  /\ UNCHANGED <<excused, others>>

\* A request given up on is carried out after all.
Late ==
  /\ owed /\ owed' = FALSE
  /\ UNCHANGED <<excused, others, spent, report>>

\* The caller runs the command again.
Again ==
  /\ report # "none" /\ report' = "none" /\ spent' = FALSE
  /\ UNCHANGED <<excused, world, others, owed>>

PromiseSpec == PromiseInit /\ [][Others \/ Proceed \/ Late \/ Again]_promiseVars
=============================================================================
