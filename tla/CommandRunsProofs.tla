--------------------------- MODULE CommandRunsProofs ---------------------------
(***************************************************************************)
(* For any commands made of these steps, requests that arrive after the    *)
(* command is over included: a dry run, a command that reads and a         *)
(* deletion nobody confirmed change nothing in Taiga, nobody's change is   *)
(* lost, what the caller is told is true, and running a command again that *)
(* may be run again is harmless.                                           *)
(***************************************************************************)
EXTENDS CommandRuns, TLAPS

Questions == {Confirm("prompt"), Confirm("flag")}

\* The command may write: nothing forbids it, and what it asks is confirmed.
MayWrite ==
  /\ ~options.dry /\ ~Programs[command].reads
  /\ Asks(Steps) => options.yes \/ (options.tty /\ ~options.piped)

\* How far a command gets that may not, and what is still on its way.
CommandInv ==
  /\ command \in DOMAIN Programs /\ pc \in Nat \ {0} /\ meddled \in Nat
  /\ report = "none" => pc <= Len(Steps)
  /\ options.dry => Has(Steps, {"rehearse"})
  /\ \A j \in 1 .. pc - 1 : options.dry => Steps[j].do # "rehearse"
  /\ options.piped => \E j \in 1 .. Len(Steps) : Steps[j] = Confirm("piped")
  /\ \A j \in 1 .. pc - 1 : Steps[j] \in Questions => options.yes \/ options.tty
  /\ \A j \in 1 .. pc - 1 :
       Steps[j] = Confirm("piped") => options.yes \/ options.dry \/ ~options.piped
  /\ late # NoRequest => MayWrite

LEMMA StepsAreSteps ==
  ASSUME NEW c \in DOMAIN Programs
  PROVE  /\ Programs[c].steps \in Seq(AllSteps) /\ Len(Programs[c].steps) \in Nat \ {0}
         /\ Programs[c].reads => ~Sends(Programs[c].steps, Writes)
         /\ \A i, j \in 1 .. Len(Programs[c].steps) :
              Programs[c].steps[i].do = "send" /\ Programs[c].steps[j].do = "send" => i = j
         /\ \A i \in 1 .. Len(Programs[c].steps) :
              Programs[c].steps[i].do = "send" =>
                Guarantees(Programs[c].steps, i) /\ WritesLast(Programs[c].steps, i)
         /\ \A j \in 1 .. Len(Programs[c].steps) :
              Programs[c].steps[j].do = "expect" =>
                \E i \in 1 .. j - 1 : Programs[c].steps[i].do = "send"
         /\ ~Programs[c].reads => Has(Programs[c].steps, {"send", "refuse"})
         /\ Programs[c].versioned => GuardsIts(Programs[c].steps)
  BY ProgramsAssumption

LEMMA OnlyWritesAreSent ==
  ASSUME NEW t \in AllSteps, t.do = "send"
  PROVE  t.how \in Writes
<1>1. CASE \E w \in Writes : t = Send(w)
  BY <1>1 DEF Send, Step
<1>2. CASE (\E w \in Picks : t = Find(w)) \/ (\E w \in Confirmations : t = Confirm(w))
  BY <1>2 DEF Find, Confirm, Step
<1>3. CASE t \in {Usage, Invalid, Connect, Get, Lookup, Load, Probe, Base, Rehearse, Refuse, Same, Recheck, Expect}
  BY <1>3 DEF Usage, Invalid, Connect, Get, Lookup, Load, Probe, Base, Rehearse, Refuse, Same, Recheck, Expect, Step
<1> QED
  BY <1>1, <1>2, <1>3 DEF AllSteps

LEMMA CommandInvInit == Init => CommandInv
<1> SUFFICES ASSUME Init PROVE CommandInv
  OBVIOUS
<1>1. command \in DOMAIN Programs /\ pc = 1 /\ meddled = 0 /\ late = NoRequest /\ options \in Flags(Steps)
  BY DEF Init
<1>2. Len(Steps) \in Nat \ {0}
  BY <1>1, StepsAreSteps DEF Steps
<1>3. /\ options.dry => Has(Steps, {"rehearse"})
      /\ options.piped => \E j \in 1 .. Len(Steps) : Steps[j] = Confirm("piped")
  BY <1>1 DEF Flags
<1> QED
  BY <1>1, <1>2, <1>3 DEF CommandInv

\* What has the command at a step that writes let past.
LEMMA AtSendMayWrite ==
  ASSUME CommandInv, At("send")
  PROVE  MayWrite
<1> USE DEF CommandInv
<1>1. pc \in 1 .. Len(Steps) /\ Steps[pc].do = "send"
  BY DEF At
<1>2. Guarantees(Steps, pc)
  BY <1>1, StepsAreSteps DEF Steps
<1>3. ~options.dry
  BY <1>2 DEF Guarantees
<1>4. ~Programs[command].reads
  <2>1. Steps[pc] \in AllSteps
    BY <1>1, StepsAreSteps DEF Steps
  <2>2. Steps[pc].how \in Writes
    BY <1>1, <2>1, OnlyWritesAreSent
  <2>3. Sends(Steps, Writes)
    BY <1>1, <2>2 DEF Sends
  <2> QED
    BY <2>3, StepsAreSteps DEF Steps
<1>5. ASSUME Asks(Steps) PROVE options.yes \/ (options.tty /\ ~options.piped)
  <2>1. options.yes \/ options.tty
    BY <1>2, <1>5 DEF Guarantees, Questions
  <2>2. ASSUME options.piped PROVE options.yes
    <3>1. PICK j \in 1 .. Len(Steps) : Steps[j] = Confirm("piped")
      BY <2>2
    <3>2. j \in 1 .. pc - 1
      BY <1>1, <1>2, <3>1 DEF Guarantees
    <3> QED
      BY <1>3, <2>2, <3>1, <3>2
  <2> QED
    BY <2>1, <2>2
<1> QED
  BY <1>3, <1>4, <1>5 DEF MayWrite

\* A step that goes on past neither a dry run's end nor an unanswered question.
LEMMA GoingOnKeeps ==
  ASSUME CommandInv, report = "none", UNCHANGED who,
         (GoOn /\ (options.dry => Steps[pc].do # "rehearse")
               /\ (Steps[pc] \in Questions => options.yes \/ options.tty)
               /\ (Steps[pc] = Confirm("piped") => options.yes \/ options.dry \/ ~options.piped))
           \/ pc' = pc,
         late' # NoRequest => late' = late \/ MayWrite, meddled' \in Nat
  PROVE  CommandInv'
<1> USE DEF CommandInv
<1>1. UNCHANGED <<command, options, Steps>> /\ (MayWrite' <=> MayWrite)
  BY DEF who, Steps, MayWrite
<1>2. Len(Steps) \in Nat \ {0} /\ pc \in Nat \ {0} /\ pc <= Len(Steps)
  BY StepsAreSteps DEF Steps
<1>3. CASE GoOn /\ (options.dry => Steps[pc].do # "rehearse")
                /\ (Steps[pc] \in Questions => options.yes \/ options.tty)
                /\ (Steps[pc] = Confirm("piped") => options.yes \/ options.dry \/ ~options.piped)
  <2>1. pc' = pc + 1 /\ (report' = "none" => pc' <= Len(Steps))
    BY <1>2, <1>3 DEF GoOn
  <2>2. \A j \in 1 .. pc' - 1 : j = pc \/ j \in 1 .. pc - 1
    BY <1>2, <2>1
  <2>3. /\ \A j \in 1 .. pc' - 1 : options.dry => Steps[j].do # "rehearse"
        /\ \A j \in 1 .. pc' - 1 : Steps[j] \in Questions => options.yes \/ options.tty
        /\ \A j \in 1 .. pc' - 1 :
             Steps[j] = Confirm("piped") => options.yes \/ options.dry \/ ~options.piped
    BY <1>3, <2>2
  <2>4. pc' \in Nat \ {0}
    BY <1>2, <2>1
  <2> QED
    BY <1>1, <2>1, <2>3, <2>4
<1>4. CASE pc' = pc
  BY <1>1, <1>2, <1>4
<1> QED
  BY <1>3, <1>4

LEMMA CommandInvStep == CommandInv /\ [Next]_vars => CommandInv'
<1> SUFFICES ASSUME CommandInv, [Next]_vars PROVE CommandInv'
  OBVIOUS
<1>0. meddled \in Nat
  BY DEF CommandInv
<1>1. ASSUME Check \/ AskTaiga \/ LoadItem \/ FindItem \/ ProbeItem \/ TakeBase \/ SkipSame
              \/ RefuseAll \/ CheckWritten \/ ReadAnswer
      PROVE  CommandInv'
  <2>1. /\ report = "none" /\ UNCHANGED <<who, late, meddled>> /\ (GoOn \/ pc' = pc)
        /\ Steps[pc].do \in {"check", "get", "lookup", "load", "find", "probe", "base", "same", "refuse", "recheck", "expect"}
    BY <1>1 DEF Check, AskTaiga, LoadItem, FindItem, ProbeItem, TakeBase, SkipSame, RefuseAll, CheckWritten,
       ReadAnswer, At, Untouched, taiga, Stop, Fail
  <2>2. Steps[pc] \notin Questions \cup {Confirm("piped")} /\ Steps[pc].do # "rehearse"
    BY <2>1 DEF Questions, Confirm, Step
  <2> QED
    BY <2>1, <2>2, <1>0, GoingOnKeeps
<1>2. CASE RehearseOrGoOn
  <2>1. report = "none" /\ Steps[pc].do = "rehearse" /\ UNCHANGED <<who, late, meddled>>
        /\ ((GoOn /\ ~options.dry) \/ pc' = pc)
    BY <1>2 DEF RehearseOrGoOn, At, Untouched, taiga, Stop
  <2>2. Steps[pc] \notin Questions \cup {Confirm("piped")}
    BY <2>1 DEF Questions, Confirm, Step
  <2> QED
    BY <2>1, <2>2, <1>0, GoingOnKeeps
<1>3. CASE AskPerson
  <2>1. report = "none" /\ Steps[pc].do = "confirm" /\ UNCHANGED <<who, late, meddled>>
        /\ ((GoOn /\ (~MustAsk \/ (How = "prompt" /\ options.tty))) \/ pc' = pc)
    BY <1>3 DEF AskPerson, At, Untouched, taiga, Stop
  <2>2. ASSUME Steps[pc] \in Questions, ~MustAsk PROVE options.yes
    BY <2>2 DEF Questions, Confirm, Step, MustAsk, How
  <2>3. ASSUME Steps[pc] = Confirm("piped") PROVE How = "piped"
    BY <2>3 DEF Confirm, Step, How
  <2>4. How = "piped" /\ ~MustAsk => options.yes \/ options.dry \/ ~options.piped
    BY DEF MustAsk
  <2> QED
    BY <2>1, <2>2, <2>3, <2>4, <1>0, GoingOnKeeps
<1>4. CASE SendDone \/ SendNotDone
  <2>1. report = "none" /\ Steps[pc].do = "send" /\ UNCHANGED <<who, meddled>> /\ (GoOn \/ pc' = pc)
    BY <1>4 DEF SendDone, SendNotDone, At, Stop
  <2>2. Steps[pc] \notin Questions \cup {Confirm("piped")}
    BY <2>1 DEF Questions, Confirm, Step
  <2>3. MayWrite
    BY <1>4, AtSendMayWrite DEF SendDone, SendNotDone
  <2> QED
    BY <2>1, <2>2, <2>3, <1>0, GoingOnKeeps
<1>5. CASE Arrives
  <2>1. UNCHANGED <<who, pc, report, meddled>> /\ late' = NoRequest /\ NoRequest' = NoRequest
    BY <1>5 DEF Arrives, NoRequest
  <2> QED
    BY <2>1 DEF who, CommandInv, Steps
<1>6. CASE Meddle
  <2>1. UNCHANGED <<who, pc, report, late>> /\ meddled' = meddled + 1
    BY <1>6 DEF Meddle
  <2> QED
    BY <2>1 DEF who, CommandInv, Steps, MayWrite
<1>7. CASE Repeat
  <2>1. UNCHANGED <<command, options, late, meddled>> /\ pc' = 1
    BY <1>7 DEF Repeat
  <2>2. Len(Steps) \in Nat \ {0}
    BY StepsAreSteps DEF Steps, CommandInv
  <2> QED
    BY <2>1, <2>2 DEF CommandInv, Steps, MayWrite
<1>8. CASE UNCHANGED vars
  BY <1>8 DEF vars, who, taiga, CommandInv, Steps, MayWrite
<1> QED
  BY <1>1, <1>2, <1>3, <1>4, <1>5, <1>6, <1>7, <1>8 DEF Next

THEOREM CommandInvariant == Spec => []CommandInv
<1> QED
  BY CommandInvInit, CommandInvStep, PTL DEF Spec

\* A dry run, a command that only reads, an unconfirmed deletion and a batch or a
\* dump from standard input that nobody could confirm change nothing, whatever
\* the command (--dry-run, --yes, the descriptors).
THEOREM NothingIsChangedUnasked == Spec => NothingUnasked
<1>1. CommandInv /\ [Next]_vars =>
        [ByTheCommand /\ WorldChanged =>
           /\ ~options.dry /\ ~Programs[command].reads
           /\ Asks(Steps) => options.yes \/ (options.tty /\ ~options.piped)]_vars
  <2> SUFFICES ASSUME CommandInv, [Next]_vars, ByTheCommand, WorldChanged
               PROVE  MayWrite
    BY DEF MayWrite
  <2>1. <<items, added>> # <<items', added'>>
    BY DEF WorldChanged, World, Items
  <2>2. SendDone \/ Arrives \/ Meddle
    BY <2>1 DEF Next, Check, AskTaiga, LoadItem, FindItem, ProbeItem, TakeBase, RehearseOrGoOn, AskPerson,
       SkipSame, RefuseAll, SendNotDone, CheckWritten, ReadAnswer, Repeat, Untouched, taiga, vars
  <2>3. CASE SendDone
    BY <2>3, AtSendMayWrite DEF SendDone
  <2>4. CASE Arrives
    BY <2>4 DEF Arrives, CommandInv
  <2>5. ~Meddle
    BY DEF Meddle, ByTheCommand, CommandInv
  <2> QED
    BY <2>2, <2>3, <2>4, <2>5
<1> QED
  BY <1>1, CommandInvariant, PTL DEF Spec, NothingUnasked

-----------------------------------------------------------------------------
(* The types.                                                              *)

LEMMA ChecksFailAs ==
  ASSUME NEW t \in AllSteps, t.do = "check"
  PROVE  t.how \in {"usage", "validation", "auth"}
<1>1. CASE \E w \in Writes : t = Send(w)
  BY <1>1 DEF Send, Step
<1>2. CASE (\E w \in Picks : t = Find(w)) \/ (\E w \in Confirmations : t = Confirm(w))
  BY <1>2 DEF Find, Confirm, Step
<1>3. CASE t \in {Usage, Invalid, Connect, Get, Lookup, Load, Probe, Base, Rehearse, Refuse, Same, Recheck, Expect}
  BY <1>3 DEF Usage, Invalid, Connect, Get, Lookup, Load, Probe, Base, Rehearse, Refuse, Same, Recheck, Expect, Step
<1> QED
  BY <1>1, <1>2, <1>3 DEF AllSteps

LEMMA VersionIsNat ==
  ASSUME NEW item \in Records
  PROVE  Version(item) \in Nat /\ \A f \in Fields : item.at[f] <= Version(item)
  BY DEF Records, Fields, Version

\* What carrying out a request does to the records.
LEMMA EffectIs ==
  ASSUME items \in [Items -> Records], added \in Nat, NEW q, q.picked \in Items, Effect(q)
  PROVE  /\ items' \in [Items -> Records] /\ added' \in Nat /\ settled' = TRUE
         /\ \A r \in Items \ {q.picked} : items'[r] = items[r]
         /\ items'[q.picked].called = items[q.picked].called
         /\ items'[q.picked].by["other"] = items[q.picked].by["other"]
         /\ \A r \in Items : Version(items[r]) <= Version(items'[r])
         /\ q.how \in Adding => items' = items
         /\ q.how \notin Adding => added' = added
         /\ q.how = "remove" =>
              ~items'[q.picked].there /\ items'[q.picked].by = items[q.picked].by
         /\ q.how \notin Adding \cup {"remove"} =>
              items'[q.picked].there /\ items'[q.picked].by["asked"] = "wanted"
<1> DEFINE p == q.picked
<1>1. items[p] \in Records /\ Version(items[p]) \in Nat
  BY VersionIsNat
<1>2. CASE q.how \in Adding
  <2>1. PICK n \in IF q.how = "bulk" THEN 1 .. BatchSize ELSE {1} : added' = added + n
    BY <1>2 DEF Effect
  <2>2. items' = items /\ settled' = TRUE
    BY <1>2 DEF Effect
  <2>3. n \in Nat
    BY <2>1, ProgramsAssumption
  <2>4. \A r \in Items : Version(items[r]) \in Nat
    BY VersionIsNat
  <2>5. "remove" \notin Adding
    BY DEF Adding
  <2> QED
    BY <1>2, <2>1, <2>2, <2>3, <2>4, <2>5
<1>3. CASE q.how = "remove"
  <2>1. items' = [items EXCEPT ![p].there = FALSE] /\ added' = added /\ settled' = TRUE
        /\ q.how \notin Adding
    BY <1>3 DEF Effect, Adding
  <2>2. items' = [items EXCEPT ![p] = [items[p] EXCEPT !.there = FALSE]]
    BY <2>1
  <2>3. [items[p] EXCEPT !.there = FALSE] \in Records
    BY <1>1 DEF Records
  <2>4. \A r \in Items : Version(items[r]) <= Version(items'[r])
    BY <1>1, <2>2, VersionIsNat DEF Version, Records
  <2> QED
    BY <1>1, <1>3, <2>1, <2>2, <2>3, <2>4 DEF Records
<1>4. CASE q.how \notin Adding \cup {"remove"}
  <2> DEFINE new == [items[p] EXCEPT !.there = TRUE, !.by["asked"] = "wanted",
                                     !.at["asked"] = Version(items[p]) + 1]
  <2>1. items' = [items EXCEPT ![p].there = TRUE, ![p].by["asked"] = "wanted",
                               ![p].at["asked"] = Version(items[p]) + 1]
        /\ added' = added /\ settled' = TRUE
    BY <1>4 DEF Effect
  <2>2. items' = [items EXCEPT ![p] = new]
    BY <2>1
  <2>3. /\ new \in Records /\ new.there /\ new.called = items[p].called
        /\ new.by["asked"] = "wanted" /\ new.by["other"] = items[p].by["other"]
        /\ new.at["asked"] = Version(items[p]) + 1 /\ new.at["other"] = items[p].at["other"]
    <3> DEFINE by == [items[p].by EXCEPT !["asked"] = "wanted"]
               at == [items[p].at EXCEPT !["asked"] = Version(items[p]) + 1]
    <3>1. /\ by \in [Fields -> {"before", "wanted", "web"}]
          /\ by["asked"] = "wanted" /\ by["other"] = items[p].by["other"]
      BY <1>1 DEF Records, Fields
    <3>2. /\ at \in [Fields -> Nat]
          /\ at["asked"] = Version(items[p]) + 1 /\ at["other"] = items[p].at["other"]
      BY <1>1 DEF Records, Fields
    <3>3. new = [items[p] EXCEPT !.there = TRUE, !.by = by, !.at = at]
      BY <1>1 DEF Records
    <3> HIDE DEF by, at, new
    <3> QED
      BY <1>1, <3>1, <3>2, <3>3 DEF Records
  <2> HIDE DEF new
  <2>4. Version(items[p]) <= Version(new)
    BY <1>1, <2>3, VersionIsNat DEF Version, Records, Fields
  <2>5. \A r \in Items : Version(items[r]) <= Version(items'[r])
    BY <2>2, <2>4, VersionIsNat
  <2> QED
    BY <1>1, <1>4, <2>1, <2>2, <2>3, <2>5
<1> QED
  BY <1>2, <1>3, <1>4

\* What somebody else does to the records.
LEMMA MeddleIs ==
  ASSUME items \in [Items -> Records], Meddle
  PROVE  /\ items' \in [Items -> Records]
         /\ \A r \in Items : Version(items[r]) <= Version(items'[r])
         /\ \A r \in Items, f \in Fields :
              items'[r].by[f] = "wanted" => items[r].by[f] = "wanted"
<1>0. \A r \in Items : Version(items[r]) \in Nat
  BY VersionIsNat
<1>1. PICK r \in Items :
        \/ \E f \in Fields :
             items' = [items EXCEPT ![r].by[f] = "web", ![r].at[f] = Version(items[r]) + 1]
        \/ items' = [items EXCEPT ![r].called = IF @ = "no" THEN "name" ELSE "no"]
        \/ items' = [items EXCEPT ![r].there = FALSE]
  BY DEF Meddle
<1>2. items[r] \in Records
  OBVIOUS
<1>3. ASSUME NEW f \in Fields,
             items' = [items EXCEPT ![r].by[f] = "web", ![r].at[f] = Version(items[r]) + 1]
      PROVE  \E new \in Records :
               /\ items' = [items EXCEPT ![r] = new] /\ Version(items[r]) <= Version(new)
               /\ \A g \in Fields : new.by[g] = "wanted" => items[r].by[g] = "wanted"
  <2> DEFINE by == [items[r].by EXCEPT ![f] = "web"]
             at == [items[r].at EXCEPT ![f] = Version(items[r]) + 1]
             new == [items[r] EXCEPT !.by = by, !.at = at]
  <2>1. items' = [items EXCEPT ![r] = new]
    BY <1>2, <1>3 DEF Records
  <2>2. by \in [Fields -> {"before", "wanted", "web"}] /\ at \in [Fields -> Nat]
    BY <1>0, <1>2 DEF Records
  <2>3. \A g \in Fields : by[g] = "wanted" => items[r].by[g] = "wanted"
    BY <1>2 DEF Records
  <2>4. \A g \in Fields : g # f => at[g] = items[r].at[g]
    BY <1>2 DEF Records
  <2>5. at[f] = Version(items[r]) + 1
    BY <1>2 DEF Records
  <2> HIDE DEF by, at
  <2>6. new \in Records /\ new.by = by /\ new.at = at
    BY <1>2, <2>2 DEF Records
  <2> HIDE DEF new
  <2>7. Version(items[r]) <= Version(new)
    BY <1>0, <2>5, <2>6, VersionIsNat
  <2> QED
    BY <2>1, <2>3, <2>6, <2>7
<1>4. ASSUME items' = [items EXCEPT ![r].called = IF @ = "no" THEN "name" ELSE "no"]
      PROVE  \E new \in Records :
               /\ items' = [items EXCEPT ![r] = new] /\ Version(items[r]) <= Version(new)
               /\ \A g \in Fields : new.by[g] = "wanted" => items[r].by[g] = "wanted"
  <2> DEFINE new == [items[r] EXCEPT !.called = IF @ = "no" THEN "name" ELSE "no"]
  <2>1. items' = [items EXCEPT ![r] = new]
    BY <1>2, <1>4
  <2>2. new \in Records /\ new.at = items[r].at /\ new.by = items[r].by
    BY <1>2 DEF Records
  <2> HIDE DEF new
  <2>3. Version(new) = Version(items[r])
    BY <2>2 DEF Version
  <2>4. Version(items[r]) <= Version(new)
    BY <1>0, <2>3
  <2> QED
    BY <2>1, <2>2, <2>4
<1>5. ASSUME items' = [items EXCEPT ![r].there = FALSE]
      PROVE  \E new \in Records :
               /\ items' = [items EXCEPT ![r] = new] /\ Version(items[r]) <= Version(new)
               /\ \A g \in Fields : new.by[g] = "wanted" => items[r].by[g] = "wanted"
  <2> DEFINE new == [items[r] EXCEPT !.there = FALSE]
  <2>1. items' = [items EXCEPT ![r] = new]
    BY <1>2, <1>5
  <2>2. new \in Records /\ new.at = items[r].at /\ new.by = items[r].by
    BY <1>2 DEF Records
  <2> HIDE DEF new
  <2>3. Version(new) = Version(items[r])
    BY <2>2 DEF Version
  <2>4. Version(items[r]) <= Version(new)
    BY <1>0, <2>3
  <2> QED
    BY <2>1, <2>2, <2>4
<1>6. PICK new \in Records :
        /\ items' = [items EXCEPT ![r] = new] /\ Version(items[r]) <= Version(new)
        /\ \A g \in Fields : new.by[g] = "wanted" => items[r].by[g] = "wanted"
  BY <1>1, <1>3, <1>4, <1>5
<1> QED
  BY <1>0, <1>6

LEMMA TypesInit == Init => TypeOK
<1> SUFFICES ASSUME Init PROVE TypeOK
  OBVIOUS
<1>1. /\ command \in DOMAIN Programs /\ run = 1 /\ pc = 1 /\ report = "none" /\ picked = 1 /\ seen = 0
      /\ same = FALSE /\ found = FALSE /\ agreed = FALSE /\ added = 0 /\ meddled = 0
      /\ late = NoRequest /\ spent = FALSE /\ settled = FALSE /\ options \in Flags(Steps)
  BY DEF Init
<1>2. Len(Steps) \in Nat \ {0}
  BY <1>1, StepsAreSteps DEF Steps
<1>3. options \in [dry: BOOLEAN, yes: BOOLEAN, tty: BOOLEAN, piped: BOOLEAN, base: {0, 1}]
  BY <1>1 DEF Flags
<1>4. late \in Requests
  BY <1>1 DEF NoRequest, Requests, Items
<1>5. ASSUME NEW sp, NEW names, names \subseteq {"id", "name", "no"}
      PROVE  Before(sp, names) \subseteq Records
  <2>1. SUFFICES ASSUME NEW item \in Before(sp, names) PROVE item \in Records
    OBVIOUS
  <2>2. PICK b \in {"before", "wanted"} : item.by = [f \in Fields |-> IF f = "asked" THEN b ELSE "before"]
    BY <2>1 DEF Before
  <2>3. item.by \in [Fields -> {"before", "wanted", "web"}]
    BY <2>2
  <2>4. item.at \in [Fields -> Nat]
    BY <2>1 DEF Before
  <2>5. /\ item.there \in BOOLEAN /\ item.called \in {"id", "name", "no"}
        /\ item = [there |-> item.there, called |-> item.called, by |-> item.by, at |-> item.at]
    BY <1>5, <2>1 DEF Before
  <2> QED
    BY <2>3, <2>4, <2>5 DEF Records
<1>6. ASSUME NEW item \in Records
      PROVE  Changed(item) \subseteq Records /\ [item EXCEPT !.there = FALSE] \in Records
  <2>1. [item EXCEPT !.there = FALSE] \in Records
    BY <1>6 DEF Records
  <2>2. ASSUME NEW f \in Fields
        PROVE  [item EXCEPT !.by[f] = "web", !.at[f] = 2] \in Records
    BY DEF Records
  <2> QED
    BY <2>1, <2>2 DEF Changed
<1>7. items \in [Items -> Records]
  <2>1. CASE Has(Steps, {"find"})
    BY <1>5, <2>1 DEF Init
  <2>2. CASE ~Has(Steps, {"find"})
    <3>1. PICK first \in Before(Steps, {"id"}) :
            items \in [Items -> UNION {Changed(first), {[first EXCEPT !.there = FALSE]}}]
      BY <2>2 DEF Init
    <3>2. first \in Records
      BY <1>5
    <3> QED
      BY <1>6, <3>1, <3>2
  <2> QED
    BY <2>1, <2>2
<1>8. 0 \in 0 .. MaxMeddling
  BY ProgramsAssumption
<1>9. pc \in 1 .. Len(Steps) + 1
  BY <1>1, <1>2
<1>10. /\ picked \in Items /\ seen \in Nat /\ added \in Nat /\ run \in {1, 2}
       /\ report \in Reports
  BY <1>1 DEF Items, Reports
<1>11. {same, found, agreed} \subseteq BOOLEAN /\ {spent, settled} \subseteq BOOLEAN
  BY <1>1
<1> QED
  BY <1>1, <1>3, <1>4, <1>7, <1>8, <1>9, <1>10, <1>11 DEF TypeOK

\* A step stays in the program and ends with one of the reports.
LEMMA StepsStay ==
  ASSUME TypeOK, CommandInv, report = "none", UNCHANGED command,
         GoOn \/ \E r \in Reports : Stop(r)
  PROVE  pc' \in 1 .. Len(Steps') + 1 /\ report' \in Reports
<1>1. Steps' = Steps /\ Len(Steps) \in Nat \ {0} /\ pc \in 1 .. Len(Steps)
  BY StepsAreSteps DEF Steps, CommandInv
<1>2. CASE GoOn
  BY <1>1, <1>2 DEF GoOn, Reports
<1>3. CASE \E r \in Reports : Stop(r)
  BY <1>1, <1>3 DEF Stop
<1> QED
  BY <1>2, <1>3

\* At a step: which one it is.
LEMMA AtAStep ==
  ASSUME CommandInv, report = "none"
  PROVE  pc \in 1 .. Len(Steps) /\ Steps[pc] \in AllSteps
  BY StepsAreSteps DEF Steps, CommandInv

LEMMA RequestIsTyped ==
  ASSUME TypeOK, CommandInv, At("send")
  PROVE  Request \in Requests /\ Request.how \in Writes /\ Request # NoRequest
<1>1. How \in Writes
  BY AtAStep, OnlyWritesAreSent DEF At, How
<1>2. "none" \notin Writes
  BY DEF Writes, Guarded, Adding
<1> QED
  BY <1>1, <1>2 DEF Request, Requests, TypeOK, NoRequest

LEMMA DenotedAreItems ==
  ASSUME NEW pick PROVE Denoted(pick) \subseteq Items
  BY DEF Denoted, Candidates, Answering

LEMMA TypesStep == TypeOK /\ CommandInv /\ [Next]_vars => TypeOK'
<1> SUFFICES ASSUME TypeOK, CommandInv, [Next]_vars PROVE TypeOK'
  OBVIOUS
<1> DEFINE RunTyped == command \in DOMAIN Programs /\ run \in {1, 2}
             /\ options \in [dry: BOOLEAN, yes: BOOLEAN, tty: BOOLEAN, piped: BOOLEAN, base: {0, 1}]
           PcTyped == pc \in 1 .. Len(Steps) + 1 /\ report \in Reports
           ReadTyped == picked \in Items /\ seen \in Nat /\ {same, found, agreed} \subseteq BOOLEAN
           TaigaTyped == items \in [Items -> Records] /\ late \in Requests /\ added \in Nat
             /\ {spent, settled} \subseteq BOOLEAN
           WebTyped == meddled \in 0 .. MaxMeddling
<1>0. RunTyped /\ PcTyped /\ ReadTyped /\ TaigaTyped /\ WebTyped
  BY DEF TypeOK
<1>1. SUFFICES RunTyped' /\ PcTyped' /\ ReadTyped' /\ TaigaTyped' /\ WebTyped'
  BY DEF TypeOK
<1>2. ASSUME Untouched, report = "none", GoOn \/ \E r \in Reports : Stop(r), ReadTyped'
      PROVE  RunTyped' /\ PcTyped' /\ ReadTyped' /\ TaigaTyped' /\ WebTyped'
  <2>1. UNCHANGED <<command, options, run, items, added, late, spent, settled, meddled>>
    BY <1>2 DEF Untouched, who, taiga
  <2>2. PcTyped'
    BY <1>2, <2>1, StepsStay
  <2> QED
    BY <1>0, <1>2, <2>1, <2>2
<1>3. /\ {"success", "usage", "validation", "refused", "conflict", "confirmation", "ambiguous",
           "transport", "unreadable"} \subseteq Reports
      /\ 1 \in Items /\ {TRUE, FALSE} = BOOLEAN
  BY DEF Reports, Items
<1>4. CASE Check
  <2>1. Steps[pc].do = "check" /\ report = "none" /\ UNCHANGED <<read, agreed>> /\ Untouched
    BY <1>4 DEF Check, At
  <2>2. How \in {"usage", "validation", "auth"}
    BY <2>1, AtAStep, ChecksFailAs DEF How
  <2>3. GoOn \/ \E r \in Reports : Stop(r)
    BY <1>3, <1>4, <2>2 DEF Check, Fail
  <2> QED
    BY <1>0, <1>2, <2>1, <2>3 DEF read
<1>5. CASE AskTaiga \/ RehearseOrGoOn \/ SkipSame \/ RefuseAll \/ CheckWritten \/ ReadAnswer
  <2>1. /\ report = "none" /\ UNCHANGED <<read, agreed>> /\ Untouched
        /\ GoOn \/ \E r \in Reports : Stop(r)
    BY <1>3, <1>5 DEF AskTaiga, RehearseOrGoOn, SkipSame, RefuseAll, CheckWritten, ReadAnswer, At, Fail
  <2> QED
    BY <1>0, <1>2, <2>1 DEF read
<1>6. ASSUME NEW r \in Items, Remember(r) PROVE picked' \in Items /\ seen' \in Nat /\ {same', found'} \subseteq BOOLEAN
  BY <1>0, <1>6, VersionIsNat DEF Remember
<1>7. CASE LoadItem
  <2>1. report = "none" /\ Untouched /\ (GoOn \/ \E r \in Reports : Stop(r)) /\ UNCHANGED agreed
    BY <1>3, <1>7 DEF LoadItem, At, Fail
  <2>2. Remember(1) \/ UNCHANGED read
    BY <1>7 DEF LoadItem
  <2>3. ReadTyped'
    BY <1>0, <1>3, <1>6, <2>1, <2>2 DEF read
  <2> QED
    BY <1>2, <2>1, <2>3
<1>8. CASE FindItem
  <2>1. report = "none" /\ Untouched /\ (GoOn \/ \E r \in Reports : Stop(r)) /\ UNCHANGED agreed
    BY <1>3, <1>8 DEF FindItem, At, Fail
  <2>2. (\E r \in Items : Remember(r)) \/ UNCHANGED read
    BY <1>8, DenotedAreItems DEF FindItem
  <2>3. ReadTyped'
    BY <1>0, <1>6, <2>1, <2>2 DEF read
  <2> QED
    BY <1>2, <2>1, <2>3
<1>9. CASE ProbeItem
  <2>1. report = "none" /\ Untouched /\ (GoOn \/ \E r \in Reports : Stop(r))
        /\ UNCHANGED <<picked, seen, same, agreed>>
    BY <1>3, <1>9 DEF ProbeItem, At, Fail
  <2>2. found' = items[1].there \/ found' = found
    BY <1>9 DEF ProbeItem
  <2>3. items[1].there \in BOOLEAN
    BY <1>0, <1>3 DEF Records
  <2> QED
    BY <1>0, <1>2, <2>1, <2>2, <2>3
<1>10. CASE TakeBase
  <2>1. report = "none" /\ Untouched /\ GoOn /\ UNCHANGED <<picked, same, found, agreed>>
    BY <1>10 DEF TakeBase, At
  <2>2. seen' \in Nat
    BY <1>0, <1>10 DEF TakeBase
  <2> QED
    BY <1>0, <1>2, <2>1, <2>2
<1>11. CASE AskPerson
  <2>1. report = "none" /\ Untouched /\ (GoOn \/ \E r \in Reports : Stop(r)) /\ UNCHANGED read
        /\ (agreed' = agreed \/ agreed' = TRUE)
    BY <1>3, <1>11 DEF AskPerson, At
  <2> QED
    BY <1>0, <1>2, <2>1 DEF read
<1>12. CASE SendDone
  <2>1. /\ report = "none" /\ Effect(Request) /\ (GoOn \/ \E r \in Reports : Stop(r)) /\ spent' = TRUE
        /\ At("send") /\ late' \in {late, Request}
        /\ UNCHANGED <<command, options, run, picked, seen, same, found, agreed, meddled>>
    BY <1>3, <1>12 DEF SendDone, At, who, read
  <2>2. Request.picked \in Items /\ late' \in Requests
    BY <1>0, <2>1, RequestIsTyped DEF Request
  <2>3. items' \in [Items -> Records] /\ added' \in Nat /\ settled' = TRUE
    BY <1>0, <2>1, <2>2, EffectIs
  <2>4. PcTyped'
    BY <2>1, StepsStay
  <2>5. TaigaTyped'
    BY <1>0, <2>1, <2>2, <2>3
  <2> QED
    BY <1>0, <2>1, <2>4, <2>5
<1>13. CASE SendNotDone
  <2>1. /\ At("send") /\ report = "none" /\ (GoOn \/ \E r \in Reports : Stop(r))
        /\ late' \in {late, Request}
        /\ UNCHANGED <<command, options, run, picked, seen, same, found, agreed, items, added,
                       spent, settled, meddled>>
    BY <1>3, <1>13 DEF SendNotDone, At, who, read
  <2>2. late' \in Requests
    BY <1>0, <2>1, RequestIsTyped
  <2>3. PcTyped'
    BY <2>1, StepsStay
  <2> QED
    BY <1>0, <2>1, <2>2, <2>3
<1>14. CASE Arrives
  <2>1. /\ late' = NoRequest
        /\ Effect(late) \/ UNCHANGED <<items, added, settled>>
        /\ UNCHANGED <<command, options, run, pc, picked, seen, same, found, agreed, report, spent,
                       meddled>>
    BY <1>14 DEF Arrives, who, read
  <2>2. NoRequest \in Requests
    BY DEF NoRequest, Requests, Items
  <2>3. late.picked \in Items
    BY <1>0 DEF Requests
  <2>4. items' \in [Items -> Records] /\ added' \in Nat /\ settled' \in BOOLEAN
    BY <1>0, <2>1, <2>3, EffectIs
  <2> QED
    BY <1>0, <2>1, <2>2, <2>4 DEF Steps
<1>15. CASE Meddle
  <2>1. /\ meddled < MaxMeddling /\ meddled' = meddled + 1
        /\ UNCHANGED <<command, options, run, pc, picked, seen, same, found, agreed, report, added,
                       late, spent, settled>>
    BY <1>15 DEF Meddle, who, read
  <2>2. items' \in [Items -> Records]
    BY <1>0, <1>15, MeddleIs
  <2>3. WebTyped'
    BY <1>0, <2>1, ProgramsAssumption
  <2> QED
    BY <1>0, <2>1, <2>2, <2>3 DEF Steps
<1>16. CASE Repeat
  <2>1. /\ run' = 2 /\ pc' = 1 /\ report' = "none" /\ picked' = 1 /\ same' = FALSE /\ found' = FALSE
        /\ agreed' = FALSE /\ spent' = FALSE
        /\ UNCHANGED <<command, options, seen, items, added, late, meddled, settled>>
    BY <1>16 DEF Repeat
  <2>2. PcTyped'
    BY <1>0, <2>1, StepsAreSteps DEF Steps, Reports
  <2> QED
    BY <1>0, <1>3, <2>1, <2>2
<1>17. CASE UNCHANGED vars
  BY <1>0, <1>17 DEF vars, who, read, taiga, Steps
<1> QED
  BY <1>4, <1>5, <1>7, <1>8, <1>9, <1>10, <1>11, <1>12, <1>13, <1>14, <1>15, <1>16, <1>17 DEF Next

\* The state keeps its types, and a step never leaves its program.
THEOREM CommandsTypeCorrect == Spec => []TypeOK
<1> QED
  BY TypesInit, TypesStep, CommandInvariant, PTL DEF Spec

-----------------------------------------------------------------------------
(* Nobody's change is lost.                                                *)

\* A versioned command and its late request name a version the caller was
\* shown, and while the caller named none, no newer one than Taiga has reached.
GuardInv ==
  Programs[command].versioned =>
    /\ picked = 1
    /\ options.base = 0 => seen <= Version(items[1])
    /\ options.base > 0 => Has(Steps, {"base"})
    /\ options.base > 0 => \A j \in 1 .. pc - 1 : Steps[j].do = "base" => seen = options.base
    /\ late # NoRequest => late.how \in Guarded /\ late.picked = 1 /\ late.seen <= Shown

LEMMA GuardInvInit == Init /\ TypeOK => GuardInv
<1> SUFFICES ASSUME Init, TypeOK PROVE GuardInv
  OBVIOUS
<1>1. picked = 1 /\ seen = 0 /\ pc = 1 /\ late = NoRequest /\ options \in Flags(Steps)
  BY DEF Init
<1>2. Version(items[1]) \in Nat
  BY VersionIsNat DEF TypeOK, Items
<1>3. options.base > 0 => Has(Steps, {"base"})
  BY <1>1 DEF Flags
<1> QED
  BY <1>1, <1>2, <1>3 DEF GuardInv

\* The version a request is sent with.
LEMMA RequestIsGuarded ==
  ASSUME TypeOK, CommandInv, GuardInv, At("send"), Programs[command].versioned
  PROVE  Request.how \in Guarded /\ Request.picked = 1 /\ Request.seen <= Shown
<1>1. pc \in 1 .. Len(Steps) /\ Steps[pc].do = "send" /\ GuardsIts(Steps)
  BY AtAStep, StepsAreSteps DEF At, CommandInv, Steps
<1>2. How \in Guarded /\ (Has(Steps, {"base"}) => \E j \in 1 .. pc - 1 : Steps[j].do = "base")
  BY <1>1 DEF GuardsIts, How
<1>3. options.base > 0 => seen = options.base
  BY <1>2 DEF GuardInv
<1> QED
  BY <1>2, <1>3 DEF GuardInv, Request, Shown, TypeOK

\* What leaves the request in hand and the late one alone keeps GuardInv, and
\* so does reaching a newer version.
LEMMA GuardKept ==
  ASSUME TypeOK, GuardInv, UNCHANGED <<command, options>>, items' \in [Items -> Records],
         Version(items[1]) <= Version(items'[1]),
         UNCHANGED <<picked, seen>>,
         pc' = pc \/ (pc' = pc + 1 /\ Steps[pc].do # "base"),
         late' # NoRequest /\ Programs[command].versioned =>
           late'.how \in Guarded /\ late'.picked = 1 /\ late'.seen <= Shown
  PROVE  GuardInv'
<1> SUFFICES ASSUME Programs[command].versioned PROVE GuardInv'
  BY DEF GuardInv
<1>1. Steps' = Steps /\ Shown' = Shown /\ NoRequest' = NoRequest
  BY DEF Steps, Shown, NoRequest
<1>2. Version(items[1]) \in Nat /\ Version(items'[1]) \in Nat /\ seen \in Nat
  BY VersionIsNat DEF TypeOK, Items
<1>3. options'.base = 0 => seen' <= Version(items[1])'
  BY <1>2 DEF GuardInv
<1>4. \A j \in 1 .. pc' - 1 : Steps[j].do = "base" => j \in 1 .. pc - 1
  BY DEF TypeOK
<1>5. options'.base > 0 => \A j \in 1 .. pc' - 1 : Steps'[j].do = "base" => seen' = options'.base
  BY <1>1, <1>4 DEF GuardInv
<1> QED
  BY <1>1, <1>3, <1>5 DEF GuardInv

LEMMA GuardInvStep == TypeOK /\ CommandInv /\ GuardInv /\ [Next]_vars => GuardInv'
<1> SUFFICES ASSUME TypeOK, CommandInv, GuardInv, [Next]_vars PROVE GuardInv'
  OBVIOUS
<1>0. /\ Version(items[1]) \in Nat /\ items \in [Items -> Records] /\ 1 \in Items /\ seen \in Nat
      /\ options.base \in {0, 1} /\ pc \in Nat
  BY VersionIsNat DEF TypeOK, Items
<1>1. Programs[command].versioned /\ late # NoRequest =>
        late.how \in Guarded /\ late.picked = 1 /\ late.seen <= Shown
  BY DEF GuardInv
<1>2. CASE Check \/ AskTaiga \/ ProbeItem \/ RehearseOrGoOn \/ AskPerson \/ SkipSame \/ RefuseAll
             \/ CheckWritten \/ ReadAnswer
  <2>1. /\ UNCHANGED <<command, options, items, late, picked, seen>>
        /\ pc' = pc \/ (pc' = pc + 1 /\ Steps[pc].do # "base")
    BY <1>2 DEF Check, AskTaiga, ProbeItem, RehearseOrGoOn, AskPerson, SkipSame, RefuseAll, CheckWritten,
       ReadAnswer, At, Untouched, who, taiga, read, GoOn, Stop, Fail
  <2> QED
    BY <1>0, <1>1, <2>1, GuardKept
<1>3. ASSUME LoadItem, Programs[command].versioned PROVE GuardInv'
  <2>1. Steps[pc].do = "load" /\ report = "none" /\ UNCHANGED <<command, options, items, late>>
    BY <1>3 DEF LoadItem, At, Untouched, who, taiga
  <2>2. CASE GoOn /\ Remember(1)
    <3>1. pc' = pc + 1 /\ picked' = 1 /\ seen' = Version(items[1]) /\ Steps' = Steps
      BY <2>1, <2>2 DEF GoOn, Remember, Steps
    <3>2. pc \in 1 .. Len(Steps) /\ GuardsIts(Steps)
      BY <1>3, <2>1, AtAStep, StepsAreSteps DEF CommandInv, Steps
    <3>3. \A j \in 1 .. pc' - 1 : Steps[j].do # "base"
      <4>1. SUFFICES ASSUME NEW j \in 1 .. pc, Steps[j].do = "base" PROVE FALSE
        BY <1>0, <3>1
      <4>2. j \in 1 .. pc - 1 /\ j \in 1 .. Len(Steps) /\ pc \in j + 1 .. Len(Steps)
        BY <2>1, <3>2, <4>1
      <4> QED
        BY <2>1, <3>2, <4>1, <4>2 DEF GuardsIts
    <3>4. options.base = 0 => Shown' = Version(items[1]) /\ Shown = seen /\ seen <= Version(items[1])
      BY <1>3, <2>1, <3>1 DEF GuardInv, Shown
    <3>5. options.base > 0 => Shown' = Shown
      BY <2>1 DEF Shown
    <3>6. Shown \in Nat /\ Shown' \in Nat /\ Shown <= Shown'
      BY <1>0, <3>4, <3>5 DEF Shown
    <3>7. late' # NoRequest' => late'.how \in Guarded /\ late'.picked = 1 /\ late'.seen <= Shown'
      <4>1. late.seen \in Nat
        BY DEF TypeOK, Requests
      <4> QED
        BY <1>1, <1>3, <2>1, <3>6, <4>1 DEF NoRequest
    <3>8. Version(items[1])' = Version(items[1])
      BY <2>1
    <3> QED
      BY <1>0, <1>3, <2>1, <3>1, <3>3, <3>7, <3>8 DEF GuardInv
  <2>3. CASE Fail /\ UNCHANGED read
    BY <1>0, <1>1, <2>1, <2>3, GuardKept DEF Stop, Fail, read
  <2> QED
    BY <1>3, <2>2, <2>3 DEF LoadItem
<1>4. ASSUME FindItem, Programs[command].versioned PROVE FALSE
  <2>1. pc \in 1 .. Len(Steps) /\ Steps[pc].do = "find" /\ GuardsIts(Steps)
    BY <1>4, AtAStep, StepsAreSteps DEF FindItem, At, CommandInv, Steps
  <2> QED
    BY <2>1 DEF GuardsIts, Has
<1>5. ASSUME TakeBase, Programs[command].versioned PROVE GuardInv'
  <2>1. /\ pc' = pc + 1 /\ UNCHANGED <<command, options, items, late, picked>> /\ Steps' = Steps
        /\ seen' = IF options.base > 0 THEN options.base ELSE seen
    BY <1>5 DEF TakeBase, GoOn, Untouched, who, taiga, Steps
  <2>2. Shown' = Shown
    BY <1>0, <2>1 DEF Shown
  <2>3. options.base = 0 => seen' <= Version(items[1])'
    BY <1>0, <1>5, <2>1 DEF GuardInv
  <2>4. NoRequest' = NoRequest
    BY DEF NoRequest
  <2> QED
    BY <1>0, <1>1, <1>5, <2>1, <2>2, <2>3, <2>4 DEF GuardInv
<1>6. CASE SendDone
  <2>1. /\ At("send") /\ Steps[pc].do = "send" /\ Effect(Request) /\ (pc' = pc \/ pc' = pc + 1)
        /\ late' \in {late, Request} /\ UNCHANGED <<command, options, picked, seen>>
    BY <1>6 DEF SendDone, At, who, read, GoOn, Stop
  <2>2. items' \in [Items -> Records] /\ Version(items[1]) <= Version(items'[1])
    BY <1>0, <2>1, EffectIs DEF TypeOK, Request
  <2>3. late' # NoRequest /\ Programs[command].versioned =>
          late'.how \in Guarded /\ late'.picked = 1 /\ late'.seen <= Shown
    BY <1>1, <2>1, RequestIsGuarded
  <2> QED
    BY <2>1, <2>2, <2>3, GuardKept
<1>7. CASE SendNotDone
  <2>1. /\ At("send") /\ Steps[pc].do = "send" /\ (pc' = pc \/ pc' = pc + 1) /\ late' \in {late, Request}
        /\ UNCHANGED <<command, options, items, picked, seen>>
    BY <1>7 DEF SendNotDone, At, who, read, GoOn, Stop
  <2>2. late' # NoRequest /\ Programs[command].versioned =>
          late'.how \in Guarded /\ late'.picked = 1 /\ late'.seen <= Shown
    BY <1>1, <2>1, RequestIsGuarded
  <2> QED
    BY <1>0, <2>1, <2>2, GuardKept
<1>8. CASE Arrives
  <2>1. /\ late' = NoRequest /\ UNCHANGED <<command, options, pc, picked, seen>>
        /\ Effect(late) \/ items' = items
    BY <1>8 DEF Arrives, who, read
  <2>2. items' \in [Items -> Records] /\ Version(items[1]) <= Version(items'[1])
    <3>1. late.picked \in Items /\ added \in Nat
      BY DEF TypeOK, Requests
    <3>2. CASE Effect(late)
      BY <1>0, <3>1, <3>2, EffectIs
    <3>3. CASE items' = items
      BY <1>0, <3>3
    <3> QED
      BY <2>1, <3>2, <3>3
  <2> QED
    BY <2>1, <2>2, GuardKept
<1>9. CASE Meddle
  <2>1. UNCHANGED <<command, options, pc, picked, seen, late>>
    BY <1>9 DEF Meddle, who, read
  <2>2. items' \in [Items -> Records] /\ Version(items[1]) <= Version(items'[1])
    BY <1>0, <1>9, MeddleIs
  <2> QED
    BY <1>1, <2>1, <2>2, GuardKept
<1>10. ASSUME Repeat, Programs[command].versioned PROVE GuardInv'
  <2>1. pc' = 1 /\ picked' = 1 /\ UNCHANGED <<command, options, seen, items, late>>
    BY <1>10 DEF Repeat
  <2>2. Steps' = Steps /\ Shown' = Shown /\ NoRequest' = NoRequest
    BY <2>1 DEF Steps, Shown, NoRequest
  <2> QED
    BY <1>0, <1>10, <2>1, <2>2 DEF GuardInv
<1>11. CASE UNCHANGED vars
  BY <1>0, <1>1, <1>11, GuardKept DEF vars, who, read, taiga
<1>12. ASSUME ~Programs[command].versioned PROVE GuardInv'
  <2>1. command' = command
    BY DEF Next, Check, AskTaiga, LoadItem, FindItem, ProbeItem, TakeBase, RehearseOrGoOn, AskPerson,
       SkipSame, RefuseAll, SendDone, SendNotDone, CheckWritten, ReadAnswer, Arrives, Meddle, Repeat,
       Untouched, who, vars
  <2> QED
    BY <1>12, <2>1 DEF GuardInv
<1> QED
  BY <1>2, <1>3, <1>4, <1>5, <1>6, <1>7, <1>8, <1>9, <1>10, <1>11, <1>12 DEF Next

\* A guarded request overwrites no change that came after the version it names.
LEMMA GuardedWrite ==
  ASSUME TypeOK, NEW q, q \in Requests, q.how \in Guarded, q.picked = 1, q.seen <= Shown,
         Acceptable(q), Effect(q), NEW r \in Items, NEW f \in Fields,
         items[r].by[f] = "web", items'[r].by[f] = "wanted"
  PROVE  items[r].at[f] <= Shown
<1>1. /\ items \in [Items -> Records] /\ added \in Nat /\ 1 \in Items
      /\ q.how \notin Adding \cup {"remove"} /\ q.seen \in Nat /\ Shown \in Nat
  BY DEF TypeOK, Items, Requests, Guarded, Adding, Shown
<1>2. r = 1 /\ f = "asked"
  <2>1. \A s \in Items \ {1} : items'[s] = items[s]
    BY <1>1, EffectIs
  <2>2. items'[1].by["other"] = items[1].by["other"]
    BY <1>1, EffectIs
  <2> QED
    BY <2>1, <2>2 DEF Fields
<1>3. items[1] \in Records /\ items[1].at["asked"] \in Nat /\ items[1].at["asked"] <= Version(items[1])
      /\ Version(items[1]) \in Nat
  BY <1>1, VersionIsNat DEF Records, Fields
<1>4. items[1].at["asked"] <= q.seen
  BY <1>1, <1>3 DEF Acceptable, UpToDate, Guarded
<1> QED
  BY <1>1, <1>2, <1>3, <1>4

THEOREM GuardInvariant == Spec => []GuardInv
<1> QED
  BY GuardInvInit, GuardInvStep, CommandInvariant, CommandsTypeCorrect, PTL DEF Spec

\* Whatever the commands are made of, and however often somebody else changes
\* the record in between: no change the caller was not shown is overwritten, not
\* by a request that arrives after the command is over either (the "version" of
\* every edit, --base-version).
THEOREM NobodysChangeIsLost == Spec => NoLostUpdate
<1> DEFINE Kept ==
      Programs[command].versioned =>
        \A r \in Items, f \in Fields :
          items[r].by[f] = "web" /\ items'[r].by[f] = "wanted" => items[r].at[f] <= Shown
<1>1. TypeOK /\ CommandInv /\ GuardInv /\ [Next]_vars => [Kept]_vars
  <2> SUFFICES ASSUME TypeOK, CommandInv, GuardInv, [Next]_vars, Programs[command].versioned,
                      NEW r \in Items, NEW f \in Fields,
                      items[r].by[f] = "web", items'[r].by[f] = "wanted"
               PROVE  items[r].at[f] <= Shown
    OBVIOUS
  <2>1. items' # items
    OBVIOUS
  <2>2. SendDone \/ Arrives \/ Meddle
    BY <2>1 DEF Next, Check, AskTaiga, LoadItem, FindItem, ProbeItem, TakeBase, RehearseOrGoOn, AskPerson,
       SkipSame, RefuseAll, SendNotDone, CheckWritten, ReadAnswer, Repeat, Untouched, taiga, vars
  <2>3. CASE SendDone
    <3>1. At("send") /\ Acceptable(Request) /\ Effect(Request)
      BY <2>3 DEF SendDone
    <3>2. Request \in Requests /\ Request.how \in Guarded /\ Request.picked = 1 /\ Request.seen <= Shown
      BY <3>1, RequestIsTyped, RequestIsGuarded
    <3> QED
      BY <3>1, <3>2, GuardedWrite
  <2>4. CASE Arrives
    <3>1. late # NoRequest /\ Acceptable(late) /\ Effect(late)
      BY <2>1, <2>4 DEF Arrives
    <3>2. late \in Requests /\ late.how \in Guarded /\ late.picked = 1 /\ late.seen <= Shown
      BY <3>1 DEF TypeOK, GuardInv
    <3> QED
      BY <3>1, <3>2, GuardedWrite
  <2>5. ~Meddle
    BY MeddleIs DEF TypeOK
  <2> QED
    BY <2>2, <2>3, <2>4, <2>5
<1> QED
  BY <1>1, CommandInvariant, CommandsTypeCorrect, GuardInvariant, PTL DEF Spec, NoLostUpdate

-----------------------------------------------------------------------------
(* What a run has done, by how far it got.                                 *)

SentBefore == \E j \in 1 .. pc - 1 : Steps[j].do = "send"

\* A run that has changed Taiga has passed its write, one that passed a write
\* whose answer proves something has changed Taiga; and a first run leaves
\* something to arrive only after its write, and where its change is not in, but
\* for an export.
SendInv ==
  /\ late # NoRequest => Sends(Steps, {late.how})
  /\ spent /\ report = "none" => SentBefore
  /\ \A j \in 1 .. pc - 1 : Steps[j].do = "send" /\ Steps[j].how # "ask" => spent
  /\ \A j \in 1 .. pc - 1 : Steps[j].do # "refuse"
  /\ run = 1 /\ settled /\ report = "none" => SentBefore
  /\ run = 1 /\ late # NoRequest => report # "none" \/ SentBefore
  /\ run = 1 /\ late # NoRequest /\ settled => Sends(Steps, {"enqueue"})
  /\ run = 2 => Programs[command].repeats /\ ~Programs[command].reads

LEMMA SendInvInit == Init => SendInv
  BY DEF Init, SendInv, NoRequest

\* There is one write, and after it nothing but looking.
LEMMA OneWrite ==
  ASSUME CommandInv, report = "none"
  PROVE  /\ Steps[pc].do = "send" => ~SentBefore
         /\ Steps[pc].do \notin {"recheck", "expect"} => ~SentBefore
         /\ \A w : Steps[pc].do = "send" /\ Sends(Steps, {w}) => w = How
<1> USE AtAStep, StepsAreSteps DEF CommandInv, Steps
<1>1. ASSUME SentBefore, Steps[pc].do \notin {"recheck", "expect"} PROVE FALSE
  <2>1. PICK j \in 1 .. pc - 1 : Steps[j].do = "send"
    BY <1>1 DEF SentBefore
  <2>2. j \in 1 .. Len(Steps) /\ pc \in j + 1 .. Len(Steps) /\ WritesLast(Steps, j)
    BY <2>1
  <2> QED
    BY <1>1, <2>2 DEF WritesLast
<1>2. ASSUME NEW w, Steps[pc].do = "send", Sends(Steps, {w}) PROVE w = How
  <2>1. PICK i \in 1 .. Len(Steps) : Steps[i].do = "send" /\ Steps[i].how = w
    BY <1>2 DEF Sends
  <2>2. i = pc
    BY <1>2, <2>1
  <2> QED
    BY <2>1, <2>2 DEF How
<1> QED
  BY <1>1, <1>2

\* There is one write, so there is one kind of it.
LEMMA OneKindOfWrite ==
  ASSUME CommandInv, NEW v, NEW w, Sends(Steps, {v}), Sends(Steps, {w})
  PROVE  v = w
<1>1. PICK i \in 1 .. Len(Steps) : Steps[i].do = "send" /\ Steps[i].how = v
  BY DEF Sends
<1>2. PICK j \in 1 .. Len(Steps) : Steps[j].do = "send" /\ Steps[j].how = w
  BY DEF Sends
<1>3. i = j
  BY <1>1, <1>2, StepsAreSteps DEF CommandInv, Steps
<1> QED
  BY <1>1, <1>2, <1>3

\* A step that sends nothing keeps SendInv.
LEMMA LookingKeepsSends ==
  ASSUME CommandInv, SendInv, report = "none", UNCHANGED <<who, late, added, spent, settled>>,
         \/ GoOn /\ Steps[pc].do \notin {"send", "refuse"}
         \/ pc' = pc /\ report' # "none"
  PROVE  SendInv'
<1>1. /\ UNCHANGED <<command, options, run, Steps>> /\ NoRequest' = NoRequest /\ pc \in 1 .. Len(Steps)
  BY AtAStep DEF who, Steps, NoRequest
<1>2. CASE GoOn /\ Steps[pc].do \notin {"send", "refuse"}
  <2>1. pc' = pc + 1
    BY <1>2 DEF GoOn
  <2>2. \A j \in 1 .. pc' - 1 : j = pc \/ j \in 1 .. pc - 1
    BY <1>1, <2>1
  <2>3. \A j \in 1 .. pc - 1 : j \in 1 .. pc' - 1
    BY <1>1, <2>1
  <2>4. SentBefore => SentBefore'
    BY <1>1, <2>3 DEF SentBefore
  <2>5. /\ \A j \in 1 .. pc' - 1 : Steps[j].do = "send" /\ Steps[j].how # "ask" => spent
        /\ \A j \in 1 .. pc' - 1 : Steps[j].do # "refuse"
    BY <1>2, <2>2 DEF SendInv
  <2>7. (spent \/ (run = 1 /\ (settled \/ late # NoRequest))) => SentBefore'
    BY <2>4 DEF SendInv
  <2>8. UNCHANGED <<command, run, late, added, spent, settled>> /\ Steps' = Steps
    BY <1>1
  <2>9. /\ late' # NoRequest' => Sends(Steps', {late'.how})
        /\ run' = 1 /\ late' # NoRequest' => report' # "none" \/ SentBefore'
        /\ run' = 1 /\ late' # NoRequest' /\ settled' => Sends(Steps', {"enqueue"})
        /\ run' = 2 => Programs[command'].repeats /\ ~Programs[command'].reads
    BY <1>1, <2>7, <2>8 DEF SendInv
  <2> QED
    BY <2>5, <2>7, <2>8, <2>9 DEF SendInv
<1>3. CASE pc' = pc /\ report' # "none"
  BY <1>1, <1>3 DEF SendInv, SentBefore
<1> QED
  BY <1>2, <1>3

LEMMA SendInvStep == TypeOK /\ CommandInv /\ SendInv /\ [Next]_vars => SendInv'
<1> SUFFICES ASSUME TypeOK, CommandInv, SendInv, [Next]_vars PROVE SendInv'
  OBVIOUS
<1>1. CASE Check \/ AskTaiga \/ LoadItem \/ FindItem \/ ProbeItem \/ TakeBase \/ RehearseOrGoOn
             \/ AskPerson \/ SkipSame \/ RefuseAll \/ CheckWritten \/ ReadAnswer
  <2>1. /\ report = "none" /\ UNCHANGED <<who, late, added, spent, settled>>
        /\ \/ GoOn /\ Steps[pc].do \notin {"send", "refuse"}
           \/ \E r \in {"success", "refused", "transport", "validation", "confirmation", "ambiguous",
                       "unreadable"} : Stop(r)
           \/ Check /\ Stop(How)
    BY <1>1 DEF Check, AskTaiga, LoadItem, FindItem, ProbeItem, TakeBase, RehearseOrGoOn, AskPerson, SkipSame,
       RefuseAll, CheckWritten, ReadAnswer, At, Untouched, taiga, Fail
  <2>2. Check => How # "none"
    BY AtAStep, ChecksFailAs DEF Check, At, How
  <2>3. (GoOn /\ Steps[pc].do \notin {"send", "refuse"}) \/ (pc' = pc /\ report' # "none")
    BY <2>1, <2>2 DEF Stop
  <2> QED
    BY <2>1, <2>3, LookingKeepsSends
<1>2. ASSUME At("send"), GoOn
      PROVE  /\ \A j \in 1 .. pc' - 1 : j = pc \/ j \in 1 .. pc - 1
             /\ \E j \in 1 .. pc' - 1 : Steps[j].do = "send"
             /\ \A j \in 1 .. pc' - 1 : Steps[j].do # "refuse"
             /\ \A j \in 1 .. pc' - 1 : Steps[j].do = "send" => j = pc
             /\ pc' = pc + 1
  <2>1. pc \in 1 .. Len(Steps) /\ pc' = pc + 1 /\ Steps[pc].do = "send" /\ ~SentBefore
    BY <1>2, AtAStep, OneWrite DEF GoOn, At
  <2>2. \A j \in 1 .. pc' - 1 : j = pc \/ j \in 1 .. pc - 1
    BY <2>1
  <2>3. pc \in 1 .. pc' - 1
    BY <2>1
  <2> QED
    BY <2>1, <2>2, <2>3 DEF SendInv, SentBefore
<1>3. ASSUME At("send"), late # NoRequest PROVE run # 1
  BY <1>3, OneWrite DEF At, SendInv
<1>4. ASSUME At("send") PROVE Sends(Steps, {How}) /\ ~spent /\ (run = 1 => ~settled)
  <2>1. pc \in 1 .. Len(Steps) /\ Steps[pc].do = "send" /\ ~SentBefore /\ report = "none"
    BY <1>4, AtAStep, OneWrite DEF At
  <2> QED
    BY <2>1 DEF SendInv, Sends, How
<1>5. CASE SendDone
  <2>1. /\ At("send") /\ Effect(Request) /\ spent' = TRUE /\ UNCHANGED <<command, options, run>>
        /\ GoOn \/ (pc' = pc /\ report' # "none")
        /\ late' \in {late, Request} /\ (late' # late => How = "enqueue")
        /\ Steps' = Steps /\ NoRequest' = NoRequest
    BY <1>5 DEF SendDone, who, Steps, Stop, NoRequest
  <2>2. /\ late' # NoRequest => Sends(Steps, {late'.how})
        /\ run = 1 /\ late' # NoRequest => Sends(Steps, {"enqueue"})
    <3>1. Request.how = How
      BY DEF Request
    <3> QED
      BY <1>3, <1>4, <2>1, <3>1 DEF SendInv
  <2>3. CASE GoOn
    BY <1>2, <1>3, <2>1, <2>2, <2>3 DEF SendInv, SentBefore
  <2>4. CASE pc' = pc /\ report' # "none"
    BY <1>3, <2>1, <2>2, <2>4 DEF SendInv
  <2> QED
    BY <2>1, <2>3, <2>4
<1>6. CASE SendNotDone
  <2>1. /\ At("send") /\ UNCHANGED <<command, options, run, added, spent, settled>>
        /\ Steps' = Steps /\ NoRequest' = NoRequest /\ late' \in {late, Request}
        /\ (GoOn /\ How = "ask" /\ late' = late) \/ (pc' = pc /\ report' # "none")
    BY <1>6 DEF SendNotDone, who, Steps, Stop, NoRequest
  <2>2. Request.how = How
    BY DEF Request
  <2>3. late' # NoRequest => Sends(Steps, {late'.how})
    BY <1>4, <2>1, <2>2 DEF SendInv
  <2>4. CASE GoOn /\ How = "ask" /\ late' = late
    <3>1. \A j \in 1 .. pc' - 1 : Steps[j].do = "send" => Steps[j].how = "ask"
      BY <1>2, <2>1, <2>4 DEF How
    <3> QED
      BY <1>2, <1>3, <2>1, <2>3, <2>4, <3>1 DEF SendInv, SentBefore
  <2>5. CASE pc' = pc /\ report' # "none"
    BY <1>4, <2>1, <2>3, <2>5 DEF SendInv
  <2> QED
    BY <2>1, <2>4, <2>5
<1>7. CASE Arrives
  <2>1. /\ late # NoRequest /\ late' = NoRequest /\ UNCHANGED <<command, options, run, pc, report, spent>>
        /\ Effect(late) \/ UNCHANGED <<items, added, settled>>
        /\ Steps' = Steps /\ NoRequest' = NoRequest
    BY <1>7 DEF Arrives, who, Steps, NoRequest
  <2> QED
    BY <2>1 DEF SendInv, SentBefore
<1>8. CASE Meddle
  BY <1>8 DEF Meddle, who, Steps, NoRequest, SendInv, SentBefore
<1>9. CASE Repeat
  <2>1. /\ run' = 2 /\ pc' = 1 /\ spent' = FALSE /\ UNCHANGED <<command, options, added, late>>
        /\ Programs[command].repeats /\ ~Programs[command].reads
        /\ Steps' = Steps /\ NoRequest' = NoRequest
    BY <1>9 DEF Repeat, Steps, NoRequest
  <2> QED
    BY <2>1 DEF SendInv
<1>10. CASE UNCHANGED vars
  BY <1>10 DEF vars, who, taiga, Steps, NoRequest, SendInv, SentBefore
<1> QED
  BY <1>1, <1>5, <1>6, <1>7, <1>8, <1>9, <1>10 DEF Next

THEOREM SendInvariant == Spec => []SendInv
<1> QED
  BY SendInvInit, SendInvStep, CommandInvariant, CommandsTypeCorrect, PTL DEF Spec

-----------------------------------------------------------------------------
(* A run keeps the promises of OneChange.                                  *)

\* What makes success the truth though the run has changed nothing.
Reason == options.dry \/ Programs[command].reads \/ same \/ IsWanted

Refusals == {"usage", "validation", "refused", "conflict", "confirmation"}

\* A step that sends nothing goes on as promised when its report is true.
LEMMA LookingIsPromised ==
  ASSUME report = "none", Untouched,
         report' = "success" => (spent /\ MadeAll) \/ Reason',
         report' = "unreadable" => spent,
         report' \in Refusals => ~spent, report' \in Reports
  PROVE  Promise!Proceed
<1>1. /\ UNCHANGED <<Steps, World, meddled, spent, settled>> /\ (late' # NoRequest' <=> late # NoRequest)
      /\ MadeAll' = MadeAll
  BY DEF Untouched, who, taiga, Steps, World, NoRequest, MadeAll
<1>2. Sends(Steps', Loose') = Sends(Steps, Loose)
  BY <1>1 DEF Loose
<1>3. /\ report' = "success" => (spent' /\ MadeAll') \/ Reason'
      /\ report' = "unreadable" => spent'
      /\ report' \notin {"none", "ambiguous", "transport", "success", "unreadable"} => ~spent'
  BY <1>1 DEF Refusals, Reports
<1> QED
  BY <1>1, <1>2, <1>3 DEF Promise!Proceed, Promise!Truthful, Promise!Unsure, Reason

\* Who gets past the last step has changed Taiga, or reads.
LEMMA TheEndIsEarned ==
  ASSUME CommandInv, SendInv, report = "none", pc = Len(Steps),
         Steps[pc].do \notin {"send", "refuse"}
  PROVE  /\ spent \/ Programs[command].reads \/ (Steps[pc].do = "recheck" /\ Sends(Steps, {"ask"}))
         /\ Sends(Steps, {"bulk"}) => Steps[pc].do = "recheck"
<1>0. ASSUME Sends(Steps, {"bulk"}) PROVE Steps[pc].do = "recheck"
  <2>1. PICK i \in 1 .. Len(Steps) : Steps[i].do = "send" /\ Steps[i].how = "bulk"
    BY <1>0 DEF Sends
  <2> QED
    BY <2>1, StepsAreSteps DEF CommandInv, Steps, WritesLast
<1> SUFFICES ASSUME ~Programs[command].reads, ~spent
             PROVE  Steps[pc].do = "recheck" /\ Sends(Steps, {"ask"})
  BY <1>0
<1>1. PICK i \in 1 .. Len(Steps) : Steps[i].do \in {"send", "refuse"}
  BY StepsAreSteps DEF CommandInv, Steps, Has
<1>2. i \in 1 .. pc - 1
  BY <1>1, AtAStep
<1>3. Steps[i].do = "send" /\ Steps[i].how = "ask"
  BY <1>1, <1>2 DEF SendInv
<1>4. WritesLast(Steps, i)
  BY <1>1, <1>3, StepsAreSteps DEF CommandInv, Steps
<1> QED
  BY <1>1, <1>3, <1>4 DEF WritesLast, Sends

LEMMA PromiseStep ==
  TypeOK /\ CommandInv /\ SendInv /\ [Next]_vars =>
    [Promise!Others \/ Promise!Proceed \/ Promise!Late \/ Promise!Again]_(Promise!promiseVars)
<1> DEFINE Goal == Promise!Others \/ Promise!Proceed \/ Promise!Late \/ Promise!Again
                     \/ UNCHANGED Promise!promiseVars
<1> SUFFICES ASSUME TypeOK, CommandInv, SendInv, [Next]_vars PROVE Goal
  OBVIOUS
<1>2. CASE Check \/ AskTaiga \/ LoadItem \/ FindItem \/ ProbeItem \/ TakeBase \/ RehearseOrGoOn
             \/ AskPerson \/ SkipSame \/ RefuseAll
  <2>1. /\ report = "none" /\ Untouched
        /\ Steps[pc].do \notin {"send", "recheck", "expect"}
        /\ \/ GoOn /\ Steps[pc].do # "refuse"
           \/ \E r \in {"refused", "transport", "validation", "confirmation"} : Stop(r)
           \/ Check /\ How # "auth" /\ Stop(How)
           \/ options.dry /\ Stop("success")
           \/ same /\ UNCHANGED same /\ Stop("success")
    BY <1>2 DEF Check, AskTaiga, LoadItem, FindItem, ProbeItem, TakeBase, RehearseOrGoOn, AskPerson, SkipSame,
       RefuseAll, At, read, Fail
  <2>2. UNCHANGED <<command, options>> /\ ~spent
    BY <2>1, OneWrite DEF Untouched, who, SendInv
  <2>3. Check /\ How # "auth" => How \in Refusals
    BY AtAStep, ChecksFailAs DEF Check, At, How, Refusals
  <2>4. /\ report' = "success" => Reason'
        /\ report' \in Reports /\ report' # "unreadable"
    <3>1. CASE GoOn /\ Steps[pc].do # "refuse"
      <4>1. report' = "none" \/ (report' = "success" /\ Programs[command].reads)
        BY <2>1, <2>2, <3>1, TheEndIsEarned DEF GoOn
      <4> QED
        BY <2>2, <4>1 DEF Reason, Reports
    <3>2. CASE \E r \in {"refused", "transport", "validation", "confirmation"} : Stop(r)
      BY <3>2 DEF Stop, Reports
    <3>3. CASE Check /\ How # "auth" /\ Stop(How)
      BY <2>3, <3>3 DEF Stop, Reports, Refusals
    <3>4. CASE options.dry /\ Stop("success")
      BY <2>2, <3>4 DEF Stop, Reports, Reason
    <3>5. CASE same /\ UNCHANGED same /\ Stop("success")
      BY <3>5 DEF Stop, Reports, Reason
    <3> QED
      BY <2>1, <3>1, <3>2, <3>3, <3>4, <3>5
  <2> QED
    BY <2>1, <2>2, <2>4, LookingIsPromised
<1>3. CASE CheckWritten
  <2>1. /\ report = "none" /\ Untouched /\ Steps[pc].do = "recheck" /\ UNCHANGED read
        /\ (Shows /\ GoOn) \/ Stop("ambiguous")
    BY <1>3 DEF CheckWritten, At
  <2>2. IsWanted' = IsWanted /\ UNCHANGED <<command, options>>
    BY <2>1 DEF Untouched, taiga, read, IsWanted, who
  <2>3. CASE Shows /\ GoOn
    <3>1. report' = "none" \/ (report' = "success"
            /\ (spent \/ Programs[command].reads \/ Sends(Steps, {"ask"})))
      BY <2>1, <2>3, TheEndIsEarned DEF GoOn
    <3>2. ASSUME Sends(Steps, {"ask"}) PROVE ~Sends(Steps, {"bulk"})
      BY <3>2, OneKindOfWrite
    <3>3. MadeAll /\ (Sends(Steps, {"ask"}) => IsWanted)
      BY <2>3, <3>2 DEF Shows, MadeAll
    <3>4. report' = "success" => (spent /\ MadeAll) \/ Reason'
      BY <2>2, <3>1, <3>3 DEF Reason
    <3>5. report' \in {"none", "success"}
      BY <3>1
    <3> QED
      BY <2>1, <3>4, <3>5, LookingIsPromised DEF Reports, Refusals
  <2>4. CASE Stop("ambiguous")
    BY <2>1, <2>4, LookingIsPromised DEF Stop, Reports, Refusals
  <2> QED
    BY <2>1, <2>3, <2>4
<1>4. CASE ReadAnswer
  <2>1. report = "none" /\ Untouched /\ Steps[pc].do = "expect" /\ (GoOn \/ Stop("unreadable"))
    BY <1>4 DEF ReadAnswer, At
  <2>2. spent
    <3>1. pc \in 1 .. Len(Steps)
      BY <2>1, AtAStep
    <3>2. PICK i \in 1 .. pc - 1 : Steps[i].do = "send"
      BY <2>1, <3>1, StepsAreSteps DEF CommandInv, Steps
    <3>3. WritesLast(Steps, i)
      BY <3>1, <3>2, StepsAreSteps DEF CommandInv, Steps
    <3>4. Steps[i].how # "ask"
      BY <2>1, <3>1, <3>3 DEF WritesLast, Has
    <3> QED
      BY <3>2, <3>4 DEF SendInv
  <2>3. report' \in {"none", "success", "unreadable"}
    BY <2>1 DEF GoOn, Stop
  <2>4. report' = "success" => MadeAll
    BY <2>1, TheEndIsEarned DEF GoOn, Stop, MadeAll
  <2> QED
    BY <2>1, <2>2, <2>3, <2>4, LookingIsPromised DEF Reports, Refusals
<1>5. CASE SendDone
  <2>1. /\ report = "none" /\ spent' = TRUE /\ UNCHANGED <<command, options, meddled>>
        /\ At("send") /\ pc \in 1 .. Len(Steps) /\ Steps[pc].do = "send"
        /\ late' \in {late, Request} /\ (late' # late => How \in Loose)
        /\ GoOn \/ Stop("ambiguous") \/ Stop("transport") \/ (How \in Loose /\ Stop("refused"))
    BY <1>5, AtAStep DEF SendDone, At, who, Loose
  <2>2. ~spent
    BY <2>1, OneWrite DEF SendInv
  <2>3. UNCHANGED <<Sends(Steps, Loose)>> /\ NoRequest' = NoRequest /\ Request # NoRequest
    BY <2>1, RequestIsTyped DEF Steps, NoRequest, Loose
  <2>4. How \in Loose => Sends(Steps, Loose)
    BY <2>1 DEF How, Sends
  <2>5. report' = "success" => MadeAll'
    <3>1. ASSUME report' = "success" PROVE ~Sends(Steps, {"bulk"})
      <4>1. pc = Len(Steps)
        BY <2>1, <3>1 DEF GoOn, Stop
      <4>2. How # "bulk"
        BY <2>1, <4>1, StepsAreSteps DEF CommandInv, Steps, How, WritesLast
      <4> QED
        BY <2>1, <4>2, OneWrite
    <3>2. Steps' = Steps
      BY <2>1 DEF Steps
    <3> QED
      BY <3>1, <3>2 DEF MadeAll
  <2>6. report' \in {"none", "success", "ambiguous", "transport"}
          \/ (report' = "refused" /\ Sends(Steps, Loose))
    BY <2>1, <2>4 DEF GoOn, Stop
  <2>7. (late' # NoRequest') # (late # NoRequest) => late' # NoRequest' /\ Sends(Steps, Loose)
    BY <2>1, <2>3, <2>4
  <2> QED
    BY <2>1, <2>2, <2>3, <2>5, <2>6, <2>7 DEF Promise!Proceed, Promise!Truthful, Promise!Unsure
<1>6. CASE SendNotDone
  <2>1. /\ report = "none" /\ UNCHANGED <<command, options, items, added, spent, meddled>>
        /\ At("send") /\ pc \in 1 .. Len(Steps) /\ Steps[pc].do = "send"
        /\ \/ \E r \in {"refused", "conflict"} : Stop(r) /\ late' = late
           \/ Stop("refused") /\ How \in Loose /\ late' \in {late, Request}
           \/ (Stop("ambiguous") \/ Stop("transport")) /\ late' \in {late, Request}
           \/ How = "ask" /\ GoOn /\ late' = late
    BY <1>6, AtAStep DEF SendNotDone, At, who
  <2>2. ~spent
    BY <2>1, OneWrite DEF SendInv
  <2>3. UNCHANGED <<Sends(Steps, Loose), World>> /\ NoRequest' = NoRequest
    BY <2>1 DEF Steps, NoRequest, World, Loose
  <2>4. Request # NoRequest
    BY <2>1, RequestIsTyped
  <2>5. How = "ask" => pc # Len(Steps)
    BY <2>1, StepsAreSteps DEF CommandInv, Steps, How, WritesLast
  <2>6. How \in Loose => Sends(Steps, Loose)
    BY <2>1 DEF How, Sends
  <2>7. /\ report' \in {"none", "refused", "conflict", "ambiguous", "transport"}
        /\ late' # late => late' = Request
             /\ (report' \in {"ambiguous", "transport"} \/ Sends(Steps, Loose))
    BY <2>1, <2>5, <2>6 DEF GoOn, Stop
  <2> QED
    BY <2>1, <2>2, <2>3, <2>4, <2>7 DEF Promise!Proceed, Promise!Truthful, Promise!Unsure
<1>7. CASE Arrives
  <2>1. /\ late # NoRequest /\ late' = NoRequest /\ NoRequest' = NoRequest
        /\ UNCHANGED <<command, meddled, spent, report>>
    BY <1>7 DEF Arrives, NoRequest, who
  <2>2. UNCHANGED <<Sends(Steps, Loose)>>
    BY <2>1 DEF Steps, Loose
  <2> QED
    BY <2>1, <2>2 DEF Promise!Late
<1>8. CASE Meddle
  <2>1. UNCHANGED <<command, late, spent, report>> /\ meddled' = meddled + 1 /\ NoRequest' = NoRequest
    BY <1>8 DEF Meddle, NoRequest, who
  <2>2. UNCHANGED <<Sends(Steps, Loose)>>
    BY <2>1 DEF Steps, Loose
  <2> QED
    BY <2>1, <2>2 DEF Promise!Others
<1>9. CASE Repeat
  <2>1. /\ UNCHANGED <<command, items, added, late, meddled>> /\ NoRequest' = NoRequest
        /\ report # "none" /\ report' = "none" /\ spent' = FALSE
    BY <1>9 DEF Repeat, NoRequest
  <2>2. UNCHANGED <<Sends(Steps, Loose), World>>
    BY <2>1 DEF Steps, World, Loose
  <2> QED
    BY <2>1, <2>2 DEF Promise!Again
<1>10. CASE UNCHANGED vars
  BY <1>10 DEF vars, who, read, taiga, Steps, World, NoRequest, IsWanted, MadeAll, Loose, Promise!promiseVars
<1> QED
  BY <1>2, <1>3, <1>4, <1>5, <1>6, <1>7, <1>8, <1>9, <1>10 DEF Next

\* Any commands made of these steps keep the promises of OneChange: at most one
\* change per run, a report that is true of it, and no success without a reason
\* (README.md:109-121, the exit codes).
THEOREM AnswersAreTrueOfEveryCommand == Spec => AnswersAreTrue
<1>1. Init => Promise!PromiseInit
  BY DEF Init, Promise!PromiseInit
<1> QED
  BY <1>1, PromiseStep, CommandInvariant, CommandsTypeCorrect, SendInvariant, PTL
     DEF Spec, AnswersAreTrue, Promise!PromiseSpec

-----------------------------------------------------------------------------
(* Running a command again is harmless.                                    *)

\* Where that is what counts: nobody else has changed anything.
Undisturbed ==
  /\ meddled = 0 /\ command \notin ByNumber
  /\ Programs[command].repeats /\ ~Programs[command].reads

Removing == Sends(Steps, {"remove"})
Finds == Has(Steps, {"find"})

\* The records a deletion could still reach.
Left == IF Finds THEN Candidates ELSE {r \in {1} : items[r].there}

\* The records any other command means.
Meant ==
  IF Finds THEN {r \in Items : \E i \in 1 .. Len(Steps) : Steps[i].do = "find" /\ r \in Denoted(Steps[i].how)}
  ELSE {1}

\* r is the one record the command is about; a deletion is about none once it
\* is gone.
About(r) ==
  IF Removing THEN Left \subseteq {r} /\ (items[r].there => r \in Left) ELSE Meant = {r}

Achieved ==
  IF Removing THEN Left = {}
  ELSE \A r \in Meant : items[r].there /\ items[r].by["asked"] = "wanted"

\* The record in hand, and the one of the late request, is the one the text
\* typed still denotes, and when the change is in, that record is as wanted.
RepeatInv ==
  Undisturbed =>
    /\ Finds => \E r \in Items : items[r].called # "id"
    /\ (Finds => \E j \in 1 .. pc - 1 : Steps[j].do = "find") => About(picked)
    /\ late # NoRequest => About(late.picked)
    /\ settled => Achieved

LEMMA AboutWithoutFind ==
  ASSUME ~Finds PROVE About(1)
  BY DEF About, Left, Meant

LEMMA AboutKept ==
  ASSUME UNCHANGED <<command, items>>
  PROVE  /\ Steps' = Steps /\ Finds' = Finds /\ NoRequest' = NoRequest
         /\ \A r : About(r)' <=> About(r)
         /\ Achieved' <=> Achieved
<1>1. Steps' = Steps /\ Finds' = Finds /\ Removing' = Removing /\ NoRequest' = NoRequest
  BY DEF Steps, Finds, Removing, NoRequest
<1>2. \A how : Answering(how)' = Answering(how)
  BY DEF Answering
<1>3. Candidates' = Candidates
  BY <1>2 DEF Candidates
<1>4. Left' = Left
  BY <1>1, <1>3 DEF Left
<1>5. \A pick : Denoted(pick)' = Denoted(pick)
  BY <1>2, <1>3 DEF Denoted
<1>6. Meant' = Meant
  BY <1>1, <1>5 DEF Meant
<1> QED
  BY <1>1, <1>4, <1>6 DEF About, Achieved

\* A request about the record the command is about achieves the change, and
\* leaves everything in hand about that record.
LEMMA EffectAchieves ==
  ASSUME TypeOK, CommandInv, UNCHANGED command, MeansTheSame(Steps), NEW q, q.picked \in Items,
         Sends(Steps, {q.how}), About(q.picked), Acceptable(q), Effect(q)
  PROVE  /\ Achieved' /\ \A r \in Items : About(r) => About(r)'
         /\ \A r \in Items : items'[r].called = items[r].called
<1> DEFINE p == q.picked
<1>1. /\ Steps' = Steps /\ Finds' = Finds /\ Removing' = Removing
      /\ items \in [Items -> Records] /\ items' \in [Items -> Records]
      /\ \A r \in Items \ {p} : items'[r] = items[r]
      /\ \A r \in Items : items'[r].called = items[r].called
  BY EffectIs DEF Steps, Finds, Removing, TypeOK
<1>2. q.how \notin Adding
  BY DEF MeansTheSame, Sends
<1>3. CASE q.how = "remove"
  <2>1. Removing /\ ~items'[p].there
    BY <1>3, EffectIs DEF Removing, TypeOK
  <2>2. Left' = {}
    <3>1. Left \subseteq {p}
      BY <2>1 DEF About
    <3>2. Candidates' \subseteq Candidates \ {p}
      BY <1>1, <2>1 DEF Candidates, Answering
    <3>3. ~Finds => Left' \subseteq Left \ {p}
      BY <1>1, <2>1 DEF Left, Items
    <3>4. Finds => Left' = Candidates' /\ Left = Candidates
      BY <1>1 DEF Left
    <3> QED
      BY <3>1, <3>2, <3>3, <3>4
  <2>3. ASSUME NEW r \in Items, About(r) PROVE About(r)'
    <3>1. items'[r].there => r # p /\ items[r].there
      BY <1>1, <2>1
    <3>2. items[r].there => r = p
      BY <2>1, <2>3 DEF About
    <3> QED
      BY <1>1, <2>1, <2>2, <3>1, <3>2 DEF About
  <2> QED
    BY <1>1, <2>1, <2>2, <2>3 DEF Achieved
<1>4. CASE q.how # "remove"
  <2>1. ~Removing
    BY <1>4, OneKindOfWrite DEF Removing
  <2>2. items'[p].there /\ items'[p].by["asked"] = "wanted"
    BY <1>2, <1>4, EffectIs DEF TypeOK
  <2>3. Meant' = Meant
    <3>1. CASE ~Finds
      BY <1>1, <3>1 DEF Meant
    <3>2. CASE Finds
      <4>1. q.how # "put"
        BY <3>2 DEF MeansTheSame, Finds
      <4>2. items[p].there
        BY <1>2, <4>1 DEF Acceptable
      <4>3. \A r \in Items : items'[r].there = items[r].there
        BY <1>1, <2>2, <4>2 DEF Records
      <4>4. \A how : Answering(how)' = Answering(how)
        BY <1>1, <4>3 DEF Answering
      <4>5. Candidates' = Candidates
        BY <4>4 DEF Candidates
      <4>6. \A pick : Denoted(pick)' = Denoted(pick)
        BY <4>4, <4>5 DEF Denoted
      <4> QED
        BY <1>1, <4>6 DEF Meant
    <3> QED
      BY <3>1, <3>2
  <2>4. Meant = {p}
    BY <2>1 DEF About
  <2>5. Achieved'
    BY <1>1, <2>1, <2>2, <2>3, <2>4 DEF Achieved
  <2> QED
    BY <1>1, <2>1, <2>3, <2>5 DEF About
<1> QED
  BY <1>3, <1>4

\* The same request again changes nothing.
LEMMA AgainChangesNothing ==
  ASSUME TypeOK, CommandInv, MeansTheSame(Steps), Achieved, NEW q, q.picked \in Items,
         Sends(Steps, {q.how}), About(q.picked), Acceptable(q), Effect(q)
  PROVE  World' = World
<1> DEFINE p == q.picked
<1>1. /\ items \in [Items -> Records] /\ items' \in [Items -> Records]
      /\ \A r \in Items \ {p} : items'[r] = items[r]
      /\ items'[p].called = items[p].called /\ items'[p].by["other"] = items[p].by["other"]
  BY EffectIs DEF TypeOK
<1>2. q.how \notin Adding
  BY DEF MeansTheSame, Sends
<1>3. q.how # "remove"
  BY <1>2 DEF Removing, Acceptable, About, Achieved
<1>4. ~Removing
  BY <1>3, OneKindOfWrite DEF Removing
<1>5. items[p].there /\ items[p].by["asked"] = "wanted"
  BY <1>4 DEF About, Achieved
<1>6. items'[p].there /\ items'[p].by["asked"] = "wanted" /\ added' = added
  BY <1>2, <1>3, EffectIs DEF TypeOK
<1>7. items'[p].by = items[p].by
  <2>1. \A f \in Fields : items'[p].by[f] = items[p].by[f]
    BY <1>1, <1>5, <1>6 DEF Fields
  <2>2. /\ items[p].by \in [Fields -> {"before", "wanted", "web"}]
        /\ items'[p].by \in [Fields -> {"before", "wanted", "web"}]
    BY <1>1 DEF Records
  <2> QED
    BY <2>1, <2>2
<1>8. items'[p].there = items[p].there
  BY <1>1, <1>5, <1>6 DEF Records
<1>9. \A r \in Items : <<items'[r].there, items'[r].called, items'[r].by>>
                         = <<items[r].there, items[r].called, items[r].by>>
  BY <1>1, <1>7, <1>8
<1> QED
  BY <1>6, <1>9 DEF World

LEMMA RepeatInvInit == Init => RepeatInv
<1> SUFFICES ASSUME Init PROVE RepeatInv
  OBVIOUS
<1>1. pc = 1 /\ picked = 1 /\ late = NoRequest /\ settled = FALSE
  BY DEF Init
<1>2. Finds => \E r \in Items : items[r].called # "id"
  BY DEF Init, Finds
<1>3. Finds \/ About(picked)
  BY <1>1, AboutWithoutFind
<1> QED
  BY <1>1, <1>2, <1>3 DEF RepeatInv

\* The record a list was searched for is the one the command is about.
LEMMA FoundIsMeant ==
  ASSUME CommandInv, MeansTheSame(Steps), At("find"), NEW r \in Denoted(How),
         \E s \in Items : items[s].called # "id"
  PROVE  About(r)
<1>1. pc \in 1 .. Len(Steps) /\ Steps[pc].do = "find" /\ Finds
  BY AtAStep DEF At, Finds, Has
<1>2. \A i \in 1 .. Len(Steps) : Steps[i].do = "find" => i = pc
  BY <1>1 DEF MeansTheSame
<1>3. Meant = Denoted(How)
  <2>1. \A s \in Items : (\E i \in 1 .. Len(Steps) : Steps[i].do = "find" /\ s \in Denoted(Steps[i].how))
                           <=> s \in Denoted(How)
    BY <1>1, <1>2 DEF How
  <2> QED
    BY <1>1, <2>1, DenotedAreItems DEF Meant
<1>4. ASSUME NEW s \in Denoted(How) PROVE s = r
  <2>1. r \in Items /\ s \in Items
    BY DenotedAreItems
  <2>2. CASE How = "only"
    BY <2>2 DEF Denoted
  <2>3. CASE How = "id"
    BY <2>1, <2>3 DEF Denoted, Candidates, Answering, Items
  <2>4. CASE How = "first"
    BY <2>1, <2>4 DEF Denoted, Candidates, Answering, Items
  <2>5. How \in {"only", "id", "first"}
    BY DEF Denoted
  <2> QED
    BY <2>2, <2>3, <2>4, <2>5
<1>5. CASE Removing
  <2>1. How = "only"
    BY <1>1, <1>5 DEF MeansTheSame, Removing, How
  <2>2. Candidates = {r}
    BY <2>1 DEF Denoted
  <2> QED
    BY <1>1, <1>5, <2>2 DEF About, Left
<1>6. CASE ~Removing
  BY <1>3, <1>4, <1>6 DEF About
<1> QED
  BY <1>5, <1>6

\* At the write the record in hand is the one the command is about.
LEMMA InHandAtTheSend ==
  ASSUME TypeOK, CommandInv, RepeatInv, Undisturbed, MeansTheSame(Steps), At("send")
  PROVE  /\ About(Request.picked) /\ Request.picked \in Items
         /\ Request.how = How /\ Sends(Steps, {Request.how})
<1>1. pc \in 1 .. Len(Steps) /\ Steps[pc].do = "send"
  BY AtAStep DEF At
<1>2. Finds => \E j \in 1 .. pc - 1 : Steps[j].do = "find"
  <2>1. SUFFICES ASSUME Finds PROVE \E j \in 1 .. pc - 1 : Steps[j].do = "find"
    OBVIOUS
  <2>2. PICK j \in 1 .. Len(Steps) : Steps[j].do = "find"
    BY <2>1 DEF Finds, Has
  <2>3. j < pc
    BY <1>1, <2>2 DEF MeansTheSame
  <2> QED
    BY <1>1, <2>2, <2>3
<1>3. Sends(Steps, {How})
  BY <1>1 DEF Sends, How
<1> QED
  BY <1>2, <1>3 DEF RepeatInv, Request, TypeOK

LEMMA RepeatInvStep ==
  ASSUME RepeatablesMeanTheSame(DOMAIN Programs \ ByNumber)
  PROVE  TypeOK /\ CommandInv /\ SendInv /\ RepeatInv /\ [Next]_vars => RepeatInv'
<1> SUFFICES ASSUME TypeOK, CommandInv, SendInv, RepeatInv, [Next]_vars, Undisturbed'
             PROVE  RepeatInv'
  BY DEF RepeatInv
<1>1. ~Meddle /\ UNCHANGED <<command, meddled>> /\ Undisturbed
  <2>1. command' = command /\ (meddled' = meddled \/ meddled' = meddled + 1) /\ (Meddle => meddled' = meddled + 1)
    BY DEF Next, Check, AskTaiga, LoadItem, FindItem, ProbeItem, TakeBase, RehearseOrGoOn, AskPerson,
       SkipSame, RefuseAll, SendDone, SendNotDone, CheckWritten, ReadAnswer, Arrives, Meddle, Repeat,
       Untouched, who, vars
  <2> QED
    BY <2>1 DEF Undisturbed, CommandInv
<1>2. MeansTheSame(Steps)
  BY <1>1 DEF RepeatablesMeanTheSame, Undisturbed, Steps, CommandInv
<1>3. /\ Finds => \E r \in Items : items[r].called # "id"
      /\ (Finds => \E j \in 1 .. pc - 1 : Steps[j].do = "find") => About(picked)
      /\ late # NoRequest => About(late.picked)
      /\ settled => Achieved
  BY <1>1 DEF RepeatInv
<1>4. /\ Steps' = Steps /\ Finds' = Finds /\ NoRequest' = NoRequest /\ pc \in Nat
  BY <1>1 DEF Steps, Finds, NoRequest, CommandInv
\* The steps that send nothing.
<1>5. ASSUME UNCHANGED <<items, late, settled>>, pc' \in {pc, pc + 1},
             (Finds => \E j \in 1 .. pc' - 1 : Steps[j].do = "find") => About(picked')
      PROVE  RepeatInv'
  <2>1. (\A r : About(r)' <=> About(r)) /\ (Achieved' <=> Achieved)
    BY <1>1, <1>5, AboutKept
  <2> QED
    BY <1>3, <1>4, <1>5, <2>1 DEF RepeatInv
<1>6. ASSUME Steps[pc].do # "find" \/ pc' = pc, pc' \in {pc, pc + 1}, picked' = picked,
             Finds => \E j \in 1 .. pc' - 1 : Steps[j].do = "find"
      PROVE  About(picked')
  <2>1. \A j \in 1 .. pc' - 1 : Steps[j].do = "find" => j \in 1 .. pc - 1
    <3>1. CASE pc' = pc
      BY <3>1
    <3>2. CASE pc' = pc + 1 /\ Steps[pc].do # "find"
      <4>1. \A j \in 1 .. pc' - 1 : j = pc \/ j \in 1 .. pc - 1
        BY <1>4, <3>2
      <4> QED
        BY <3>2, <4>1
    <3> QED
      BY <1>6, <3>1, <3>2
  <2> QED
    BY <1>3, <1>6, <2>1
<1>7. CASE Check \/ AskTaiga \/ ProbeItem \/ TakeBase \/ RehearseOrGoOn \/ AskPerson \/ SkipSame
             \/ RefuseAll \/ CheckWritten \/ ReadAnswer
  <2>1. /\ UNCHANGED <<items, late, settled, picked>> /\ pc' \in {pc, pc + 1}
        /\ Steps[pc].do # "find"
    BY <1>7 DEF Check, AskTaiga, ProbeItem, TakeBase, RehearseOrGoOn, AskPerson, SkipSame, RefuseAll,
       CheckWritten, ReadAnswer, At, Untouched, taiga, read, GoOn, Stop, Fail
  <2> QED
    BY <1>5, <1>6, <2>1
<1>8. CASE LoadItem
  <2>1. /\ UNCHANGED <<items, late, settled>> /\ pc' \in {pc, pc + 1} /\ picked' \in {picked, 1}
        /\ report = "none" /\ Steps[pc].do = "load"
    BY <1>8 DEF LoadItem, At, Untouched, taiga, read, GoOn, Stop, Fail, Remember
  <2>2. ~Finds
    BY <1>2, <2>1, AtAStep DEF Finds, Has, MeansTheSame
  <2>3. About(picked')
    BY <1>3, <2>1, <2>2, AboutWithoutFind
  <2> QED
    BY <1>5, <2>1, <2>3
<1>9. CASE FindItem
  <2>1. /\ UNCHANGED <<items, late, settled>> /\ pc' \in {pc, pc + 1} /\ At("find")
        /\ (pc' = pc /\ picked' = picked) \/ picked' \in Denoted(How)
    BY <1>9 DEF FindItem, At, Untouched, taiga, read, GoOn, Stop, Fail, Remember
  <2>2. Finds
    BY <2>1, AtAStep DEF Finds, Has, At
  <2>3. CASE pc' = pc /\ picked' = picked
    BY <1>5, <1>6, <2>1, <2>3
  <2>4. CASE picked' \in Denoted(How)
    <3>1. About(picked')
      BY <1>2, <1>3, <2>1, <2>2, <2>4, FoundIsMeant
    <3> QED
      BY <1>5, <2>1, <3>1
  <2> QED
    BY <2>1, <2>3, <2>4
<1>10. CASE SendDone
  <2>1. /\ At("send") /\ Acceptable(Request) /\ Effect(Request) /\ pc' \in {pc, pc + 1}
        /\ UNCHANGED picked /\ Steps[pc].do = "send" /\ late' \in {late, Request}
    BY <1>10 DEF SendDone, At, read, GoOn, Stop
  <2>2. /\ Achieved' /\ \A r \in Items : About(r) => About(r)'
        /\ \A r \in Items : items'[r].called = items[r].called
    BY <1>1, <1>2, <2>1, InHandAtTheSend, EffectAchieves
  <2>3. (Finds => \E j \in 1 .. pc' - 1 : Steps[j].do = "find") => About(picked)'
    BY <1>6, <2>1, <2>2 DEF TypeOK
  <2>4. late' = late
    <3>1. How # "enqueue"
      BY <1>1, <1>2, <2>1, InHandAtTheSend DEF MeansTheSame, Sends, Adding
    <3> QED
      BY <1>10, <3>1 DEF SendDone
  <2>5. late' # NoRequest => About(late.picked)'
    BY <1>3, <2>2, <2>4 DEF TypeOK, Requests
  <2> QED
    BY <1>3, <1>4, <2>2, <2>3, <2>4, <2>5 DEF RepeatInv
<1>11. CASE SendNotDone
  <2>1. /\ At("send") /\ Steps[pc].do = "send" /\ pc' \in {pc, pc + 1} /\ late' \in {late, Request}
        /\ UNCHANGED <<picked, items, settled>>
    BY <1>11 DEF SendNotDone, At, read, GoOn, Stop
  <2>2. (\A r : About(r)' <=> About(r)) /\ (Achieved' <=> Achieved)
    BY <1>1, <2>1, AboutKept
  <2>3. late' # NoRequest => About(late'.picked)
    BY <1>1, <1>2, <1>3, <2>1, InHandAtTheSend
  <2>4. (Finds => \E j \in 1 .. pc' - 1 : Steps[j].do = "find") => About(picked')
    BY <1>6, <2>1
  <2> QED
    BY <1>3, <1>4, <2>1, <2>2, <2>3, <2>4 DEF RepeatInv
<1>12. CASE Arrives
  <2>1. /\ late # NoRequest /\ late' = NoRequest /\ UNCHANGED <<pc, picked>>
        /\ (Acceptable(late) /\ Effect(late)) \/ UNCHANGED <<items, settled>>
    BY <1>12 DEF Arrives, read
  <2>2. CASE Acceptable(late) /\ Effect(late)
    <3>1. late.picked \in Items /\ picked \in Items /\ About(late.picked) /\ Sends(Steps, {late.how})
      BY <1>3, <2>1 DEF TypeOK, Requests, SendInv
    <3>2. /\ Achieved' /\ \A r \in Items : About(r) => About(r)'
          /\ \A r \in Items : items'[r].called = items[r].called
      BY <1>1, <1>2, <2>2, <3>1, EffectAchieves
    <3>3. (Finds => \E j \in 1 .. pc' - 1 : Steps[j].do = "find") => About(picked)'
      BY <1>3, <2>1, <3>1, <3>2
    <3> QED
      BY <1>3, <1>4, <2>1, <3>2, <3>3 DEF RepeatInv
  <2>3. CASE UNCHANGED <<items, settled>>
    <3>1. (\A r : About(r)' <=> About(r)) /\ (Achieved' <=> Achieved)
      BY <1>1, <2>3, AboutKept
    <3> QED
      BY <1>3, <1>4, <2>1, <2>3, <3>1 DEF RepeatInv
  <2> QED
    BY <2>1, <2>2, <2>3
<1>13. CASE Repeat
  <2>1. pc' = 1 /\ picked' = 1 /\ UNCHANGED <<items, late, settled>>
    BY <1>13 DEF Repeat
  <2>2. (\A r : About(r)' <=> About(r)) /\ (Achieved' <=> Achieved)
    BY <1>1, <2>1, AboutKept
  <2>3. ~Finds => About(picked')
    BY <2>1, AboutWithoutFind
  <2> QED
    BY <1>3, <1>4, <2>1, <2>2, <2>3 DEF RepeatInv
<1>14. CASE UNCHANGED vars
  <2>1. UNCHANGED <<items, late, settled, pc, picked>>
    BY <1>14 DEF vars, taiga, read
  <2> QED
    BY <1>3, <1>5, <2>1
<1> QED
  BY <1>1, <1>7, <1>8, <1>9, <1>10, <1>11, <1>12, <1>13, <1>14 DEF Next

\* Where nobody else changes anything, a command whose change is in changes
\* Taiga no more: not run again because its descriptor calls it idempotent, nor
\* by a request that arrives late.  It rests on the command meaning, run again,
\* the record it meant; MCCommandRuns has TLC check that of every program.
THEOREM RunAgainChangesNothing ==
  ASSUME RepeatablesMeanTheSame(DOMAIN Programs \ ByNumber)
  PROVE  Spec => RepeatsAreHarmless
<1> DEFINE Harmless ==
      ByTheCommand /\ meddled = 0 /\ settled /\ command \notin ByNumber
        /\ ~Sends(Steps, {"enqueue"}) => ~WorldChanged
<1>1. Spec => []RepeatInv
  BY RepeatInvInit, RepeatInvStep, CommandInvariant, CommandsTypeCorrect, SendInvariant, PTL DEF Spec
<1>2. TypeOK /\ CommandInv /\ SendInv /\ RepeatInv /\ [Next]_vars => [Harmless]_vars
  <2> SUFFICES ASSUME TypeOK, CommandInv, SendInv, RepeatInv, [Next]_vars,
                      ByTheCommand, meddled = 0, settled, command \notin ByNumber,
                      ~Sends(Steps, {"enqueue"}), World' # World
               PROVE  FALSE
    BY DEF WorldChanged
  <2>1. <<items, added>> # <<items', added'>>
    BY DEF World, Items
  <2>2. SendDone \/ Arrives
    <3>1. SendDone \/ Arrives \/ Meddle
      BY <2>1 DEF Next, Check, AskTaiga, LoadItem, FindItem, ProbeItem, TakeBase, RehearseOrGoOn,
         AskPerson, SkipSame, RefuseAll, SendNotDone, CheckWritten, ReadAnswer, Repeat, Untouched, taiga,
         vars
    <3>2. ~Meddle
      BY DEF Meddle, ByTheCommand, CommandInv
    <3> QED
      BY <3>1, <3>2
  <2>3. run = 2
    <3>1. CASE SendDone
      BY <3>1, OneWrite DEF SendDone, At, SendInv, TypeOK
    <3>2. CASE Arrives
      BY <3>2 DEF Arrives, SendInv, TypeOK
    <3> QED
      BY <2>2, <3>1, <3>2
  <2>4. Undisturbed
    BY <2>3 DEF Undisturbed, SendInv
  <2>5. MeansTheSame(Steps) /\ Achieved
    BY <2>4 DEF RepeatablesMeanTheSame, Undisturbed, RepeatInv, Steps, CommandInv
  <2>6. CASE SendDone
    <3>1. At("send") /\ Acceptable(Request) /\ Effect(Request)
      BY <2>6 DEF SendDone
    <3> QED
      BY <2>4, <2>5, <3>1, InHandAtTheSend, AgainChangesNothing
  <2>7. CASE Arrives
    <3>1. late # NoRequest /\ Acceptable(late) /\ Effect(late)
      BY <2>1, <2>7 DEF Arrives
    <3>2. late.picked \in Items /\ About(late.picked) /\ Sends(Steps, {late.how})
      BY <2>4, <3>1 DEF TypeOK, Requests, SendInv, RepeatInv
    <3> QED
      BY <2>5, <3>1, <3>2, AgainChangesNothing
  <2> QED
    BY <2>2, <2>6, <2>7
<1> QED
  BY <1>1, <1>2, CommandInvariant, CommandsTypeCorrect, SendInvariant, PTL DEF Spec, RepeatsAreHarmless

=============================================================================
