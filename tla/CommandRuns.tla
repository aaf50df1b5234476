----------------------------- MODULE CommandRuns -----------------------------
(***************************************************************************)
(* Running a command of taiga-cli: what each of its steps does to the      *)
(* command, to Taiga and to the report the caller gets, beside somebody    *)
(* who works in the web interface, and with the command run again.         *)
(*   internal/cli/errors.go      classifyError, the exit codes             *)
(*   internal/cli/descriptor.go  the commands and which may be repeated    *)
(* Taiga is external, and so is the request layer below: RequestLayer      *)
(* shows what a call promises, and a step here does no more than that.     *)
(***************************************************************************)
EXTENDS CommandSteps

CONSTANTS
  Programs,     \* command -> its steps, and what its descriptor says of it
  ByNumber,     \* commands a number typed may mislead when they are repeated
  BatchSize,    \* how many items a batch asks for
  MaxMeddling   \* how often somebody else changes what the command is about

VARIABLES
  command, options, run,  \* what is run, with which flags, the how-manieth time
  pc,                     \* the step to take
  picked, seen, same, found,   \* the record read: which, its version, whether
                               \* it was as wanted, whether it was there
  agreed,       \* the person at the terminal typed the confirmation
  report,       \* the kind of exit, or "none" while the command runs
  items, added, \* in Taiga: the records, and how many things the command made
  late,         \* a request given up on that Taiga may still carry out
  meddled,      \* how often somebody else changed something
  spent,        \* this run has changed Taiga
  settled       \* the change is in

who   == <<command, options, run>>
read  == <<picked, seen, same, found>>
taiga == <<items, added, late, spent, settled>>
vars  == <<who, pc, read, agreed, report, taiga, meddled>>

Items  == {1, 2}
Fields == {"asked", "other"}          \* the field the command sets, and the rest
Reports == {"none", "success", "usage", "validation", "refused", "conflict",
            "confirmation", "ambiguous", "transport", "unreadable"}

\* "refused" stands for the exits of a request, or a login, that was refused or
\* never sent: auth, forbidden, not_found, throttled, interrupted.  "transport"
\* is a 5xx, of Taiga or of the gateway before it, or a connection that failed.
Steps == Programs[command].steps

NoRequest == [how |-> "none", picked |-> 1, seen |-> 0, found |-> FALSE]

\* A deletion is confirmed, and so is what any other command asks about.
Asks(sp) == Sends(sp, {"remove"}) \/ Has(sp, {"confirm"})

\* A write comes after the end of a dry run, and after the questions.
Guarantees(sp, i) ==
  /\ Has(sp, {"rehearse"}) => \E j \in 1 .. i - 1 : sp[j].do = "rehearse"
  /\ Asks(sp) => \E j \in 1 .. i - 1 : sp[j] \in {Confirm("prompt"), Confirm("flag")}
  /\ \A j \in 1 .. Len(sp) : sp[j] = Confirm("piped") => j < i

\* After its write a command only looks at what came of it; an answer that
\* proves nothing, or not all of it, is never the last thing it looks at.
WritesLast(sp, i) ==
  /\ \A j \in i + 1 .. Len(sp) : sp[j].do \in {"recheck", "expect"}
  /\ sp[i].how \in {"ask", "bulk"} => sp[Len(sp)].do = "recheck" /\ ~Has(sp, {"expect"})

\* A command with a version guards its write by it: the one it read, of the one
\* record it reads, or the one of --base-version.
GuardsIts(sp) ==
  /\ ~Has(sp, {"find"})
  /\ \A i \in 1 .. Len(sp) :
       /\ sp[i].do = "send" =>
            /\ sp[i].how \in Guarded
            /\ Has(sp, {"base"}) => \E j \in 1 .. i - 1 : sp[j].do = "base"
       /\ sp[i].do = "base" => \A j \in i + 1 .. Len(sp) : sp[j].do # "load"

\* Run again the command means the record it meant, and wants of it what it
\* wanted: it finds one record in one way, and what it deletes it finds by a
\* text no other record answers to.
MeansTheSame(sp) ==
  /\ ~Sends(sp, Adding)
  /\ Has(sp, {"find"}) => ~Has(sp, {"load"}) /\ ~Sends(sp, {"put"})
  /\ \A i \in 1 .. Len(sp) :
       /\ sp[i].do = "find" =>
            /\ \A j \in 1 .. Len(sp) : sp[j].do = "find" => i = j
            /\ \A j \in 1 .. Len(sp) : sp[j].do = "send" => i < j
            /\ Sends(sp, {"remove"}) => sp[i].how = "only"

\* The commands cs among those that a script may repeat do.
RepeatablesMeanTheSame(cs) ==
  \A c \in cs : Programs[c].repeats /\ ~Programs[c].reads => MeansTheSame(Programs[c].steps)

ASSUME ProgramsAssumption ==
  /\ \A c \in DOMAIN Programs :
       /\ Programs[c].steps \in Seq(AllSteps) /\ Programs[c].steps # <<>>
       /\ {Programs[c].reads, Programs[c].repeats, Programs[c].versioned} \subseteq BOOLEAN
       /\ Programs[c].reads => ~Sends(Programs[c].steps, Writes)
       /\ \A i, j \in 1 .. Len(Programs[c].steps) :
            Programs[c].steps[i].do = "send" /\ Programs[c].steps[j].do = "send" => i = j
       /\ \A i \in 1 .. Len(Programs[c].steps) :
            Programs[c].steps[i].do = "send" =>
              Guarantees(Programs[c].steps, i) /\ WritesLast(Programs[c].steps, i)
       /\ \A j \in 1 .. Len(Programs[c].steps) :
            Programs[c].steps[j].do = "expect" =>
              \E i \in 1 .. j - 1 : Programs[c].steps[i].do = "send"
       /\ ~Programs[c].reads => Has(Programs[c].steps, {"send", "refuse"})
       /\ Programs[c].versioned => GuardsIts(Programs[c].steps)
  /\ ByNumber \subseteq DOMAIN Programs
  /\ BatchSize \in Nat \ {0}
  /\ MaxMeddling \in Nat

\* A record: whether it is there, whether the text typed is its id, its name or
\* neither, whose value each field has, and the version that value came with.
Records == [there: BOOLEAN, called: {"id", "name", "no"},
            by: [Fields -> {"before", "wanted", "web"}], at: [Fields -> Nat]]
Requests == [how: Writes \cup {"none"}, picked: Items, seen: Nat, found: BOOLEAN]

TypeOK ==
  /\ command \in DOMAIN Programs /\ run \in {1, 2}
  /\ options \in [dry: BOOLEAN, yes: BOOLEAN, tty: BOOLEAN, piped: BOOLEAN, base: {0, 1}]
  /\ pc \in 1 .. Len(Steps) + 1 /\ report \in Reports
  /\ picked \in Items /\ seen \in Nat /\ {same, found, agreed} \subseteq BOOLEAN
  /\ items \in [Items -> Records] /\ late \in Requests
  /\ added \in Nat /\ meddled \in 0 .. MaxMeddling
  /\ {spent, settled} \subseteq BOOLEAN

Version(item) ==
  IF item.at["asked"] > item.at["other"] THEN item.at["asked"] ELSE item.at["other"]

\* The entries of a list that answer to the text typed.
Answering(how) == {r \in Items : items[r].there /\ items[r].called = how}

-----------------------------------------------------------------------------
\* What the flags may be: the ones the program looks at.
Flags(sp) ==
  [dry: IF Has(sp, {"rehearse"}) THEN BOOLEAN ELSE {FALSE},
   yes: IF Has(sp, {"confirm"}) THEN BOOLEAN ELSE {FALSE},
   tty: IF Has(sp, {"confirm"}) THEN BOOLEAN ELSE {FALSE},
   piped: IF \E i \in 1 .. Len(sp) : sp[i] = Confirm("piped") THEN BOOLEAN ELSE {FALSE},
   base: IF Has(sp, {"base"}) THEN {0, 1} ELSE {0}]

\* One record as the command may meet it.
Before(sp, names) ==
  [there: BOOLEAN, called: names,
   by: {[f \in Fields |-> IF f = "asked" THEN b ELSE "before"] :
          b \in IF Has(sp, {"same"}) THEN {"before", "wanted"} ELSE {"before"}},
   at: {[f \in Fields |-> 1]}]

\* The same changed by somebody else after the version 1 the caller has seen.
Changed(item) ==
  {item} \cup {[item EXCEPT !.by[f] = "web", !.at[f] = 2] : f \in Fields}

Init ==
  /\ command \in DOMAIN Programs /\ options \in Flags(Steps) /\ run = 1
  /\ pc = 1 /\ picked = 1 /\ seen = 0 /\ same = FALSE /\ found = FALSE
  /\ agreed = FALSE /\ report = "none"
  /\ IF Has(Steps, {"find"})
     THEN /\ items \in [Items -> Before(Steps, {"id", "name", "no"})]
          /\ ~\A r \in Items : items[r].called = "id"
     ELSE \E first \in Before(Steps, {"id"}) :
            items \in [Items -> UNION {Changed(first), {[first EXCEPT !.there = FALSE]}}]
              /\ ~items[2].there
  /\ added = 0 /\ late = NoRequest /\ meddled = 0
  /\ spent = FALSE /\ settled = FALSE

-----------------------------------------------------------------------------
(* The steps that only read or ask.                                        *)

At(kind) == report = "none" /\ Steps[pc].do = kind
How == Steps[pc].how

\* After the last step the command has succeeded.
GoOn ==
  /\ pc' = pc + 1
  /\ report' = IF pc = Len(Steps) THEN "success" ELSE "none"

Stop(r) == pc' = pc /\ report' = r

\* A request that asks for nothing but an answer gets none it can use.
Fail == Stop("refused") \/ Stop("transport")

Untouched == UNCHANGED <<who, taiga, meddled>>

Check ==
  /\ At("check")
  /\ (GoOn \/ IF How = "auth" THEN Fail ELSE Stop(How))
  /\ UNCHANGED <<read, agreed>> /\ Untouched

\* A list may have no entry of the name, or several.
AskTaiga ==
  /\ \/ At("get") /\ (GoOn \/ Fail)
     \/ At("lookup") /\ (GoOn \/ Fail \/ Stop("validation"))
  /\ UNCHANGED <<read, agreed>> /\ Untouched

Remember(r) ==
  /\ picked' = r /\ seen' = Version(items[r])
  /\ same' = (items[r].by["asked"] = "wanted")
  /\ UNCHANGED found

LoadItem ==
  /\ At("load")
  /\ \/ items[1].there /\ GoOn /\ Remember(1)
     \/ Fail /\ UNCHANGED read
  /\ UNCHANGED agreed /\ Untouched

Candidates == Answering("id") \cup Answering("name")

\* Mutant of Denoted: one of several that answer to the text is taken.
DenotedAny(pick) == Candidates

\* Which record the text typed denotes, or none.
Denoted(pick) ==
  {r \in Candidates :
     \/ pick = "only" /\ Candidates = {r}
     \/ pick = "id" /\ (r \in Answering("id") \/ Candidates = {r})
     \/ pick = "first" /\ \A s \in Candidates : r <= s}

FindItem ==
  /\ At("find")
  /\ \/ \E r \in Denoted(How) : GoOn /\ Remember(r)
     \/ Denoted(How) = {} /\ Stop("validation") /\ UNCHANGED read
     \/ Fail /\ UNCHANGED read
  /\ UNCHANGED agreed /\ Untouched

ProbeItem ==
  /\ At("probe")
  /\ \/ GoOn /\ found' = items[1].there
     \/ Fail /\ UNCHANGED found
  /\ UNCHANGED <<picked, seen, same, agreed>> /\ Untouched

\* Mutant of TakeBase: the flag is taken for the version before it.
TakeBaseBefore ==
  /\ At("base") /\ GoOn
  /\ seen' = options.base - 1
  /\ UNCHANGED <<picked, same, found, agreed>> /\ Untouched

TakeBase ==
  /\ At("base") /\ GoOn
  /\ seen' = IF options.base > 0 THEN options.base ELSE seen
  /\ UNCHANGED <<picked, same, found, agreed>> /\ Untouched

RehearseOrGoOn ==
  /\ At("rehearse")
  /\ IF options.dry THEN Stop("success") ELSE GoOn
  /\ UNCHANGED <<read, agreed>> /\ Untouched

\* Mutant of MustAsk: whoever sits at a terminal can be asked later.
MustAskNoTerminal ==
  ~options.yes /\ (How = "piped" => options.piped /\ ~options.dry /\ ~options.tty)

\* A subject list or a dump on standard input leaves nothing to answer on.
MustAsk == ~options.yes /\ (How = "piped" => options.piped /\ ~options.dry)

AskPerson ==
  /\ At("confirm")
  /\ \/ ~MustAsk /\ GoOn /\ UNCHANGED agreed
     \/ MustAsk /\ How = "prompt" /\ options.tty /\ GoOn /\ agreed' = TRUE
     \/ MustAsk /\ Stop("confirmation") /\ UNCHANGED agreed
  /\ UNCHANGED read /\ Untouched

SkipSame ==
  /\ At("same")
  /\ IF same THEN Stop("success") ELSE GoOn
  /\ UNCHANGED <<read, agreed>> /\ Untouched

RefuseAll ==
  /\ At("refuse") /\ Stop("validation")
  /\ UNCHANGED <<read, agreed>> /\ Untouched

IsWanted == items[picked].there /\ items[picked].by["asked"] = "wanted"

-----------------------------------------------------------------------------
(* The write.  Taiga rejects a guarded one when a field it carries changed *)
(* after the version it names.                                             *)

\* Mutant of Request: the version is read again when the request is sent.
RequestRereads ==
  [how |-> How, picked |-> picked, seen |-> Version(items[picked]), found |-> found]

Request == [how |-> How, picked |-> picked, seen |-> seen, found |-> found]

UpToDate(q) ==
  /\ q.how = "edit" => items[q.picked].at["asked"] <= q.seen
  /\ q.how = "replace" => Version(items[q.picked]) <= q.seen

Acceptable(q) ==
  /\ UpToDate(q)
  /\ q.how = "put" => q.found = items[q.picked].there
  /\ q.how \notin Adding \cup {"put"} => items[q.picked].there
  /\ q.how = "unlink" => items[q.picked].by["asked"] # "wanted"

\* Taiga carries out q; of a batch it may make fewer items than it was asked for.
Effect(q) ==
  /\ IF q.how \in Adding
     THEN /\ \E n \in IF q.how = "bulk" THEN 1 .. BatchSize ELSE {1} : added' = added + n
          /\ UNCHANGED items
     ELSE /\ UNCHANGED added
          /\ items' = IF q.how = "remove"
                      THEN [items EXCEPT ![q.picked].there = FALSE]
                      ELSE [items EXCEPT ![q.picked].there = TRUE,
                                         ![q.picked].by["asked"] = "wanted",
                                         ![q.picked].at["asked"] = Version(items[q.picked]) + 1]
  /\ settled' = TRUE

\* A refusal proves nothing of these: an interrupt ends a "settle" under way,
\* and net/http may have sent an "enqueue" before the request that was refused.
Loose == {"settle", "enqueue"}

\* Done, and the caller hears so, or cannot know, or hears a gateway that did not
\* wait for Taiga.
SendDone ==
  /\ At("send") /\ Acceptable(Request) /\ Effect(Request)
  /\ spent' = TRUE
  /\ (GoOn \/ Stop("ambiguous") \/ Stop("transport") \/ (How \in Loose /\ Stop("refused")))
  /\ late' \in IF How = "enqueue" THEN {late, Request} ELSE {late}
  /\ UNCHANGED <<who, read, agreed, meddled>>

\* Refused; or lost, perhaps to arrive later; or believed done.
SendNotDone ==
  /\ At("send")
  /\ \/ Stop("refused") /\ late' \in IF How \in Loose THEN {late, Request} ELSE {late}
     \/ ~UpToDate(Request) /\ Stop("conflict") /\ UNCHANGED late
     \/ (Stop("ambiguous") \/ Stop("transport")) /\ late' \in {late, Request}
     \/ How = "ask" /\ GoOn /\ UNCHANGED late
  /\ UNCHANGED <<who, read, agreed, items, added, spent, settled, meddled>>

\* The items of a batch are counted, any other record is read again.
MadeAll == Sends(Steps, {"bulk"}) => added = BatchSize
Shows == IF Sends(Steps, {"bulk"}) THEN MadeAll ELSE IsWanted

\* Mutant of CheckWritten: what was read again is not looked at.
CheckNothing ==
  /\ At("recheck")
  /\ (GoOn \/ Stop("ambiguous"))
  /\ UNCHANGED <<read, agreed>> /\ Untouched

CheckWritten ==
  /\ At("recheck")
  /\ (Shows /\ GoOn) \/ Stop("ambiguous")
  /\ UNCHANGED <<read, agreed>> /\ Untouched

ReadAnswer ==
  /\ At("expect")
  /\ (GoOn \/ Stop("unreadable"))
  /\ UNCHANGED <<read, agreed>> /\ Untouched

-----------------------------------------------------------------------------
(* What happens beside the command, and after it.                          *)

Arrives ==
  /\ late # NoRequest /\ late' = NoRequest
  /\ IF Acceptable(late) THEN Effect(late) ELSE UNCHANGED <<items, added, settled>>
  /\ UNCHANGED <<who, pc, read, agreed, report, spent, meddled>>

\* Somebody edits, renames or removes a record in the web interface.
Meddle ==
  /\ meddled < MaxMeddling /\ meddled' = meddled + 1
  /\ \E r \in Items :
       /\ items[r].there
       /\ \/ \E f \in Fields :
               /\ Sends(Steps, Guarded \cup {"ask"})
               /\ items' = [items EXCEPT ![r].by[f] = "web", ![r].at[f] = Version(items[r]) + 1]
          \/ /\ Has(Steps, {"find"}) /\ items[r].called # "id"
             /\ items' = [items EXCEPT ![r].called = IF @ = "no" THEN "name" ELSE "no"]
          \/ items' = [items EXCEPT ![r].there = FALSE]
  /\ UNCHANGED <<who, pc, read, agreed, report, added, late, spent, settled>>

\* A script or an agent runs a command again that may be repeated, as it was
\* told to, or because it does not know how the first run ended.
Repeat ==
  /\ run = 1 /\ report \in {"success", "refused", "transport", "ambiguous"}
  /\ Programs[command].repeats /\ ~Programs[command].reads
  /\ run' = 2 /\ pc' = 1 /\ report' = "none"
  /\ picked' = 1 /\ same' = FALSE /\ found' = FALSE
  /\ agreed' = FALSE /\ spent' = FALSE
  /\ UNCHANGED <<command, options, seen, items, added, late, meddled, settled>>

Next ==
  \/ Check \/ AskTaiga \/ LoadItem \/ FindItem \/ ProbeItem \/ TakeBase
  \/ RehearseOrGoOn \/ AskPerson \/ SkipSame \/ RefuseAll
  \/ SendDone \/ SendNotDone \/ CheckWritten \/ ReadAnswer
  \/ Arrives \/ Meddle \/ Repeat

Spec == Init /\ [][Next]_vars
-----------------------------------------------------------------------------
(* Properties.                                                             *)

ByTheCommand == meddled' = meddled

\* What Taiga holds, whatever the version it has reached.
World == <<[r \in Items |-> <<items[r].there, items[r].called, items[r].by>>], added>>
WorldChanged == World' # World

\* A dry run sends no write (README.md:86-88), a command the descriptor calls
\* "read" none either, and what is deleted, or asked about before it is made, was
\* confirmed by --yes, or at a terminal that is not also what the data is read
\* from (README.md:100-104, batch.go:245): also by a request that arrives late.
NothingUnasked ==
  [][ByTheCommand /\ WorldChanged =>
       /\ ~options.dry /\ ~Programs[command].reads
       /\ Asks(Steps) => options.yes \/ (options.tty /\ ~options.piped)]_vars

\* The newest version the caller has been shown.
Shown == IF options.base > 0 THEN options.base ELSE seen

\* OCC conflicts are never overwritten (README.md:350): a field somebody else
\* changed after the version the caller was shown, or named with
\* --base-version, keeps that change, whenever the request arrives.
NoLostUpdate ==
  [][Programs[command].versioned =>
       \A r \in Items, f \in Fields :
         items[r].by[f] = "web" /\ items'[r].by[f] = "wanted" => items[r].at[f] <= Shown]_vars

\* Where nobody else changes anything, nothing a command does changes Taiga again
\* once its change is in: not when it is repeated because it may be
\* (descriptor.go, "idempotent"), nor by a request that arrives late.  It is not
\* so of an export, which net/http may send twice (RequestLayer).
RepeatsAreHarmless ==
  [][ByTheCommand /\ meddled = 0 /\ settled /\ command \notin ByNumber
       /\ ~Sends(Steps, {"enqueue"}) => ~WorldChanged]_vars

\* Running a command keeps the promises of OneChange.
Promise == INSTANCE OneChange WITH
  excused <- Sends(Steps, Loose),
  world  <- World,
  others <- meddled,
  whole  <- MadeAll,
  owed   <- late # NoRequest,
  reason <- options.dry \/ Programs[command].reads \/ same \/ IsWanted

AnswersAreTrue == Promise!PromiseSpec
=============================================================================
