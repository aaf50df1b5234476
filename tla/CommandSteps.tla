---------------------------- MODULE CommandSteps ----------------------------
(***************************************************************************)
(* The steps the commands of taiga-cli are made of.  A command checks its  *)
(* input, reads records of Taiga, may stop at a dry run or at a            *)
(* confirmation, and sends at most one write; it returns at the first step *)
(* that fails.  TaigaEndpoints, WorkItemCommands and ProjectCommands write *)
(* each function of internal/taiga and internal/cli as a sequence of these *)
(* steps, and CommandRuns says what each step does.                        *)
(***************************************************************************)
EXTENDS Sequences, Integers

Step(do, how) == [do |-> do, how |-> how]

\* Checks of arguments and flags, and of what was read, that ask nobody.
Usage   == Step("check", "usage")
Invalid == Step("check", "validation")

\* App.client: settings, credentials, and a refresh when it is due.
Connect == Step("check", "auth")

\* A GET the command cannot go on without.
Get == Step("get", "plain")

\* A GET of a list in which one entry must answer to the text typed, for a
\* field of the request: a status, a sprint, a member.
Lookup == Step("lookup", "plain")

\* A GET of the record the command is about, by reference.
Load == Step("load", "plain")

\* The same when a missing record is an answer too.
Probe == Step("probe", "plain")

\* A GET of a list in which the record the command is about answers to the
\* text typed: "only" wants one entry whose id or name it is, "id" takes the
\* one whose id it is before it looks at names, "first" takes the first.
Find(how) == Step("find", how)

\* --base-version stands in for the version that was read.
Base == Step("base", "plain")

\* A dry run ends here.
Rehearse == Step("rehearse", "plain")

\* --yes, or the answer typed at a terminal, or --yes alone.
Confirm(how) == Step("confirm", how)

\* Taiga has no such operation.
Refuse == Step("refuse", "plain")

\* The record is as wanted: nothing is sent.
Same == Step("same", "plain")

\* The write: "edit" sends changed fields with the version read, "replace" a
\* whole value with it, "set" fields alone; "ask" is a POST whose answer is no
\* proof that Taiga did it, "settle" one that may be repeated; "add" makes
\* something new each time, "enqueue" too, by a GET that net/http may repeat,
\* and "bulk" many things, or some of them; "put" makes it unless the Probe
\* found it, "remove" deletes a record and "unlink" a relation.
Send(how) == Step("send", how)

\* What was written has to show: in a GET, or in the number of items made.
Recheck == Step("recheck", "plain")

\* The answer has to name what was made.
Expect == Step("expect", "plain")

Guarded == {"edit", "replace"}
Adding == {"add", "enqueue", "bulk"}
Writes == Guarded \cup Adding \cup {"set", "ask", "settle", "put", "remove", "unlink"}
Picks == {"only", "id", "first"}
Confirmations == {"prompt", "flag", "piped"}
AllSteps ==
  {Usage, Invalid, Connect, Get, Lookup, Load, Probe, Base, Rehearse, Refuse, Same, Recheck, Expect}
    \cup {Find(p) : p \in Picks} \cup {Confirm(c) : c \in Confirmations}
    \cup {Send(w) : w \in Writes}

\* Does the program sp send a write, or a write of one of those kinds?
Sends(sp, kinds) == \E i \in 1 .. Len(sp) : sp[i].do = "send" /\ sp[i].how \in kinds
Has(sp, kinds) == \E i \in 1 .. Len(sp) : sp[i].do \in kinds
=============================================================================
