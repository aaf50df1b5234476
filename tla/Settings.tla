------------------------------- MODULE Settings -------------------------------
(***************************************************************************)
(* What commands share besides the credential of one account: config.toml, *)
(* the Git-local mapping, who is logged in where, and the completion cache.*)
(*   internal/config/config.go, git.go    Store, GitLocal                  *)
(*   internal/cli/app.go                  resolveSettings, client          *)
(*   internal/cli/config.go, auth.go      config set, login, logout        *)
(*   internal/cli/project.go              project use                      *)
(*   internal/cli/completions.go          completeCached                   *)
(*   internal/completioncache/store.go    Get, Put                         *)
(* config.toml and the cache are loaded whole, changed and saved whole     *)
(* (module AtomicFile) with nothing to exclude another command in between. *)
(* Each Taiga site has one project, named as the site is: a project set to *)
(* A can be found on A only.  A credential is named after its issuer.      *)
(* Where it is kept, and how it is refreshed, are modules CredentialStore  *)
(* and CredentialRefresh.                                                  *)
(***************************************************************************)
EXTENDS Naturals, FiniteSets

CONSTANTS
  Procs,          \* processes, each running one command after another
  Profiles, Taigas,
  None,           \* no value
  Given,          \* the credential in TAIGA_TOKEN
  Invocations,    \* [kind, value, profile, url, token]: the command, its
                  \* argument, --profile, --api-url and TAIGA_TOKEN
  MaxCommands     \* bound on the commands run

Values == Profiles \cup Taigas \cup {None}

Kinds == {"profile", "api-url", "project",           \* config set
          "git-profile", "git-project",              \* config set --local
          "use", "use-local",                        \* project use
          "login", "logout", "work", "complete"}

ASSUME SettingsAssumption ==
  /\ None \notin Profiles \cup Taigas \cup {Given} /\ Given \notin Taigas
  /\ Invocations \subseteq [kind : Kinds, value : Values, profile : Profiles \cup {None},
                            url : Taigas \cup {None}, token : {None, Given}]
  /\ \A i \in Invocations :
       i.value \in IF i.kind \in {"profile", "git-profile"} THEN Profiles ELSE Taigas \cup {None}
  /\ MaxCommands \in Nat

VARIABLES
  config,      \* config.toml: a value for each field
  git,         \* the Git-local mapping: a value for each of its two keys
  saved,       \* the credential saved for each account
  cache,       \* the completion cache: what each entry is of, and where it came from
  pc, inv,     \* where each process is, and its command
  cfg, local,  \* the configuration and the mapping as it loaded them
  settings,    \* what it resolved
  token,       \* the credential it resolved
  asked,       \* completion: what it resolved first
  loaded,      \* Put: the cache as loaded
  offered,     \* completion: the entry at hand
  changed,     \* history: fields others changed since it loaded cfg
  commands     \* how many commands were begun

shared == <<config, git, saved, cache>>
resolved == <<cfg, local, settings, token, asked>>
completion == <<loaded, offered>>
vars == <<shared, pc, inv, resolved, completion, changed, commands>>

Current == <<"current", None>>
Fields  == {Current} \cup ({"url", "project"} \X Profiles)
GitKeys == {"profile", "project"}
Scope   == [profile : Profiles \cup {None}, url : Taigas \cup {None}, project : Taigas \cup {None}]
Unset   == [profile |-> None, url |-> None, project |-> None]

\* Mutant of Account: one credential a profile, whatever its API URL.
AccountByProfile(profile, url) == <<profile, None>>

\* A credential is of a profile and the API URL it was saved with.
Account(profile, url) == <<profile, url>>

\* Mutant of Key: the cache of a profile, whatever its API URL.
KeyOfProfile(s) == <<s.profile, s.project>>

\* An entry of the cache is of a profile, an API URL and a project.
Key(s) == <<s.profile, s.url, s.project>>

\* history: overlapped says that the configuration may have read differently the
\* two times the command that fetched the entry read it.
Entries == [key : {Key(s) : s \in Scope}, from : Scope, overlapped : BOOLEAN]
NoEntry == [key |-> Key(Unset), from |-> Unset, overlapped |-> FALSE]

Pcs == {"idle", "load", "git_profile", "git_project", "credential", "act", "reload",
        "save", "keep", "pin_profile", "pin_project", "fetch", "put_load", "put_save", "offer"}

TypeOK ==
  /\ config \in [Fields -> Values] /\ config[Current] \in Profiles
  /\ git \in [GitKeys -> Values]
  /\ saved \in [Profiles \X (Taigas \cup {None}) -> Taigas \cup {None}]
  /\ cache \subseteq Entries /\ \A e, f \in cache : e.key = f.key => e = f
  /\ pc \in [Procs -> Pcs] /\ \A p \in Procs : pc[p] # "idle" => inv[p] \in Invocations
  /\ cfg \in [Procs -> [Fields -> Values]] /\ local \in [Procs -> [GitKeys -> Values]]
  /\ settings \in [Procs -> Scope] /\ asked \in [Procs -> Scope]
  /\ token \in [Procs -> Taigas \cup {None, Given}]
  /\ \A p \in Procs : loaded[p] \subseteq Entries /\ offered[p] \in Entries
  /\ changed \in [Procs -> SUBSET (Fields \cup {"git"} \X {None})]
  /\ commands \in 0 .. MaxCommands

NoGit == [k \in GitKeys |-> None]
Empty == [f \in Fields |-> None]
NoInvocation == [kind |-> "idle", value |-> None, profile |-> None, url |-> None, token |-> None]

\* Each profile is of some site, and logged in there; a repository may be pinned.
Init ==
  /\ config \in {c \in [Fields -> Values] :
       /\ c[Current] \in Profiles
       /\ \A q \in Profiles : c[<<"url", q>>] \in Taigas /\ c[<<"project", q>>] = c[<<"url", q>>]}
  /\ git \in {NoGit} \cup
             {[profile |-> q, project |-> config[<<"project", q>>]] : q \in Profiles}
  /\ saved = [a \in Profiles \X (Taigas \cup {None}) |->
       IF \E q \in Profiles : a = Account(q, config[<<"url", q>>])
       THEN config[<<"url", a[1]>>] ELSE None]
  /\ cache = {}
  /\ pc = [p \in Procs |-> "idle"] /\ inv = [p \in Procs |-> NoInvocation]
  /\ cfg = [p \in Procs |-> Empty] /\ local = [p \in Procs |-> NoGit]
  /\ settings = [p \in Procs |-> Unset] /\ asked = settings
  /\ token = [p \in Procs |-> None]
  /\ loaded = [p \in Procs |-> {}] /\ offered = [p \in Procs |-> NoEntry]
  /\ changed = [p \in Procs |-> {}] /\ commands = 0

-----------------------------------------------------------------------------
Goto(p, l) == pc' = [pc EXCEPT ![p] = l] /\ UNCHANGED <<inv, commands>>
Keep       == UNCHANGED <<shared, changed>>

\* firstNonEmpty, of two.
Or(a, b) == IF a # None THEN a ELSE b

\* The command is over, and what it had read is gone.
Return(p) ==
  /\ pc' = [pc EXCEPT ![p] = "idle"] /\ inv' = [inv EXCEPT ![p] = NoInvocation]
  /\ cfg' = [cfg EXCEPT ![p] = Empty] /\ local' = [local EXCEPT ![p] = NoGit]
  /\ settings' = [settings EXCEPT ![p] = Unset] /\ token' = [token EXCEPT ![p] = None]
  /\ asked' = [asked EXCEPT ![p] = Unset]
  /\ loaded' = [loaded EXCEPT ![p] = {}] /\ offered' = [offered EXCEPT ![p] = NoEntry]
  /\ UNCHANGED commands

\* Every other command learns that these fields changed.
Tell(p, fields) ==
  changed' = [q \in Procs |-> IF q = p \/ pc[q] = "idle" THEN changed[q] ELSE changed[q] \cup fields]

Begin(p) ==
  /\ pc[p] = "idle" /\ commands < MaxCommands
  /\ \E i \in Invocations : inv' = [inv EXCEPT ![p] = i]
  /\ pc' = [pc EXCEPT ![p] = IF inv'[p].kind \in {"git-profile", "git-project"} THEN "act" ELSE "load"]
  /\ commands' = commands + 1 /\ changed' = [changed EXCEPT ![p] = {}]
  /\ UNCHANGED <<shared, resolved, completion>>

\* An error, an interrupt or a crash ends a command between two of its steps.
Stops(p) ==
  /\ pc[p] # "idle" /\ Return(p) /\ Keep

-----------------------------------------------------------------------------
(* resolveSettings                                                         *)

\* history: what others change counts from here, the first time.
Load(p) ==
  /\ pc[p] = "load" /\ Goto(p, "git_profile")
  /\ cfg' = [cfg EXCEPT ![p] = config]
  /\ changed' = [changed EXCEPT ![p] = IF asked[p] = Unset THEN {} ELSE changed[p]]
  /\ UNCHANGED <<shared, local, settings, token, asked, completion>>

\* Two calls of git, one key each.
LoadGit(p, k, at, then) ==
  /\ pc[p] = at /\ Goto(p, then)
  /\ local' = [local EXCEPT ![p][k] = git[k]]
  /\ UNCHANGED <<cfg, settings, token, asked, completion>> /\ Keep

\* Git that cannot be asked counts as no repository (Available), and what is
\* pinned is not seen.  history: to the command it is as if it had been unpinned.
NoRepository(p) ==
  /\ pc[p] = "git_profile" /\ Goto(p, "credential")
  /\ local' = [local EXCEPT ![p] = NoGit]
  /\ changed' = [changed EXCEPT ![p] = @ \cup (IF git = NoGit THEN {} ELSE {<<"git", None>>})]
  /\ UNCHANGED <<shared, cfg, settings, token, asked, completion>>

\* The flag or the environment, then the repository, then the configuration.
ResolveFrom(i, l, c) ==
  LET profile == Or(i.profile, Or(l["profile"], c[Current])) IN
    [profile |-> profile,
     url     |-> Or(i.url, c[<<"url", profile>>]),
     project |-> Or(l["project"], c[<<"project", profile>>])]

\* TAIGA_TOKEN, or what is saved for the account.
ReadCredential(p) ==
  /\ pc[p] = "credential"
  /\ LET s == ResolveFrom(inv[p], local[p], cfg[p]) IN
       /\ settings' = [settings EXCEPT ![p] = s]
       /\ token' = [token EXCEPT ![p] =
            Or(inv[p].token, IF s.url = None THEN None ELSE saved[Account(s.profile, s.url)])]
  /\ Goto(p, IF asked[p] = Unset THEN "act" ELSE "fetch")
  /\ UNCHANGED <<cfg, local, asked, completion>> /\ Keep

\* client(ctx, true): there is a site to talk to, and a credential for it.
HasClient(p) == settings[p].url # None /\ token[p] # None

-----------------------------------------------------------------------------
(* The commands.                                                           *)

Acts(p, kinds) == pc[p] = "act" /\ inv[p].kind \in kinds

\* A command that talks to Taiga and changes nothing here.
Work(p) ==
  /\ Acts(p, {"work"}) /\ HasClient(p)
  /\ Return(p) /\ Keep

ConfigSet(p) ==
  /\ Acts(p, {"profile", "api-url", "project"}) /\ Goto(p, "save")
  /\ UNCHANGED <<resolved, completion>> /\ Keep

\* The site is named, or the one the profile has; it answers with a credential.
\* Somebody may be typing for as long as they like.
Authenticate(p) ==
  /\ Acts(p, {"login"}) /\ Or(inv[p].value, settings[p].url) # None
  /\ settings' = [settings EXCEPT ![p].url = Or(inv[p].value, @)]
  /\ Goto(p, "save")
  /\ UNCHANGED <<cfg, local, token, asked, completion>> /\ Keep

\* The project is looked up where the settings point; the configuration is then
\* loaded again, or the repository is pinned.
FindProject(p) ==
  /\ Acts(p, {"use", "use-local"}) /\ HasClient(p) /\ inv[p].value = settings[p].url
  /\ Goto(p, IF inv[p].kind = "use" THEN "reload" ELSE "pin_profile")
  /\ UNCHANGED <<resolved, completion>> /\ Keep

Reload(p) ==
  /\ pc[p] = "reload" /\ Goto(p, "save")
  /\ cfg' = [cfg EXCEPT ![p] = config] /\ changed' = [changed EXCEPT ![p] = {}]
  /\ UNCHANGED <<shared, local, settings, token, asked, completion>>

\* What a command means to change, and to what.
Own(p) ==
  LET q == settings[p].profile IN
    CASE inv[p].kind = "profile" -> [f \in {Current} |-> inv[p].value]
      [] inv[p].kind = "api-url" -> [f \in {<<"url", q>>} |-> inv[p].value]
      [] inv[p].kind \in {"project", "use"} -> [f \in {<<"project", q>>} |-> inv[p].value]
      [] OTHER -> [f \in {<<"url", q>>, Current} |-> IF f = Current THEN q ELSE settings[p].url]

\* Mutant of Edited: the other profiles are not carried over.
EditedAlone(p) ==
  [f \in Fields |-> IF f \in DOMAIN Own(p) THEN Own(p)[f]
                    ELSE IF f \in {Current, <<"url", settings[p].profile>>} THEN cfg[p][f] ELSE None]

Edited(p) == [f \in Fields |-> IF f \in DOMAIN Own(p) THEN Own(p)[f] ELSE cfg[p][f]]

\* The whole file is replaced by what was loaded, with the change.
Save(p) ==
  /\ pc[p] = "save" /\ config' = Edited(p)
  /\ Tell(p, {f \in Fields : config'[f] # config[f]})
  /\ IF inv[p].kind = "login"
     THEN Goto(p, "keep") /\ UNCHANGED <<resolved, completion>>
     ELSE Return(p)
  /\ UNCHANGED <<git, saved, cache>>

\* login saves the credential after the profile.
KeepCredential(p) ==
  /\ pc[p] = "keep" /\ Return(p)
  /\ saved' = [saved EXCEPT ![Account(settings[p].profile, settings[p].url)] = settings[p].url]
  /\ UNCHANGED <<config, git, cache, changed>>

Logout(p) ==
  /\ Acts(p, {"logout"}) /\ settings[p].url # None /\ Return(p)
  /\ saved' = [saved EXCEPT ![Account(settings[p].profile, settings[p].url)] = None]
  /\ UNCHANGED <<config, git, cache, changed>>

Pin(p, k, v) ==
  /\ git' = [git EXCEPT ![k] = v] /\ Tell(p, IF git' = git THEN {} ELSE {<<"git", None>>})
  /\ UNCHANGED <<config, saved, cache>>

GitSet(p) ==
  /\ Acts(p, {"git-profile", "git-project"}) /\ Return(p)
  /\ Pin(p, IF inv[p].kind = "git-profile" THEN "profile" ELSE "project", inv[p].value)

\* project use --local: two calls of git.
PinProfile(p) ==
  /\ pc[p] = "pin_profile" /\ Goto(p, "pin_project")
  /\ Pin(p, "profile", settings[p].profile)
  /\ UNCHANGED <<resolved, completion>>

PinProject(p) ==
  /\ pc[p] = "pin_project" /\ Return(p) /\ Pin(p, "project", inv[p].value)

-----------------------------------------------------------------------------
(* completeCached                                                          *)

At(p, l, e) ==
  /\ Goto(p, l) /\ offered' = [offered EXCEPT ![p] = e]
  /\ UNCHANGED <<cfg, local, settings, token, loaded>>

\* How old an entry is, the clock says, which may be set: it is fresh, and
\* offered, or kept for the worst, or too old to be seen.  The settings are
\* resolved for its key, and again by whatever fetches.
LookUp(p) ==
  /\ Acts(p, {"complete"})
  /\ \/ \E e \in cache : /\ settings[p].url # None /\ e.key = Key(settings[p])
                         /\ \E l \in {"offer", "load"} : At(p, l, e)
     \/ At(p, "load", NoEntry)
  /\ asked' = [asked EXCEPT ![p] = settings[p]] /\ Keep

\* What Taiga answers; or, when it does not, what is left in the cache.
Fetch(p) ==
  /\ pc[p] = "fetch"
  /\ \/ /\ HasClient(p) /\ settings[p].project = settings[p].url
        /\ At(p, IF asked[p].url = None THEN "offer" ELSE "put_load",
                 [key |-> Key(asked[p]), from |-> settings[p], overlapped |-> changed[p] # {}])
        /\ UNCHANGED asked
     \/ offered[p] # NoEntry /\ At(p, "offer", offered[p]) /\ UNCHANGED asked
  /\ Keep

\* Entries that are too old are dropped, and all of an unreadable file; an error
\* is not the caller's.
PutLoad(p) ==
  /\ pc[p] = "put_load"
  /\ \/ Goto(p, "put_save") /\ \E kept \in SUBSET cache : loaded' = [loaded EXCEPT ![p] = kept]
     \/ Goto(p, "offer") /\ UNCHANGED loaded
  /\ UNCHANGED <<resolved, offered>> /\ Keep

PutSave(p) ==
  /\ pc[p] = "put_save" /\ Goto(p, "offer")
  /\ cache' = {e \in loaded[p] : e.key # offered[p].key} \cup {offered[p]}
  /\ loaded' = [loaded EXCEPT ![p] = {}]
  /\ UNCHANGED <<config, git, saved, resolved, offered, changed>>

Offer(p) ==
  /\ pc[p] = "offer" /\ Return(p) /\ Keep

-----------------------------------------------------------------------------
\* No command is left to run: TLC is told that this is no deadlock.
AllDone == commands = MaxCommands /\ (\A p \in Procs : pc[p] = "idle") /\ UNCHANGED vars

Next ==
  \/ \E p \in Procs :
       \/ Begin(p) \/ Stops(p)
       \/ Load(p) \/ LoadGit(p, "profile", "git_profile", "git_project")
       \/ LoadGit(p, "project", "git_project", "credential") \/ NoRepository(p) \/ ReadCredential(p)
       \/ Work(p) \/ ConfigSet(p) \/ Authenticate(p) \/ FindProject(p) \/ Reload(p)
       \/ Save(p) \/ KeepCredential(p) \/ Logout(p)
       \/ GitSet(p) \/ PinProfile(p) \/ PinProject(p)
       \/ LookUp(p) \/ Fetch(p) \/ PutLoad(p) \/ PutSave(p) \/ Offer(p)
  \/ AllDone

Spec == Init /\ [][Next]_vars

-----------------------------------------------------------------------------
(* Properties.                                                             *)

\* A saved credential is sent to no other site than the one that issued it,
\* though other commands move the profile to another site, log it in there or
\* pin the repository between any two reads (TAIGA_TOKEN is the caller's).
CredentialGoesHome ==
  \A p \in Procs :
    inv[p].kind # "login" /\ token[p] \notin {None, Given} => token[p] = settings[p].url

\* Nothing excludes two commands that save config.toml, so one may take back
\* what another saved while it ran; but only that, and what it was asked for.
OnlyOverlapsAreLost ==
  [][\A f \in Fields : config'[f] # config[f] =>
       \E p \in Procs : pc[p] = "save" /\ f \in DOMAIN Own(p) \cup changed[p]]_vars

\* What is completed is of the profile, site and project of the command line it
\* is for, from the cache too, unless the configuration changed while the
\* command that fetched it ran, or git, asked twice, told it nothing of a pinned
\* repository (completioncache/store_test.go:56-70).
CompletionsOfTheirScope ==
  \A p \in Procs :
    pc[p] = "offer" => offered[p].from = asked[p] \/ offered[p].overlapped
===============================================================================
