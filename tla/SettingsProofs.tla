---------------------------- MODULE SettingsProofs ----------------------------
(***************************************************************************)
(* For any commands in any number of processes: a saved credential goes to *)
(* the site that issued it, a save takes back only what was changed while  *)
(* it was under way, and a completion is of the settings it is for, unless *)
(* those changed while it was fetched.                                     *)
(***************************************************************************)
EXTENDS Settings, TLAPS

Sites == Taigas \cup {None}

ConfigOK(c) ==
  /\ c \in [Fields -> Values] /\ c[Current] \in Profiles
  /\ \A q \in Profiles : c[<<"url", q>>] \in Sites /\ c[<<"project", q>>] \in Sites

GitOK(g) ==
  g \in [GitKeys -> Values] /\ g["profile"] \in Profiles \cup {None} /\ g["project"] \in Sites

SavingKinds == {"profile", "api-url", "project", "use", "login"}
GitKinds    == {"git-profile", "git-project"}

\* Where a command has loaded the configuration, and where it has resolved it.
Loaded(p) == pc[p] \notin {"idle", "load"} /\ inv[p].kind \notin GitKinds
Resolved(p) == Loaded(p) /\ pc[p] \notin {"git_profile", "git_project", "credential"}

\* The types, as far as the proofs use them.
SharedTypes ==
  /\ ConfigOK(config) /\ GitOK(git)
  /\ saved \in [Profiles \X Sites -> Sites]
  /\ changed \in [Procs -> SUBSET (Fields \cup {"git"} \X {None})]

LocalTypes ==
  /\ pc \in [Procs -> Pcs] /\ inv \in [Procs -> Invocations \cup {NoInvocation}]
  /\ cfg \in [Procs -> [Fields -> Values]]
  /\ local \in [Procs -> [GitKeys -> Values]] /\ \A p \in Procs : GitOK(local[p])
  /\ settings \in [Procs -> Scope] /\ token \in [Procs -> Sites \cup {Given}]

\* Which command is at which step.
StepInv(p) ==
  /\ IF pc[p] = "idle" THEN token[p] = None ELSE inv[p] \in Invocations
  /\ Loaded(p) => ConfigOK(cfg[p])
  /\ Resolved(p) => settings[p].profile \in Profiles
  /\ inv[p].kind \in GitKinds => pc[p] = "act"
  /\ pc[p] \in {"reload", "save"} => inv[p].kind \in SavingKinds
  /\ pc[p] = "keep" => inv[p].kind = "login"
  /\ pc[p] = "reload" => inv[p].kind = "use"
  /\ pc[p] \in {"pin_profile", "pin_project"} => inv[p].kind = "use-local"
  /\ inv[p].kind = "login" /\ pc[p] \in {"save", "keep"} => settings[p].url \in Taigas

\* The credential of an account was issued by the site of the account.
SavedAtHome == \A q \in Profiles, u \in Sites : saved[<<q, u>>] \in {None, u}

\* What a command has loaded is what is there, or was changed since.
LoadedIsCurrent ==
  \A p \in Procs : Loaded(p) /\ pc[p] # "keep" =>
    \A f \in Fields : cfg[p][f] = config[f] \/ f \in changed[p]

SettingsInv ==
  /\ SharedTypes /\ LocalTypes /\ \A p \in Procs : StepInv(p)
  /\ SavedAtHome /\ CredentialGoesHome /\ LoadedIsCurrent

LEMMA NothingYet ==
  /\ Unset \in Scope /\ NoGit \in [GitKeys -> Values] /\ Empty \in [Fields -> Values]
  /\ GitOK(NoGit)
<1>1. NoGit \in [GitKeys -> Values] /\ NoGit["profile"] = None /\ NoGit["project"] = None
  BY DEF NoGit, GitKeys, Values
<1> QED
  BY <1>1 DEF Unset, Scope, Empty, Values, GitOK, Sites

LEMMA SettingsInvInit == Init => SettingsInv
<1> SUFFICES ASSUME Init PROVE SettingsInv
  OBVIOUS
<1>1. ConfigOK(config)
  BY DEF Init, ConfigOK, Sites
<1>2. GitOK(git)
  <2>1. ASSUME NEW q \in Profiles, git = [profile |-> q, project |-> config[<<"project", q>>]]
        PROVE  GitOK(git)
    <3>1. config[<<"project", q>>] \in Sites
      BY <1>1 DEF ConfigOK
    <3>2. git \in [GitKeys -> Values]
      BY <2>1, <3>1 DEF GitKeys, Values, Sites
    <3> QED
      BY <2>1, <3>1, <3>2 DEF GitOK
  <2> QED
    BY <2>1, NothingYet DEF Init
<1>3. saved \in [Profiles \X Sites -> Sites]
  BY <1>1 DEF Init, ConfigOK, Account, Sites
<1>4. SavedAtHome
  BY <1>1 DEF Init, ConfigOK, Account, SavedAtHome, Sites
<1>5. SharedTypes
  BY <1>1, <1>2, <1>3 DEF Init, SharedTypes
<1>6. LocalTypes
  BY NothingYet DEF Init, LocalTypes, Pcs, Sites
<1>7. \A p \in Procs : StepInv(p)
  BY DEF Init, StepInv, NoInvocation, Loaded, Resolved, GitKinds
<1> QED
  BY <1>4, <1>5, <1>6, <1>7 DEF Init, SettingsInv, CredentialGoesHome, LoadedIsCurrent, Loaded

\* A command that returns leaves the others where they are.
LEMMA ReturnKeeps ==
  ASSUME LocalTypes, \A q \in Procs : StepInv(q), NEW p \in Procs, Return(p)
  PROVE  LocalTypes' /\ \A q \in Procs : StepInv(q)'
<1>1. LocalTypes'
  BY NothingYet DEF Return, LocalTypes, Pcs, Sites
<1>2. \A q \in Procs : StepInv(q)'
  BY DEF Return, LocalTypes, StepInv, Loaded, Resolved, NoInvocation, GitKinds
<1> QED
  BY <1>1, <1>2

LEMMA ReturnKeepsHome ==
  ASSUME LocalTypes, CredentialGoesHome, NEW p \in Procs, Return(p)
  PROVE  CredentialGoesHome'
  BY DEF Return, LocalTypes, CredentialGoesHome, NoInvocation

LEMMA ReturnKeepsLoaded ==
  ASSUME LocalTypes, LoadedIsCurrent, NEW p \in Procs, Return(p), UNCHANGED <<config, changed>>
  PROVE  LoadedIsCurrent'
  BY DEF Return, LocalTypes, LoadedIsCurrent, Loaded

LEMMA SettingsInvStep == SettingsInv /\ [Next]_vars => SettingsInv'
<1> SUFFICES ASSUME SettingsInv, [Next]_vars PROVE SettingsInv'
  OBVIOUS
<1> USE SettingsAssumption DEF SettingsInv
<1>1. ASSUME NEW p \in Procs, Stops(p) PROVE SettingsInv'
  <2>1. Return(p) /\ Keep
    BY <1>1 DEF Stops
  <2> QED
    BY <2>1, ReturnKeeps, ReturnKeepsHome, ReturnKeepsLoaded
       DEF Keep, shared, SharedTypes, SavedAtHome
<1>2. ASSUME NEW p \in Procs, Work(p) PROVE SettingsInv'
  <2>1. Return(p) /\ Keep
    BY <1>2 DEF Work
  <2> QED
    BY <2>1, ReturnKeeps, ReturnKeepsHome, ReturnKeepsLoaded
       DEF Keep, shared, SharedTypes, SavedAtHome
<1>3. ASSUME NEW p \in Procs, Offer(p) PROVE SettingsInv'
  <2>1. Return(p) /\ Keep
    BY <1>3 DEF Offer
  <2> QED
    BY <2>1, ReturnKeeps, ReturnKeepsHome, ReturnKeepsLoaded
       DEF Keep, shared, SharedTypes, SavedAtHome
<1>4. ASSUME NEW p \in Procs, ConfigSet(p) PROVE SettingsInv'
  <2>1. SharedTypes' /\ LocalTypes' /\ SavedAtHome' /\ CredentialGoesHome'
    BY <1>4 DEF ConfigSet, Acts, Goto, Keep, shared, resolved, SharedTypes, LocalTypes, Pcs,
       SavedAtHome, CredentialGoesHome
  <2>2. \A q \in Procs : StepInv(q)'
    BY <1>4 DEF ConfigSet, Acts, Goto, resolved, LocalTypes, StepInv, Loaded, Resolved, GitKinds, SavingKinds
  <2>3. LoadedIsCurrent'
    BY <1>4 DEF ConfigSet, Acts, Goto, Keep, shared, resolved, LocalTypes, LoadedIsCurrent, Loaded, GitKinds
  <2> QED
    BY <2>1, <2>2, <2>3
<1>5. ASSUME NEW p \in Procs, FindProject(p) PROVE SettingsInv'
  <2>1. SharedTypes' /\ LocalTypes' /\ SavedAtHome' /\ CredentialGoesHome'
    BY <1>5 DEF FindProject, Acts, Goto, Keep, shared, resolved, SharedTypes, LocalTypes, Pcs,
       SavedAtHome, CredentialGoesHome
  <2>2. \A q \in Procs : StepInv(q)'
    BY <1>5 DEF FindProject, Acts, Goto, resolved, LocalTypes, StepInv, Loaded, Resolved, GitKinds, SavingKinds
  <2>3. LoadedIsCurrent'
    BY <1>5 DEF FindProject, Acts, Goto, Keep, shared, resolved, LocalTypes, LoadedIsCurrent, Loaded, GitKinds
  <2> QED
    BY <2>1, <2>2, <2>3
<1>6. ASSUME NEW p \in Procs, LookUp(p) PROVE SettingsInv'
  <2>1. SharedTypes' /\ LocalTypes' /\ SavedAtHome' /\ CredentialGoesHome'
    BY <1>6 DEF LookUp, Acts, At, Goto, Keep, shared, resolved, SharedTypes, LocalTypes, Pcs,
       SavedAtHome, CredentialGoesHome
  <2>2. \A q \in Procs : StepInv(q)'
    BY <1>6 DEF LookUp, Acts, At, Goto, resolved, LocalTypes, StepInv, Loaded, Resolved, GitKinds, SavingKinds
  <2>3. LoadedIsCurrent'
    BY <1>6 DEF LookUp, Acts, At, Goto, Keep, shared, resolved, LocalTypes, LoadedIsCurrent, Loaded, GitKinds
  <2> QED
    BY <2>1, <2>2, <2>3
<1>7. ASSUME NEW p \in Procs, Fetch(p) PROVE SettingsInv'
  <2>1. SharedTypes' /\ LocalTypes' /\ SavedAtHome' /\ CredentialGoesHome'
    BY <1>7 DEF Fetch, At, Goto, Keep, shared, resolved, SharedTypes, LocalTypes, Pcs,
       SavedAtHome, CredentialGoesHome
  <2>2. \A q \in Procs : StepInv(q)'
    BY <1>7 DEF Fetch, At, Goto, resolved, LocalTypes, StepInv, Loaded, Resolved, GitKinds, SavingKinds
  <2>3. LoadedIsCurrent'
    BY <1>7 DEF Fetch, At, Goto, Keep, shared, resolved, LocalTypes, LoadedIsCurrent, Loaded, GitKinds
  <2> QED
    BY <2>1, <2>2, <2>3
<1>8. ASSUME NEW p \in Procs, PutLoad(p) PROVE SettingsInv'
  <2>1. SharedTypes' /\ LocalTypes' /\ SavedAtHome' /\ CredentialGoesHome'
    BY <1>8 DEF PutLoad, Goto, Keep, shared, resolved, SharedTypes, LocalTypes, Pcs,
       SavedAtHome, CredentialGoesHome
  <2>2. \A q \in Procs : StepInv(q)'
    BY <1>8 DEF PutLoad, Goto, resolved, LocalTypes, StepInv, Loaded, Resolved, GitKinds, SavingKinds
  <2>3. LoadedIsCurrent'
    BY <1>8 DEF PutLoad, Goto, Keep, shared, resolved, LocalTypes, LoadedIsCurrent, Loaded, GitKinds
  <2> QED
    BY <2>1, <2>2, <2>3
<1>9. ASSUME NEW p \in Procs, PutSave(p) PROVE SettingsInv'
  <2>1. SharedTypes' /\ LocalTypes' /\ SavedAtHome' /\ CredentialGoesHome'
    BY <1>9 DEF PutSave, Goto, Keep, shared, resolved, SharedTypes, LocalTypes, Pcs,
       SavedAtHome, CredentialGoesHome
  <2>2. \A q \in Procs : StepInv(q)'
    BY <1>9 DEF PutSave, Goto, resolved, LocalTypes, StepInv, Loaded, Resolved, GitKinds, SavingKinds
  <2>3. LoadedIsCurrent'
    BY <1>9 DEF PutSave, Goto, Keep, shared, resolved, LocalTypes, LoadedIsCurrent, Loaded, GitKinds
  <2> QED
    BY <2>1, <2>2, <2>3
<1>10. ASSUME NEW p \in Procs, Begin(p) PROVE SettingsInv'
  <2>1. SharedTypes' /\ SavedAtHome'
    BY <1>10 DEF Begin, shared, SharedTypes, SavedAtHome
  <2>2. LocalTypes'
    BY <1>10 DEF Begin, resolved, LocalTypes, Pcs
  <2>3. \A q \in Procs : StepInv(q)'
    BY <1>10 DEF Begin, resolved, LocalTypes, StepInv, Loaded, Resolved, GitKinds, SavingKinds
  <2>4. CredentialGoesHome'
    BY <1>10 DEF Begin, resolved, LocalTypes, CredentialGoesHome, StepInv
  <2>5. LoadedIsCurrent'
    BY <1>10 DEF Begin, shared, resolved, LocalTypes, SharedTypes, LoadedIsCurrent, Loaded, GitKinds
  <2> QED
    BY <2>1, <2>2, <2>3, <2>4, <2>5
<1>11. ASSUME NEW p \in Procs, Load(p) PROVE SettingsInv'
  <2>1. SharedTypes' /\ SavedAtHome'
    BY <1>11 DEF Load, shared, SharedTypes, SavedAtHome
  <2>2. LocalTypes' /\ cfg'[p] = config
    BY <1>11 DEF Load, Goto, LocalTypes, SharedTypes, ConfigOK, Pcs
  <2>3. \A q \in Procs : StepInv(q)'
    BY <1>11, <2>2 DEF Load, Goto, SharedTypes, LocalTypes, StepInv, Loaded, Resolved, GitKinds, SavingKinds
  <2>4. CredentialGoesHome'
    BY <1>11 DEF Load, Goto, CredentialGoesHome
  <2>5. LoadedIsCurrent'
    BY <1>11 DEF Load, Goto, shared, LocalTypes, SharedTypes, LoadedIsCurrent, Loaded, GitKinds
  <2> QED
    BY <2>1, <2>2, <2>3, <2>4, <2>5
<1>12. ASSUME NEW p \in Procs, NEW k \in GitKeys, NEW at, NEW then \in {"git_project", "credential"},
              at \in {"git_profile", "git_project"}, LoadGit(p, k, at, then)
       PROVE SettingsInv'
  <2>1. SharedTypes' /\ SavedAtHome' /\ CredentialGoesHome'
    BY <1>12 DEF LoadGit, Goto, Keep, shared, SharedTypes, SavedAtHome, CredentialGoesHome
  <2>2. LocalTypes'
    <3>1. local' = [local EXCEPT ![p] = [local[p] EXCEPT ![k] = git[k]]]
      BY <1>12 DEF LoadGit
    <3>2. [local[p] EXCEPT ![k] = git[k]] \in [GitKeys -> Values] /\ GitOK([local[p] EXCEPT ![k] = git[k]])
      BY <1>12 DEF LocalTypes, SharedTypes, GitOK, GitKeys
    <3> QED
      BY <1>12, <3>1, <3>2 DEF LoadGit, Goto, LocalTypes, Pcs
  <2>3. \A q \in Procs : StepInv(q)'
    BY <1>12 DEF LoadGit, Goto, LocalTypes, StepInv, Loaded, Resolved, GitKinds, SavingKinds
  <2>4. LoadedIsCurrent'
    BY <1>12 DEF LoadGit, Goto, Keep, shared, LocalTypes, LoadedIsCurrent, Loaded, GitKinds
  <2> QED
    BY <2>1, <2>2, <2>3, <2>4
<1>13. ASSUME NEW p \in Procs, ReadCredential(p) PROVE SettingsInv'
  <2> DEFINE r == ResolveFrom(inv[p], local[p], cfg[p])
  <2>1. inv[p] \in Invocations /\ ConfigOK(cfg[p]) /\ GitOK(local[p])
    BY <1>13 DEF ReadCredential, StepInv, Loaded, LocalTypes, GitKinds
  <2>2. r \in Scope /\ r.profile \in Profiles /\ r.url \in Sites
    <3> DEFINE q == Or(inv[p].profile, Or(local[p]["profile"], cfg[p][Current]))
    <3>1. q \in Profiles
      BY <2>1 DEF Or, ConfigOK, GitOK
    <3>2. Or(inv[p].url, cfg[p][<<"url", q>>]) \in Sites
      BY <2>1, <3>1 DEF Or, ConfigOK, Sites
    <3>3. Or(local[p]["project"], cfg[p][<<"project", q>>]) \in Sites
      BY <2>1, <3>1 DEF Or, ConfigOK, GitOK, Sites
    <3> QED
      BY <3>1, <3>2, <3>3 DEF ResolveFrom, Scope, Sites
  <2>3. settings' = [settings EXCEPT ![p] = r]
    BY <1>13 DEF ReadCredential
  <2>4. PICK t \in {None, Given, r.url} : token' = [token EXCEPT ![p] = t]
    <3>1. saved[Account(r.profile, r.url)] \in {None, r.url}
      BY <2>2 DEF SavedAtHome, Account
    <3>2. inv[p].token \in {None, Given}
      BY <2>1
    <3> QED
      BY <1>13, <3>1, <3>2 DEF ReadCredential, Or
  <2>5. SharedTypes' /\ SavedAtHome'
    BY <1>13 DEF ReadCredential, Keep, shared, SharedTypes, SavedAtHome
  <2>6. LocalTypes'
    BY <1>13, <2>2, <2>3, <2>4 DEF ReadCredential, Goto, LocalTypes, Pcs, Sites
  <2>7. \A q \in Procs : StepInv(q)'
    BY <1>13, <2>2, <2>3 DEF ReadCredential, Goto, LocalTypes, StepInv, Loaded, Resolved, GitKinds, SavingKinds
  <2>8. CredentialGoesHome'
    BY <1>13, <2>2, <2>3, <2>4 DEF ReadCredential, Goto, LocalTypes, CredentialGoesHome
  <2>9. LoadedIsCurrent'
    BY <1>13 DEF ReadCredential, Goto, Keep, shared, LocalTypes, LoadedIsCurrent, Loaded, GitKinds
  <2> QED
    BY <2>5, <2>6, <2>7, <2>8, <2>9
<1>14. ASSUME NEW p \in Procs, Authenticate(p) PROVE SettingsInv'
  <2> DEFINE u == Or(inv[p].value, settings[p].url)
  <2>1. u \in Taigas
    BY <1>14 DEF Authenticate, Acts, Or, StepInv, LocalTypes, Scope
  <2>2. settings' = [settings EXCEPT ![p] = [settings[p] EXCEPT !.url = u]]
    BY <1>14 DEF Authenticate
  <2>3. [settings[p] EXCEPT !.url = u] \in Scope
    BY <2>1 DEF LocalTypes, Scope
  <2>4. SharedTypes' /\ SavedAtHome'
    BY <1>14 DEF Authenticate, Keep, shared, SharedTypes, SavedAtHome
  <2>5. LocalTypes'
    BY <1>14, <2>2, <2>3 DEF Authenticate, Goto, LocalTypes, Pcs
  <2>6. \A q \in Procs : StepInv(q)'
    BY <1>14, <2>1, <2>2 DEF Authenticate, Acts, Goto, LocalTypes, Scope, StepInv, Loaded, Resolved, GitKinds, SavingKinds
  <2>7. CredentialGoesHome'
    BY <1>14, <2>2 DEF Authenticate, Acts, Goto, LocalTypes, CredentialGoesHome
  <2>8. LoadedIsCurrent'
    BY <1>14 DEF Authenticate, Acts, Goto, Keep, shared, LocalTypes, LoadedIsCurrent, Loaded, GitKinds
  <2> QED
    BY <2>4, <2>5, <2>6, <2>7, <2>8
<1>15. ASSUME NEW p \in Procs, Reload(p) PROVE SettingsInv'
  <2>1. SharedTypes' /\ SavedAtHome' /\ CredentialGoesHome'
    BY <1>15 DEF Reload, Goto, shared, SharedTypes, SavedAtHome, CredentialGoesHome
  <2>2. LocalTypes' /\ cfg'[p] = config
    BY <1>15 DEF Reload, Goto, LocalTypes, SharedTypes, ConfigOK, Pcs
  <2>3. \A q \in Procs : StepInv(q)'
    BY <1>15, <2>2 DEF Reload, Goto, SharedTypes, LocalTypes, StepInv, Loaded, Resolved, GitKinds, SavingKinds
  <2>4. LoadedIsCurrent'
    BY <1>15 DEF Reload, Goto, shared, LocalTypes, SharedTypes, LoadedIsCurrent, Loaded, GitKinds
  <2> QED
    BY <2>1, <2>2, <2>3, <2>4
<1>16. ASSUME NEW p \in Procs, Save(p) PROVE SettingsInv'
  <2> DEFINE q == settings[p].profile
             changes == {f \in Fields : config'[f] # config[f]}
  <2>1. pc[p] = "save" /\ inv[p] \in Invocations /\ inv[p].kind \in SavingKinds /\ ConfigOK(cfg[p])
        /\ q \in Profiles /\ settings[p] \in Scope
    BY <1>16 DEF Save, LocalTypes, StepInv, Loaded, Resolved, GitKinds
  <2>2. ConfigOK(config')
    <3>1. config' = [f \in Fields |-> IF f \in DOMAIN Own(p) THEN Own(p)[f] ELSE cfg[p][f]]
      BY <1>16 DEF Save, Edited
    <3>2. CASE inv[p].kind = "profile"
      <4>1. inv[p].value \in Profiles
        BY <2>1, <3>2
      <4>2. Own(p) = [f \in {Current} |-> inv[p].value]
        BY <3>2 DEF Own
      <4>3. config' = [f \in Fields |-> IF f = Current THEN inv[p].value ELSE cfg[p][f]]
        BY <3>1, <4>2
      <4> QED
        BY <2>1, <4>1, <4>3 DEF ConfigOK, Fields, Current, Values
    <3>3. CASE inv[p].kind = "api-url"
      <4>1. inv[p].value \in Sites
        BY <2>1, <3>3 DEF Sites
      <4>2. Own(p) = [f \in {<<"url", q>>} |-> inv[p].value]
        BY <3>3 DEF Own
      <4>3. config' = [f \in Fields |-> IF f = <<"url", q>> THEN inv[p].value ELSE cfg[p][f]]
        BY <3>1, <4>2
      <4> QED
        BY <2>1, <4>1, <4>3 DEF ConfigOK, Fields, Current, Values, Sites
    <3>4. CASE inv[p].kind \in {"project", "use"}
      <4>1. inv[p].value \in Sites
        BY <2>1, <3>4 DEF Sites
      <4>2. Own(p) = [f \in {<<"project", q>>} |-> inv[p].value]
        BY <3>4 DEF Own
      <4>3. config' = [f \in Fields |-> IF f = <<"project", q>> THEN inv[p].value ELSE cfg[p][f]]
        BY <3>1, <4>2
      <4> QED
        BY <2>1, <4>1, <4>3 DEF ConfigOK, Fields, Current, Values, Sites
    <3>5. CASE inv[p].kind = "login"
      <4>1. Own(p) = [f \in {<<"url", q>>, Current} |-> IF f = Current THEN q ELSE settings[p].url]
        BY <3>5 DEF Own
      <4>2. config' = [f \in Fields |-> IF f = Current THEN q
                                        ELSE IF f = <<"url", q>> THEN settings[p].url ELSE cfg[p][f]]
        BY <3>1, <4>1
      <4> QED
        BY <2>1, <4>2 DEF ConfigOK, Fields, Current, Values, Sites, Scope
    <3> QED
      BY <2>1, <3>2, <3>3, <3>4, <3>5 DEF SavingKinds
  <2>3. changed' = [r \in Procs |-> IF r = p \/ pc[r] = "idle" THEN changed[r] ELSE changed[r] \cup changes]
    BY <1>16 DEF Save, Tell
  <2>4. SharedTypes' /\ SavedAtHome'
    BY <1>16, <2>2, <2>3 DEF Save, SharedTypes, SavedAtHome
  <2>5. CASE inv[p].kind = "login"
    <3>1. Goto(p, "keep") /\ UNCHANGED resolved
      BY <1>16, <2>5 DEF Save
    <3>2. LocalTypes'
      BY <3>1 DEF Goto, resolved, LocalTypes, Pcs
    <3>3. \A r \in Procs : StepInv(r)'
      BY <2>1, <2>5, <3>1 DEF Goto, resolved, LocalTypes, StepInv, Loaded, Resolved, GitKinds, SavingKinds
    <3>4. CredentialGoesHome'
      BY <3>1 DEF Goto, resolved, CredentialGoesHome
    <3>5. LoadedIsCurrent'
      BY <2>3, <2>5, <3>1 DEF Goto, resolved, LocalTypes, LoadedIsCurrent, Loaded
    <3> QED
      BY <2>4, <3>2, <3>3, <3>4, <3>5
  <2>6. CASE inv[p].kind # "login"
    <3>1. Return(p)
      BY <1>16, <2>6 DEF Save
    <3>2. LoadedIsCurrent'
      BY <2>3, <3>1 DEF Return, LocalTypes, LoadedIsCurrent, Loaded
    <3> QED
      BY <2>4, <3>1, <3>2, ReturnKeeps, ReturnKeepsHome
  <2> QED
    BY <2>5, <2>6
<1>17. ASSUME NEW p \in Procs, KeepCredential(p) PROVE SettingsInv'
  <2>1. Return(p) /\ UNCHANGED <<config, git, changed>>
    BY <1>17 DEF KeepCredential
  <2>2. settings[p].profile \in Profiles /\ settings[p].url \in Sites
    BY <1>17 DEF KeepCredential, LocalTypes, Scope, Sites, StepInv, Loaded, Resolved, GitKinds
  <2>3. saved' = [saved EXCEPT ![<<settings[p].profile, settings[p].url>>] = settings[p].url]
    BY <1>17 DEF KeepCredential, Account
  <2>4. SharedTypes' /\ SavedAtHome'
    BY <2>1, <2>2, <2>3 DEF SharedTypes, SavedAtHome
  <2> QED
    BY <2>1, <2>4, ReturnKeeps, ReturnKeepsHome, ReturnKeepsLoaded
<1>18. ASSUME NEW p \in Procs, Logout(p) PROVE SettingsInv'
  <2>1. Return(p) /\ UNCHANGED <<config, git, changed>>
    BY <1>18 DEF Logout
  <2>2. settings[p].profile \in Profiles /\ settings[p].url \in Sites
    BY <1>18 DEF Logout, Acts, LocalTypes, Scope, Sites, StepInv, Loaded, Resolved, GitKinds
  <2>3. saved' = [saved EXCEPT ![<<settings[p].profile, settings[p].url>>] = None]
    BY <1>18 DEF Logout, Account
  <2>4. SharedTypes' /\ SavedAtHome'
    BY <2>1, <2>2, <2>3 DEF SharedTypes, SavedAtHome, Sites
  <2> QED
    BY <2>1, <2>4, ReturnKeeps, ReturnKeepsHome, ReturnKeepsLoaded
<1>19. ASSUME NEW p \in Procs, NEW k \in GitKeys, NEW v, Pin(p, k, v),
              v \in IF k = "profile" THEN Profiles ELSE Sites
       PROVE  SharedTypes' /\ SavedAtHome' /\ \A q \in Procs : changed[q] \subseteq changed'[q]
  <2>1. GitOK(git')
    BY <1>19 DEF Pin, SharedTypes, GitOK, GitKeys, Values, Sites
  <2>2. PICK fields \in {{}, {<<"git", None>>}} :
          changed' = [q \in Procs |-> IF q = p \/ pc[q] = "idle" THEN changed[q] ELSE changed[q] \cup fields]
    BY <1>19 DEF Pin, Tell
  <2>3. changed' \in [Procs -> SUBSET (Fields \cup {"git"} \X {None})]
    BY <2>2 DEF SharedTypes
  <2> QED
    BY <1>19, <2>1, <2>2, <2>3 DEF Pin, SharedTypes, SavedAtHome
<1>20. ASSUME NEW p \in Procs, GitSet(p) PROVE SettingsInv'
  <2> DEFINE k == IF inv[p].kind = "git-profile" THEN "profile" ELSE "project"
  <2>1. Return(p) /\ Pin(p, k, inv[p].value) /\ inv[p] \in Invocations /\ inv[p].kind \in GitKinds
    BY <1>20 DEF GitSet, Acts, StepInv, GitKinds
  <2>2. k \in GitKeys /\ inv[p].value \in IF k = "profile" THEN Profiles ELSE Sites
    BY <2>1 DEF GitKeys, GitKinds, Sites
  <2>3. SharedTypes' /\ SavedAtHome' /\ \A q \in Procs : changed[q] \subseteq changed'[q]
    BY <1>19, <2>1, <2>2
  <2>4. LoadedIsCurrent'
    BY <2>1, <2>3 DEF Pin, Return, LocalTypes, LoadedIsCurrent, Loaded
  <2> QED
    BY <2>1, <2>3, <2>4, ReturnKeeps, ReturnKeepsHome
<1>21. ASSUME NEW p \in Procs, PinProfile(p) PROVE SettingsInv'
  <2>1. settings[p].profile \in Profiles /\ inv[p].kind = "use-local"
    BY <1>21 DEF PinProfile, StepInv, Loaded, Resolved, GitKinds
  <2>2. SharedTypes' /\ SavedAtHome' /\ \A q \in Procs : changed[q] \subseteq changed'[q]
    BY <1>19, <1>21, <2>1 DEF PinProfile, GitKeys
  <2>3. LocalTypes' /\ CredentialGoesHome'
    BY <1>21 DEF PinProfile, Goto, resolved, LocalTypes, Pcs, CredentialGoesHome
  <2>4. \A q \in Procs : StepInv(q)'
    BY <1>21, <2>1 DEF PinProfile, Goto, resolved, LocalTypes, StepInv, Loaded, Resolved, GitKinds, SavingKinds
  <2>5. LoadedIsCurrent'
    BY <1>21, <2>2 DEF PinProfile, Goto, Pin, resolved, LocalTypes, LoadedIsCurrent, Loaded, GitKinds
  <2> QED
    BY <2>2, <2>3, <2>4, <2>5
<1>22. ASSUME NEW p \in Procs, PinProject(p) PROVE SettingsInv'
  <2>1. Return(p) /\ Pin(p, "project", inv[p].value) /\ inv[p] \in Invocations /\ inv[p].kind = "use-local"
    BY <1>22 DEF PinProject, StepInv
  <2>2. inv[p].value \in Sites
    BY <2>1 DEF Sites
  <2>3. SharedTypes' /\ SavedAtHome' /\ \A q \in Procs : changed[q] \subseteq changed'[q]
    BY <1>19, <2>1, <2>2 DEF GitKeys
  <2>4. LoadedIsCurrent'
    BY <2>1, <2>3 DEF Pin, Return, LocalTypes, LoadedIsCurrent, Loaded
  <2> QED
    BY <2>1, <2>3, <2>4, ReturnKeeps, ReturnKeepsHome
<1>23. ASSUME UNCHANGED vars PROVE SettingsInv'
  <2>1. SharedTypes' /\ LocalTypes' /\ SavedAtHome' /\ CredentialGoesHome'
    BY <1>23 DEF vars, shared, resolved, SharedTypes, LocalTypes, SavedAtHome, CredentialGoesHome
  <2>2. LoadedIsCurrent' /\ \A q \in Procs : StepInv(q)'
    BY <1>23 DEF vars, shared, resolved, LoadedIsCurrent, StepInv, Loaded, Resolved
  <2> QED
    BY <2>1, <2>2
<1>24. ASSUME NEW p \in Procs, LoadGit(p, "profile", "git_profile", "git_project")
                               \/ LoadGit(p, "project", "git_project", "credential")
       PROVE SettingsInv'
  BY <1>12, <1>24 DEF GitKeys
<1>25. ASSUME NEW p \in Procs, NoRepository(p) PROVE SettingsInv'
  <2> USE DEF NoRepository, Goto
  <2>1. SharedTypes' /\ SavedAtHome' /\ CredentialGoesHome'
    BY <1>25 DEF shared, SharedTypes, SavedAtHome, CredentialGoesHome
  <2>2. LocalTypes'
    BY <1>25, NothingYet DEF LocalTypes, Pcs
  <2>3. \A q \in Procs : StepInv(q)'
    BY <1>25 DEF LocalTypes, StepInv, Loaded, Resolved, GitKinds, SavingKinds
  <2>4. LoadedIsCurrent'
    BY <1>25 DEF shared, SharedTypes, LocalTypes, LoadedIsCurrent, Loaded, GitKinds
  <2> QED
    BY <2>1, <2>2, <2>3, <2>4
<1> QED
  BY <1>1, <1>2, <1>3, <1>4, <1>5, <1>6, <1>7, <1>8, <1>9, <1>10, <1>11, <1>13, <1>14, <1>15, <1>16,
     <1>17, <1>18, <1>20, <1>21, <1>22, <1>23, <1>24, <1>25 DEF Next, AllDone

THEOREM SettingsInvariant == Spec => []SettingsInv
<1> QED
  BY SettingsInvInit, SettingsInvStep, PTL DEF Spec

\* However commands interleave, a saved credential is only sent to the site that
\* issued it (resolveSettings, client, login, logout).
THEOREM SavedCredentialGoesHome == Spec => []CredentialGoesHome
<1>1. SettingsInv => CredentialGoesHome
  BY DEF SettingsInv
<1> QED
  BY <1>1, SettingsInvariant, PTL

\* A save of config.toml takes back nothing but what another command changed
\* while this one ran (config set, project use, login).
THEOREM OnlyOverlapsAreTakenBack == Spec => OnlyOverlapsAreLost
<1>1. SettingsInv /\ [Next]_vars =>
        [\A f \in Fields : config'[f] # config[f] =>
           \E p \in Procs : pc[p] = "save" /\ f \in DOMAIN Own(p) \cup changed[p]]_vars
  <2> SUFFICES ASSUME SettingsInv, [Next]_vars, NEW f \in Fields, config'[f] # config[f]
               PROVE  \E p \in Procs : pc[p] = "save" /\ f \in DOMAIN Own(p) \cup changed[p]
    OBVIOUS
  <2>1. PICK p \in Procs : Save(p)
    BY DEF Next, Begin, Stops, Load, LoadGit, NoRepository, ReadCredential, Work, ConfigSet, Authenticate, FindProject,
       Reload, KeepCredential, Logout, GitSet, PinProfile, PinProject, Pin, LookUp, Fetch, PutLoad,
       PutSave, Offer, AllDone, Keep, shared, vars
  <2>2. pc[p] = "save" /\ config'[f] = Edited(p)[f]
    BY <2>1 DEF Save
  <2>3. f \notin DOMAIN Own(p) => config'[f] = cfg[p][f]
    BY <2>2 DEF Edited
  <2>4. Loaded(p)
    BY <2>2 DEF SettingsInv, StepInv, Loaded, GitKinds
  <2> QED
    BY <2>2, <2>3, <2>4 DEF SettingsInv, LoadedIsCurrent
<1> QED
  BY <1>1, SettingsInvariant, PTL DEF Spec, OnlyOverlapsAreLost

-----------------------------------------------------------------------------
(* The completion cache.                                                   *)

Sound(e) == e.key = Key(e.from) \/ e.overlapped

\* Every entry, cached or at hand, is of the settings it was fetched with, unless
\* they changed meanwhile.
EntriesSound ==
  /\ asked \in [Procs -> Scope] /\ loaded \in [Procs -> SUBSET Entries] /\ offered \in [Procs -> Entries]
  /\ cache \subseteq Entries /\ \A e \in cache : Sound(e)
  /\ \A p \in Procs : Sound(offered[p]) /\ \A e \in loaded[p] : Sound(e)

\* The entry at hand is of what was asked for.
AtHand(p) ==
  /\ pc[p] = "idle" => asked[p] = Unset /\ offered[p] = NoEntry /\ inv[p] = NoInvocation
  /\ asked[p] # Unset => inv[p].kind = "complete"
  /\ pc[p] = "fetch" => asked[p] # Unset
  /\ offered[p] = NoEntry \/ offered[p].key = Key(asked[p])
  /\ pc[p] \in {"put_load", "put_save", "offer"} => offered[p].key = Key(asked[p])

\* While nothing changes, whatever is read, and whenever it is, is the same.
Agrees(p) ==
  inv[p].kind = "complete" /\ changed[p] = {} =>
    /\ Loaded(p) => cfg[p] = config
    /\ Loaded(p) /\ pc[p] # "git_profile" => local[p]["profile"] = git["profile"]
    /\ Loaded(p) /\ pc[p] \notin {"git_profile", "git_project"} => local[p]["project"] = git["project"]
    /\ Resolved(p) => settings[p] = ResolveFrom(inv[p], git, config)
    /\ asked[p] # Unset => asked[p] = ResolveFrom(inv[p], git, config)

CompletionInv == EntriesSound /\ \A p \in Procs : AtHand(p) /\ Agrees(p)

\* What a step leaves as it was for another command: where it is, what it has read.
Undisturbed(q) ==
  /\ pc'[q] = pc[q] /\ inv'[q] = inv[q] /\ cfg'[q] = cfg[q] /\ local'[q] = local[q]
  /\ settings'[q] = settings[q] /\ asked'[q] = asked[q] /\ offered'[q] = offered[q]

\* A change that another does not learn of is none.
Told(q) ==
  /\ changed[q] \subseteq changed'[q]
  /\ changed'[q] = {} /\ pc[q] # "idle" => config' = config /\ git' = git

LEMMA NoEntrySound == NoEntry \in Entries /\ Sound(NoEntry) /\ Unset \in Scope
  BY NothingYet DEF NoEntry, Entries, Sound, Key

LEMMA CompletionInvInit == Init => CompletionInv
<1> SUFFICES ASSUME Init PROVE CompletionInv
  OBVIOUS
<1>1. EntriesSound
  BY NoEntrySound DEF Init, EntriesSound
<1>2. \A p \in Procs : AtHand(p) /\ Agrees(p)
  BY DEF Init, AtHand, Agrees, NoInvocation
<1> QED
  BY <1>1, <1>2 DEF CompletionInv

LEMMA OthersAgree ==
  ASSUME CompletionInv, NEW q \in Procs, Undisturbed(q), Told(q)
  PROVE  AtHand(q)' /\ Agrees(q)'
<1>1. AtHand(q)'
  BY DEF CompletionInv, AtHand, Undisturbed
<1>2. CASE pc[q] = "idle"
  BY <1>1, <1>2 DEF CompletionInv, AtHand, Agrees, Undisturbed, NoInvocation
<1>3. CASE pc[q] # "idle" /\ changed'[q] # {}
  BY <1>1, <1>3 DEF Agrees
<1>4. CASE pc[q] # "idle" /\ changed'[q] = {}
  BY <1>1, <1>4 DEF CompletionInv, Agrees, Undisturbed, Told, Loaded, Resolved
<1> QED
  BY <1>1, <1>2, <1>3, <1>4

\* No step of a command disturbs another.
LEMMA ReturnUndisturbed ==
  ASSUME LocalTypes, EntriesSound, NEW p \in Procs, Return(p), NEW q \in Procs, q # p
  PROVE  Undisturbed(q)
  BY DEF Return, LocalTypes, EntriesSound, Undisturbed

\* A command that returns has nothing at hand.
LEMMA ReturnForgets ==
  ASSUME SettingsInv, CompletionInv, NEW p \in Procs, Return(p), cache' = cache,
         \A q \in Procs : q # p => Told(q)
  PROVE  CompletionInv'
<1> USE DEF SettingsInv, CompletionInv
<1>1. EntriesSound'
  BY NoEntrySound DEF Return, EntriesSound
<1>2. AtHand(p)' /\ Agrees(p)'
  BY DEF Return, LocalTypes, EntriesSound, AtHand, Agrees, NoInvocation
<1>3. ASSUME NEW q \in Procs, q # p PROVE AtHand(q)' /\ Agrees(q)'
  BY <1>3, OthersAgree, ReturnUndisturbed
<1> QED
  BY <1>1, <1>2, <1>3

\* A step of a command that completes nothing.
LEMMA OtherKinds ==
  ASSUME SettingsInv, CompletionInv, NEW p \in Procs, NEW l \in Pcs, Goto(p, l),
         pc[p] # "idle", l \notin {"idle", "fetch", "put_load", "put_save", "offer"},
         inv[p].kind # "complete", UNCHANGED <<cache, asked, completion>>,
         \A q \in Procs : q # p => Told(q)
                          /\ cfg'[q] = cfg[q] /\ local'[q] = local[q] /\ settings'[q] = settings[q]
  PROVE  CompletionInv'
<1> USE DEF SettingsInv, CompletionInv
<1>1. EntriesSound'
  BY DEF completion, EntriesSound
<1>2. AtHand(p)' /\ Agrees(p)'
  BY DEF Goto, completion, LocalTypes, AtHand, Agrees
<1>3. ASSUME NEW q \in Procs, q # p PROVE AtHand(q)' /\ Agrees(q)'
  <2>1. Undisturbed(q)
    BY <1>3 DEF Goto, completion, LocalTypes, Undisturbed
  <2> QED
    BY <1>3, <2>1, OthersAgree
<1> QED
  BY <1>1, <1>2, <1>3

LEMMA UnchangedTold ==
  ASSUME UNCHANGED <<config, git>>, NEW q, changed'[q] = changed[q]
  PROVE  Told(q)
  BY DEF Told

LEMMA PinTold ==
  ASSUME SharedTypes, NEW p \in Procs, NEW k, NEW v, Pin(p, k, v), NEW q \in Procs, q # p
  PROVE  Told(q)
<1>1. changed'[q] = IF pc[q] = "idle" THEN changed[q]
                    ELSE changed[q] \cup (IF git' = git THEN {} ELSE {<<"git", None>>})
  BY DEF Pin, Tell
<1> QED
  BY <1>1 DEF Pin, Told

LEMMA SaveTold ==
  ASSUME SettingsInv, NEW p \in Procs, Save(p), NEW q \in Procs, q # p
  PROVE  Told(q)
<1>1. changed'[q] = IF pc[q] = "idle" THEN changed[q]
                    ELSE changed[q] \cup {f \in Fields : config'[f] # config[f]}
  BY DEF Save, Tell
<1>2. config' = [f \in Fields |-> config'[f]] /\ config = [f \in Fields |-> config[f]]
  BY DEF Save, Edited, SettingsInv, SharedTypes, ConfigOK
<1>3. (\A f \in Fields : config'[f] = config[f]) => config' = config
  BY <1>2
<1> QED
  BY <1>1, <1>3 DEF Save, Told

LEMMA CompletionInvStep == SettingsInv /\ CompletionInv /\ [Next]_vars => CompletionInv'
<1> SUFFICES ASSUME SettingsInv, CompletionInv, [Next]_vars PROVE CompletionInv'
  OBVIOUS
<1>1. ASSUME NEW p \in Procs, Stops(p) \/ Work(p) \/ Offer(p) \/ KeepCredential(p) \/ Logout(p)
      PROVE  CompletionInv'
  <2>1. Return(p) /\ UNCHANGED <<config, git, cache, changed>>
    BY <1>1 DEF Stops, Work, Offer, KeepCredential, Logout, Keep, shared
  <2> QED
    BY <2>1, ReturnForgets, UnchangedTold
<1>2. ASSUME NEW p \in Procs, GitSet(p) \/ PinProject(p) PROVE CompletionInv'
  <2>1. PICK k, v : Return(p) /\ Pin(p, k, v)
    BY <1>2 DEF GitSet, PinProject
  <2>2. cache' = cache
    BY <2>1 DEF Pin
  <2> QED
    BY <2>1, <2>2, ReturnForgets, PinTold DEF SettingsInv
<1>3. ASSUME NEW p \in Procs, PinProfile(p) PROVE CompletionInv'
  <2>1. pc[p] = "pin_profile" /\ inv[p].kind # "complete" /\ UNCHANGED <<cache, resolved, completion>>
    BY <1>3 DEF PinProfile, Pin, SettingsInv, StepInv
  <2> QED
    BY <1>3, <2>1, OtherKinds, PinTold DEF PinProfile, Pcs, resolved, SettingsInv
<1>4. ASSUME NEW p \in Procs, Save(p) PROVE CompletionInv'
  <2>1. cache' = cache /\ \A q \in Procs : q # p => Told(q)
    BY <1>4, SaveTold DEF Save
  <2>2. CASE inv[p].kind = "login"
    <3>1. Goto(p, "keep") /\ pc[p] = "save" /\ UNCHANGED <<resolved, completion>>
      BY <1>4, <2>2 DEF Save
    <3> QED
      BY <2>1, <2>2, <3>1, OtherKinds DEF Pcs, resolved
  <2>3. CASE inv[p].kind # "login"
    BY <1>4, <2>1, <2>3, ReturnForgets DEF Save
  <2> QED
    BY <2>2, <2>3
<1>5. ASSUME NEW p \in Procs, ConfigSet(p) \/ FindProject(p) PROVE CompletionInv'
  <2>1. PICK l \in {"save", "reload", "pin_profile"} : Goto(p, l)
    BY <1>5 DEF ConfigSet, FindProject
  <2>2. pc[p] = "act" /\ inv[p].kind # "complete" /\ UNCHANGED <<shared, changed, resolved, completion>>
    BY <1>5 DEF ConfigSet, FindProject, Acts, Keep
  <2> QED
    BY <2>1, <2>2, OtherKinds, UnchangedTold DEF Pcs, resolved, shared
<1>6. ASSUME NEW p \in Procs, Authenticate(p) PROVE CompletionInv'
  <2>1. pc[p] = "act" /\ inv[p].kind # "complete" /\ Goto(p, "save")
        /\ UNCHANGED <<shared, changed, cfg, local, asked, completion>>
    BY <1>6 DEF Authenticate, Acts, Keep
  <2>2. \A q \in Procs : q # p => settings'[q] = settings[q]
    BY <1>6 DEF Authenticate, SettingsInv, LocalTypes
  <2> QED
    BY <2>1, <2>2, OtherKinds, UnchangedTold DEF Pcs, shared
<1>7. ASSUME NEW p \in Procs, Reload(p) PROVE CompletionInv'
  <2>1. pc[p] = "reload" /\ inv[p].kind # "complete" /\ Goto(p, "save")
        /\ UNCHANGED <<shared, local, settings, asked, completion>>
    BY <1>7 DEF Reload, SettingsInv, StepInv, SavingKinds
  <2>2. \A q \in Procs : q # p => cfg'[q] = cfg[q] /\ changed'[q] = changed[q]
    BY <1>7 DEF Reload, SettingsInv, SharedTypes, LocalTypes
  <2> QED
    BY <2>1, <2>2, OtherKinds, UnchangedTold DEF Pcs, shared
<1>8. ASSUME NEW p \in Procs, Begin(p) PROVE CompletionInv'
  <2>1. EntriesSound'
    BY <1>8 DEF Begin, shared, resolved, completion, CompletionInv, EntriesSound
  <2>2. AtHand(p)' /\ Agrees(p)'
    BY <1>8 DEF Begin, shared, resolved, completion, CompletionInv, AtHand, Agrees, SettingsInv, LocalTypes,
       SettingsAssumption, Loaded, Resolved, GitKinds
  <2>3. ASSUME NEW q \in Procs, q # p PROVE Undisturbed(q) /\ Told(q)
    BY <1>8, <2>3 DEF Begin, shared, resolved, completion, SettingsInv, LocalTypes, SharedTypes, Undisturbed, Told
  <2> QED
    BY <2>1, <2>2, <2>3, OthersAgree DEF CompletionInv
<1>9. ASSUME NEW p \in Procs, Load(p) PROVE CompletionInv'
  <2>1. EntriesSound'
    BY <1>9 DEF Load, shared, completion, CompletionInv, EntriesSound
  <2>2. AtHand(p)' /\ Agrees(p)'
    BY <1>9 DEF Load, Goto, shared, completion, CompletionInv, AtHand, Agrees, SettingsInv, LocalTypes,
       SharedTypes, Loaded, Resolved, GitKinds
  <2>3. ASSUME NEW q \in Procs, q # p PROVE Undisturbed(q) /\ Told(q)
    BY <1>9, <2>3 DEF Load, Goto, shared, completion, SettingsInv, LocalTypes, SharedTypes, Undisturbed, Told
  <2> QED
    BY <2>1, <2>2, <2>3, OthersAgree DEF CompletionInv
<1>10. ASSUME NEW p \in Procs, LoadGit(p, "profile", "git_profile", "git_project")
                               \/ LoadGit(p, "project", "git_project", "credential")
       PROVE  CompletionInv'
  <2> USE DEF LoadGit, Goto, Keep, shared, completion
  <2>1. EntriesSound'
    BY <1>10 DEF CompletionInv, EntriesSound
  <2>2. AtHand(p)'
    BY <1>10 DEF CompletionInv, AtHand, SettingsInv, LocalTypes
  <2>3. ASSUME LoadGit(p, "profile", "git_profile", "git_project") PROVE Agrees(p)'
    <3>1. local'[p]["profile"] = git["profile"]
      BY <2>3 DEF SettingsInv, LocalTypes, GitKeys
    <3> QED
      BY <2>3, <3>1 DEF CompletionInv, Agrees, SettingsInv, LocalTypes, Loaded, Resolved, GitKinds
  <2>4. ASSUME LoadGit(p, "project", "git_project", "credential") PROVE Agrees(p)'
    <3>1. local'[p]["project"] = git["project"] /\ local'[p]["profile"] = local[p]["profile"]
      BY <2>4 DEF SettingsInv, LocalTypes, GitKeys
    <3> QED
      BY <2>4, <3>1 DEF CompletionInv, Agrees, SettingsInv, LocalTypes, Loaded, Resolved, GitKinds
  <2>5. ASSUME NEW q \in Procs, q # p PROVE Undisturbed(q) /\ Told(q)
    BY <1>10, <2>5 DEF SettingsInv, LocalTypes, Undisturbed, Told
  <2> QED
    BY <1>10, <2>1, <2>2, <2>3, <2>4, <2>5, OthersAgree DEF CompletionInv
<1>11. ASSUME NEW p \in Procs, ReadCredential(p) PROVE CompletionInv'
  <2> USE DEF Goto, Keep, shared, completion
  <2>1. EntriesSound'
    BY <1>11 DEF ReadCredential, CompletionInv, EntriesSound
  <2>2. AtHand(p)'
    BY <1>11 DEF ReadCredential, CompletionInv, AtHand, SettingsInv, LocalTypes
  <2>3. settings'[p] = ResolveFrom(inv[p], local[p], cfg[p])
    BY <1>11 DEF ReadCredential, SettingsInv, LocalTypes
  <2>4. Agrees(p)'
    <3>1. SUFFICES ASSUME inv'[p].kind = "complete", changed'[p] = {} PROVE Agrees(p)'
      BY DEF Agrees
    <3>2. /\ Loaded(p) /\ cfg[p] = config
          /\ local[p]["profile"] = git["profile"] /\ local[p]["project"] = git["project"]
          /\ asked[p] # Unset => asked[p] = ResolveFrom(inv[p], git, config)
      BY <1>11, <3>1 DEF ReadCredential, CompletionInv, Agrees, Loaded, GitKinds
    <3>3. ResolveFrom(inv[p], local[p], cfg[p]) = ResolveFrom(inv[p], git, config)
      BY <3>2 DEF ResolveFrom
    <3> QED
      BY <1>11, <2>3, <3>2, <3>3 DEF ReadCredential, SettingsInv, LocalTypes, Agrees
  <2>5. ASSUME NEW q \in Procs, q # p PROVE Undisturbed(q) /\ Told(q)
    BY <1>11, <2>5 DEF ReadCredential, SettingsInv, LocalTypes, Undisturbed, Told
  <2> QED
    BY <2>1, <2>2, <2>4, <2>5, OthersAgree DEF CompletionInv
<1>12. ASSUME NEW p \in Procs, LookUp(p) PROVE CompletionInv'
  <2>1. PICK l \in {"offer", "load"}, e \in cache \cup {NoEntry} :
          /\ At(p, l, e) /\ (e = NoEntry => l = "load" \/ e.key = Key(settings[p]))
          /\ (e # NoEntry => e.key = Key(settings[p]))
    BY <1>12 DEF LookUp
  <2>2. asked' = [asked EXCEPT ![p] = settings[p]] /\ UNCHANGED <<shared, changed>>
        /\ pc[p] = "act" /\ inv[p].kind = "complete"
    BY <1>12 DEF LookUp, Acts, Keep
  <2>3. EntriesSound'
    BY <2>1, <2>2, NoEntrySound DEF At, shared, CompletionInv, EntriesSound, SettingsInv, LocalTypes
  <2>4. AtHand(p)'
    BY <2>1, <2>2 DEF At, Goto, CompletionInv, EntriesSound, AtHand, SettingsInv, LocalTypes
  <2>5. Agrees(p)'
    BY <2>1, <2>2 DEF At, Goto, shared, CompletionInv, EntriesSound, Agrees, SettingsInv, LocalTypes,
       Loaded, Resolved, GitKinds
  <2>6. ASSUME NEW q \in Procs, q # p PROVE Undisturbed(q) /\ Told(q)
    BY <2>1, <2>2, <2>6 DEF At, Goto, shared, CompletionInv, EntriesSound, SettingsInv, LocalTypes, Undisturbed, Told
  <2> QED
    BY <2>3, <2>4, <2>5, <2>6, OthersAgree DEF CompletionInv
<1>13. ASSUME NEW p \in Procs, Fetch(p) PROVE CompletionInv'
  <2> DEFINE new == [key |-> Key(asked[p]), from |-> settings[p], overlapped |-> changed[p] # {}]
  <2>1. PICK l \in {"put_load", "offer"}, e \in {new, offered[p]} :
          At(p, l, e) /\ (e = new \/ offered[p] # NoEntry)
    BY <1>13 DEF Fetch
  <2>2. UNCHANGED <<asked, shared, changed>> /\ pc[p] = "fetch"
    BY <1>13 DEF Fetch, Keep
  <2>3. asked[p] \in Scope /\ settings[p] \in Scope /\ new \in Entries
    BY DEF CompletionInv, EntriesSound, SettingsInv, LocalTypes, Entries
  <2>4. Sound(new)
    BY <2>2 DEF Sound, CompletionInv, AtHand, Agrees, Loaded, Resolved, GitKinds
  <2>5. EntriesSound'
    BY <2>1, <2>2, <2>3, <2>4 DEF At, shared, CompletionInv, EntriesSound
  <2>6. AtHand(p)'
    BY <2>1, <2>2 DEF At, Goto, CompletionInv, EntriesSound, AtHand, SettingsInv, LocalTypes
  <2>7. Agrees(p)'
    BY <2>1, <2>2 DEF At, Goto, shared, CompletionInv, Agrees, SettingsInv, LocalTypes, Loaded, Resolved, GitKinds
  <2>8. ASSUME NEW q \in Procs, q # p PROVE Undisturbed(q) /\ Told(q)
    BY <2>1, <2>2, <2>8 DEF At, Goto, shared, CompletionInv, EntriesSound, SettingsInv, LocalTypes, Undisturbed, Told
  <2> QED
    BY <2>5, <2>6, <2>7, <2>8, OthersAgree DEF CompletionInv
<1>14. ASSUME NEW p \in Procs, PutLoad(p) \/ PutSave(p) PROVE CompletionInv'
  <2>1. UNCHANGED <<config, git, changed, resolved, offered>>
    BY <1>14 DEF PutLoad, PutSave, Keep, shared
  <2>2. PICK l \in {"put_save", "offer"} : Goto(p, l) /\ pc[p] \in {"put_load", "put_save"}
    BY <1>14 DEF PutLoad, PutSave
  <2>3. EntriesSound'
    <3>1. CASE PutLoad(p)
      BY <3>1 DEF PutLoad, Keep, shared, resolved, CompletionInv, EntriesSound
    <3>2. CASE PutSave(p)
      BY <3>2 DEF PutSave, resolved, CompletionInv, EntriesSound
    <3> QED
      BY <1>14, <3>1, <3>2
  <2>4. AtHand(p)'
    BY <2>1, <2>2 DEF Goto, resolved, CompletionInv, AtHand, SettingsInv, LocalTypes
  <2>5. Agrees(p)'
    BY <2>1, <2>2 DEF Goto, resolved, CompletionInv, Agrees, SettingsInv, LocalTypes, Loaded, Resolved, GitKinds
  <2>6. ASSUME NEW q \in Procs, q # p PROVE Undisturbed(q) /\ Told(q)
    BY <2>1, <2>2, <2>6 DEF Goto, resolved, SettingsInv, LocalTypes, Undisturbed, Told
  <2> QED
    BY <2>3, <2>4, <2>5, <2>6, OthersAgree DEF CompletionInv
<1>15. ASSUME UNCHANGED vars PROVE CompletionInv'
  BY <1>15 DEF vars, shared, resolved, completion, CompletionInv, EntriesSound, AtHand, Agrees, Loaded, Resolved
<1>16. ASSUME NEW p \in Procs, NoRepository(p) PROVE CompletionInv'
  <2> USE DEF NoRepository, Goto, completion
  <2>1. EntriesSound'
    BY <1>16 DEF shared, CompletionInv, EntriesSound
  <2>2. AtHand(p)'
    BY <1>16 DEF CompletionInv, AtHand, SettingsInv, LocalTypes
  <2>3. local'[p] = NoGit /\ (changed'[p] = {} => changed[p] = {} /\ git = NoGit)
    BY <1>16 DEF SettingsInv, SharedTypes, LocalTypes
  <2>4. Agrees(p)'
    BY <1>16, <2>3 DEF shared, CompletionInv, Agrees, SettingsInv, LocalTypes, Loaded, Resolved, GitKinds
  <2>5. ASSUME NEW q \in Procs, q # p PROVE Undisturbed(q) /\ Told(q)
    BY <1>16, <2>5 DEF shared, SettingsInv, SharedTypes, LocalTypes, Undisturbed, Told
  <2> QED
    BY <2>1, <2>2, <2>4, <2>5, OthersAgree DEF CompletionInv
<1> QED
  BY <1>1, <1>2, <1>3, <1>4, <1>5, <1>6, <1>7, <1>8, <1>9, <1>10, <1>11, <1>12, <1>13, <1>14, <1>15, <1>16
     DEF Next, AllDone

\* What is completed is of the profile, site and project of the command line it is
\* for, unless they changed while the command that fetched it ran (completeCached,
\* Get, Put).
THEOREM OfferedIsOfItsScope == Spec => []CompletionsOfTheirScope
<1>1. SettingsInv /\ CompletionInv => CompletionsOfTheirScope
  <2> SUFFICES ASSUME CompletionInv, NEW p \in Procs, pc[p] = "offer", ~offered[p].overlapped
               PROVE  offered[p].from = asked[p]
    BY DEF CompletionsOfTheirScope
  <2>1. Key(offered[p].from) = Key(asked[p])
    BY DEF CompletionInv, EntriesSound, AtHand, Sound
  <2>2. offered[p].from \in Scope /\ asked[p] \in Scope
    BY DEF CompletionInv, EntriesSound, Entries
  <2> QED
    BY <2>1, <2>2 DEF Key, Scope
<1>2. SettingsInv /\ CompletionInv /\ [Next]_vars => CompletionInv'
  BY CompletionInvStep
<1> QED
  BY <1>1, <1>2, CompletionInvInit, SettingsInvariant, PTL DEF Spec
===============================================================================
