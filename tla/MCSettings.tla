------------------------------ MODULE MCSettings ------------------------------
(***************************************************************************)
(* Small instances of Settings.  Processes are interchangeable, and so are *)
(* profiles and sites.                                                     *)
(***************************************************************************)
EXTENDS Settings, TLC

Plain(kind, value) ==
  [kind |-> kind, value |-> value, profile |-> None, url |-> None, token |-> None]

\* Every command, with the flags that lead it elsewhere.
SomeInvocations ==
  {Plain(k, q) : k \in {"profile", "git-profile"}, q \in Profiles}
  \cup {Plain(k, t) : k \in {"api-url", "project", "use", "use-local", "login", "git-project"}, t \in Taigas}
  \cup {Plain(k, None) : k \in {"logout", "work", "complete"}}
  \cup {[Plain("work", None) EXCEPT !.token = Given]}
  \cup {[Plain("work", None) EXCEPT !.profile = q] : q \in Profiles}
  \cup {[Plain("complete", None) EXCEPT !.url = t] : t \in Taigas}

SettingsSymmetry ==
  {f @@ g @@ h : f \in Permutations(Procs), g \in Permutations(Profiles), h \in Permutations(Taigas)}
===============================================================================
