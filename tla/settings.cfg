SPECIFICATION Spec
CONSTANTS
  Procs = {p1, p2}
  Profiles = {home, work}
  Taigas = {A, B}
  None = None
  Given = Given
  Invocations <- SomeInvocations
  MaxCommands = 3
SYMMETRY SettingsSymmetry
INVARIANTS CredentialGoesHome CompletionsOfTheirScope
PROPERTIES OnlyOverlapsAreLost
