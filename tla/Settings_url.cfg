\* A counterexample to UrlIsRestored: enable over the user's own base URL, then
\* uninstall.  It is documentation beside Settings.tla, not one of the runs.
SPECIFICATION SettingsSpec
CONSTANTS
  BakePorts = {1}
  Lines = {"u1", "u2"}
  LocalFiles <- MCLocal
  CommittedFiles <- MCCommitted
  MaxEdits = 0
INVARIANT UrlIsRestored
CHECK_DEADLOCK FALSE
