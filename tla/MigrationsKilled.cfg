\* One command at a time, one of which may be killed.
CONSTANTS
    Commands = {c1, c2}
    Killable = {c1}
    AtATime = 1
SPECIFICATION MigrateSpec
CHECK_DEADLOCK FALSE
INVARIANT UpgradesSucceed
