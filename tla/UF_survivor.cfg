CONSTANTS
    MaxUpdates = 1
    Mutes = {1}
    Programs = {app, host}
    App = app
SPECIFICATION Spec
INVARIANTS CancelLeavesNoInstaller
CHECK_DEADLOCK FALSE
