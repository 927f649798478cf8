CONSTANTS
    MaxUpdates = 2
    Mutes = {1}
    Programs = {app, host}
    App = app
SPECIFICATION FairSpec
INVARIANTS PendingIsListed StagedIsInstallable SwapOnlyIfAsked
PROPERTIES OutcomeIsHandled AppComesBack
VIEW UpdateView
CHECK_DEADLOCK FALSE
