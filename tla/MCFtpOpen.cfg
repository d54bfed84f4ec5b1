SPECIFICATION FairSpec
CONSTANTS
    MaxOpens = 2
    maxDials = 2
    FirewallTypes <- AllFirewalls
    Greetings = {220, 421, 500}
    OddCodes = {0}
INVARIANTS
    FailureLeavesNothing
    LoggedInToSite
    PasswordMatchesUser
    OpenLeavesQuiet
PROPERTIES
    DeniedIsFinal
    OpenReturns
CHECK_DEADLOCK FALSE
