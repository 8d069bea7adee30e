SPECIFICATION SocksSpec
CONSTANTS
    Limit = 3
    Hosts <- MCHosts
    Auths <- MCAuths
    Scripts <- MCScripts
INVARIANTS
    UnderstoodByProxy
    SuccessIsEarned
    NothingIsSaidUnasked
PROPERTY
    Completes
CHECK_DEADLOCK FALSE
