SPECIFICATION MCSpec
CONSTANTS
    Calls = {f1}
    PeerCalls = {f1}
    Phones = {ph1}
    GrantIds = {g1}
    Tools = {t1}
    Plugins = {p1}
    OAuthPlugins = {p1}
    Agents = {a1}
    Peers = {b1, b2}
    Local = Local
    NoPlugin = NoPlugin
    NoGrant = NoGrant
    NoKey = NoKey
    NoRequest = NoRequest
    GrantTTL = 1
    Dialogs = {"grant", "delegation"}
    ApprovalTimeout <- MCApprovalTimeout
    DelegationIds = {d1}
    DelegationTTL = 1
    RequestIds = {r1}
    NonceTTL = 2
    MaxSkew = 1
    ClockErrors <- MCClockErrors
    FedLimit = 1
    FedWindow = 1
    DelegIds = {d1, d2}
    DelegTTL = 2
    Asks = {q1}
    HasMagicDns = FALSE
    Users = {u1, u2}
    Flows = {w1, w2}
    MaxCallbacks = 2
    Refreshes = {r1, r2, r3}
    Policies = {"rotate", "keep"}
    FixedPort = TRUE
    EnvConfigured = FALSE
    NoRefresh = NoRefresh
    NoToken = NoToken
INVARIANTS
    TypesOK
    AdmittedIsBacked
    BooksAgree
    VaultStaysUsable
PROPERTIES
    CallsOnListed
    PeerCallsAnswered
    PortComesFree
CHECK_DEADLOCK FALSE
