SPECIFICATION FedSpec
CONSTANTS
    Calls = {f1, f2}
    PeerCalls = {f1, f2}
    Phones = {ph1}
    GrantIds = {g1, g2}
    Tools = {t1}
    Plugins = {p1}
    OAuthPlugins = {}
    Agents = {a1}
    Peers = {b1}
    Local = Local
    NoPlugin = NoPlugin
    NoGrant = NoGrant
    NoKey = NoKey
    NoRequest = NoRequest
    GrantTTL = 3
    Dialogs = {"grant", "delegation"}
    ApprovalTimeout <- MCApprovalTimeout
    DelegationIds = {d1}
    DelegationTTL = 3
    RequestIds = {r1}
    NonceTTL = 2
    MaxSkew = 1
    ClockErrors <- PeerAhead
    FedLimit = 1
    FedWindow = 1
INVARIANT
    RunsAtMostOnce
