SPECIFICATION FedSpec
CONSTANTS
    Calls = {f1}
    PeerCalls = {f1}
    Phones = {ph1}
    GrantIds = {g1, g2}
    Tools = {t1}
    Plugins = {p1, p2}
    OAuthPlugins = {}
    Agents = {a1}
    Peers = {b1}
    Local = Local
    NoPlugin = NoPlugin
    NoGrant = NoGrant
    NoKey = NoKey
    NoRequest = NoRequest
    GrantTTL = 1
    Dialogs = {"grant", "delegation"}
    ApprovalTimeout <- MCApprovalTimeout
    DelegationIds = {d1}
    DelegationTTL = 1
    RequestIds = {r1}
    NonceTTL = 2
    MaxSkew = 1
    ClockErrors <- ClocksAgree
    FedLimit = 1
    FedWindow = 1
INVARIANT
    RunsOnDelegatedPlugin
