SPECIFICATION Spec
CONSTANTS
    Calls = {c1}
    Phones = {ph1}
    GrantIds = {g1}
    Tools = {t1}
    Plugins = {p1}
    OAuthPlugins = {p1}
    Agents = {a1}
    Peers = {}
    Local = Local
    NoPlugin = NoPlugin
    NoGrant = NoGrant
    NoKey = NoKey
    GrantTTL = 2
    Dialogs = {"grant"}
    ApprovalTimeout <- MCApprovalTimeout
PROPERTY
    RunsUnderLiveGrant
