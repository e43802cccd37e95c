SPECIFICATION Spec
CONSTANTS
    Calls = {c1, c2}
    Phones = {ph1}
    GrantIds = {g1, g2}
    Tools = {t1}
    Plugins = {p1, p2}
    OAuthPlugins = {p1}
    Agents = {a1}
    Peers = {}
    Local = Local
    NoPlugin = NoPlugin
    NoGrant = NoGrant
    NoKey = NoKey
    GrantTTL = 1
    Dialogs = {"grant"}
    ApprovalTimeout <- MCApprovalTimeout
SYMMETRY Symmetry
INVARIANTS
    IInv
    RunsOnConsent
    AuditTellsTheStory
    GrantsAreEarned
PROPERTY
    GateHolds
