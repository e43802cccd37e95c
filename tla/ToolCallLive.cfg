SPECIFICATION FairSpec
CONSTANTS
    Calls = {c1, c2}
    Phones = {ph1}
    GrantIds = {g1, g2}
    Tools = {t1}
    Plugins = {p1}
    OAuthPlugins = {}
    Agents = {a1}
    Peers = {}
    Local = Local
    NoPlugin = NoPlugin
    NoGrant = NoGrant
    NoKey = NoKey
    GrantTTL = 1
    Dialogs = {"grant"}
    ApprovalTimeout <- MCApprovalTimeout
INVARIANT
    RefusalIsFinal
PROPERTIES
    AnswerStands
    EveryCallAnswered
    StopEnds
