SPECIFICATION MCSpec
CONSTANTS
    p1 = p1
    p2 = p2
    n1 = n1
    n2 = n2
    t1 = t1
    Procs = {p1, p2}
    Names = {n1, n2}
    Tools = {t1}
    Offers <- MCOffers
    Asks = {a1}
    PingKnown = {p2}
    MaxOwed = 1
    NoProc = NoProc
    NoName = NoName
    NoManifest = NoManifest
    Calls = {c1}
    Dialogs = {"grant"}
    App = App
    Page = Page
    ApprovalTimeout <- MCApprovalTimeout
    PageTimeout = 1
    NoLoad = NoLoad
INVARIANTS
    TypesOK
    RoutesLeadToTheLiving
CHECK_DEADLOCK FALSE
PROPERTIES
    StartsEnd
    HungIsEnded
    ClientsComeBack
    ImplementsStream
