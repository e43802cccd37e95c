SPECIFICATION MCSpec
CONSTANTS
    Procs = {hub, cli}
    Latest = 8
    Steps <- MCSteps
    Alters <- MCAlters
    Pages = {pg1, pg2}
    MaxCommits = 3
    NoBackup = NoBackup
    Keys = {k1, k2}
    Accounts = {main, other}
    DefaultAccount = main
    NoKey = NoKey
    Reads = {q1, q2}
    Retention = 1
    MaxMoment = 3
    Installs = {i1, i2, i3}
    i1 = i1
    i2 = i2
    i3 = i3
    n1 = n1
    Plugin <- MCPlugin
    Contents <- MCContents
    Files = {"package.json", "a.js", "b.js"}
    EntryOf <- MCEntryOf
    Absent = Absent
    TicksPerToken = 2
    Capacity = 4
    IdleTTL = 5
    PeerLimit = 2
    PeerWindow = 3
    ClockSteps = {1, 6}
    MaxClock = 6
    MaxMoved = 6
    HubSockets = {h1, h2}
    LaptopSockets = {l1}
    MaxSent = 2
    NoSocket = NoSocket
    Releases = {v1, v2}
    Parts = {f1, f2}
    NoVersion = NoVersion
INVARIANTS
    TypesOK
    SchemaCoversVersion
    ReadyIsComplete
    LastCommitStands
    BackupIsLatest
    OneKeyOpensAll
    ReadsComeBeforeAnswers
    InstalledIsWhole
    WithinRate
    WithinWindow
    HeardOnce
    UpgradeTakesEffect
PROPERTIES
    PurgeSparesTheYoung
    StampFollowsFiles
CHECK_DEADLOCK FALSE
