SPECIFICATION ServicesSpec
CONSTANTS
    Requested = 3
    Runs = {r1, r2}
    Cleaning = {r2}
    Hubs = {topic}
    Targets = {page}
    HubOf <- UnderTopic
    Legacy = {unmapped}
    Start <- Collections
    topic = topic
    page = page
    unmapped = unmapped
    Root = root
    Requests = {q1, q2, q3}
    KeyOne = {q1, q2}
    KeyOf <- TwoKeys
    Interval = 2
    MaxDelay = 2
    MaxClock = 5
    Readers = {w1}
    Backfills = {b1}
    Limit = 3
    BackfillLimit = 4
    ApiLimit = 2
    Needed = 2
    MaxListed = 5
    MaxSent = 3
INVARIANTS
    EveryTypeOK
    MergeKeepsLatest
    StoredNeverAhead
    NoPhantomPosition
    OrphansNeedLostAnswers
    NewestTextSurvives
    QuietSyncConverges
    ClosedOnce
    AcceptedApart
    SignalsSeeNoHole
    DemoOnlyWithoutData
PROPERTIES
    TitleNeverLost
    StreamEnds
CHECK_DEADLOCK FALSE
