CONSTANTS
    KeyId = {k1, k2}
    Operator = {o1, o2}
    Client = {c1}
    MaxActive = 1
    Bodies <- MCBodies
    NoKey = NoKey
    Tick = {t1}
    Push = {p1}
    Mode = {"real", "dry"}
    Flaky = {"gitlab"}
    MaxKills = 1
    MaxFills = 2
    Caller = {c1, c2}
    CiKey = {v1, v2}
    Path = {f1, f2}
    Name = {n1, n2}
    Kept = {1, 2, 3}
    PerPage = 2
    Nobody = Nobody
    Ask = {a1, a2}
    Release = {"r1", "r2"}
    ProfileOf <- MCProfileOf
    Lists <- MCLists
    Pod = {p1, p2}
    MaxPods = 1
    MaxEvents = 1
    Choice = {c1, c2}
    NoChoice = NoChoice
    MaxLoads = 2
    Shown = {p1, p2}
    NoProject = NoProject
    MaxSaves = 1
    MaxLists = 1
    MaxClicks = 3
    EnvKey = {n1}
    Stored = {s1, s2}
    NoneOpen = NoneOpen
    MaxUploads = 1
    Proj = {p1, p2}
    TargetKey = {"dev", "eu"}
    AppName = {"a1", "a2"}
    Slug = "a1"
    TypedHost = {h1}
    h1 = h1
    Ref = {"b1", "b2"}
    DefaultRefOf <- MCDefault
    NoneRef = NoneRef
    Blank = Blank
    Starts <- MCStarts
    MaxEdits = 3
    Http = {q1, q2}
    Setup <- MCSetup
    Header <- MCHeader
SPECIFICATION ServicesSpec
INVARIANTS ServicesTypeOK ActiveKeysBounded RevocationObeyed ScopesHonoured StoppedMeansStopped DataOutlivesGitLab SetNeverRefused CommitsWhole DeletedIsGone LeafUnderPath VerdictErrsSafe RetryFinishes LogsTellOfEveryPod  AuditNamesCaller
PROPERTIES RevokedStaysRevoked DrainingEnds PressureIsMet PurgeEnds SecretsStayInPlace EditKeepsTheRest
CHECK_DEADLOCK FALSE
