CONSTANTS
    Req = {r1, r2}
    Gid = {g1}
    Doc = {d1}
    Path = {p1, p2}
    App = App
    Leaf = {App}
    LeafOf <- MCLeafOf
    MetaPath = {}
    PageSize = 2
    Enabled = {"create", "register", "relocate", "byHand", "delete", "faults", "schedule", "rename", "skip", "deploy", "sonar"}
    None = None
SPECIFICATION Spec
SYMMETRY MCSymmetry
INVARIANT RemovedMeansGone
INVARIANT DeletionIsAudited
INVARIANT NoReleaseLeftBehind
INVARIANT NoAnalysisLeftBehind
CHECK_DEADLOCK FALSE
