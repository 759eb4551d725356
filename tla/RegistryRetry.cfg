CONSTANTS
    Req = {r1, r2}
    Gid = {g1}
    Doc = {d1}
    Path = {p1}
    App = App
    Leaf = {App}
    LeafOf <- MCLeafOf
    MetaPath = {}
    PageSize = 2
    Enabled = {"create", "register", "byHand", "delete", "schedule", "rename", "deploy", "sonar"}
    None = None
SPECIFICATION Spec
PROPERTY RetriedDeletesFinish
CHECK_DEADLOCK FALSE
