CONSTANTS
    Req = {r1}
    Gid = {g1, g2}
    Doc = {d1, d2}
    Path = {p1}
    App = App
    Leaf = {App}
    LeafOf <- MCLeafOf
    MetaPath = {}
    PageSize = 2
    Enabled = {"create", "delete", "deploy", "reconcile", "rename"}
    None = None
SPECIFICATION Spec
SYMMETRY MCSymmetry
PROPERTY PlatformCleanupSparesOthers
