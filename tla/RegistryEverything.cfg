CONSTANTS
    Req = {r1, r2}
    Gid = {g1}
    Doc = {d1, d2}
    Path = {p1}
    App = App
    Leaf = {App}
    LeafOf <- MCLeafOf
    MetaPath = {}
    PageSize = 2
    Enabled = {"create", "override", "delete", "reconcile", "rename", "schedule", "restart", "faults"}
    None = None
SPECIFICATION Spec
SYMMETRY MCSymmetry
PROPERTY ImplementsLedger
