CONSTANTS
    Req = {r1, r2}
    Gid = {g1, g2}
    Doc = {d1, d2}
    Path = {p1, p2, t1}
    App = App
    Leaf = {App}
    LeafOf <- MCLeafOf
    MetaPath = {t1}
    PageSize = 2
    Enabled = {"create", "reconcile", "rename", "restart", "faults"}
    None = None
SPECIFICATION Spec
SYMMETRY MCSymmetry
INVARIANT TypeOK
PROPERTY ReconcileFindsEveryProject
