CONSTANTS
    Req = {r1}
    Gid = {g1, g2}
    Doc = {d1, d2}
    Path = {p1, p2}
    App = App
    Leaf = {App}
    LeafOf <- MCLeafOf
    MetaPath = {}
    PageSize = 1
    Enabled = {"byHand", "reconcile"}
    None = None
SPECIFICATION Spec
SYMMETRY MCSymmetry
PROPERTY ReconcileFindsEveryProject
