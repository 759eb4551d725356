CONSTANTS
    Req = {r1}
    Gid = {g1}
    Doc = {d1, d2}
    Path = {p1}
    App = App
    Leaf = {App}
    LeafOf <- MCLeafOf
    MetaPath = {}
    PageSize = 2
    Enabled = {"create", "delete", "deploy", "reconcile"}
    None = None
SPECIFICATION Spec
SYMMETRY MCSymmetry
INVARIANT DeletedStaysUnregistered
