CONSTANTS
    Req = {r1, r2}
    Gid = {g1, g2}
    Doc = {d1, d2}
    Path = {p1, p2}
    App = App
    Leaf = {App}
    LeafOf <- MCLeafOf
    MetaPath = {}
    PageSize = 2
    Enabled = {"create", "deploy"}
    None = None
SPECIFICATION Spec
SYMMETRY MCSymmetry
INVARIANT ReleaseOfOneProject
