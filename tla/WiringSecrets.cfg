CONSTANTS
    Req = {r1, r2}
    r1 = r1
    r2 = r2
    dev = dev
    prod = prod
    a1 = a1
    a2 = a2
    main = main
    develop = develop
    h1 = h1
    p0 = p0
    p1 = p1
    p2 = p2
    x = x
    y = y
    file = file
    file2 = file2
    Key = {dev, prod}
    Standard = {dev, prod}
    Prod = prod
    App = {a1, a2}
    Branch = {main, develop}
    MainBranch = main
    Host = {h1}
    NoRef = NoRef
    Nil = Nil
    Profile = {p0, p1, p2}
    RtKey = {x, y}
    Seed = Seed
    File = {file, file2}
    DefaultRef <- MCDefaultRef
    UserRoots <- MCUserRoots
    Creations <- MCCreations
    Ops <- SecretOps
SPECIFICATION WiringSpec
SYMMETRY Requests
INVARIANT RuntimeKeysInTarget
CHECK_DEADLOCK FALSE
