------------------------------ MODULE MCWiring ------------------------------
(* Instances of ProjectWiring: two targets (dev, whose branch is develop,   *)
(* and prod, whose branch is main), two apps, two branches.                 *)
EXTENDS ProjectWiring, TLC

CONSTANTS r1, r2, dev, prod, a1, a2, main, develop, h1, p0, p1, p2, x, y, file, file2

Requests == Permutations(Req)

MCDefaultRef == [k \in {dev, prod} |-> IF k = dev THEN develop ELSE main]
MCUserRoots ==
    [b \in Branch |-> IF b = main THEN [shape |-> "tagged", jobs |-> {"test"}, includes |-> {}]
                      ELSE [shape |-> "yaml", jobs |-> {"lint"}, includes |-> {}]]

NoProfiles == [p \in {p0, p1, p2} |-> Nil]
Rt(branches, names) == [phase |-> "runtime", branches |-> branches, job |-> Nil,
                        file |-> Nil, targets |-> {dev}, names |-> names]

Created ==
    [deployable |-> TRUE, app |-> a1, targets |-> Nil, legacy |-> FALSE, pinned |-> FALSE,
     opts |-> [main |-> Nil, refs |-> [k \in {dev, prod} |-> Nil], all |-> FALSE],
     profiles |-> [NoProfiles EXCEPT ![p0] = Rt({develop}, {x})]]
Legacy == [Created EXCEPT !.legacy = TRUE, !.profiles = NoProfiles]
Pinned == [Legacy EXCEPT !.pinned = TRUE]
Custom ==
    [Created EXCEPT !.targets = [k \in {dev, prod} |->
                                   IF k = dev THEN [on |-> Nil, ref |-> main, apps |-> {}, hosts |-> NoApps, host |-> h1]
                                   ELSE Nil],
                    !.profiles = NoProfiles]
MCCreations == {Created, Legacy, Pinned, Custom}

UpsertOp(k, on, ref, apps) ==
    [op |-> "upsert", key |-> k, on |-> on, ref |-> ref, apps |-> apps, hosts |-> NoApps,
     teardown |-> TRUE]
MigrateOp(opts, unpin) == [op |-> "migrate", opts |-> opts, unpin |-> unpin]

TargetOps ==
    {UpsertOp(dev, TRUE, develop, {a1, a2}),
     [UpsertOp(dev, TRUE, Nil, {a2}) EXCEPT !.hosts[a2] = h1],
     UpsertOp(dev, FALSE, Nil, {a1}), UpsertOp(prod, TRUE, develop, {a1}),
     UpsertOp(prod, TRUE, main, {}),
     [op |-> "remove", key |-> dev, teardown |-> TRUE],
     [op |-> "remove", key |-> prod, teardown |-> FALSE],
     [op |-> "hostname", key |-> dev, host |-> h1],
     MigrateOp(Created.opts, FALSE),
     MigrateOp([Created.opts EXCEPT !.main = develop, !.refs[prod] = main], TRUE),
     [op |-> "pin", pinned |-> TRUE]}

Upload0 == [op |-> "upload", profile |-> p1, phase |-> "runtime", branches |-> {develop},
            job |-> Nil, file |-> Nil, targets |-> {dev}, names |-> {y}]
ProfileOps ==
    {Upload0,
     [Upload0 EXCEPT !.branches = {main}],
     [Upload0 EXCEPT !.profile = p2, !.branches = {main}, !.names = {x, y}],
     [Upload0 EXCEPT !.profile = p1, !.phase = "build", !.file = file],
     [Upload0 EXCEPT !.profile = p2, !.phase = "build", !.file = file],
     [op |-> "content", profile |-> p0, names |-> {y}],
     [op |-> "content", profile |-> p1, names |-> {x}],
     [op |-> "metadata", profile |-> p0, branches |-> {main}, targets |-> {prod},
      job |-> {}, file |-> Nil],
     [op |-> "metadata", profile |-> p1, branches |-> Nil, targets |-> Nil,
      job |-> {a1}, file |-> file2],
     [op |-> "drop", profile |-> p0]}

MCOps == TargetOps \cup ProfileOps
SecretOps == {UpsertOp(dev, TRUE, develop, {a1, a2})}
=============================================================================
