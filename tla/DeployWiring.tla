---------------------------- MODULE DeployWiring ----------------------------
(***************************************************************************)
(* The handlers of ProjectsService that change the deployment targets of a *)
(* project: upsertDeploymentTarget, removeDeploymentTarget,                *)
(* setHostnameOverride, migrateProjectToAutoDevops and setPinnedV1.  Each  *)
(* is the plan it makes from the document it loaded.                       *)
(***************************************************************************)
EXTENDS ProjectCalls

(* syncAllDeploymentWiring: every target's secret is seeded again, every    *)
(* variable published again, the fragments committed, the document saved.   *)
SyncAll(doc, b) ==
    SeedAll(doc.targets) \o Publish(doc.targets) \o CommitCi(b, doc.targets) \o Save(doc)

DefaultBranchOnly(ref) == MainBranch
OwnBranch(ref) == IF ref = NoRef THEN MainBranch ELSE ref

UpsertPlan(doc, o) ==
    LET old == doc.targets[o.key]
        ref == SavedRef(o.key, o.on, o.ref, old)
        new == [on |-> o.on, ref |-> ref, host |-> HostsFor(o.key, o.apps, o.hosts)]
        next == [doc EXCEPT !.targets[o.key] = new]
    IN  IF ~ValidRef(ref, o.on) \/ o.apps = {} THEN Reject
        ELSE (IF ~o.on /\ o.teardown THEN Teardown(o.key, AppsOf(new)) ELSE <<>>)
             \o SeedTarget(o.key)
             \o Unscope(o.key, AppsOf(old) \ AppsOf(new))
             \o SyncAll(next, OwnBranch(ref)) \o Save(next)

RemovePlan(doc, o) ==
    LET old == doc.targets[o.key]
        next == [doc EXCEPT !.targets[o.key] = Nil]
    IN  IF old = Nil THEN Reject
        ELSE (IF o.teardown THEN Teardown(o.key, AppsOf(old)) ELSE <<>>)
             \o Unscope(o.key, AppsOf(old)) \o PublishNoRef(o.key)
             \o CommitCi(OwnBranch(old.ref), next.targets) \o Save(next)

(* The first app's host; the variable is set after the save.                *)
HostnamePlan(doc, o) ==
    LET old == doc.targets[o.key]
        a == First(AppsOf(old))
    IN  IF old = Nil THEN Reject
        ELSE Save([doc EXCEPT !.targets[o.key].host[a] = o.host])
             \o SetAppHost(o.key, a, o.host)

(* A legacy row that still has no targets gets the derived ones; a failing  *)
(* pipeline trigger is swallowed.                                           *)
MigrateFlagFirst(doc, o) ==
    LET next == [doc EXCEPT !.targets = [k \in Key |-> DeriveStandard(k, doc.app, doc.deployable)],
                            !.legacy = FALSE]
    IN  IF ~doc.legacy \/ doc.pinned THEN <<>> ELSE Save(next) \o SyncAll(next, PipelineRef(o.opts))
MigratePlan(doc, o) ==
    LET ts == IF KeysOf(doc.targets) = {}
              THEN [k \in Key |-> DeriveStandard(k, doc.app, doc.deployable)]
              ELSE doc.targets
        next == [doc EXCEPT !.targets = Overridden(ts, o.opts)]
        b == PipelineRef(o.opts)
        flags == [next EXCEPT !.legacy = FALSE,
                              !.pinned = IF o.unpin THEN FALSE ELSE @]
    IN  IF doc.pinned /\ ~o.unpin THEN Reject
        ELSE IF ~doc.legacy THEN <<>>
        ELSE <<[c |-> "chart", b |-> b, on |-> doc.runtime]>>
                 \o (IF Deployable(next) THEN SyncAll(next, b) ELSE CommitRoot(b, next.targets))
                 \o Save(flags)

PinPlan(doc, o) == Save([doc EXCEPT !.pinned = o.pinned])

UpsertTarget(r, o) == o.op = "upsert" /\ Begins(r, o, UpsertPlan(row, o))
RemoveTarget(r, o) == o.op = "remove" /\ Begins(r, o, RemovePlan(row, o))
SetHostname(r, o) == o.op = "hostname" /\ Begins(r, o, HostnamePlan(row, o))
Migrate(r, o) == o.op = "migrate" /\ Begins(r, o, MigratePlan(row, o))
SetPinned(r, o) == o.op = "pin" /\ Begins(r, o, PinPlan(row, o))

WiringStarts(r, o) ==
    UpsertTarget(r, o) \/ RemoveTarget(r, o) \/ SetHostname(r, o) \/ Migrate(r, o) \/ SetPinned(r, o)

=============================================================================
