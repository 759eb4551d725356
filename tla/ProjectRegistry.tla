--------------------------- MODULE ProjectRegistry ---------------------------
(***************************************************************************)
(* The project registry of the Management API (api/src/projects): the      *)
(* MongoDB rows, and the resources in GitLab, OpenBao (Vault), Kubernetes  *)
(* and SonarQube that createProject, registerGitLabProject, deleteProject  *)
(* and reconcileGitLabProjects create and remove one awaited call at a     *)
(* time.  Requests interleave at every await; none of the handlers rolls   *)
(* back, so each of them may also stop between any two of its calls.       *)
(***************************************************************************)
EXTENDS Naturals, FiniteSets

CONSTANTS
    Req,        \* concurrent API requests
    Gid,        \* GitLab project ids, never reused
    Doc,        \* MongoDB document ids, never reused (a bound on insertions)
    Path,       \* GitLab namespace paths
    Leaf,       \* last segments of paths: the slugs users ask for
    LeafOf,     \* the last segment of each path
    MetaPath,   \* the paths in the template and config groups
    PageSize,   \* projects in the one page that listProjects asks for
    Enabled,    \* the operations and outside events of this instance
    None

ASSUME LeafAssumption == LeafOf \in [Path -> Leaf]
ASSUME MetaAssumption == MetaPath \subseteq Path
ASSUME PageAssumption == PageSize \in Nat
ASSUME NoneAssumption == None \notin Gid \cup Doc \cup Path

VARIABLES
    gitlab,     \* the GitLab projects
    vault,      \* base paths with a secret at them or below them
    k8s,        \* Helm releases: <<release slug, project that deployed it>>
    sonar,      \* Sonar projects: <<key, project whose pipeline made it>>
    rows,       \* the MongoDB collection "projects"
    audited,    \* documents with a 'project.deleted' audit entry
    reqs,       \* the requests in flight
    rec         \* the reconciliation run, at most one at a time

platform == <<vault, k8s, sonar>>
vars == <<gitlab, vault, k8s, sonar, rows, audited, reqs, rec>>

-----------------------------------------------------------------------------
(***************************************************************************)
(* Names.  A slug is the requested leaf, the leaf with a suffix hashed     *)
(* from the group path (the whole path stands for that hash), or the leaf  *)
(* with the GitLab id.  GitLab renames a project scheduled for deletion to *)
(* <path>-deletion_scheduled-<id>.                                         *)
(***************************************************************************)
Slug == Leaf \X (Path \cup Gid \cup {None})
Name == Path \X (Gid \cup {None})

PlainSlug(p) == <<LeafOf[p], None>>
HashedSlug(p) == <<LeafOf[p], p>>
IdSlug(p, g) == <<LeafOf[p], g>>

PathWithNamespace(g) ==
    <<gitlab[g].path, IF gitlab[g].renamed THEN g ELSE None>>

Exists(g) == gitlab[g].st \in {"live", "pending"}

(* A registry row.  targets is "none" for an empty deploymentTargets array, *)
(* else whether its targets are enabled, which is what                      *)
(* capabilities.deployable records as well.                                 *)
Row == [st : {"free", "active", "archived", "removed"},
        gid : Gid \cup {None}, name : Name \cup {None},
        slug : Slug \cup {None}, base : Path \cup {None},
        targets : {"none", "disabled", "enabled"}, scan : BOOLEAN]

FreeRow == [st |-> "free", gid |-> None, name |-> None, slug |-> None,
            base |-> None, targets |-> "none", scan |-> FALSE]

(* Variant: the row takes the bare path for its gitlabPath.                 *)
NewRowByPath(g, n, s, b, t) ==
    [st |-> "active", gid |-> g, name |-> b, slug |-> s, base |-> b,
     targets |-> t, scan |-> FALSE]

NewRow(g, n, s, b, t) ==
    [st |-> "active", gid |-> g, name |-> n, slug |-> s, base |-> b,
     targets |-> t, scan |-> FALSE]

Present(d) == rows[d].st \in {"active", "archived"}
Registered(g) == \E d \in Doc : Present(d) /\ rows[d].gid = g
SlugTaken(s) == \E d \in Doc : Present(d) /\ rows[d].slug = s

TargetsFor(deploy) == IF deploy THEN "enabled" ELSE "disabled"

(* Variant: only the allowlist counts.                                      *)
AllowlistOnly(row) == row.scan

(* sonarCandidateBranches has that branch if the allowlist names it or a    *)
(* target deploys it.                                                       *)
SonarCandidates(row) == row.scan \/ row.targets = "enabled"

(* The unique indexes on gitlabProjectId, gitlabPath and effectiveSlug.     *)
IndexesAllow(d, g, n, s) ==
    \A e \in Doc \ {d} : Present(e) =>
        rows[e].gid # g /\ rows[e].name # n /\ rows[e].slug # s

Insertable(d, g, n, s) == rows[d].st = "free" /\ IndexesAllow(d, g, n, s)

Insert(d, g, n, s, b, t) ==
    /\ Insertable(d, g, n, s)
    /\ rows' = [rows EXCEPT ![d] = NewRow(g, n, s, b, t)]

-----------------------------------------------------------------------------
PCs == {"idle", "c_gitlab", "c_vault", "c_child", "c_wire", "c_insert",
        "s_save", "s_token", "s_ci", "r_insert", "r_vault", "r_child", "r_wire",
        "d_k8s", "d_vault", "d_sonar", "d_gitlab", "p_gitlab", "p_k8s",
        "p_vault", "p_sonar", "d_audit", "d_remove", "d_archive"}

(* What an await hands on: rejected calls inside these steps leave the      *)
(* handler, the others are caught by it.                                    *)
Throwing == {"c_gitlab", "c_vault", "c_child", "c_wire", "c_insert",
             "s_save", "s_token", "s_ci", "r_insert", "r_vault", "r_child",
             "r_wire", "d_audit", "d_remove", "d_archive"}

Request == [pc : PCs, gid : Gid \cup {None}, path : Path \cup {None},
            slug : Slug \cup {None}, doc : Doc \cup {None},
            deploy : BOOLEAN, scan : BOOLEAN, row : Row]

IdleReq == [pc |-> "idle", gid |-> None, path |-> None, slug |-> None,
            doc |-> None, deploy |-> FALSE, scan |-> FALSE, row |-> FreeRow]

Goto(r, pc) == reqs' = [reqs EXCEPT ![r].pc = pc]
Return(r) == reqs' = [reqs EXCEPT ![r] = IdleReq]
At(r, pc) == reqs[r].pc = pc

Listed == [gid : Gid, name : Name, pending : BOOLEAN]

IdleRec == [pc |-> "idle", list |-> {}, live |-> {}, sweep |-> {},
            gid |-> None, path |-> None, slug |-> None, doc |-> None,
            name |-> None, back |-> "scan"]

Run == [pc : {"idle", "scan", "insert", "seed", "save", "sweep"},
        list : SUBSET Listed, live : SUBSET Gid, sweep : SUBSET Doc,
        gid : Gid \cup {None}, path : Path \cup {None},
        slug : Slug \cup {None}, doc : Doc \cup {None},
        name : Name \cup {None}, back : {"scan", "sweep"}]

UnusedProject == [st |-> "unused", path |-> None, renamed |-> FALSE,
                  wired |-> None, scan |-> FALSE]

GitLabProject == [st : {"unused", "live", "pending", "gone"},
                  path : Path \cup {None}, renamed : BOOLEAN,
                  wired : Slug \cup {None}, scan : BOOLEAN]

Init ==
    /\ gitlab = [g \in Gid |-> UnusedProject]
    /\ vault = {} /\ k8s = {} /\ sonar = {}
    /\ rows = [d \in Doc |-> FreeRow]
    /\ audited = {}
    /\ reqs = [r \in Req |-> IdleReq]
    /\ rec = IdleRec

-----------------------------------------------------------------------------
(* GitLab itself, and the pipelines its projects run (external).            *)

PathFree(p) == \A g \in Gid : Exists(g) => PathWithNamespace(g) # <<p, None>>

(* GitLab creates the project unless the path is taken.                     *)
GitLabCreate(g, p) ==
    /\ gitlab[g].st = "unused"
    /\ PathFree(p)
    /\ gitlab' = [gitlab EXCEPT ![g].st = "live", ![g].path = p]

(* A developer creates a project by hand in GitLab.                         *)
CreatedByHand(g) ==
    /\ "byHand" \in Enabled
    /\ \E p \in Path : GitLabCreate(g, p)
    /\ UNCHANGED <<platform, rows, audited, reqs, rec>>

Scheduled(g, renamed) ==
    gitlab' = [gitlab EXCEPT ![g].st = "pending", ![g].renamed = renamed]

(* Somebody schedules the deletion in GitLab; newer versions also rename.   *)
DeletedByHand(g) ==
    /\ gitlab[g].st = "live"
    /\ \/ "schedule" \in Enabled /\ Scheduled(g, FALSE)
       \/ "rename" \in Enabled /\ Scheduled(g, TRUE)
    /\ UNCHANGED <<platform, rows, audited, reqs, rec>>

(* The instance's retention period ends.                                    *)
RetentionEnds(g) ==
    /\ gitlab[g].st = "pending"
    /\ gitlab' = [gitlab EXCEPT ![g].st = "gone"]
    /\ UNCHANGED <<platform, rows, audited, reqs, rec>>

(* The deploy job installs the release its CI variables name.               *)
PipelineDeploys(g) ==
    /\ Exists(g) /\ gitlab[g].wired # None
    /\ k8s' = k8s \cup {<<gitlab[g].wired, g>>}
    /\ UNCHANGED <<gitlab, vault, sonar, rows, audited, reqs, rec>>

(* sonar:scan makes the Sonar project named after CI_PROJECT_PATH_SLUG and  *)
(* the branch: here always the one that the project's targets deploy.       *)
PipelineScans(g) ==
    /\ Exists(g) /\ gitlab[g].scan
    /\ sonar' = sonar \cup {<<PathWithNamespace(g), g>>}
    /\ UNCHANGED <<gitlab, vault, k8s, rows, audited, reqs, rec>>

-----------------------------------------------------------------------------
(* A call that is not caught rejects: the request ends where it stands.     *)
Throws(r) ==
    /\ "faults" \in Enabled
    /\ reqs[r].pc \in Throwing
    /\ Return(r)
    /\ UNCHANGED <<gitlab, platform, rows, audited, rec>>

(* The API process restarts: every request and the run are forgotten.       *)
Restart ==
    /\ "restart" \in Enabled
    /\ reqs' = [r \in Req |-> IdleReq]
    /\ rec' = IdleRec
    /\ UNCHANGED <<gitlab, platform, rows, audited>>

-----------------------------------------------------------------------------
(* createProject                                                            *)

(* SlugService.resolve: the slug it settles on, unless it throws.  Its two  *)
(* awaited look-ups, of the plain and of the hashed slug, are one step here. *)
Resolves(p, override, s) ==
    IF override # None THEN s = override /\ ~SlugTaken(s)
    ELSE IF ~SlugTaken(PlainSlug(p)) THEN s = PlainSlug(p)
    ELSE s = HashedSlug(p) /\ ~SlugTaken(s)

(* slugOverride is any slug, another path's hashed one among them.          *)
Overrides == {None} \cup
    (IF "override" \in Enabled
     THEN {PlainSlug(p) : p \in Path} \cup {HashedSlug(p) : p \in Path} ELSE {})

DeployInputs == IF "deploy" \in Enabled THEN BOOLEAN ELSE {FALSE}
ScanInputs == IF "sonar" \in Enabled THEN BOOLEAN ELSE {FALSE}

CreateStart(r) ==
    /\ "create" \in Enabled
    /\ At(r, "idle")
    /\ \E p \in Path, deploy \in DeployInputs, scan \in ScanInputs,
         override \in Overrides, s \in Slug :
        /\ Resolves(p, override, s)
        /\ reqs' = [reqs EXCEPT ![r] = [IdleReq EXCEPT
                !.pc = "c_gitlab", !.path = p, !.slug = s,
                !.deploy = deploy, !.scan = scan]]
    /\ UNCHANGED <<gitlab, platform, rows, audited, rec>>

CreateInGitLab(r) ==
    /\ At(r, "c_gitlab")
    /\ \/ \E g \in Gid :
            /\ GitLabCreate(g, reqs[r].path)
            /\ reqs' = [reqs EXCEPT ![r].pc = "c_vault", ![r].gid = g]
       \/ /\ ~\E g \in Gid :
                gitlab[g].st = "unused" /\ PathFree(reqs[r].path)
          /\ Return(r)
          /\ UNCHANGED gitlab
    /\ UNCHANGED <<platform, rows, audited, rec>>

CreateSeedsBase(r) ==
    /\ At(r, "c_vault")
    /\ vault' = vault \cup {reqs[r].path}
    /\ Goto(r, "c_child")
    /\ UNCHANGED <<gitlab, k8s, sonar, rows, audited, rec>>

CreateSeedsTargets(r) ==
    /\ At(r, "c_child")
    /\ vault' = vault \cup {reqs[r].path}
    /\ Goto(r, "c_wire")
    /\ UNCHANGED <<gitlab, k8s, sonar, rows, audited, rec>>

(* Namespaces, CI variables and deploy fragments of the GitLab project.     *)
CreateWires(r) ==
    /\ At(r, "c_wire")
    /\ IF Exists(reqs[r].gid)
       THEN /\ gitlab' = [gitlab EXCEPT ![reqs[r].gid].wired =
                    IF reqs[r].deploy THEN reqs[r].slug ELSE None]
            /\ Goto(r, "c_insert")
       ELSE Return(r) /\ UNCHANGED gitlab
    /\ UNCHANGED <<platform, rows, audited, rec>>

(* projectModel.create: the unique indexes decide.                          *)
CreateInserts(r) ==
    /\ At(r, "c_insert")
    /\ LET q == reqs[r] n == <<q.path, None>> IN
       \/ \E d \in Doc :
            /\ Insert(d, q.gid, n, q.slug, q.path, TargetsFor(q.deploy))
            /\ IF q.scan THEN reqs' = [reqs EXCEPT ![r].pc = "s_save",
                                                   ![r].doc = d]
                         ELSE Return(r)
       \/ /\ ~\E d \in Doc : Insertable(d, q.gid, n, q.slug)
          /\ Return(r)
          /\ UNCHANGED rows
    /\ UNCHANGED <<gitlab, platform, audited, rec>>

(* updateProjectSonarConfig, which create and register call last: the       *)
(* registry first, then a generated token in Vault, then the CI variables.  *)
SonarSaves(r) ==
    /\ At(r, "s_save")
    /\ IF Present(reqs[r].doc)
       THEN /\ rows' = [rows EXCEPT ![reqs[r].doc].scan = TRUE]
            /\ Goto(r, "s_token")
       ELSE Return(r) /\ UNCHANGED rows
    /\ UNCHANGED <<gitlab, platform, audited, rec>>

SonarStoresToken(r) ==
    /\ At(r, "s_token")
    /\ \/ vault' = vault \cup {reqs[r].path}
       \/ UNCHANGED vault
    /\ Goto(r, "s_ci")
    /\ UNCHANGED <<gitlab, k8s, sonar, rows, audited, rec>>

SonarSetsCi(r) ==
    /\ At(r, "s_ci")
    /\ gitlab' = IF Exists(reqs[r].gid)
                 THEN [gitlab EXCEPT ![reqs[r].gid].scan = TRUE] ELSE gitlab
    /\ Return(r)
    /\ UNCHANGED <<platform, rows, audited, rec>>

-----------------------------------------------------------------------------
(* registerGitLabProject                                                    *)

(* groupPath and projectSlug of the input override the project's own path.  *)
RegisteredPaths(g) ==
    IF "relocate" \in Enabled THEN Path ELSE {gitlab[g].path}

RegisterStart(r) ==
    /\ "register" \in Enabled
    /\ At(r, "idle")
    /\ \E g \in Gid, deploy \in DeployInputs, scan \in ScanInputs,
         override \in Overrides, s \in Slug :
        /\ gitlab[g].st = "live"
        /\ ~Registered(g)
        /\ \E p \in RegisteredPaths(g) :
            /\ Resolves(p, override, s)
            /\ reqs' = [reqs EXCEPT ![r] = [IdleReq EXCEPT
                    !.pc = "r_insert", !.gid = g, !.path = p,
                    !.slug = s, !.deploy = deploy, !.scan = scan]]
    /\ UNCHANGED <<gitlab, platform, rows, audited, rec>>

RegisterInserts(r) ==
    /\ At(r, "r_insert")
    /\ LET q == reqs[r] n == <<q.path, None>> IN
       \/ \E d \in Doc :
            /\ Insert(d, q.gid, n, q.slug, q.path, TargetsFor(q.deploy))
            /\ reqs' = [reqs EXCEPT ![r].pc = "r_vault", ![r].doc = d]
       \/ /\ ~\E d \in Doc : Insertable(d, q.gid, n, q.slug)
          /\ Return(r)
          /\ UNCHANGED rows
    /\ UNCHANGED <<gitlab, platform, audited, rec>>

AfterWiring(r) == IF reqs[r].scan THEN Goto(r, "s_save") ELSE Return(r)

(* The base path is written only when the request carries variables.        *)
RegisterSeedsBase(r) ==
    /\ At(r, "r_vault")
    /\ \/ vault' = vault \cup {reqs[r].path}
       \/ UNCHANGED vault
    /\ IF reqs[r].deploy THEN Goto(r, "r_child") ELSE AfterWiring(r)
    /\ UNCHANGED <<gitlab, k8s, sonar, rows, audited, rec>>

RegisterSeedsTargets(r) ==
    /\ At(r, "r_child")
    /\ vault' = vault \cup {reqs[r].path}
    /\ Goto(r, "r_wire")
    /\ UNCHANGED <<gitlab, k8s, sonar, rows, audited, rec>>

(* The rest of syncAllDeploymentWiring: the CI variables, then doc.save.    *)
RegisterWires(r) ==
    /\ At(r, "r_wire")
    /\ IF Exists(reqs[r].gid)
       THEN /\ gitlab' = [gitlab EXCEPT ![reqs[r].gid].wired = reqs[r].slug]
            /\ IF Present(reqs[r].doc) THEN AfterWiring(r) ELSE Return(r)
       ELSE Return(r) /\ UNCHANGED gitlab
    /\ UNCHANGED <<platform, rows, audited, rec>>

-----------------------------------------------------------------------------
(* deleteProject.  The row read at the start (reqs[r].row) is used to the   *)
(* end, whatever happens to the document meanwhile.                         *)

(* Variant: an archived row counts as torn down already.                    *)
DeleteTrustsArchive(r, d) ==
    /\ "delete" \in Enabled
    /\ At(r, "idle")
    /\ Present(d)
    /\ reqs' = [reqs EXCEPT ![r] = [IdleReq EXCEPT
            !.pc = IF rows[d].st = "archived" THEN "d_gitlab" ELSE "d_k8s",
            !.doc = d, !.gid = rows[d].gid, !.row = rows[d]]]
    /\ UNCHANGED <<gitlab, platform, rows, audited, rec>>

DeleteStart(r, d) ==
    /\ "delete" \in Enabled
    /\ At(r, "idle")
    /\ Present(d)
    /\ \E pc \in {"d_k8s"} \cup
                  (IF "skip" \in Enabled THEN {"d_gitlab"} ELSE {}) :
        reqs' = [reqs EXCEPT ![r] = [IdleReq EXCEPT
                    !.pc = pc, !.doc = d, !.gid = rows[d].gid, !.row = rows[d]]]
    /\ UNCHANGED <<gitlab, platform, rows, audited, rec>>

Survivors(things) ==
    IF "faults" \in Enabled THEN SUBSET things ELSE {{}}

ReleasesOf(s) == {x \in k8s : x[1] = s}
SecretsUnder(p) == vault \cap {p}
AnalysesOf(n) == {x \in sonar : x[1] = n}

(* teardownProjectTargets swallows failures: some releases may survive.     *)
DeleteReleases(r) ==
    /\ At(r, "d_k8s")
    /\ LET mine == IF reqs[r].row.targets = "none" THEN {}
                   ELSE ReleasesOf(reqs[r].row.slug) IN
       \E left \in Survivors(mine) : k8s' = (k8s \ mine) \cup left
    /\ Goto(r, "d_vault")
    /\ UNCHANGED <<gitlab, vault, sonar, rows, audited, rec>>

(* deleteSecretsTree: the listing, or a node, may fail: secrets are left.   *)
DeleteSecrets(r) ==
    /\ At(r, "d_vault")
    /\ LET mine == SecretsUnder(reqs[r].row.base) IN
       \E left \in Survivors(mine) : vault' = (vault \ mine) \cup left
    /\ Goto(r, "d_sonar")
    /\ UNCHANGED <<gitlab, k8s, sonar, rows, audited, rec>>

(* deleteSonarProjects reads the document again, so its key is of today.    *)
DeleteAnalyses(r) ==
    /\ At(r, "d_sonar")
    /\ LET d == reqs[r].doc
           mine == IF SonarCandidates(reqs[r].row) /\ Present(d)
                   THEN AnalysesOf(rows[d].name) ELSE {} IN
       \E left \in Survivors(mine) : sonar' = (sonar \ mine) \cup left
    /\ Goto(r, "d_gitlab")
    /\ UNCHANGED <<gitlab, vault, k8s, rows, audited, rec>>

(* tryDeleteProject: GitLab removes the project, schedules it or refuses.   *)
DeleteInGitLab(r) ==
    /\ At(r, "d_gitlab")
    /\ LET g == reqs[r].gid IN
       \/ /\ Exists(g)
          /\ gitlab' = [gitlab EXCEPT ![g].st = "gone"]
       \/ /\ gitlab[g].st = "live"
          /\ \/ "schedule" \in Enabled /\ Scheduled(g, FALSE)
             \/ "rename" \in Enabled /\ Scheduled(g, TRUE)
       \/ /\ ~Exists(g) \/ "faults" \in Enabled
          /\ UNCHANGED gitlab
    /\ Goto(r, "p_gitlab")
    /\ UNCHANGED <<platform, rows, audited, rec>>

(* detectDeletionRemainders: one probe after the other; what is found, or   *)
(* cannot be asked, leads to the archive whatever the later probes say.     *)
Probe(r, pc, remains, next) ==
    /\ At(r, pc)
    /\ \/ remains /\ Goto(r, "d_archive")
       \/ ~remains /\ Goto(r, next)
       \/ "faults" \in Enabled /\ Goto(r, "d_archive")
    /\ UNCHANGED <<gitlab, platform, rows, audited, rec>>

(* Variant: any error counts as "gone", not only a 404.                     *)
ProbeGitLabAnyError(r) ==
    \/ Probe(r, "p_gitlab", Exists(reqs[r].gid), "p_k8s")
    \/ /\ At(r, "p_gitlab") /\ "faults" \in Enabled
       /\ Goto(r, "p_k8s")
       /\ UNCHANGED <<gitlab, platform, rows, audited, rec>>

ProbeGitLab(r) == Probe(r, "p_gitlab", Exists(reqs[r].gid), "p_k8s")

(* Variant: the teardown is believed.                                       *)
ProbeK8sNever(r) == Probe(r, "p_k8s", FALSE, "p_vault")

ProbeK8s(r) ==
    Probe(r, "p_k8s",
          reqs[r].row.targets = "enabled" /\ ReleasesOf(reqs[r].row.slug) # {},
          "p_vault")

ProbeVault(r) ==
    Probe(r, "p_vault", SecretsUnder(reqs[r].row.base) # {}, "p_sonar")

ProbeSonar(r) ==
    Probe(r, "p_sonar",
          SonarCandidates(reqs[r].row) /\ AnalysesOf(reqs[r].row.name) # {},
          "d_audit")

(* Variant: the entry is not awaited and may be lost.                       *)
DeleteAuditsUnawaited(r) ==
    /\ At(r, "d_audit")
    /\ audited' \in {audited, audited \cup {reqs[r].doc}}
    /\ Goto(r, "d_remove")
    /\ UNCHANGED <<gitlab, platform, rows, rec>>

DeleteAudits(r) ==
    /\ At(r, "d_audit")
    /\ audited' = audited \cup {reqs[r].doc}
    /\ Goto(r, "d_remove")
    /\ UNCHANGED <<gitlab, platform, rows, rec>>

(* doc.deleteOne: by _id, and no error when the row has gone already.       *)
DeleteRemoves(r) ==
    /\ At(r, "d_remove")
    /\ rows' = [rows EXCEPT ![reqs[r].doc].st = "removed"]
    /\ Return(r)
    /\ UNCHANGED <<gitlab, platform, audited, rec>>

(* Variant: the save writes the row back when it has gone.                  *)
DeleteArchivesUpserts(r) ==
    /\ At(r, "d_archive")
    /\ rows' = [rows EXCEPT ![reqs[r].doc].st = "archived"]
    /\ Return(r)
    /\ UNCHANGED <<gitlab, platform, audited, rec>>

(* doc.save: rejects when the row has gone.                                 *)
DeleteArchives(r) ==
    /\ At(r, "d_archive")
    /\ rows' = IF Present(reqs[r].doc)
               THEN [rows EXCEPT ![reqs[r].doc].st = "archived"] ELSE rows
    /\ Return(r)
    /\ UNCHANGED <<gitlab, platform, audited, rec>>

-----------------------------------------------------------------------------
(* reconcileGitLabProjects.  A call during a run shares its promise, so     *)
(* there is one run at a time.                                              *)

Listing == {[gid |-> g, name |-> PathWithNamespace(g),
             pending |-> gitlab[g].st = "pending"] : g \in {h \in Gid : Exists(h)}}

(* listProjects asks for a single page.                                     *)
Page(l) == l \subseteq Listing
           /\ Cardinality(l) = IF Cardinality(Listing) < PageSize
                               THEN Cardinality(Listing) ELSE PageSize

(* A listed project of the template and config groups is passed over.       *)
InMetaGroup(e) == e.name[1] \in MetaPath
ToRegister(e) == ~e.pending /\ ~InMetaGroup(e)

ReconcileStart ==
    /\ "reconcile" \in Enabled
    /\ rec.pc = "idle"
    /\ \E l \in SUBSET Listing :
        /\ Page(l)
        /\ rec' = [IdleRec EXCEPT !.pc = "scan", !.list = l,
                    !.live = {e.gid : e \in {x \in Listing : ToRegister(x)}}]
    /\ UNCHANGED <<gitlab, platform, rows, audited, reqs>>

(* One listed project: passed over, archived, known, or to be backfilled.   *)
ReconcileLooksUp ==
    /\ rec.pc = "scan"
    /\ \E e \in rec.list :
        LET rest == [rec EXCEPT !.list = @ \ {e}]
            p == e.name[1] IN
        \/ InMetaGroup(e) /\ rec' = rest
        \/ /\ e.pending /\ ~InMetaGroup(e)
           /\ \E d \in Doc :
               /\ Present(d) /\ rows[d].gid = e.gid
               /\ rec' = [rest EXCEPT !.pc = "save", !.doc = d,
                           !.name = e.name, !.back = "scan"]
        \/ e.pending # Registered(e.gid) /\ rec' = rest
        \/ /\ ToRegister(e) /\ ~Registered(e.gid)
           /\ rec' = [rest EXCEPT !.pc = "insert", !.gid = e.gid, !.path = p,
                       !.slug = IF SlugTaken(PlainSlug(p)) THEN IdSlug(p, e.gid)
                                ELSE PlainSlug(p)]
    /\ UNCHANGED <<gitlab, platform, rows, audited, reqs>>

(* Variant: a duplicate key only skips the project.                         *)
ReconcileSkipsDuplicates ==
    /\ rec.pc = "insert"
    /\ LET n == <<rec.path, None>> IN
       \/ \E d \in Doc :
            /\ Insert(d, rec.gid, n, rec.slug, rec.path, "none")
            /\ rec' = [rec EXCEPT !.pc = "seed"]
       \/ /\ ~\E d \in Doc : Insertable(d, rec.gid, n, rec.slug)
          /\ rec' = [rec EXCEPT !.pc = "scan"]
          /\ UNCHANGED rows
    /\ UNCHANGED <<gitlab, platform, audited, reqs>>

(* projectModel.create of a legacy row; a duplicate key ends the whole run. *)
ReconcileBackfills ==
    /\ rec.pc = "insert"
    /\ LET n == <<rec.path, None>> IN
       \/ \E d \in Doc :
            /\ Insert(d, rec.gid, n, rec.slug, rec.path, "none")
            /\ rec' = [rec EXCEPT !.pc = "seed"]
       \/ /\ ~\E d \in Doc : Insertable(d, rec.gid, n, rec.slug)
          /\ rec' = IdleRec
          /\ UNCHANGED rows
    /\ UNCHANGED <<gitlab, platform, audited, reqs>>

(* The environment paths of the legacy project; failures are swallowed.     *)
ReconcileSeeds ==
    /\ rec.pc = "seed"
    /\ \/ vault' = vault \cup {rec.path}
       \/ "faults" \in Enabled /\ UNCHANGED vault
    /\ rec' = [rec EXCEPT !.pc = "scan"]
    /\ UNCHANGED <<gitlab, k8s, sonar, rows, audited, reqs>>

(* archiveActiveProjectsPendingGitLabDeletion reads the active rows once.   *)
ReconcileSweeps ==
    /\ rec.pc = "scan" /\ rec.list = {}
    /\ rec' = [rec EXCEPT !.pc = "sweep",
                !.sweep = {d \in Doc : rows[d].st = "active"}]
    /\ UNCHANGED <<gitlab, platform, rows, audited, reqs>>

(* getProject of a swept row; an error skips it.                            *)
ReconcileProbes ==
    /\ rec.pc = "sweep"
    /\ \E d \in rec.sweep :
        LET rest == [rec EXCEPT !.sweep = @ \ {d}]
            g == rows[d].gid IN
        IF gitlab[g].st = "pending"
        THEN \/ rec' = [rest EXCEPT !.pc = "save", !.doc = d, !.back = "sweep",
                         !.name = PathWithNamespace(g)]
             \/ "faults" \in Enabled /\ rec' = rest
        ELSE rec' = rest
    /\ UNCHANGED <<gitlab, platform, rows, audited, reqs>>

(* syncArchivedForGitLabScheduledDeletion: the row takes GitLab's current   *)
(* path, the secrets stay where they are.  A row that has gone, or a path   *)
(* another row holds, rejects the save and ends the run.                    *)
ReconcileArchives ==
    /\ rec.pc = "save"
    /\ IF /\ Present(rec.doc)
          /\ \A e \in Doc \ {rec.doc} : Present(e) => rows[e].name # rec.name
       THEN /\ rows' = [rows EXCEPT ![rec.doc].st = "archived",
                                    ![rec.doc].name = rec.name]
            /\ rec' = [rec EXCEPT !.pc = rec.back]
       ELSE rec' = IdleRec /\ UNCHANGED rows
    /\ UNCHANGED <<gitlab, platform, audited, reqs>>

ReconcileEnds ==
    /\ rec.pc = "sweep" /\ rec.sweep = {}
    /\ rec' = IdleRec
    /\ UNCHANGED <<gitlab, platform, rows, audited, reqs>>

(* Listing, or any call that is not caught, rejects: .finally clears the    *)
(* promise.                                                                 *)
ReconcileThrows ==
    /\ "faults" \in Enabled
    /\ rec.pc \in {"scan", "insert", "seed", "save"}
    /\ rec' = IdleRec
    /\ UNCHANGED <<gitlab, platform, rows, audited, reqs>>

-----------------------------------------------------------------------------
Create(r) ==
    \/ CreateStart(r) \/ CreateInGitLab(r) \/ CreateSeedsBase(r)
    \/ CreateSeedsTargets(r) \/ CreateWires(r) \/ CreateInserts(r)

Register(r) ==
    \/ RegisterStart(r) \/ RegisterInserts(r) \/ RegisterSeedsBase(r)
    \/ RegisterSeedsTargets(r) \/ RegisterWires(r)

ConfigureSonar(r) == SonarSaves(r) \/ SonarStoresToken(r) \/ SonarSetsCi(r)

Delete(r) ==
    \/ \E d \in Doc : DeleteStart(r, d)
    \/ DeleteReleases(r) \/ DeleteSecrets(r) \/ DeleteAnalyses(r)
    \/ DeleteInGitLab(r) \/ ProbeGitLab(r) \/ ProbeK8s(r) \/ ProbeVault(r)
    \/ ProbeSonar(r) \/ DeleteAudits(r) \/ DeleteRemoves(r)
    \/ DeleteArchives(r)

Reconcile ==
    \/ ReconcileStart \/ ReconcileLooksUp \/ ReconcileBackfills
    \/ ReconcileSeeds \/ ReconcileSweeps \/ ReconcileProbes
    \/ ReconcileArchives \/ ReconcileEnds \/ ReconcileThrows

Outside(g) ==
    \/ CreatedByHand(g) \/ DeletedByHand(g) \/ RetentionEnds(g)
    \/ PipelineDeploys(g) \/ PipelineScans(g)

Next ==
    \/ \E r \in Req : Create(r) \/ Register(r) \/ ConfigureSonar(r)
                     \/ Delete(r) \/ Throws(r)
    \/ Reconcile
    \/ Restart
    \/ \E g \in Gid : Outside(g)

Spec == Init /\ [][Next]_vars

-----------------------------------------------------------------------------
TypeOK ==
    /\ gitlab \in [Gid -> GitLabProject]
    /\ vault \subseteq Path
    /\ k8s \subseteq Slug \X Gid
    /\ sonar \subseteq Name \X Gid
    /\ rows \in [Doc -> Row]
    /\ audited \subseteq Doc
    /\ reqs \in [Req -> Request]
    /\ rec \in Run

(* deleteProject drops a row only when its GitLab project is really gone,   *)
(* whatever failed, raced or was scheduled on the way.                      *)
RemovedMeansGone ==
    \A d \in Doc : rows[d].st = "removed" => gitlab[rows[d].gid].st = "gone"

(* A row never disappears without its 'project.deleted' entry: deleteProject *)
(* writes the entry before it removes the row.                              *)
DeletionIsAudited == \A d \in Doc : rows[d].st = "removed" => d \in audited

(* A removed row of a deployable project leaves no release its pipelines    *)
(* made, although they deploy until GitLab removes the project: the cluster *)
(* is probed after GitLab, when nothing can deploy any more.                *)
NoReleaseLeftBehind ==
    \A d \in Doc : rows[d].st = "removed" /\ rows[d].targets = "enabled" =>
        <<rows[d].slug, rows[d].gid>> \notin k8s

(* Likewise for the analyses, of the branch a target deploys, that SonarQube *)
(* has under the project's GitLab path: if the row was registered under that *)
(* path and kept it, the key deleteProject asks for is the one CI used.  A   *)
(* row that was registered under another path loses sight of its analysis.   *)
NoAnalysisLeftBehind ==
    \A d \in Doc :
        LET project == gitlab[rows[d].gid] IN
        /\ rows[d].st = "removed" /\ rows[d].targets = "enabled"
        /\ rows[d].name = <<rows[d].base, None>> /\ rows[d].base = project.path
        => <<<<project.path, None>>, rows[d].gid>> \notin sonar

(* A reconciliation that runs to its end has left no project of a user out  *)
(* that was live when it listed GitLab: each has a row, or has gone since.  *)
(* Those of the template and config groups it leaves alone.                 *)
ReconcileFindsEveryProject ==
    [][ReconcileEnds => \A g \in rec.live :
          Registered(g) \/ gitlab[g].st = "gone"]_vars

(* deleteProject need not be retried for ever: "archived is not proof that  *)
(* teardown succeeded", so a retry cleans up again, and once GitLab has     *)
(* removed the project nothing brings the resources back.                   *)
RetriedDeletesFinish ==
    \A d \in Doc : <>[][~\E r \in Req : DeleteStart(r, d)]_vars

(* effectiveSlug is the Helm release name: no two projects of GitLab are     *)
(* wired to deploy the same release.  SlugService.resolve keeps them apart,  *)
(* by a suffix when there is a collision.                                    *)
ReleaseOfOneProject ==
    \A g, h \in Gid :
        g # h /\ Exists(g) /\ Exists(h) /\ gitlab[g].wired # None =>
            gitlab[g].wired # gitlab[h].wired

(* After deleteProject removed a row, its GitLab project stays unregistered.*)
DeletedStaysUnregistered ==
    \A d, e \in Doc : rows[d].st = "removed" /\ Present(e) =>
        rows[d].gid # rows[e].gid

(* A removed row leaves no release behind, deployable or not: the promise   *)
(* of deleteProject, "when nothing remains, the registry row is removed".   *)
RemovedLeavesNoRelease ==
    \A d \in Doc : rows[d].st = "removed" =>
        \A x \in k8s : x[2] # rows[d].gid

(* The secrets of an active row disappear only by deleting that row.        *)
PlatformCleanupSparesOthers ==
    [][\A p \in vault \ vault', d \in Doc :
          rows[d].st = "active" /\ rows[d].base = p =>
              \E r \in Req : At(r, "d_vault") /\ reqs[r].doc = d]_vars

(* The registry implements the ledger: entered once at a time, never        *)
(* reactivated, struck out only once GitLab has removed the project.        *)
Ledger == INSTANCE ProjectLedger WITH
    Project <- Gid, Entry <- Doc, None <- None,
    life <- [g \in Gid |-> gitlab[g].st],
    status <- [d \in Doc |-> rows[d].st],
    subject <- [d \in Doc |-> rows[d].gid]

ImplementsLedger == Ledger!Spec

=============================================================================
