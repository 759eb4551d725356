--------------------------- MODULE RegistryOutcomes ---------------------------
(***************************************************************************)
(* What a deletion or a reconciliation that ended leaves behind, for any   *)
(* requests, projects, documents, paths and choice of enabled operations:  *)
(* theorems on top of the inductive invariant of ProjectRegistryProofs.    *)
(***************************************************************************)
EXTENDS ProjectRegistryProofs, FiniteSetTheorems

(* A project that was scheduled for deletion keeps its name, and one that   *)
(* is gone runs no pipeline.                                                *)
Ending(g) == gitlab[g].st \in {"pending", "gone"}
Gone(g) == gitlab[g].st = "gone"

(* A row has the path it was inserted with until the reconciliation gives   *)
(* it GitLab's, and never again after that; InPlace, if that path was its   *)
(* project's own and no override of registerGitLabProject.                  *)
Original(d) == rows[d].name = <<rows[d].base, None>>
InPlace(d) == rows[d].base = gitlab[rows[d].gid].path
RenamedForGood ==
    \A d \in Doc : Used(d) /\ ~Original(d) =>
        /\ Ending(rows[d].gid)
        /\ PathWithNamespace(rows[d].gid) # <<rows[d].base, None>>

(* What a deletion goes by is its snapshot of the row: slug and targets are *)
(* still the row's, and so is the name of a row that keeps its path.  What  *)
(* it has probed for is still not there.                                    *)
PastCluster == {"p_vault", "p_sonar", "d_audit", "d_remove"}
PastSonar == {"d_audit", "d_remove"}
Remembers(q) ==
    q.pc \in Deleting =>
        /\ q.row.slug = rows[q.doc].slug
        /\ q.row.targets = rows[q.doc].targets
        /\ Original(q.doc) => q.row.name = rows[q.doc].name
        /\ q.row.targets = "enabled" /\ q.pc \in PastCluster =>
              <<q.row.slug, q.gid>> \notin k8s
        /\ q.row.targets = "enabled" /\ q.pc \in PastSonar =>
              <<q.row.name, q.gid>> \notin sonar

(* The run writes the name its project has to the end.                      *)
RunRemembers(x) ==
    /\ \A e \in x.list : e.pending => Ending(e.gid) /\ e.name = PathWithNamespace(e.gid)
    /\ x.pc = "save" => /\ Ending(rows[x.doc].gid)
                        /\ x.name = PathWithNamespace(rows[x.doc].gid)

CleanupInv ==
    /\ RenamedForGood
    /\ \A r \in Req : Remembers(reqs[r])
    /\ RunRemembers(rec)
    /\ NoReleaseLeftBehind /\ NoAnalysisLeftBehind

-----------------------------------------------------------------------------
(* What no step takes back: rows that are in use, projects that end, and    *)
(* the releases and analyses of projects that are gone.                     *)
RowsHold ==
    \A d \in Doc :
        /\ Used(d) =>
              /\ rows'[d].st # "free" /\ rows'[d].gid = rows[d].gid
              /\ rows'[d].slug = rows[d].slug /\ rows'[d].targets = rows[d].targets
              /\ rows'[d].base = rows[d].base
              /\ rows'[d].name # rows[d].name =>
                    rec.pc = "save" /\ rec.doc = d /\ rows'[d].name = rec.name
        /\ ~Used(d) => rows'[d].st = "free" \/ rows'[d].name = <<rows'[d].base, None>>

EndingsHold ==
    \A g \in Gid : Ending(g) =>
        /\ gitlab'[g].st \in {"pending", "gone"}
        /\ gitlab'[g].path = gitlab[g].path /\ gitlab'[g].renamed = gitlab[g].renamed
        /\ Gone(g) => gitlab'[g].st = "gone"

NothingComesBack ==
    \A g \in Gid : Gone(g) => \A x : /\ <<x, g>> \in k8s' => <<x, g>> \in k8s
                                     /\ <<x, g>> \in sonar' => <<x, g>> \in sonar

(* The one row that a step may touch.                                       *)
LEMMA OneRowHolds ==
    ASSUME IInv, NEW d \in Doc, NEW w, rows' = [rows EXCEPT ![d] = w], w.st # "free",
           Used(d) => /\ w.gid = rows[d].gid /\ w.slug = rows[d].slug
                      /\ w.targets = rows[d].targets /\ w.base = rows[d].base
                      /\ w.name # rows[d].name =>
                            rec.pc = "save" /\ rec.doc = d /\ w.name = rec.name,
           ~Used(d) => w.name = <<w.base, None>>
    PROVE  RowsHold
BY DEF IInv, TypeOK, RowsHold, Used

LEMMA InsertHolds ==
    ASSUME IInv, NEW d \in Doc, NEW g, NEW p, NEW s, NEW t, Insert(d, g, <<p, None>>, s, p, t)
    PROVE  RowsHold
<1>. DEFINE w == NewRow(g, <<p, None>>, s, p, t)
<1>1. w.st = "active" /\ w.name = <<w.base, None>>
  BY DEF NewRow
<1>2. ~Used(d) /\ rows' = [rows EXCEPT ![d] = w]
  BY DEF Insert, Insertable, Used
<1>. HIDE DEF w
<1>. QED  BY <1>1, <1>2, OneRowHolds

LEMMA FlagHolds ==
    ASSUME IInv, NEW d \in Doc, Used(d), NEW v,
           \/ rows' = [rows EXCEPT ![d].scan = v]
           \/ /\ rows' = [rows EXCEPT ![d].st = v] 
              /\ v # "free"
    PROVE  RowsHold
<1>1. rows \in [Doc -> Row] /\ rows[d] \in Row
  BY DEF IInv, TypeOK
<1>2. /\ rows'[d].st # "free" /\ rows'[d].gid = rows[d].gid /\ rows'[d].slug = rows[d].slug
      /\ rows'[d].targets = rows[d].targets /\ rows'[d].base = rows[d].base
      /\ rows'[d].name = rows[d].name
  BY <1>1 DEF Row, Used
<1>3. \A e \in Doc \ {d} : rows'[e] = rows[e]
  BY <1>1
<1>. QED  BY <1>2, <1>3 DEF RowsHold, Used

LEMMA RenameHolds == ASSUME IInv, ReconcileArchives PROVE RowsHold
<1>1. rec.pc = "save" /\ rec.doc \in Doc /\ rows \in [Doc -> Row] /\ rows[rec.doc] \in Row
      /\ Used(rec.doc)
  BY DEF IInv, TypeOK, RunFits, ReconcileArchives
<1>2. CASE UNCHANGED rows
  BY <1>2 DEF RowsHold, Used
<1>3. CASE Present(rec.doc) /\ rows' = [rows EXCEPT ![rec.doc].st = "archived",
                                                    ![rec.doc].name = rec.name]
  <2>. DEFINE w == [rows[rec.doc] EXCEPT !.st = "archived", !.name = rec.name]
  <2>1. rows' = [rows EXCEPT ![rec.doc] = w]
    BY <1>1, <1>3
  <2>2. /\ w.st = "archived" /\ w.gid = rows[rec.doc].gid /\ w.slug = rows[rec.doc].slug
        /\ w.targets = rows[rec.doc].targets /\ w.base = rows[rec.doc].base
        /\ w.name = rec.name
    BY <1>1 DEF Row
  <2>. HIDE DEF w
  <2>. QED  BY <1>1, <2>1, <2>2, OneRowHolds
<1>. QED  BY <1>1, <1>2, <1>3 DEF ReconcileArchives

LEMMA RowsStay ==
    ASSUME IInv, Next PROVE RowsHold
<1>1. CASE UNCHANGED rows
  BY <1>1 DEF RowsHold, Used
<1>2. ASSUME NEW r \in Req, Create(r) PROVE RowsHold
  <2>1. CASE CreateInserts(r)
    BY <1>1, <2>1, InsertHolds DEF CreateInserts
  <2>. QED  BY <1>1, <1>2, <2>1 DEF Create, CreateStart, CreateInGitLab, CreateSeedsBase,
               CreateSeedsTargets, CreateWires
<1>3. ASSUME NEW r \in Req, Register(r) PROVE RowsHold
  <2>1. CASE RegisterInserts(r)
    BY <1>1, <2>1, InsertHolds DEF RegisterInserts
  <2>. QED  BY <1>1, <1>3, <2>1 DEF Register, RegisterStart, RegisterSeedsBase,
               RegisterSeedsTargets, RegisterWires
<1>4. ASSUME NEW r \in Req, ConfigureSonar(r) PROVE RowsHold
  <2>1. CASE SonarSaves(r)
    <3>1. reqs[r].doc \in Doc /\ Used(reqs[r].doc)
      BY <2>1 DEF IInv, RequestsFit, Fits, Inserted, SonarSaves, At
    <3>. QED  BY <1>1, <2>1, <3>1, FlagHolds DEF SonarSaves
  <2>. QED  BY <1>1, <1>4, <2>1 DEF ConfigureSonar, SonarStoresToken, SonarSetsCi
<1>5. ASSUME NEW r \in Req, Delete(r) PROVE RowsHold
  <2>1. CASE DeleteRemoves(r) \/ DeleteArchives(r)
    <3>1. reqs[r].doc \in Doc /\ Used(reqs[r].doc)
      BY <2>1 DEF IInv, RequestsFit, Fits, Deleting, DeleteRemoves, DeleteArchives, At
    <3>. QED  BY <1>1, <2>1, <3>1, FlagHolds DEF DeleteRemoves, DeleteArchives
  <2>. QED  BY <1>1, <1>5, <2>1 DEF Delete, DeleteStart, DeleteReleases, DeleteSecrets,
               DeleteAnalyses, DeleteInGitLab, ProbeGitLab, ProbeK8s, ProbeVault, ProbeSonar,
               Probe, DeleteAudits
<1>6. CASE Reconcile
  <2>1. CASE ReconcileBackfills
    BY <1>1, <2>1, InsertHolds DEF ReconcileBackfills
  <2>. QED  BY <1>1, <1>6, <2>1, RenameHolds DEF Reconcile, ReconcileStart, ReconcileLooksUp,
               ReconcileSeeds, ReconcileSweeps, ReconcileProbes, ReconcileEnds, ReconcileThrows
<1>. QED
  BY <1>1, <1>2, <1>3, <1>4, <1>5, <1>6
     DEF Next, Throws, Restart, Outside, CreatedByHand, DeletedByHand, RetentionEnds,
         PipelineDeploys, PipelineScans

(* Only a live project is scheduled for deletion, and only once.            *)
LEMMA StatusHolds ==
    ASSUME IInv, NEW g \in Gid, NEW p, NEW n,
           \/ GitLabCreate(g, p)
           \/ gitlab[g].st = "live" /\ Scheduled(g, n)
           \/ gitlab' = [gitlab EXCEPT ![g].st = "gone"]
    PROVE  EndingsHold
<1>1. gitlab \in [Gid -> GitLabProject] /\ gitlab[g] \in GitLabProject
  BY DEF IInv, TypeOK
<1>2. \A h \in Gid \ {g} : gitlab'[h] = gitlab[h]
  BY <1>1 DEF GitLabCreate, Scheduled
<1>3. CASE GitLabCreate(g, p) \/ (gitlab[g].st = "live" /\ Scheduled(g, n))
  BY <1>2, <1>3 DEF EndingsHold, Ending, Gone, GitLabCreate, Scheduled
<1>4. CASE gitlab' = [gitlab EXCEPT ![g].st = "gone"]
  <2>1. /\ gitlab'[g].st = "gone" /\ gitlab'[g].path = gitlab[g].path
        /\ gitlab'[g].renamed = gitlab[g].renamed
    BY <1>1, <1>4 DEF GitLabProject
  <2>. QED  BY <1>2, <2>1 DEF EndingsHold, Ending, Gone
<1>. QED  BY <1>3, <1>4

LEMMA WiringHolds ==
    ASSUME IInv, NEW g \in Gid, NEW v,
           \/ gitlab' = [gitlab EXCEPT ![g].wired = v]
           \/ gitlab' = [gitlab EXCEPT ![g].scan = v]
    PROVE  EndingsHold
<1>1. gitlab \in [Gid -> GitLabProject] /\ gitlab[g] \in GitLabProject
  BY DEF IInv, TypeOK
<1>2. \A h \in Gid : /\ gitlab'[h].st = gitlab[h].st /\ gitlab'[h].path = gitlab[h].path
                     /\ gitlab'[h].renamed = gitlab[h].renamed
  BY <1>1 DEF GitLabProject
<1>. QED  BY <1>2 DEF EndingsHold, Ending, Gone

LEMMA EndingsStay == ASSUME IInv, Next PROVE EndingsHold
<1>1. CASE UNCHANGED gitlab
  BY <1>1 DEF EndingsHold, Ending, Gone
<1>2. ASSUME NEW r \in Req, Create(r) PROVE EndingsHold
  <2>1. CASE CreateInGitLab(r)
    BY <1>1, <2>1, StatusHolds DEF CreateInGitLab
  <2>2. CASE CreateWires(r)
    <3>1. reqs[r].gid \in Gid
      BY <2>2 DEF IInv, RequestsFit, Fits, Owning, CreateWires, At
    <3>2. UNCHANGED gitlab \/ \E v : gitlab' = [gitlab EXCEPT ![reqs[r].gid].wired = v]
      BY <2>2 DEF CreateWires
    <3>. QED  BY <1>1, <3>1, <3>2, WiringHolds
  <2>. QED  BY <1>1, <1>2, <2>1, <2>2 DEF Create, CreateStart, CreateSeedsBase,
               CreateSeedsTargets, CreateInserts
<1>3. ASSUME NEW r \in Req, Register(r) PROVE EndingsHold
  <2>1. CASE RegisterWires(r)
    <3>1. reqs[r].gid \in Gid
      BY <2>1 DEF IInv, RequestsFit, Fits, Owning, RegisterWires, At
    <3>. QED  BY <1>1, <2>1, <3>1, WiringHolds DEF RegisterWires
  <2>. QED  BY <1>1, <1>3, <2>1 DEF Register, RegisterStart, RegisterInserts,
               RegisterSeedsBase, RegisterSeedsTargets
<1>4. ASSUME NEW r \in Req, ConfigureSonar(r) PROVE EndingsHold
  <2>1. CASE SonarSetsCi(r)
    <3>1. reqs[r].gid \in Gid
      BY <2>1 DEF IInv, RequestsFit, Fits, Owning, SonarSetsCi, At
    <3>. QED  BY <1>1, <2>1, <3>1, WiringHolds DEF SonarSetsCi
  <2>. QED  BY <1>1, <1>4, <2>1 DEF ConfigureSonar, SonarStoresToken, SonarSaves
<1>5. ASSUME NEW r \in Req, Delete(r) PROVE EndingsHold
  <2>1. CASE DeleteInGitLab(r)
    <3>1. reqs[r].gid \in Gid
      BY <2>1 DEF IInv, RequestsFit, Fits, Deleting, DeleteInGitLab, At
    <3>. QED  BY <1>1, <2>1, <3>1, StatusHolds DEF DeleteInGitLab
  <2>. QED  BY <1>1, <1>5, <2>1 DEF Delete, DeleteStart, DeleteReleases, DeleteSecrets,
               DeleteAnalyses, ProbeGitLab, ProbeK8s, ProbeVault, ProbeSonar, Probe,
               DeleteAudits, DeleteRemoves, DeleteArchives
<1>6. CASE Reconcile
  BY <1>1, <1>6 DEF Reconcile, ReconcileStart, ReconcileLooksUp, ReconcileBackfills,
     ReconcileSeeds, ReconcileSweeps, ReconcileProbes, ReconcileArchives, ReconcileEnds,
     ReconcileThrows
<1>7. ASSUME NEW g \in Gid, Outside(g) PROVE EndingsHold
  BY <1>1, <1>7, StatusHolds DEF Outside, CreatedByHand, DeletedByHand, RetentionEnds,
     PipelineDeploys, PipelineScans
<1>. QED
  BY <1>1, <1>2, <1>3, <1>4, <1>5, <1>6, <1>7 DEF Next, Throws, Restart

(* Releases and analyses are made by pipelines only, of projects that exist.*)
LEMMA NothingReturns == ASSUME IInv, Next PROVE NothingComesBack
<1>1. CASE k8s' \subseteq k8s /\ sonar' \subseteq sonar
  BY <1>1 DEF NothingComesBack
<1>2. ASSUME NEW r \in Req, Delete(r) PROVE k8s' \subseteq k8s /\ sonar' \subseteq sonar
  <2>1. ASSUME NEW S, NEW left \in Survivors(S), NEW T, S \subseteq T
        PROVE  (T \ S) \cup left \subseteq T
    BY <2>1, SurvivorsAreOld DEF Survivors
  <2>2. CASE DeleteReleases(r)
    BY <2>1, <2>2 DEF DeleteReleases, ReleasesOf
  <2>3. CASE DeleteAnalyses(r)
    BY <2>1, <2>3 DEF DeleteAnalyses, AnalysesOf
  <2>. QED  BY <1>2, <2>2, <2>3 DEF Delete, DeleteStart, DeleteSecrets, DeleteInGitLab,
               ProbeGitLab, ProbeK8s, ProbeVault, ProbeSonar, Probe, DeleteAudits,
               DeleteRemoves, DeleteArchives, platform
<1>3. ASSUME NEW g \in Gid, Outside(g) PROVE NothingComesBack
  <2>1. CASE PipelineDeploys(g) \/ PipelineScans(g)
    BY <2>1 DEF NothingComesBack, Gone, PipelineDeploys, PipelineScans, Exists
  <2>. QED  BY <1>1, <1>3, <2>1 DEF Outside, CreatedByHand, DeletedByHand, RetentionEnds,
               platform
<1>4. ASSUME NEW r \in Req, Create(r) \/ Register(r) \/ ConfigureSonar(r)
      PROVE  k8s' = k8s /\ sonar' = sonar
  BY <1>4 DEF Create, CreateStart, CreateInGitLab, CreateSeedsBase, CreateSeedsTargets,
     CreateWires, CreateInserts, Register, RegisterStart, RegisterInserts, RegisterSeedsBase,
     RegisterSeedsTargets, RegisterWires, ConfigureSonar, SonarSaves, SonarStoresToken,
     SonarSetsCi, platform
<1>5. Reconcile => k8s' = k8s /\ sonar' = sonar
  BY DEF Reconcile, ReconcileStart, ReconcileLooksUp, ReconcileBackfills,
     ReconcileSeeds, ReconcileSweeps, ReconcileProbes, ReconcileArchives, ReconcileEnds,
     ReconcileThrows, platform
<1>. QED
  BY <1>1, <1>2, <1>3, <1>4, <1>5 DEF Next, Throws, Restart, platform

-----------------------------------------------------------------------------
(* The invariant, part by part.                                             *)
LEMMA InitCleanup == Init => CleanupInv
BY DEF Init, CleanupInv, RenamedForGood, Remembers, RunRemembers, Used,
   NoReleaseLeftBehind, NoAnalysisLeftBehind, FreeRow, IdleReq, IdleRec, UnusedProject, Deleting

(* A row is renamed by the run only, to the name that is final: so it is    *)
(* never renamed back.                                                      *)
LEMMA RowsAreRenamedForGood ==
    ASSUME IInv, CleanupInv, RowsHold, EndingsHold
    PROVE  /\ RenamedForGood'
           /\ \A d \in Doc : Used(d) /\ Original(d)' => Original(d)
<1>1. ASSUME NEW d \in Doc, Used(d), rows'[d].name # rows[d].name
      PROVE  /\ Ending(rows[d].gid) /\ rows'[d].name = PathWithNamespace(rows[d].gid)
  BY <1>1 DEF RowsHold, CleanupInv, RunRemembers
<1>2. ASSUME NEW d \in Doc, Used(d)
      PROVE  /\ rows[d].gid \in Gid /\ rows'[d].gid = rows[d].gid /\ rows'[d].base = rows[d].base
             /\ Ending(rows[d].gid) => /\ Ending(rows[d].gid)'
                                       /\ PathWithNamespace(rows[d].gid)'
                                          = PathWithNamespace(rows[d].gid)
  <2>1. /\ rows[d].gid \in Gid /\ rows'[d].gid = rows[d].gid /\ rows'[d].base = rows[d].base
    BY <1>2 DEF RowsHold, IInv, RowsSound, RowsHaveProjects
  <2>. QED  BY <2>1 DEF EndingsHold, Ending, PathWithNamespace
<1>3. ASSUME NEW d \in Doc, Used(d), ~Original(d)' \/ ~Original(d)
      PROVE  /\ Ending(rows[d].gid) /\ PathWithNamespace(rows[d].gid) # <<rows[d].base, None>>
             /\ ~Original(d)'
  <2>1. CASE ~Original(d)
    BY <1>1, <1>2, <1>3, <2>1 DEF Original, CleanupInv, RenamedForGood
  <2>2. CASE Original(d) /\ ~Original(d)'
    BY <1>1, <1>2, <1>3, <2>2 DEF Original
  <2>. QED  BY <1>3, <2>1, <2>2
<1>4. ASSUME NEW d \in Doc, Used(d)', ~Original(d)'
      PROVE  /\ Ending(rows[d].gid)'
             /\ PathWithNamespace(rows[d].gid)' # <<rows'[d].base, None>>
  <2>1. Used(d)
    BY <1>4 DEF RowsHold, Used, Original
  <2>. QED  BY <1>2, <1>3, <1>4, <2>1
<1>. QED  BY <1>3, <1>4 DEF RenamedForGood

(* What a request carries on while others move.                             *)
LEMMA RemembersOn ==
    ASSUME IInv, RowsHold, NothingComesBack, NEW q, Fits(q), Remembers(q),
           \A d \in Doc : Used(d) /\ Original(d)' => Original(d)
    PROVE  Remembers(q)'
<1>. SUFFICES ASSUME q.pc \in Deleting PROVE Remembers(q)'
  BY DEF Remembers
<1>1. /\ q.doc \in Doc /\ Used(q.doc) /\ q.gid \in Gid
      /\ q.pc \in PastCluster => Gone(q.gid)
  BY DEF Fits, PastCluster, PastGitLab, Gone
<1>2. /\ rows'[q.doc].slug = rows[q.doc].slug /\ rows'[q.doc].targets = rows[q.doc].targets
      /\ rows'[q.doc].base = rows[q.doc].base
  BY <1>1 DEF RowsHold
<1>3. Original(q.doc)' => q.row.name = rows'[q.doc].name
  BY <1>1, <1>2 DEF Remembers, Original
<1>4. q.row.targets = "enabled" /\ q.pc \in PastCluster => <<q.row.slug, q.gid>> \notin k8s'
  BY <1>1 DEF Remembers, NothingComesBack
<1>5. q.row.targets = "enabled" /\ q.pc \in PastSonar => <<q.row.name, q.gid>> \notin sonar'
  BY <1>1 DEF Remembers, NothingComesBack, PastCluster, PastSonar
<1>. QED  BY <1>2, <1>3, <1>4, <1>5 DEF Remembers

(* A deletion goes on with what it has, past a probe that found nothing.    *)
Proceeds(q, next) ==
    /\ q.pc \in Deleting
    /\ next.row = q.row /\ next.doc = q.doc /\ next.gid = q.gid
    /\ next.pc \in PastCluster /\ q.pc \notin PastCluster =>
          /\ q.pc \in PastGitLab /\ k8s' = k8s
          /\ q.row.targets = "enabled" => <<q.row.slug, q.gid>> \notin k8s
    /\ next.pc \in PastSonar /\ q.pc \notin PastSonar =>
          /\ q.pc \in PastGitLab /\ sonar' = sonar
          /\ q.row.targets = "enabled" => <<q.row.name, q.gid>> \notin sonar

Snapshots(next) ==
    /\ next.pc \notin PastGitLab /\ next.doc \in Doc /\ rows' = rows
    /\ next.row = rows[next.doc]

RequestMoves(s) ==
    \/ reqs'[s] = reqs[s]
    \/ reqs'[s].pc \notin Deleting
    \/ Snapshots(reqs'[s])
    \/ Proceeds(reqs[s], reqs'[s])

LEMMA RequestRemembers ==
    ASSUME IInv, RowsHold, NothingComesBack, NEW s \in Req, Remembers(reqs[s]), RequestMoves(s),
           \A d \in Doc : Used(d) /\ Original(d)' => Original(d)
    PROVE  Remembers(reqs[s])'
<1>. DEFINE q == reqs[s]
            next == reqs'[s]
<1>1. Fits(q)
  BY DEF IInv, RequestsFit
<1>2. ASSUME NEW x, x = q PROVE Remembers(x)'
  BY <1>1, <1>2, RemembersOn
<1>3. CASE next = q
  BY <1>2, <1>3 DEF Remembers, Original
<1>4. CASE next.pc \notin Deleting
  BY <1>4 DEF Remembers
<1>5. CASE Snapshots(next)
  BY <1>5 DEF Remembers, Snapshots, Original, PastCluster, PastSonar, PastGitLab
<1>6. CASE Proceeds(q, next) /\ next.pc \in Deleting
  <2>1. /\ q.row.slug = rows'[q.doc].slug /\ q.row.targets = rows'[q.doc].targets
        /\ Original(q.doc)' => q.row.name = rows'[q.doc].name
        /\ q.row.targets = "enabled" /\ q.pc \in PastCluster => <<q.row.slug, q.gid>> \notin k8s'
        /\ q.row.targets = "enabled" /\ q.pc \in PastSonar => <<q.row.name, q.gid>> \notin sonar'
    BY <1>2, <1>6 DEF Remembers, Proceeds, Original
  <2>. QED  BY <1>6, <2>1 DEF Remembers, Proceeds, Original
<1>. QED  BY <1>3, <1>4, <1>5, <1>6 DEF RequestMoves

(* One request moves, to a step that is no deletion's or as it was told.    *)
LEMMA OneMovesOn ==
    ASSUME IInv, NEW r \in Req, NEW next, reqs' = [reqs EXCEPT ![r] = next],
           next.pc \notin Deleting \/ Snapshots(next) \/ Proceeds(reqs[r], next)
    PROVE  \A s \in Req : RequestMoves(s)
BY DEF IInv, TypeOK, RequestMoves

LEMMA GoesOn ==
    ASSUME IInv, NEW r \in Req, NEW pc, Goto(r, pc),
           pc \notin Deleting \/ Proceeds(reqs[r], [reqs[r] EXCEPT !.pc = pc])
    PROVE  \A s \in Req : RequestMoves(s)
<1>1. reqs \in [Req -> Request] /\ reqs[r] \in Request
  BY DEF IInv, TypeOK
<1>2. reqs' = [reqs EXCEPT ![r] = [reqs[r] EXCEPT !.pc = pc]]
  BY <1>1 DEF Goto
<1>3. [reqs[r] EXCEPT !.pc = pc].pc = pc
  BY <1>1 DEF Request
<1>. QED  BY <1>2, <1>3, OneMovesOn

LEMMA ReturnsOn == ASSUME IInv, NEW r \in Req, Return(r) PROVE \A s \in Req : RequestMoves(s)
BY OneMovesOn DEF Return, IdleReq, Deleting

LEMMA CreateMoves ==
    ASSUME IInv, NEW r \in Req, Create(r) PROVE \A s \in Req : RequestMoves(s)
<1>1. CASE CreateStart(r)
  <2>1. PICK next : next.pc = "c_gitlab" /\ reqs' = [reqs EXCEPT ![r] = next]
    BY <1>1 DEF CreateStart, IdleReq
  <2>. QED  BY <2>1, OneMovesOn DEF Deleting
<1>2. CASE CreateInGitLab(r)
  <2>1. ASSUME NEW g, reqs' = [reqs EXCEPT ![r].pc = "c_vault", ![r].gid = g]
        PROVE  \A s \in Req : RequestMoves(s)
    BY <2>1 DEF IInv, TypeOK, Request, RequestMoves, Deleting
  <2>. QED  BY <1>2, <2>1, ReturnsOn DEF CreateInGitLab
<1>3. CASE CreateSeedsBase(r) \/ CreateSeedsTargets(r) \/ CreateWires(r)
  BY <1>3, GoesOn, ReturnsOn DEF CreateSeedsBase, CreateSeedsTargets, CreateWires, Deleting
<1>4. CASE CreateInserts(r)
  <2>1. ASSUME NEW d, reqs' = [reqs EXCEPT ![r].pc = "s_save", ![r].doc = d]
        PROVE  \A s \in Req : RequestMoves(s)
    BY <2>1 DEF IInv, TypeOK, Request, RequestMoves, Deleting
  <2>. QED  BY <1>4, <2>1, ReturnsOn DEF CreateInserts
<1>. QED  BY <1>1, <1>2, <1>3, <1>4 DEF Create

LEMMA RegisterMoves ==
    ASSUME IInv, NEW r \in Req, Register(r) \/ ConfigureSonar(r)
    PROVE  \A s \in Req : RequestMoves(s)
<1>1. CASE RegisterStart(r)
  <2>1. PICK next : next.pc = "r_insert" /\ reqs' = [reqs EXCEPT ![r] = next]
    BY <1>1 DEF RegisterStart, IdleReq
  <2>. QED  BY <2>1, OneMovesOn DEF Deleting
<1>2. CASE RegisterInserts(r)
  <2>1. ASSUME NEW d, reqs' = [reqs EXCEPT ![r].pc = "r_vault", ![r].doc = d]
        PROVE  \A s \in Req : RequestMoves(s)
    BY <2>1 DEF IInv, TypeOK, Request, RequestMoves, Deleting
  <2>. QED  BY <1>2, <2>1, ReturnsOn DEF RegisterInserts
<1>3. CASE RegisterSeedsBase(r) \/ RegisterSeedsTargets(r) \/ RegisterWires(r)
  BY <1>3, GoesOn, ReturnsOn
     DEF RegisterSeedsBase, RegisterSeedsTargets, RegisterWires, AfterWiring, Deleting
<1>4. CASE ConfigureSonar(r)
  BY <1>4, GoesOn, ReturnsOn
     DEF ConfigureSonar, SonarSaves, SonarStoresToken, SonarSetsCi, Deleting
<1>. QED  BY <1>1, <1>2, <1>3, <1>4 DEF Register

(* A step of a deletion that asks nothing new of it.                        *)
LEMMA DeletionGoesOn ==
    ASSUME IInv, NEW r \in Req, NEW pc, Goto(r, pc), reqs[r].pc \in Deleting,
           pc \in PastCluster => reqs[r].pc \in PastCluster,
           pc \in PastSonar => reqs[r].pc \in PastSonar
    PROVE  \A s \in Req : RequestMoves(s)
<1>1. reqs[r] \in Request
  BY DEF IInv, TypeOK
<1>2. Proceeds(reqs[r], [reqs[r] EXCEPT !.pc = pc])
  BY <1>1 DEF Proceeds, Request
<1>. QED  BY <1>2, GoesOn

LEMMA ProbeMoves ==
    ASSUME IInv, NEW r \in Req, ProbeK8s(r) \/ ProbeSonar(r)
    PROVE  \A s \in Req : RequestMoves(s)
<1>. DEFINE q == reqs[r]
<1>1. q \in Request /\ q.pc \in {"p_k8s", "p_sonar"}
  BY DEF IInv, TypeOK, ProbeK8s, ProbeSonar, Probe, At
<1>2. CASE Goto(r, "d_archive")
  BY <1>1, <1>2, DeletionGoesOn DEF Deleting, PastCluster, PastSonar
<1>3. CASE ProbeK8s(r) /\ Goto(r, "p_vault")
          /\ ~(q.row.targets = "enabled" /\ ReleasesOf(q.row.slug) # {})
  <2>1. q.row.targets = "enabled" => <<q.row.slug, q.gid>> \notin k8s
    BY <1>3 DEF ReleasesOf
  <2>2. Proceeds(q, [q EXCEPT !.pc = "p_vault"])
    BY <1>1, <1>3, <2>1 DEF Proceeds, Request, ProbeK8s, Probe, At, Deleting, PastCluster,
       PastSonar, PastGitLab, platform
  <2>. QED  BY <1>3, <2>2, GoesOn
<1>4. CASE ProbeSonar(r) /\ Goto(r, "d_audit")
          /\ ~(SonarCandidates(q.row) /\ AnalysesOf(q.row.name) # {})
  <2>1. q.row.targets = "enabled" => <<q.row.name, q.gid>> \notin sonar
    BY <1>4 DEF AnalysesOf, SonarCandidates
  <2>2. Proceeds(q, [q EXCEPT !.pc = "d_audit"])
    BY <1>1, <1>4, <2>1 DEF Proceeds, Request, ProbeSonar, Probe, At, Deleting, PastCluster,
       PastSonar, PastGitLab, platform
  <2>. QED  BY <1>4, <2>2, GoesOn
<1>. QED  BY <1>2, <1>3, <1>4 DEF ProbeK8s, ProbeSonar, Probe

LEMMA DeleteMoves ==
    ASSUME IInv, NEW r \in Req, Delete(r) PROVE \A s \in Req : RequestMoves(s)
<1>1. ASSUME NEW d \in Doc, DeleteStart(r, d) PROVE \A s \in Req : RequestMoves(s)
  <2>1. PICK pc \in {"d_k8s", "d_gitlab"} :
          reqs' = [reqs EXCEPT ![r] = [IdleReq EXCEPT
                      !.pc = pc, !.doc = d, !.gid = rows[d].gid, !.row = rows[d]]]
    BY <1>1 DEF DeleteStart
  <2>. DEFINE next == [IdleReq EXCEPT !.pc = pc, !.doc = d, !.gid = rows[d].gid, !.row = rows[d]]
  <2>2. Snapshots(next)
    BY <1>1 DEF Snapshots, IdleReq, PastGitLab, DeleteStart
  <2>. QED  BY <2>1, <2>2, OneMovesOn
<1>2. CASE \/ DeleteReleases(r) \/ DeleteSecrets(r) \/ DeleteAnalyses(r) \/ DeleteInGitLab(r)
           \/ ProbeGitLab(r) \/ ProbeVault(r) \/ DeleteAudits(r)
  <2>1. ASSUME NEW pc, Goto(r, pc), reqs[r].pc \in Deleting,
               \/ pc \notin PastCluster
               \/ pc = "p_sonar" /\ reqs[r].pc = "p_vault"
               \/ pc = "d_remove" /\ reqs[r].pc = "d_audit"
        PROVE  \A s \in Req : RequestMoves(s)
    BY <2>1, DeletionGoesOn DEF PastCluster, PastSonar
  <2>. QED  BY <1>2, <2>1 DEF DeleteReleases, DeleteSecrets, DeleteAnalyses, DeleteInGitLab,
               ProbeGitLab, ProbeVault, Probe, DeleteAudits, At, Deleting, PastCluster
<1>3. CASE DeleteRemoves(r) \/ DeleteArchives(r)
  BY <1>3, ReturnsOn DEF DeleteRemoves, DeleteArchives
<1>. QED  BY <1>1, <1>2, <1>3, ProbeMoves DEF Delete

LEMMA RequestsMove == ASSUME IInv, Next PROVE \A s \in Req : RequestMoves(s)
<1>1. CASE UNCHANGED reqs
  BY <1>1 DEF RequestMoves
<1>2. CASE Restart
  BY <1>2 DEF Restart, RequestMoves, IdleReq, Deleting
<1>3. CASE Reconcile
  BY <1>1, <1>3 DEF Reconcile, ReconcileStart, ReconcileLooksUp, ReconcileBackfills,
     ReconcileSeeds, ReconcileSweeps, ReconcileProbes, ReconcileArchives, ReconcileEnds,
     ReconcileThrows
<1>4. ASSUME NEW g \in Gid, Outside(g) PROVE UNCHANGED reqs
  BY <1>4 DEF Outside, CreatedByHand, DeletedByHand, RetentionEnds, PipelineDeploys,
     PipelineScans
<1>. QED
  BY <1>1, <1>2, <1>3, <1>4, CreateMoves, RegisterMoves, DeleteMoves, ReturnsOn
     DEF Next, Throws

(* What the run found out stays true, for projects that end are done with.  *)
LEMMA RunRemembersOn ==
    ASSUME IInv, RowsHold, EndingsHold, NEW x \in Run, RunFits(x), RunRemembers(x)
    PROVE  RunRemembers(x)'
<1>1. ASSUME NEW g \in Gid, Ending(g)
      PROVE  Ending(g)' /\ PathWithNamespace(g)' = PathWithNamespace(g)
  BY <1>1 DEF EndingsHold, Ending, PathWithNamespace
<1>2. \A e \in x.list : e.gid \in Gid
  BY DEF Run, Listed
<1>3. x.pc = "save" => rows[x.doc].gid \in Gid /\ rows'[x.doc].gid = rows[x.doc].gid
  BY DEF RunFits, RowsHold, IInv, RowsSound, RowsHaveProjects
<1>. QED  BY <1>1, <1>2, <1>3 DEF RunRemembers

(* The run lists projects as they are, and saves what it listed or asked.   *)
LEMMA RunFindsOut ==
    ASSUME IInv, CleanupInv, Reconcile
    PROVE  RunRemembers(rec')
<1>1. rec \in Run /\ RunRemembers(rec) /\ rec.list \subseteq Listed
  BY DEF IInv, TypeOK, CleanupInv, Run
<1>2. RunRemembers(IdleRec)
  BY DEF RunRemembers, IdleRec
<1>3. ASSUME NEW x, x.list \subseteq rec.list, x.pc # "save" PROVE RunRemembers(x)
  BY <1>1, <1>3 DEF RunRemembers
<1>4. CASE ReconcileStart
  <2>1. PICK l \in SUBSET Listing : \E live :
          rec' = [IdleRec EXCEPT !.pc = "scan", !.list = l, !.live = live]
    BY <1>4 DEF ReconcileStart
  <2>2. rec'.list = l /\ rec'.pc = "scan"
    BY <2>1 DEF IdleRec
  <2>3. ASSUME NEW e \in Listing, e.pending PROVE Ending(e.gid) /\ e.name = PathWithNamespace(e.gid)
    <3>1. PICK g \in Gid : e = [gid |-> g, name |-> PathWithNamespace(g),
                                pending |-> gitlab[g].st = "pending"]
      BY DEF Listing
    <3>. QED  BY <2>3, <3>1 DEF Ending
  <2>. QED  BY <2>2, <2>3 DEF RunRemembers
<1>5. CASE ReconcileLooksUp
  <2>1. PICK e \in rec.list :
          \/ e.pending /\ \E d \in Doc :
              /\ rows[d].gid = e.gid
              /\ rec' = [rec EXCEPT !.list = @ \ {e}, !.pc = "save", !.doc = d,
                          !.name = e.name, !.back = "scan"]
          \/ rec' = [rec EXCEPT !.list = @ \ {e}]
          \/ \E p, s : rec' = [rec EXCEPT !.list = @ \ {e}, !.pc = "insert", !.gid = e.gid,
                                !.path = p, !.slug = s]
    BY <1>5 DEF ReconcileLooksUp
  <2>2. ASSUME e.pending, NEW d \in Doc, rows[d].gid = e.gid,
               rec' = [rec EXCEPT !.list = @ \ {e}, !.pc = "save", !.doc = d,
                          !.name = e.name, !.back = "scan"]
        PROVE  RunRemembers(rec')
    <3>1. rec'.list \subseteq rec.list /\ rec'.doc = d /\ rec'.name = e.name
      BY <1>1, <2>2 DEF Run
    <3>. QED  BY <1>1, <2>2, <3>1 DEF RunRemembers
  <2>3. CASE rec' = [rec EXCEPT !.list = @ \ {e}]
    <3>1. rec'.list \subseteq rec.list /\ rec'.pc # "save"
      BY <1>1, <1>5, <2>3 DEF Run, ReconcileLooksUp
    <3>. QED  BY <1>3, <3>1
  <2>4. ASSUME NEW p, NEW s, rec' = [rec EXCEPT !.list = @ \ {e}, !.pc = "insert", !.gid = e.gid,
                                        !.path = p, !.slug = s]
        PROVE  RunRemembers(rec')
    <3>1. rec'.list \subseteq rec.list /\ rec'.pc # "save"
      BY <1>1, <2>4 DEF Run
    <3>. QED  BY <1>3, <3>1
  <2>. QED  BY <2>1, <2>2, <2>3, <2>4
<1>6. CASE ReconcileProbes
  <2>1. PICK d \in rec.sweep :
          \/ /\ gitlab[rows[d].gid].st = "pending"
             /\ rec' = [rec EXCEPT !.sweep = @ \ {d}, !.pc = "save", !.doc = d,
                          !.back = "sweep", !.name = PathWithNamespace(rows[d].gid)]
          \/ rec' = [rec EXCEPT !.sweep = @ \ {d}]
    BY <1>6 DEF ReconcileProbes
  <2>2. CASE rec' = [rec EXCEPT !.sweep = @ \ {d}]
    <3>1. rec'.list \subseteq rec.list /\ rec'.pc # "save"
      BY <1>1, <1>6, <2>2 DEF Run, ReconcileProbes
    <3>. QED  BY <1>3, <3>1
  <2>3. ASSUME gitlab[rows[d].gid].st = "pending", NEW n, n = PathWithNamespace(rows[d].gid),
               rec' = [rec EXCEPT !.sweep = @ \ {d}, !.pc = "save", !.doc = d,
                          !.back = "sweep", !.name = n]
        PROVE  RunRemembers(rec')
    <3>1. rec'.list = rec.list /\ rec'.doc = d /\ rec'.name = n
      BY <1>1, <2>3 DEF Run
    <3>. QED  BY <1>1, <2>3, <3>1 DEF RunRemembers, Ending
  <2>. QED  BY <2>1, <2>2, <2>3
<1>7. ASSUME NEW pc, NEW y, pc # "save" \/ rec.pc = "save", rec' = [rec EXCEPT !.pc = pc, !.sweep = y]
      PROVE  RunRemembers(rec')
  <2>1. rec'.list = rec.list /\ rec'.pc = pc /\ rec'.doc = rec.doc /\ rec'.name = rec.name
    BY <1>1, <1>7 DEF Run
  <2>. QED  BY <1>1, <1>7, <2>1 DEF RunRemembers
<1>8. ASSUME NEW pc, pc # "save", rec' = [rec EXCEPT !.pc = pc] PROVE RunRemembers(rec')
  <2>1. rec'.list = rec.list /\ rec'.pc = pc
    BY <1>1, <1>8 DEF Run
  <2>. QED  BY <1>1, <1>8, <2>1 DEF RunRemembers
<1>9. rec.back # "save"
  BY <1>1 DEF Run
<1>. QED
  BY <1>2, <1>4, <1>5, <1>6, <1>7, <1>8, <1>9 DEF Reconcile, ReconcileBackfills, ReconcileSeeds,
     ReconcileSweeps, ReconcileArchives, ReconcileEnds, ReconcileThrows

(* No request touches what the run carries; a restart ends it.              *)
LEMMA OnlyTheRunMoves ==
    ASSUME Next PROVE Reconcile \/ rec' = rec \/ rec' = IdleRec
<1>1. ASSUME NEW r \in Req, Create(r) \/ Register(r) \/ ConfigureSonar(r) PROVE rec' = rec
  BY <1>1 DEF Create, CreateStart, CreateInGitLab, CreateSeedsBase, CreateSeedsTargets,
     CreateWires, CreateInserts, Register, RegisterStart, RegisterInserts, RegisterSeedsBase,
     RegisterSeedsTargets, RegisterWires, ConfigureSonar, SonarSaves, SonarStoresToken,
     SonarSetsCi
<1>2. ASSUME NEW r \in Req, Delete(r) \/ Throws(r) PROVE rec' = rec
  BY <1>2 DEF Delete, DeleteStart, DeleteReleases, DeleteSecrets, DeleteAnalyses,
     DeleteInGitLab, ProbeGitLab, ProbeK8s, ProbeVault, ProbeSonar, Probe, DeleteAudits,
     DeleteRemoves, DeleteArchives, Throws
<1>3. ASSUME NEW g \in Gid, Outside(g) PROVE rec' = rec
  BY <1>3 DEF Outside, CreatedByHand, DeletedByHand, RetentionEnds, PipelineDeploys,
     PipelineScans
<1>. QED  BY <1>1, <1>2, <1>3 DEF Next, Restart

LEMMA RunsRemember ==
    ASSUME IInv, IInv', CleanupInv, RowsHold, EndingsHold, Next
    PROVE  RunRemembers(rec)'
<1>1. rec \in Run /\ RunFits(rec) /\ RunRemembers(rec)
  BY DEF IInv, TypeOK, CleanupInv
<1>2. CASE rec' = rec
  BY <1>1, <1>2, RunRemembersOn DEF RunRemembers
<1>3. CASE Reconcile
  <2>1. gitlab' = gitlab
    BY <1>3 DEF Reconcile, ReconcileStart, ReconcileLooksUp, ReconcileBackfills,
       ReconcileSeeds, ReconcileSweeps, ReconcileProbes, ReconcileArchives, ReconcileEnds,
       ReconcileThrows
  <2>2. RunRemembers(rec')
    BY <1>3, RunFindsOut
  <2>3. ASSUME rows' # rows PROVE rec'.pc # "save"
    <3>1. CASE ReconcileBackfills
      BY <1>1, <2>3, <3>1 DEF ReconcileBackfills, Run, IdleRec
    <3>2. CASE ReconcileArchives
      <4>1. rec'.pc = rec.back \/ rec' = IdleRec
        BY <1>1, <3>2 DEF ReconcileArchives, Run
      <4>. QED  BY <1>1, <4>1 DEF Run, IdleRec
    <3>. QED  BY <1>3, <2>3, <3>1, <3>2 DEF Reconcile, ReconcileStart, ReconcileLooksUp,
                 ReconcileSeeds, ReconcileSweeps, ReconcileProbes, ReconcileEnds, ReconcileThrows
  <2>. QED  BY <2>1, <2>2, <2>3 DEF RunRemembers, Ending, PathWithNamespace
<1>4. CASE rec' = IdleRec
  BY <1>4 DEF RunRemembers, IdleRec
<1>. QED
  BY <1>2, <1>3, <1>4, OnlyTheRunMoves

-----------------------------------------------------------------------------
(* A row is removed by the deletion that probed for what it leaves behind,  *)
(* and by nothing else.                                                     *)
Removed(d) == rows[d].st = "removed"

LEMMA RemovedByItsDeletion ==
    ASSUME IInv, Next, NEW d \in Doc, Removed(d)', ~Removed(d)
    PROVE  \E r \in Req : DeleteRemoves(r) /\ reqs[r].doc = d
<1>1. rows \in [Doc -> Row] /\ rows[d] \in Row /\ rows' # rows
  BY DEF IInv, TypeOK, Removed
<1>2. ASSUME NEW e, NEW g, NEW n, NEW s, NEW b, NEW t, Insert(e, g, n, s, b, t) PROVE FALSE
  <2>1. rows'[d] = NewRow(g, n, s, b, t) \/ rows'[d] = rows[d]
    BY <1>1, <1>2 DEF Insert
  <2>. QED  BY <2>1 DEF Removed, NewRow
<1>3. ASSUME NEW e, NEW v, rows' = [rows EXCEPT ![e].scan = v] PROVE FALSE
  <2>1. rows'[d].st = rows[d].st
    BY <1>1, <1>3 DEF Row
  <2>. QED  BY <2>1 DEF Removed
<1>4. ASSUME NEW e, NEW n, \/ rows' = [rows EXCEPT ![e].st = "archived"]
                           \/ rows' = [rows EXCEPT ![e].st = "archived", ![e].name = n]
      PROVE  FALSE
  <2>1. rows'[d].st = rows[d].st \/ rows'[d].st = "archived"
    BY <1>1, <1>4 DEF Row
  <2>. QED  BY <2>1 DEF Removed
<1>5. ASSUME NEW r \in Req, DeleteRemoves(r) PROVE reqs[r].doc = d
  BY <1>1, <1>5 DEF DeleteRemoves, Removed
<1>6. ASSUME NEW r \in Req, Create(r) \/ Register(r) \/ ConfigureSonar(r) PROVE FALSE
  BY <1>1, <1>2, <1>3, <1>6 DEF Create, CreateStart, CreateInGitLab, CreateSeedsBase,
     CreateSeedsTargets, CreateWires, CreateInserts, Register, RegisterStart, RegisterInserts,
     RegisterSeedsBase, RegisterSeedsTargets, RegisterWires, ConfigureSonar, SonarSaves,
     SonarStoresToken, SonarSetsCi
<1>7. ASSUME NEW r \in Req, Delete(r) PROVE DeleteRemoves(r)
  BY <1>1, <1>4, <1>7 DEF Delete, DeleteStart, DeleteReleases, DeleteSecrets, DeleteAnalyses,
     DeleteInGitLab, ProbeGitLab, ProbeK8s, ProbeVault, ProbeSonar, Probe, DeleteAudits,
     DeleteArchives
<1>8. ~Reconcile
  BY <1>1, <1>2, <1>4 DEF Reconcile, ReconcileStart, ReconcileLooksUp, ReconcileBackfills,
     ReconcileSeeds, ReconcileSweeps, ReconcileProbes, ReconcileArchives, ReconcileEnds,
     ReconcileThrows
<1>. QED
  BY <1>1, <1>5, <1>6, <1>7, <1>8 DEF Next, Throws, Restart, Outside, CreatedByHand,
     DeletedByHand, RetentionEnds, PipelineDeploys, PipelineScans

(* What was removed keeps nothing, for nothing comes back; what is being    *)
(* removed was probed with the name it still has.                           *)
LEMMA NothingIsLeft ==
    ASSUME IInv, IInv', CleanupInv, RowsHold, EndingsHold, NothingComesBack, Next,
           \A d \in Doc : Used(d) /\ Original(d)' => Original(d)
    PROVE  NoReleaseLeftBehind' /\ NoAnalysisLeftBehind'
<1>1. ASSUME NEW d \in Doc, Removed(d)', Removed(d)
      PROVE  /\ rows'[d].targets = "enabled" => <<rows'[d].slug, rows'[d].gid>> \notin k8s'
             /\ rows'[d].targets = "enabled" /\ Original(d)' /\ InPlace(d)' =>
                    <<rows'[d].name, rows'[d].gid>> \notin sonar'
  <2>1. /\ rows'[d].gid = rows[d].gid /\ rows'[d].slug = rows[d].slug
        /\ rows'[d].targets = rows[d].targets /\ rows'[d].base = rows[d].base
    BY <1>1 DEF RowsHold, Used, Removed
  <2>2. rows[d].gid \in Gid /\ Gone(rows[d].gid)
    BY <1>1 DEF IInv, RowsSound, RowsHaveProjects, RemovedMeansGone, Used, Gone, Removed
  <2>3. Original(d)' => Original(d) /\ rows'[d].name = rows[d].name
    BY <1>1, <2>1 DEF Used, Removed, Original
  <2>4. InPlace(d)' => InPlace(d)
    BY <2>1, <2>2 DEF EndingsHold, Ending, Gone, InPlace
  <2>5. Original(d) /\ InPlace(d) => rows[d].name = <<gitlab[rows[d].gid].path, None>>
    BY DEF Original, InPlace
  <2>6. rows[d].targets = "enabled" /\ Original(d) /\ InPlace(d) =>
            <<rows[d].name, rows[d].gid>> \notin sonar
    BY <1>1, <2>5 DEF CleanupInv, NoAnalysisLeftBehind, Removed, Original, InPlace
  <2>. QED  BY <1>1, <2>1, <2>2, <2>3, <2>4, <2>6 DEF CleanupInv, NoReleaseLeftBehind,
               NothingComesBack, Removed
<1>2. ASSUME NEW d \in Doc, Removed(d)', ~Removed(d)
      PROVE  /\ rows'[d].targets = "enabled" => <<rows'[d].slug, rows'[d].gid>> \notin k8s'
             /\ rows'[d].targets = "enabled" /\ Original(d)' /\ InPlace(d)' =>
                    <<rows'[d].name, rows'[d].gid>> \notin sonar'
  <2>1. PICK r \in Req : DeleteRemoves(r) /\ reqs[r].doc = d
    BY <1>2, RemovedByItsDeletion
  <2>2. /\ reqs[r].pc = "d_remove" /\ k8s' = k8s /\ sonar' = sonar
        /\ Remembers(reqs[r]) /\ Used(d) /\ rows[d].gid = reqs[r].gid
    BY <2>1 DEF DeleteRemoves, At, platform, CleanupInv, IInv, RequestsFit, Fits, Deleting
  <2>3. /\ rows'[d].gid = rows[d].gid /\ rows'[d].slug = rows[d].slug
        /\ rows'[d].targets = rows[d].targets /\ rows'[d].base = rows[d].base
    BY <2>2 DEF RowsHold
  <2>4. Original(d)' => Original(d) /\ rows'[d].name = rows[d].name
    BY <2>2, <2>3 DEF Original
  <2>. QED  BY <2>1, <2>2, <2>3, <2>4 DEF Remembers, Deleting, PastCluster, PastSonar
<1>3. ASSUME NEW d \in Doc, Original(d)', InPlace(d)'
      PROVE  rows'[d].name = <<gitlab'[rows'[d].gid].path, None>>
  BY <1>3 DEF Original, InPlace
<1>. QED  BY <1>1, <1>2, <1>3 DEF NoReleaseLeftBehind, NoAnalysisLeftBehind, Removed, Original, InPlace

LEMMA CleanupKeeps == IInv /\ CleanupInv /\ IInv' /\ [Next]_vars => CleanupInv'
<1>. SUFFICES ASSUME IInv, CleanupInv, IInv', [Next]_vars PROVE CleanupInv'
  OBVIOUS
<1>1. CASE UNCHANGED vars
  BY <1>1 DEF vars, CleanupInv, RenamedForGood, Remembers, RunRemembers, NoReleaseLeftBehind,
     NoAnalysisLeftBehind, Used, Original, Ending, PathWithNamespace
<1>2. CASE Next
  <2>1. RowsHold /\ EndingsHold /\ NothingComesBack /\ \A s \in Req : RequestMoves(s)
    BY <1>2, RowsStay, EndingsStay, NothingReturns, RequestsMove
  <2>2. /\ RenamedForGood'
        /\ \A d \in Doc : Used(d) /\ Original(d)' => Original(d)
    BY <2>1, RowsAreRenamedForGood
  <2>3. \A s \in Req : Remembers(reqs[s])'
    BY <2>1, <2>2, RequestRemembers DEF CleanupInv
  <2>4. RunRemembers(rec)'
    BY <1>2, <2>1, RunsRemember
  <2>5. NoReleaseLeftBehind' /\ NoAnalysisLeftBehind'
    BY <1>2, <2>1, <2>2, NothingIsLeft
  <2>. QED  BY <2>2, <2>3, <2>4, <2>5 DEF CleanupInv
<1>. QED  BY <1>1, <1>2

(* A deletion's snapshot of its row is still what the row says when the     *)
(* deletion acts on it, but for a rename, which is final.                   *)
THEOREM SnapshotsStayTrue == Spec => []CleanupInv
BY InitCleanup, CleanupKeeps, Inductive, PTL DEF Spec

(* A removed row of a deployable project leaves no release of that project  *)
(* on the cluster, whatever deployed while the deletion ran.                *)
THEOREM NoReleaseSurvives == Spec => []NoReleaseLeftBehind
<1>1. CleanupInv => NoReleaseLeftBehind
  BY DEF CleanupInv
<1>. QED  BY <1>1, SnapshotsStayTrue, PTL

(* Nor an analysis of its deployed branch in SonarQube, when the row was    *)
(* registered under its project's path and kept that path to the end.       *)
THEOREM NoAnalysisSurvives == Spec => []NoAnalysisLeftBehind
<1>1. CleanupInv => NoAnalysisLeftBehind
  BY DEF CleanupInv
<1>. QED  BY <1>1, SnapshotsStayTrue, PTL

-----------------------------------------------------------------------------
(* Reconciliation.  listProjects reads one page: OnePage says that this is  *)
(* all there is, as it is while the instance has at most PageSize projects. *)
OnePage == IsFiniteSet(Listing) /\ Cardinality(Listing) <= PageSize

(* What the run still has to look at; the others it has found a row for.    *)
Awaited(x, g) ==
    \/ \E e \in x.list : e.gid = g /\ ToRegister(e)
    \/ x.pc = "insert" /\ x.gid = g
Settled(g) == Registered(g) \/ Gone(g)

Sweeping(x) == x.pc = "sweep" \/ (x.pc = "save" /\ x.back = "sweep")

RunInv ==
    /\ rec.pc # "idle" => \A g \in rec.live : Settled(g) \/ Awaited(rec, g)
    /\ Sweeping(rec) => rec.list = {}

(* A registered project stays registered until it is gone.                  *)
LEMMA SettledStays ==
    ASSUME IInv, IInv', RowsHold, EndingsHold, NEW g \in Gid, Settled(g)
    PROVE  Settled(g)'
<1>1. CASE Gone(g)
  BY <1>1 DEF EndingsHold, Ending, Gone, Settled
<1>2. CASE Registered(g)
  <2>1. PICK d \in Doc : Present(d) /\ rows[d].gid = g
    BY <1>2 DEF Registered
  <2>2. rows'[d].gid = g /\ rows'[d].st # "free" /\ rows'[d] \in Row
    BY <2>1 DEF RowsHold, Present, Used, IInv, TypeOK
  <2>3. CASE rows'[d].st = "removed"
    BY <2>2, <2>3 DEF IInv, RowsSound, RemovedMeansGone, Settled, Gone
  <2>4. CASE rows'[d].st # "removed"
    <3>1. rows'[d].st \in {"active", "archived"}
      BY <2>2, <2>4 DEF Row
    <3>. QED  BY <2>2, <3>1 DEF Settled, Registered, Present
  <2>. QED  BY <2>3, <2>4
<1>. QED  BY <1>1, <1>2 DEF Settled

LEMMA ListsAll == ASSUME OnePage, NEW l, l \subseteq Listing, Page(l) PROVE l = Listing
<1>1. Cardinality(Listing) \in Nat
  BY FS_CardinalityType DEF OnePage
<1>2. Cardinality(l) = Cardinality(Listing)
  BY <1>1, PageAssumption DEF OnePage, Page
<1>. QED  BY <1>2, FS_Subset DEF OnePage

(* A run that goes on leaves nobody out.                                    *)
Progresses(x, next) ==
    /\ x.pc # "idle" /\ next.live = x.live
    /\ \A g \in x.live : Awaited(x, g) => Awaited(next, g) \/ Settled(g)'
    /\ Sweeping(next) => next.list = {}

LEMMA RunProgresses ==
    ASSUME IInv, RunInv, Reconcile, ~ReconcileStart, rec' # IdleRec
    PROVE  Progresses(rec, rec')
<1>1. rec \in Run
  BY DEF IInv, TypeOK
<1>2. CASE ReconcileLooksUp
  <2>1. PICK e \in rec.list :
          \/ e.pending /\ \E d, n :
              rec' = [rec EXCEPT !.list = @ \ {e}, !.pc = "save", !.doc = d,
                          !.name = n, !.back = "scan"]
          \/ /\ ~ToRegister(e) \/ Registered(e.gid)
             /\ rec' = [rec EXCEPT !.list = @ \ {e}]
          \/ \E p, s : rec' = [rec EXCEPT !.list = @ \ {e}, !.pc = "insert", !.gid = e.gid,
                                !.path = p, !.slug = s]
    <3>1. PICK e \in rec.list :
            \/ e.pending /\ \E d \in Doc :
                rec' = [rec EXCEPT !.list = @ \ {e}, !.pc = "save", !.doc = d,
                            !.name = e.name, !.back = "scan"]
            \/ /\ InMetaGroup(e) \/ e.pending # Registered(e.gid)
               /\ rec' = [rec EXCEPT !.list = @ \ {e}]
            \/ \E p, s : rec' = [rec EXCEPT !.list = @ \ {e}, !.pc = "insert", !.gid = e.gid,
                                  !.path = p, !.slug = s]
      BY <1>2 DEF ReconcileLooksUp
    <3>2. e.pending \in BOOLEAN /\ Registered(e.gid) \in BOOLEAN
      BY <1>1 DEF Run, Listed, Registered
    <3>3. InMetaGroup(e) \/ e.pending # Registered(e.gid) => ~ToRegister(e) \/ Registered(e.gid)
      BY <3>2 DEF ToRegister
    <3>. QED  BY <3>1, <3>3
  <2>2. /\ rec.pc = "scan" /\ rows' = rows
        /\ e.pending \in BOOLEAN /\ Registered(e.gid) \in BOOLEAN
    BY <1>1, <1>2 DEF ReconcileLooksUp, Run, Listed, Registered
  <2>. DEFINE kept == rec.list \ {e}
  <2>. HIDE DEF kept
  <2>3. ASSUME NEW d, NEW n, rec' = [rec EXCEPT !.list = kept, !.pc = "save", !.doc = d,
                                        !.name = n, !.back = "scan"]
        PROVE  rec'.list = kept /\ rec'.live = rec.live /\ ~Sweeping(rec')
    BY <1>1, <2>3 DEF Run, Sweeping
  <2>4. ASSUME rec' = [rec EXCEPT !.list = kept]
        PROVE  rec'.list = kept /\ rec'.live = rec.live /\ ~Sweeping(rec')
    BY <1>1, <2>2, <2>4 DEF Run, Sweeping
  <2>5. ASSUME NEW p, NEW s, rec' = [rec EXCEPT !.list = kept, !.pc = "insert", !.gid = e.gid,
                                        !.path = p, !.slug = s]
        PROVE  /\ rec'.list = kept /\ rec'.live = rec.live /\ ~Sweeping(rec')
               /\ rec'.pc = "insert" /\ rec'.gid = e.gid
    BY <1>1, <2>5 DEF Run, Sweeping
  <2>6. /\ rec'.list = kept /\ rec'.live = rec.live /\ ~Sweeping(rec')
        /\ \/ ~ToRegister(e) \/ Registered(e.gid)
           \/ rec'.pc = "insert" /\ rec'.gid = e.gid
    BY <2>1, <2>2, <2>3, <2>4, <2>5 DEF kept, ToRegister
  <2>. QED  BY <2>2, <2>6 DEF Progresses, Awaited, Settled, Registered, Present, kept
<1>3. CASE ReconcileBackfills
  <2>1. /\ rec.pc = "insert" /\ rec' = [rec EXCEPT !.pc = "seed"]
        /\ \E d \in Doc : Insert(d, rec.gid, <<rec.path, None>>, rec.slug, rec.path, "none")
    BY <1>3 DEF ReconcileBackfills
  <2>2. rec'.list = rec.list /\ rec'.live = rec.live /\ rec'.pc = "seed"
    BY <1>1, <2>1 DEF Run
  <2>3. Settled(rec.gid)'
    <3>1. PICK d \in Doc : Insert(d, rec.gid, <<rec.path, None>>, rec.slug, rec.path, "none")
      BY <2>1
    <3>2. rows'[d].gid = rec.gid /\ rows'[d].st = "active"
      BY <3>1 DEF IInv, TypeOK, Insert, NewRow
    <3>3. rec'.gid = rec.gid
      BY <1>1, <2>1 DEF Run
    <3>. QED  BY <3>2, <3>3 DEF Settled, Registered, Present
  <2>. QED  BY <2>1, <2>2, <2>3 DEF Progresses, Awaited, Sweeping
<1>4. ASSUME NEW pc, NEW s, rec' = [rec EXCEPT !.pc = pc, !.sweep = s], rec.pc \notin {"idle", "insert"},
             pc = "scan" \/ (pc = "sweep" /\ rec.list = {})
      PROVE  Progresses(rec, rec')
  <2>1. rec'.list = rec.list /\ rec'.live = rec.live /\ rec'.pc = pc
    BY <1>1, <1>4 DEF Run
  <2>. QED  BY <1>4, <2>1 DEF Progresses, Awaited, Sweeping
<1>5. CASE ReconcileSeeds \/ ReconcileArchives
  <2>1. /\ rec.pc \in {"seed", "save"}
        /\ \E pc \in {"scan", "sweep"} :
              rec' = [rec EXCEPT !.pc = pc] /\ (pc = "sweep" => rec.list = {})
    BY <1>1, <1>5 DEF ReconcileSeeds, ReconcileArchives, Run, RunInv, Sweeping
  <2>2. PICK pc \in {"scan", "sweep"} :
              rec' = [rec EXCEPT !.pc = pc] /\ (pc = "sweep" => rec.list = {})
    BY <2>1
  <2>3. rec'.list = rec.list /\ rec'.live = rec.live /\ rec'.pc = pc
    BY <1>1, <2>2 DEF Run
  <2>. QED  BY <2>1, <2>2, <2>3 DEF Progresses, Awaited, Sweeping
<1>6. CASE ReconcileSweeps
  BY <1>4, <1>6 DEF ReconcileSweeps
<1>7. CASE ReconcileProbes
  <2>1. PICK d \in rec.sweep :
          \/ \E n : rec' = [rec EXCEPT !.sweep = @ \ {d}, !.pc = "save", !.doc = d,
                                       !.back = "sweep", !.name = n]
          \/ rec' = [rec EXCEPT !.sweep = @ \ {d}]
    BY <1>7 DEF ReconcileProbes
  <2>2. rec.pc = "sweep" /\ rec.list = {}
    BY <1>7 DEF ReconcileProbes, RunInv, Sweeping
  <2>3. rec'.list = rec.list /\ rec'.live = rec.live
    BY <1>1, <2>1 DEF Run
  <2>. QED  BY <2>2, <2>3 DEF Progresses, Awaited, Sweeping
<1>. QED
  BY <1>2, <1>3, <1>5, <1>6, <1>7 DEF Reconcile, ReconcileEnds, ReconcileThrows

LEMMA RunKept == IInv /\ IInv' /\ RunInv /\ OnePage /\ [Next]_vars => RunInv'
<1>. SUFFICES ASSUME IInv, IInv', RunInv, OnePage, [Next]_vars PROVE RunInv'
  OBVIOUS
<1>1. CASE UNCHANGED vars
  BY <1>1 DEF vars, RunInv, Settled, Registered, Present, Gone, Awaited, Sweeping
<1>2. CASE Next /\ rec' = rec
  <2>1. rec.live \subseteq Gid
    BY DEF IInv, TypeOK, Run
  <2>2. \A g \in rec.live : Settled(g) => Settled(g)'
    BY <1>2, <2>1, RowsStay, EndingsStay, SettledStays
  <2>. QED  BY <1>2, <2>2 DEF RunInv, Awaited, Sweeping
<1>3. CASE rec' = IdleRec
  BY <1>3 DEF RunInv, IdleRec, Sweeping
<1>4. CASE ReconcileStart
  <2>1. PICK l \in SUBSET Listing :
          /\ Page(l)
          /\ rec' = [IdleRec EXCEPT !.pc = "scan", !.list = l,
                      !.live = {e.gid : e \in {x \in Listing : ToRegister(x)}}]
    BY <1>4 DEF ReconcileStart
  <2>2. l = Listing
    BY <2>1, ListsAll
  <2>. DEFINE live == {e.gid : e \in {x \in Listing : ToRegister(x)}}
  <2>3. \A g \in live : \E e \in l : e.gid = g /\ ToRegister(e)
    BY <2>2
  <2>. HIDE DEF live
  <2>4. rec'.list = l /\ rec'.live = live /\ rec'.pc = "scan"
    BY <2>1 DEF IdleRec, live
  <2>. QED  BY <2>3, <2>4 DEF RunInv, Awaited, Sweeping
<1>5. CASE Reconcile /\ ~ReconcileStart /\ rec' # IdleRec
  <2>1. Progresses(rec, rec')
    BY <1>5, RunProgresses
  <2>2. rec.live \subseteq Gid
    BY DEF IInv, TypeOK, Run
  <2>3. \A g \in rec.live : Settled(g) => Settled(g)'
    BY <1>5, <2>2, RowsStay, EndingsStay, SettledStays DEF Next
  <2>. QED  BY <2>1, <2>3 DEF Progresses, RunInv, Awaited, Sweeping
<1>. QED  BY <1>1, <1>2, <1>3, <1>4, <1>5, OnlyTheRunMoves

(* When GitLab's projects fit in the page that listProjects asks for, every *)
(* project that was live at a run's start, but for those of the template    *)
(* and config groups, has a row when the run ends, or is gone: whatever was *)
(* registered, deleted or renamed meanwhile.                                *)
THEOREM ReconcileLeavesNobodyOut == Spec /\ []OnePage => ReconcileFindsEveryProject
<1>1. Init => RunInv
  BY DEF Init, RunInv, IdleRec, Sweeping
<1>2. RunInv /\ [Next]_vars =>
        [ReconcileEnds => \A g \in rec.live : Registered(g) \/ gitlab[g].st = "gone"]_vars
  BY DEF RunInv, ReconcileEnds, Awaited, Sweeping, Settled, Gone
<1>. QED  BY <1>1, <1>2, RunKept, Inductive, PTL DEF Spec, ReconcileFindsEveryProject

=============================================================================
