------------------------ MODULE ProjectRegistryProofs ------------------------
(***************************************************************************)
(* Theorems about ProjectRegistry, for any requests, projects, documents,  *)
(* paths, page size and any choice of enabled operations.                  *)
(***************************************************************************)
EXTENDS ProjectRegistry, TLAPS

-----------------------------------------------------------------------------
(* The inductive invariant.                                                 *)

Creating == {"c_gitlab", "c_vault", "c_child", "c_wire", "c_insert"}
Owning == {"c_vault", "c_child", "c_wire", "c_insert", "s_save", "s_token",
           "s_ci", "r_insert", "r_vault", "r_child", "r_wire"}
Inserted == {"s_save", "s_token", "s_ci", "r_vault", "r_child", "r_wire"}
Deleting == {"d_k8s", "d_vault", "d_sonar", "d_gitlab", "p_gitlab", "p_k8s",
             "p_vault", "p_sonar", "d_audit", "d_remove", "d_archive"}
PastGitLab == {"p_k8s", "p_vault", "p_sonar", "d_audit", "d_remove"}

Begun(g) == gitlab[g].st # "unused"
Used(d) == rows[d].st # "free"

ProjectsHavePaths == \A g \in Gid : Begun(g) => gitlab[g].path \in Path

RowsHaveProjects ==
    \A d \in Doc : Used(d) => rows[d].gid \in Gid /\ Begun(rows[d].gid)

(* What a request carries at each of its steps.                             *)
Fits(q) ==
    /\ q.pc \in Creating \cup Owning => q.path \in Path /\ q.slug \in Slug
    /\ q.pc \in Owning => q.gid \in Gid /\ Begun(q.gid)
    /\ q.pc \in Inserted => q.doc \in Doc /\ Used(q.doc)
    /\ q.pc \in Deleting => /\ q.doc \in Doc /\ Used(q.doc)
                            /\ q.gid \in Gid /\ rows[q.doc].gid = q.gid
    /\ q.pc \in PastGitLab => gitlab[q.gid].st = "gone"
    /\ q.pc = "d_remove" => q.doc \in audited

RequestsFit == \A r \in Req : Fits(reqs[r])

(* And the reconciliation run at each of its own.                           *)
RunFits(x) ==
    /\ \A e \in x.list : Begun(e.gid)
    /\ \A d \in x.sweep : Used(d)
    /\ x.pc \in {"insert", "seed"} =>
          /\ x.gid \in Gid /\ Begun(x.gid)
          /\ x.path \in Path /\ x.slug \in Slug
    /\ x.pc = "save" => x.doc \in Doc /\ Used(x.doc) /\ x.name \in Name

(* What the unique indexes of project.schema.ts keep apart; the inductive   *)
(* step needs it, and so does the ledger, where a project is entered once.  *)
UniqueIndexes ==
    \A d, e \in Doc : d # e /\ Present(d) /\ Present(e) =>
        /\ rows[d].gid # rows[e].gid
        /\ rows[d].name # rows[e].name
        /\ rows[d].slug # rows[e].slug

(* The properties of the rows themselves.                                   *)
RowsSound ==
    RowsHaveProjects /\ UniqueIndexes /\ RemovedMeansGone /\ DeletionIsAudited

IInv ==
    /\ TypeOK
    /\ ProjectsHavePaths
    /\ RowsSound
    /\ RequestsFit
    /\ RunFits(rec)

-----------------------------------------------------------------------------
(* What no step ever takes back.                                            *)
Grows ==
    /\ \A g \in Gid : Begun(g) => Begun(g)' /\ gitlab'[g].path = gitlab[g].path
    /\ \A g \in Gid : gitlab[g].st = "gone" => gitlab'[g].st = "gone"
    /\ \A d \in Doc : Used(d) => Used(d)' /\ rows'[d].gid = rows[d].gid
    /\ audited \subseteq audited'

LEMMA SlugTyping ==
    ASSUME NEW p \in Path
    PROVE  /\ PlainSlug(p) \in Slug
           /\ HashedSlug(p) \in Slug
           /\ \A g \in Gid : IdSlug(p, g) \in Slug
BY LeafAssumption DEF PlainSlug, HashedSlug, IdSlug, Slug

LEMMA NameTyping ==
    ASSUME IInv, NEW g \in Gid, Begun(g)
    PROVE  PathWithNamespace(g) \in Name
BY DEF IInv, TypeOK, GitLabProject, ProjectsHavePaths, Begun, PathWithNamespace, Name

LEMMA FreshTyping ==
    /\ FreeRow \in Row
    /\ IdleReq \in Request
    /\ IdleRec \in Run
    /\ UnusedProject \in GitLabProject
BY DEF FreeRow, Row, IdleReq, Request, PCs, IdleRec, Run, UnusedProject, GitLabProject

(* What a request or the run carries stays true while it takes no step.     *)
LEMMA RequestKeeps ==
    ASSUME Grows, NEW q, Fits(q), q \in Request
    PROVE  Fits(q)'
BY DEF Grows, Fits, Creating, Owning, Inserted, Deleting, PastGitLab, Begun, Used

LEMMA RunKeeps ==
    ASSUME Grows, NEW x, RunFits(x), x \in Run
    PROVE  RunFits(x)'
<1>1. x.list \subseteq Listed /\ x.sweep \subseteq Doc
  BY DEF Run
<1>2. \A e \in x.list : e.gid \in Gid
  BY <1>1 DEF Listed
<1>3. QED
  BY <1>1, <1>2 DEF Grows, RunFits, Begun, Used

LEMMA IdleFits == Fits(IdleReq) /\ RunFits(IdleRec)
BY DEF Fits, IdleReq, Creating, Owning, Inserted, Deleting, PastGitLab,
       RunFits, IdleRec

LEMMA InitIInv == Init => IInv
<1> SUFFICES ASSUME Init PROVE IInv
  OBVIOUS
<1>1. TypeOK
  BY FreshTyping DEF Init, TypeOK
<1>2. ProjectsHavePaths
  BY DEF Init, ProjectsHavePaths, Begun, UnusedProject
<1>3. RowsSound
  BY DEF Init, RowsSound, RowsHaveProjects, UniqueIndexes, RemovedMeansGone,
         DeletionIsAudited, Used, Present, FreeRow
<1>4. RequestsFit /\ RunFits(rec)
  BY IdleFits DEF Init, RequestsFit
<1>5. QED
  BY <1>1, <1>2, <1>3, <1>4 DEF IInv

-----------------------------------------------------------------------------
(* Steps by what they touch.  First, what leaves the rows alone.            *)

LEMMA RowsKept ==
    ASSUME IInv, Grows, rows' = rows
    PROVE  RowsSound'
<1>1. RowsHaveProjects'
  BY DEF IInv, RowsSound, RowsHaveProjects, Grows, Used
<1>2. UniqueIndexes'
  BY DEF IInv, RowsSound, UniqueIndexes, Present
<1>3. RemovedMeansGone'
  BY DEF IInv, RowsSound, RowsHaveProjects, RemovedMeansGone, Grows, Used
<1>4. DeletionIsAudited'
  BY DEF IInv, RowsSound, DeletionIsAudited, Grows
<1>5. QED
  BY <1>1, <1>2, <1>3, <1>4 DEF RowsSound

LEMMA Quiet ==
    ASSUME IInv, UNCHANGED <<gitlab, rows>>, audited \subseteq audited'
    PROVE  Grows /\ ProjectsHavePaths' /\ RowsSound'
<1>1. Grows
  BY DEF Grows, Begun, Used
<1>2. ProjectsHavePaths'
  BY DEF IInv, ProjectsHavePaths, Begun
<1>3. QED
  BY <1>1, <1>2, RowsKept

(* GitLab moves on: no project is forgotten, none comes back.               *)
LifeGoesOn ==
    /\ gitlab' \in [Gid -> GitLabProject]
    /\ \A g \in Gid : Begun(g) =>
            gitlab'[g].st # "unused" /\ gitlab'[g].path = gitlab[g].path
    /\ \A g \in Gid : gitlab[g].st = "gone" => gitlab'[g].st = "gone"
    /\ \A g \in Gid : gitlab'[g].st # "unused" => gitlab'[g].path \in Path

LEMMA GitLabMoves ==
    ASSUME IInv, LifeGoesOn, UNCHANGED <<rows, audited>>
    PROVE  Grows /\ ProjectsHavePaths' /\ RowsSound'
<1>1. Grows
  BY DEF LifeGoesOn, Grows, Begun, Used
<1>2. ProjectsHavePaths'
  BY DEF LifeGoesOn, ProjectsHavePaths, Begun
<1>3. QED
  BY <1>1, <1>2, RowsKept

(* One request moves on, the rest of the requests and the run wait.         *)
LEMMA OneMoves ==
    ASSUME IInv, Grows, NEW r \in Req, NEW q \in Request, Fits(q)',
           reqs' = [reqs EXCEPT ![r] = q], rec' = rec
    PROVE  (reqs \in [Req -> Request] /\ RequestsFit /\ rec \in Run /\ RunFits(rec))'
<1>1. reqs \in [Req -> Request] /\ rec \in Run /\ RequestsFit /\ RunFits(rec)
  BY DEF IInv, TypeOK
<1>2. reqs' \in [Req -> Request]
  BY <1>1
<1>3. ASSUME NEW s \in Req PROVE Fits(reqs[s])'
  <2>1. CASE s = r
    <3>1. reqs'[s] = q
      BY <2>1, <1>1
    <3>2. QED
      BY <3>1 DEF Fits, Begun, Used
  <2>2. CASE s # r
    <3>1. reqs'[s] = reqs[s] /\ reqs[s] \in Request /\ Fits(reqs[s])
      BY <2>2, <1>1 DEF RequestsFit
    <3>2. \A x \in Request : Fits(x) => Fits(x)'
      BY RequestKeeps
    <3>3. QED
      BY <3>1, <3>2 DEF Fits, Begun, Used
  <2>3. QED
    BY <2>1, <2>2
<1>4. RequestsFit'
  BY <1>3 DEF RequestsFit
<1>5. RunFits(rec)'
  <2>1. \A x \in Run : RunFits(x) => RunFits(x)'
    BY RunKeeps
  <2>2. QED
    BY <2>1, <1>1 DEF RunFits, Begun, Used
<1>6. QED
  BY <1>1, <1>2, <1>4, <1>5

(* Everything waits: only the outside moved.                                *)
LEMMA NoneMoves ==
    ASSUME IInv, Grows, UNCHANGED <<reqs, rec>>
    PROVE  (reqs \in [Req -> Request] /\ RequestsFit /\ rec \in Run /\ RunFits(rec))'
<1>1. reqs \in [Req -> Request] /\ rec \in Run /\ RequestsFit /\ RunFits(rec)
  BY DEF IInv, TypeOK
<1>2. ASSUME NEW s \in Req PROVE Fits(reqs[s])'
  <2>1. \A x \in Request : Fits(x) => Fits(x)'
    BY RequestKeeps
  <2>2. QED
    BY <1>1, <2>1 DEF RequestsFit, Fits, Begun, Used
<1>3. RunFits(rec)'
  <2>1. \A x \in Run : RunFits(x) => RunFits(x)'
    BY RunKeeps
  <2>2. QED
    BY <2>1, <1>1 DEF RunFits, Begun, Used
<1>4. QED
  BY <1>1, <1>2, <1>3 DEF RequestsFit

(* The run moves on, the requests wait.                                     *)
LEMMA RunMoves ==
    ASSUME IInv, Grows, NEW x \in Run, RunFits(x)', rec' = x, reqs' = reqs
    PROVE  (reqs \in [Req -> Request] /\ RequestsFit /\ rec \in Run /\ RunFits(rec))'
<1>1. reqs \in [Req -> Request] /\ RequestsFit
  BY DEF IInv, TypeOK
<1>2. ASSUME NEW s \in Req PROVE Fits(reqs[s])'
  <2>1. \A y \in Request : Fits(y) => Fits(y)'
    BY RequestKeeps
  <2>2. QED
    BY <1>1, <2>1 DEF RequestsFit, Fits, Begun, Used
<1>3. RunFits(rec)'
  BY DEF RunFits, Begun, Used
<1>4. QED
  BY <1>1, <1>2, <1>3 DEF RequestsFit

(* One row moves on and stays sound.                                        *)
LEMMA RowMoves ==
    ASSUME IInv, UNCHANGED <<gitlab, audited>>, NEW d \in Doc, NEW w \in Row,
           rows' = [rows EXCEPT ![d] = w],
           w.st # "free",
           Used(d) => w.gid = rows[d].gid,
           w.gid \in Gid, Begun(w.gid),
           w.st \in {"active", "archived"} =>
              \A e \in Doc \ {d} : Present(e) =>
                 w.gid # rows[e].gid /\ w.name # rows[e].name /\ w.slug # rows[e].slug,
           w.st = "removed" => gitlab[w.gid].st = "gone" /\ d \in audited
    PROVE  Grows /\ ProjectsHavePaths' /\ RowsSound' /\ rows' \in [Doc -> Row]
<1>1. rows \in [Doc -> Row] /\ rows' \in [Doc -> Row]
  BY DEF IInv, TypeOK
<1>2. rows'[d] = w /\ \A e \in Doc \ {d} : rows'[e] = rows[e]
  BY <1>1
<1>3. Grows
  BY <1>2 DEF Grows, Begun, Used
<1>4. ProjectsHavePaths'
  BY DEF IInv, ProjectsHavePaths, Begun
<1>5. RowsHaveProjects'
  BY <1>2 DEF IInv, RowsSound, RowsHaveProjects, Begun, Used
<1>6. UniqueIndexes'
  BY <1>2 DEF IInv, RowsSound, UniqueIndexes, Present
<1>7. RemovedMeansGone' /\ DeletionIsAudited'
  BY <1>2 DEF IInv, RowsSound, RemovedMeansGone, DeletionIsAudited
<1>8. QED
  BY <1>1, <1>3, <1>4, <1>5, <1>6, <1>7 DEF RowsSound

(* The resources of the platform are of the right type after every step.    *)
PlatformOK ==
    /\ vault \subseteq Path
    /\ k8s \subseteq Slug \X Gid
    /\ sonar \subseteq Name \X Gid

(* A request steps that changes at most the platform's resources.           *)
LEMMA Moves ==
    ASSUME IInv, NEW r \in Req, NEW q \in Request, Fits(q),
           reqs' = [reqs EXCEPT ![r] = q],
           UNCHANGED <<gitlab, rows, audited, rec>>, PlatformOK'
    PROVE  IInv'
<1>1. Grows /\ ProjectsHavePaths' /\ RowsSound'
  BY Quiet
<1>2. Fits(q)'
  BY <1>1, RequestKeeps
<1>3. (reqs \in [Req -> Request] /\ RequestsFit /\ rec \in Run /\ RunFits(rec))'
  BY <1>1, <1>2, OneMoves
<1>4. TypeOK'
  BY <1>3 DEF IInv, TypeOK, PlatformOK
<1>5. QED
  BY <1>1, <1>3, <1>4 DEF IInv

(* A request returns, having changed at most the platform's resources.      *)
LEMMA Returns ==
    ASSUME IInv, NEW r \in Req, Return(r),
           UNCHANGED <<gitlab, rows, audited, rec>>, PlatformOK'
    PROVE  IInv'
BY Moves, FreshTyping, IdleFits DEF Return

(* A request goes on to a step that asks no more of it than the last one.   *)
LEMMA Goes ==
    ASSUME IInv, NEW r \in Req, NEW pc \in PCs, Goto(r, pc),
           Fits([reqs[r] EXCEPT !.pc = pc]),
           UNCHANGED <<gitlab, rows, audited, rec>>, PlatformOK'
    PROVE  IInv'
<1> DEFINE q == [reqs[r] EXCEPT !.pc = pc]
<1>1. q \in Request
  BY DEF IInv, TypeOK, Request
<1>2. reqs' = [reqs EXCEPT ![r] = q]
  BY DEF IInv, TypeOK, Goto
<1>3. QED
  BY <1>1, <1>2, Moves

-----------------------------------------------------------------------------
(* createProject and what it shares with registerGitLabProject.             *)

LEMMA CreateStartKeeps == ASSUME IInv, NEW r \in Req, CreateStart(r) PROVE IInv'
<1>1. PICK p \in Path, deploy \in BOOLEAN, scan \in BOOLEAN, s \in Slug :
        reqs' = [reqs EXCEPT ![r] = [IdleReq EXCEPT
                !.pc = "c_gitlab", !.path = p, !.slug = s,
                !.deploy = deploy, !.scan = scan]]
  <2>1. DeployInputs \subseteq BOOLEAN /\ ScanInputs \subseteq BOOLEAN
    BY DEF DeployInputs, ScanInputs
  <2>2. QED
    BY <2>1, Zenon DEF CreateStart
<1> DEFINE q == [IdleReq EXCEPT !.pc = "c_gitlab", !.path = p, !.slug = s,
                                !.deploy = deploy, !.scan = scan]
<1>2. q \in Request
  BY FreshTyping DEF Request, PCs
<1>3. Fits(q)
  BY DEF Fits, IdleReq, Creating, Owning, Inserted, Deleting, PastGitLab
<1>4. PlatformOK'
  BY DEF CreateStart, platform, PlatformOK, IInv, TypeOK
<1>5. QED
  BY <1>1, <1>2, <1>3, <1>4, Moves DEF CreateStart

LEMMA CreateInGitLabKeeps ==
    ASSUME IInv, NEW r \in Req, CreateInGitLab(r) PROVE IInv'
<1>1. reqs[r] \in Request /\ Fits(reqs[r]) /\ reqs[r].path \in Path
  BY DEF IInv, TypeOK, RequestsFit, Fits, CreateInGitLab, At, Creating
<1>2. PlatformOK'
  BY DEF CreateInGitLab, platform, PlatformOK, IInv, TypeOK
<1>3. CASE Return(r) /\ UNCHANGED gitlab
  BY <1>2, <1>3, Returns DEF CreateInGitLab
<1>4. ASSUME NEW g \in Gid, GitLabCreate(g, reqs[r].path),
             reqs' = [reqs EXCEPT ![r].pc = "c_vault", ![r].gid = g]
      PROVE  IInv'
  <2> DEFINE next == [reqs[r] EXCEPT !.pc = "c_vault", !.gid = g]
  <2>0. next \in Request /\ reqs' = [reqs EXCEPT ![r] = next]
    BY <1>1, <1>4 DEF IInv, TypeOK, Request, PCs
  <2>1. PICK q \in Request : q = next /\ reqs' = [reqs EXCEPT ![r] = q]
    BY <2>0
  <2>2. LifeGoesOn
    BY <1>1, <1>4 DEF IInv, TypeOK, LifeGoesOn, GitLabCreate, GitLabProject,
       ProjectsHavePaths, Begun
  <2>3. Grows /\ ProjectsHavePaths' /\ RowsSound'
    BY <2>2, GitLabMoves DEF CreateInGitLab
  <2>4. gitlab'[g].st = "live"
    BY <1>4 DEF IInv, TypeOK, GitLabCreate, GitLabProject
  <2>5. Fits(q)'
    BY <1>1, <2>1, <2>4 DEF Fits, Request, CreateInGitLab, At, Creating, Owning, Inserted,
       Deleting, PastGitLab, Begun
  <2>6. (reqs \in [Req -> Request] /\ RequestsFit /\ rec \in Run /\ RunFits(rec))'
    BY <2>1, <2>3, <2>5, OneMoves DEF CreateInGitLab
  <2>7. TypeOK'
    BY <1>2, <2>2, <2>6 DEF IInv, TypeOK, PlatformOK, CreateInGitLab, LifeGoesOn
  <2>8. QED
    BY <2>3, <2>6, <2>7 DEF IInv
<1>5. QED
  BY <1>3, <1>4 DEF CreateInGitLab

LEMMA CreateSeedsBaseKeeps ==
    ASSUME IInv, NEW r \in Req, CreateSeedsBase(r) PROVE IInv'
<1>1. reqs[r] \in Request /\ Fits(reqs[r]) /\ At(r, "c_vault")
  BY DEF IInv, TypeOK, RequestsFit, CreateSeedsBase
<1>2. PlatformOK'
  BY <1>1 DEF CreateSeedsBase, PlatformOK, IInv, TypeOK, Fits, At, Creating
<1>3. Fits([reqs[r] EXCEPT !.pc = "c_child"])
  BY <1>1 DEF Fits, Request, At, Creating, Owning, Inserted, Deleting, PastGitLab
<1>4. QED
  BY <1>2, <1>3, Goes DEF CreateSeedsBase, PCs

LEMMA CreateSeedsTargetsKeeps ==
    ASSUME IInv, NEW r \in Req, CreateSeedsTargets(r) PROVE IInv'
<1>1. reqs[r] \in Request /\ Fits(reqs[r]) /\ At(r, "c_child")
  BY DEF IInv, TypeOK, RequestsFit, CreateSeedsTargets
<1>2. PlatformOK'
  BY <1>1 DEF CreateSeedsTargets, PlatformOK, IInv, TypeOK, Fits, At, Creating
<1>3. Fits([reqs[r] EXCEPT !.pc = "c_wire"])
  BY <1>1 DEF Fits, Request, At, Creating, Owning, Inserted, Deleting, PastGitLab
<1>4. QED
  BY <1>2, <1>3, Goes DEF CreateSeedsTargets, PCs

(* A request goes on, and only flags of one GitLab project change.          *)
LEMMA Wires ==
    ASSUME IInv, NEW r \in Req, NEW q \in Request, Fits(q),
           reqs' = [reqs EXCEPT ![r] = q],
           NEW g \in Gid, NEW w \in Slug \cup {None}, NEW c \in BOOLEAN,
           gitlab' = [gitlab EXCEPT ![g].wired = w, ![g].scan = c],
           UNCHANGED <<platform, rows, audited, rec>>
    PROVE  IInv'
<1>1. LifeGoesOn
  <2>1. gitlab \in [Gid -> GitLabProject]
    BY DEF IInv, TypeOK
  <2>2. gitlab' \in [Gid -> GitLabProject]
    BY <2>1 DEF GitLabProject
  <2>3. \A h \in Gid : gitlab'[h].st = gitlab[h].st
                     /\ gitlab'[h].path = gitlab[h].path
    BY <2>1 DEF GitLabProject
  <2>4. QED
    BY <2>2, <2>3 DEF IInv, LifeGoesOn, ProjectsHavePaths, Begun
<1>2. Grows /\ ProjectsHavePaths' /\ RowsSound'
  BY <1>1, GitLabMoves
<1>3. Fits(q)'
  BY <1>2, RequestKeeps
<1>4. (reqs \in [Req -> Request] /\ RequestsFit /\ rec \in Run /\ RunFits(rec))'
  BY <1>2, <1>3, OneMoves
<1>5. TypeOK'
  BY <1>1, <1>4 DEF IInv, TypeOK, platform, LifeGoesOn
<1>6. QED
  BY <1>2, <1>4, <1>5 DEF IInv

LEMMA CreateWiresKeeps ==
    ASSUME IInv, NEW r \in Req, CreateWires(r) PROVE IInv'
<1>1. reqs[r] \in Request /\ Fits(reqs[r]) /\ At(r, "c_wire")
  BY DEF IInv, TypeOK, RequestsFit, CreateWires
<1>2. CASE Exists(reqs[r].gid)
  <2> DEFINE q == [reqs[r] EXCEPT !.pc = "c_insert"]
             g == reqs[r].gid
             w == IF reqs[r].deploy THEN reqs[r].slug ELSE None
             c == gitlab[g].scan
  <2>1. q \in Request /\ reqs' = [reqs EXCEPT ![r] = q]
    BY <1>1, <1>2 DEF IInv, TypeOK, Request, PCs, CreateWires, Goto
  <2>2. Fits(q) /\ g \in Gid /\ w \in Slug \cup {None}
    BY <1>1 DEF Fits, Request, At, Creating, Owning, Inserted, Deleting, PastGitLab
  <2>3. c \in BOOLEAN
    BY <2>2 DEF IInv, TypeOK, GitLabProject
  <2>4. gitlab' = [gitlab EXCEPT ![g].wired = w]
    BY <1>2 DEF CreateWires
  <2>5. gitlab' = [gitlab EXCEPT ![g].wired = w, ![g].scan = c]
    BY <2>2, <2>4 DEF IInv, TypeOK, GitLabProject
  <2> HIDE DEF q, g, w, c
  <2>6. QED
    BY <2>1, <2>2, <2>3, <2>5, Wires DEF CreateWires
<1>3. CASE ~Exists(reqs[r].gid)
  <2>1. PlatformOK' /\ Return(r)
    BY <1>3 DEF CreateWires, platform, PlatformOK, IInv, TypeOK
  <2>2. QED
    BY <1>3, <2>1, Returns DEF CreateWires
<1>4. QED
  BY <1>2, <1>3

LEMMA Inserts ==
    ASSUME IInv, UNCHANGED <<gitlab, audited>>,
           NEW d \in Doc, NEW g \in Gid, Begun(g), NEW p \in Path,
           NEW s \in Slug, NEW t \in {"none", "disabled", "enabled"},
           Insert(d, g, <<p, None>>, s, p, t)
    PROVE  /\ Grows /\ ProjectsHavePaths' /\ RowsSound' /\ rows' \in [Doc -> Row]
           /\ Used(d)'
<1> DEFINE w == NewRow(g, <<p, None>>, s, p, t)
<1>1. w \in Row /\ w.st = "active" /\ w.gid = g /\ w.slug = s /\ w.name = <<p, None>>
  BY DEF NewRow, Row, Name
<1>2. rows' = [rows EXCEPT ![d] = w] /\ rows[d].st = "free"
      /\ IndexesAllow(d, g, <<p, None>>, s)
  BY DEF Insert, Insertable
<1> HIDE DEF w
<1>3. Grows /\ ProjectsHavePaths' /\ RowsSound' /\ rows' \in [Doc -> Row]
  BY <1>1, <1>2, RowMoves DEF IndexesAllow, Used
<1>4. rows'[d] = w
  BY <1>2 DEF IInv, TypeOK
<1>5. QED
  BY <1>1, <1>3, <1>4 DEF Used

(* A request steps together with a sound change of the rows.                *)
LEMMA RowStep ==
    ASSUME IInv, NEW r \in Req, NEW q \in Request, Fits(q)',
           reqs' = [reqs EXCEPT ![r] = q],
           Grows, ProjectsHavePaths', RowsSound', rows' \in [Doc -> Row],
           UNCHANGED <<gitlab, platform, audited, rec>>
    PROVE  IInv'
<1>1. (reqs \in [Req -> Request] /\ RequestsFit /\ rec \in Run /\ RunFits(rec))'
  BY OneMoves
<1>2. TypeOK'
  BY <1>1 DEF IInv, TypeOK, platform
<1>3. QED
  BY <1>1, <1>2 DEF IInv

LEMMA RowStepReturns ==
    ASSUME IInv, NEW r \in Req, Return(r),
           Grows, ProjectsHavePaths', RowsSound', rows' \in [Doc -> Row],
           UNCHANGED <<gitlab, platform, audited, rec>>
    PROVE  IInv'
<1>1. IdleReq \in Request /\ Fits(IdleReq)'
  BY FreshTyping, IdleFits, RequestKeeps
<1>2. QED
  BY <1>1, RowStep DEF Return

(* A request whose row is in goes on with the document it got.              *)
LEMMA InsertGoes ==
    ASSUME IInv, NEW r \in Req, reqs[r].pc \in {"c_insert", "r_insert"},
           NEW d \in Doc, NEW pc \in {"s_save", "r_vault"},
           reqs' = [reqs EXCEPT ![r].pc = pc, ![r].doc = d],
           Used(d)', Grows, ProjectsHavePaths', RowsSound', rows' \in [Doc -> Row],
           UNCHANGED <<gitlab, platform, audited, rec>>
    PROVE  IInv'
<1>1. reqs[r] \in Request /\ Fits(reqs[r]) /\ reqs \in [Req -> Request]
  BY DEF IInv, TypeOK, RequestsFit
<1> DEFINE next == [reqs[r] EXCEPT !.pc = pc, !.doc = d]
<1>2. next \in Request /\ reqs' = [reqs EXCEPT ![r] = next]
  BY <1>1 DEF Request, PCs
<1>3. PICK q \in Request : q = next /\ reqs' = [reqs EXCEPT ![r] = q]
  BY <1>2
<1>4. Fits(q)'
  BY <1>1, <1>3 DEF Fits, Request, Creating, Owning, Inserted, Deleting,
     PastGitLab, Begun
<1>5. QED
  BY <1>3, <1>4, RowStep

LEMMA CreateInsertsKeeps ==
    ASSUME IInv, NEW r \in Req, CreateInserts(r) PROVE IInv'
<1> DEFINE q == reqs[r]
           n == <<q.path, None>>
<1>1. q.path \in Path /\ q.slug \in Slug /\ q.gid \in Gid /\ Begun(q.gid)
      /\ q.deploy \in BOOLEAN /\ q.pc = "c_insert"
  BY DEF IInv, TypeOK, Request, RequestsFit, Fits, CreateInserts, At, Owning, Creating
<1>2. PlatformOK'
  BY DEF CreateInserts, platform, PlatformOK, IInv, TypeOK
<1>3. CASE Return(r) /\ UNCHANGED rows
  BY <1>2, <1>3, Returns DEF CreateInserts
<1>4. ASSUME NEW d \in Doc,
             Insert(d, q.gid, n, q.slug, q.path, TargetsFor(q.deploy)),
             IF q.scan THEN reqs' = [reqs EXCEPT ![r].pc = "s_save", ![r].doc = d]
                       ELSE Return(r)
      PROVE  IInv'
  <2>1. TargetsFor(q.deploy) \in {"none", "disabled", "enabled"}
    BY DEF TargetsFor
  <2>2. /\ Grows /\ ProjectsHavePaths' /\ RowsSound' /\ rows' \in [Doc -> Row]
        /\ Used(d)'
    BY <1>1, <1>4, <2>1, Inserts DEF CreateInserts
  <2>3. CASE q.scan
    BY <1>1, <1>4, <2>2, <2>3, InsertGoes DEF CreateInserts
  <2>4. CASE ~q.scan
    BY <1>4, <2>2, <2>4, RowStepReturns DEF CreateInserts
  <2>5. QED
    BY <2>3, <2>4
<1>5. QED
  BY <1>3, <1>4 DEF CreateInserts

-----------------------------------------------------------------------------
(* updateProjectSonarConfig.                                                *)

LEMMA SonarSavesKeeps ==
    ASSUME IInv, NEW r \in Req, SonarSaves(r) PROVE IInv'
<1>1. /\ reqs[r] \in Request /\ Fits(reqs[r]) /\ reqs \in [Req -> Request]
      /\ reqs[r].pc = "s_save" /\ rows \in [Doc -> Row]
  BY DEF IInv, TypeOK, RequestsFit, SonarSaves, At
<1>2. PlatformOK'
  BY DEF SonarSaves, platform, PlatformOK, IInv, TypeOK
<1>3. CASE Return(r) /\ UNCHANGED rows
  BY <1>2, <1>3, Returns DEF SonarSaves
<1>4. CASE Present(reqs[r].doc)
  <2> DEFINE next == [reqs[r] EXCEPT !.pc = "s_token"]
             d == reqs[r].doc
             w == [rows[d] EXCEPT !.scan = TRUE]
  <2>1. next \in Request /\ reqs' = [reqs EXCEPT ![r] = next]
    BY <1>1, <1>4 DEF Request, PCs, SonarSaves, Goto
  <2>2. PICK q \in Request : q = next /\ reqs' = [reqs EXCEPT ![r] = q]
    BY <2>1
  <2>3. d \in Doc
    BY <1>1 DEF Fits, Inserted
  <2>4. w \in Row /\ rows' = [rows EXCEPT ![d] = w]
    <3>1. rows' = [rows EXCEPT ![d].scan = TRUE]
      BY <1>4 DEF SonarSaves
    <3>2. rows[d] \in Row
      BY <1>1, <2>3
    <3>3. w \in Row
      BY <3>2 DEF Row
    <3>4. QED
      BY <1>1, <2>3, <3>1, <3>3
  <2>5. /\ w.st = rows[d].st /\ w.gid = rows[d].gid
        /\ w.name = rows[d].name /\ w.slug = rows[d].slug
    BY <1>1, <2>3 DEF Row
  <2> HIDE DEF w
  <2>6. w.gid \in Gid /\ Begun(w.gid) /\ w.st \in {"active", "archived"}
    BY <1>4, <2>3, <2>5 DEF IInv, RowsSound, RowsHaveProjects, Used, Present
  <2>7. \A e \in Doc \ {d} : Present(e) =>
            w.gid # rows[e].gid /\ w.name # rows[e].name /\ w.slug # rows[e].slug
    BY <1>4, <2>3, <2>5 DEF IInv, RowsSound, UniqueIndexes
  <2>8. Grows /\ ProjectsHavePaths' /\ RowsSound' /\ rows' \in [Doc -> Row]
    BY <2>3, <2>4, <2>5, <2>6, <2>7, RowMoves DEF SonarSaves
  <2>9. Fits(q)
    BY <1>1, <2>2 DEF Fits, Request, Creating, Owning, Inserted, Deleting, PastGitLab
  <2>10. Fits(q)'
    BY <2>8, <2>9, RequestKeeps
  <2>11. QED
    BY <2>2, <2>8, <2>10, RowStep DEF SonarSaves
<1>5. QED
  BY <1>3, <1>4 DEF SonarSaves

LEMMA SonarStoresTokenKeeps ==
    ASSUME IInv, NEW r \in Req, SonarStoresToken(r) PROVE IInv'
<1>1. reqs[r] \in Request /\ Fits(reqs[r]) /\ At(r, "s_token")
  BY DEF IInv, TypeOK, RequestsFit, SonarStoresToken
<1>2. PlatformOK'
  BY <1>1 DEF SonarStoresToken, PlatformOK, IInv, TypeOK, Fits, At, Owning
<1>3. Fits([reqs[r] EXCEPT !.pc = "s_ci"])
  BY <1>1 DEF Fits, Request, At, Creating, Owning, Inserted, Deleting, PastGitLab
<1>4. QED
  BY <1>2, <1>3, Goes DEF SonarStoresToken, PCs

LEMMA SonarSetsCiKeeps ==
    ASSUME IInv, NEW r \in Req, SonarSetsCi(r) PROVE IInv'
<1>1. reqs[r].gid \in Gid
  BY DEF IInv, RequestsFit, Fits, SonarSetsCi, At, Owning
<1>2. CASE Exists(reqs[r].gid)
  <2> DEFINE g == reqs[r].gid
  <2>1. gitlab' = [gitlab EXCEPT ![g].scan = TRUE]
    BY <1>2 DEF SonarSetsCi
  <2>2. gitlab' = [gitlab EXCEPT ![g].wired = gitlab[g].wired, ![g].scan = TRUE]
        /\ gitlab[g].wired \in Slug \cup {None}
    BY <1>1, <2>1 DEF IInv, TypeOK, GitLabProject
  <2>3. QED
    BY <1>1, <2>2, Wires, FreshTyping, IdleFits DEF SonarSetsCi, Return
<1>3. CASE ~Exists(reqs[r].gid)
  <2>1. PlatformOK' /\ UNCHANGED gitlab
    BY <1>3 DEF SonarSetsCi, platform, PlatformOK, IInv, TypeOK
  <2>2. QED
    BY <2>1, Returns DEF SonarSetsCi
<1>4. QED
  BY <1>2, <1>3

-----------------------------------------------------------------------------
(* registerGitLabProject.                                                   *)

LEMMA RegisterStartKeeps ==
    ASSUME IInv, NEW r \in Req, RegisterStart(r) PROVE IInv'
<1>0. DeployInputs \subseteq BOOLEAN /\ ScanInputs \subseteq BOOLEAN
  BY DEF DeployInputs, ScanInputs
<1>1. PICK g \in Gid, deploy \in DeployInputs, scan \in ScanInputs, s \in Slug, p \in Path :
        /\ gitlab[g].st = "live"
        /\ reqs' = [reqs EXCEPT ![r] = [IdleReq EXCEPT
                !.pc = "r_insert", !.gid = g, !.path = p,
                !.slug = s, !.deploy = deploy, !.scan = scan]]
  <2>1. ASSUME NEW g \in Gid, gitlab[g].st = "live" PROVE RegisteredPaths(g) \subseteq Path
    BY <2>1 DEF IInv, ProjectsHavePaths, Begun, RegisteredPaths
  <2>2. QED
    BY <2>1, Zenon DEF RegisterStart
<1> DEFINE q == [IdleReq EXCEPT !.pc = "r_insert", !.gid = g,
                    !.path = p, !.slug = s,
                    !.deploy = deploy, !.scan = scan]
<1>2. Begun(g) /\ p \in Path /\ deploy \in BOOLEAN /\ scan \in BOOLEAN
  BY <1>0, <1>1 DEF Begun
<1>3. q \in Request
  BY <1>2, FreshTyping DEF Request, PCs
<1>4. Fits(q)
  BY <1>2 DEF Fits, IdleReq, Creating, Owning, Inserted, Deleting, PastGitLab
<1>5. PlatformOK'
  BY DEF RegisterStart, platform, PlatformOK, IInv, TypeOK
<1>6. QED
  BY <1>1, <1>3, <1>4, <1>5, Moves DEF RegisterStart

LEMMA RegisterInsertsKeeps ==
    ASSUME IInv, NEW r \in Req, RegisterInserts(r) PROVE IInv'
<1> DEFINE q == reqs[r]
           n == <<q.path, None>>
<1>1. q.path \in Path /\ q.slug \in Slug /\ q.gid \in Gid /\ Begun(q.gid)
      /\ q.deploy \in BOOLEAN /\ q.pc = "r_insert"
  BY DEF IInv, TypeOK, Request, RequestsFit, Fits, RegisterInserts, At, Owning
<1>2. PlatformOK'
  BY DEF RegisterInserts, platform, PlatformOK, IInv, TypeOK
<1>3. CASE Return(r) /\ UNCHANGED rows
  BY <1>2, <1>3, Returns DEF RegisterInserts
<1>4. ASSUME NEW d \in Doc,
             Insert(d, q.gid, n, q.slug, q.path, TargetsFor(q.deploy)),
             reqs' = [reqs EXCEPT ![r].pc = "r_vault", ![r].doc = d]
      PROVE  IInv'
  <2>1. TargetsFor(q.deploy) \in {"none", "disabled", "enabled"}
    BY DEF TargetsFor
  <2>2. /\ Grows /\ ProjectsHavePaths' /\ RowsSound' /\ rows' \in [Doc -> Row]
        /\ Used(d)'
    BY <1>1, <1>4, <2>1, Inserts DEF RegisterInserts
  <2>3. QED
    BY <1>1, <1>4, <2>2, InsertGoes DEF RegisterInserts
<1>5. QED
  BY <1>3, <1>4 DEF RegisterInserts

LEMMA AfterWiringKeeps ==
    ASSUME IInv, NEW r \in Req, reqs[r].pc \in {"r_vault", "r_wire"},
           AfterWiring(r),
           UNCHANGED <<gitlab, rows, audited, rec>>, PlatformOK'
    PROVE  IInv'
<1>1. reqs[r] \in Request /\ Fits(reqs[r])
  BY DEF IInv, TypeOK, RequestsFit
<1>2. Fits([reqs[r] EXCEPT !.pc = "s_save"])
  BY <1>1 DEF Fits, Request, Creating, Owning, Inserted, Deleting, PastGitLab
<1>3. QED
  BY <1>2, Goes, Returns DEF AfterWiring, PCs

LEMMA RegisterSeedsBaseKeeps ==
    ASSUME IInv, NEW r \in Req, RegisterSeedsBase(r) PROVE IInv'
<1>1. reqs[r] \in Request /\ Fits(reqs[r]) /\ reqs[r].pc = "r_vault"
  BY DEF IInv, TypeOK, RequestsFit, RegisterSeedsBase, At
<1>2. PlatformOK'
  BY <1>1 DEF RegisterSeedsBase, PlatformOK, IInv, TypeOK, Fits, Owning
<1>3. Fits([reqs[r] EXCEPT !.pc = "r_child"])
  BY <1>1 DEF Fits, Request, Creating, Owning, Inserted, Deleting, PastGitLab
<1>4. QED
  BY <1>1, <1>2, <1>3, Goes, AfterWiringKeeps DEF RegisterSeedsBase, PCs

LEMMA RegisterSeedsTargetsKeeps ==
    ASSUME IInv, NEW r \in Req, RegisterSeedsTargets(r) PROVE IInv'
<1>1. reqs[r] \in Request /\ Fits(reqs[r]) /\ reqs[r].pc = "r_child"
  BY DEF IInv, TypeOK, RequestsFit, RegisterSeedsTargets, At
<1>2. PlatformOK'
  BY <1>1 DEF RegisterSeedsTargets, PlatformOK, IInv, TypeOK, Fits, Owning
<1>3. Fits([reqs[r] EXCEPT !.pc = "r_wire"])
  BY <1>1 DEF Fits, Request, Creating, Owning, Inserted, Deleting, PastGitLab
<1>4. QED
  BY <1>2, <1>3, Goes DEF RegisterSeedsTargets, PCs

LEMMA RegisterWiresKeeps ==
    ASSUME IInv, NEW r \in Req, RegisterWires(r) PROVE IInv'
<1>1. /\ reqs[r] \in Request /\ Fits(reqs[r]) /\ reqs[r].pc = "r_wire"
      /\ reqs \in [Req -> Request]
  BY DEF IInv, TypeOK, RequestsFit, RegisterWires, At
<1>2. CASE Exists(reqs[r].gid)
  <2> DEFINE g == reqs[r].gid
  <2>1. g \in Gid /\ reqs[r].slug \in Slug \cup {None}
    BY <1>1 DEF Fits, Request, Owning
  <2>2. gitlab' = [gitlab EXCEPT ![g].wired = reqs[r].slug]
    BY <1>2 DEF RegisterWires
  <2>3. gitlab' = [gitlab EXCEPT ![g].wired = reqs[r].slug, ![g].scan = gitlab[g].scan]
        /\ gitlab[g].scan \in BOOLEAN
    BY <2>1, <2>2 DEF IInv, TypeOK, GitLabProject
  <2>4. CASE Return(r)
    BY <2>1, <2>3, <2>4, Wires, FreshTyping, IdleFits DEF RegisterWires, Return
  <2>5. CASE Goto(r, "s_save")
    <3> DEFINE q == [reqs[r] EXCEPT !.pc = "s_save"]
    <3>1. q \in Request /\ reqs' = [reqs EXCEPT ![r] = q]
      BY <1>1, <2>5 DEF Request, PCs, Goto
    <3>2. Fits(q)
      BY <1>1 DEF Fits, Request, Creating, Owning, Inserted, Deleting, PastGitLab
    <3> HIDE DEF q
    <3>3. QED
      BY <2>1, <2>3, <3>1, <3>2, Wires DEF RegisterWires
  <2>6. QED
    BY <1>2, <2>4, <2>5 DEF RegisterWires, AfterWiring
<1>3. CASE ~Exists(reqs[r].gid)
  <2>1. PlatformOK' /\ Return(r)
    BY <1>3 DEF RegisterWires, platform, PlatformOK, IInv, TypeOK
  <2>2. QED
    BY <1>3, <2>1, Returns DEF RegisterWires
<1>4. QED
  BY <1>2, <1>3

-----------------------------------------------------------------------------
(* deleteProject.                                                           *)

LEMMA DeleteStartKeeps ==
    ASSUME IInv, NEW r \in Req, NEW d \in Doc, DeleteStart(r, d) PROVE IInv'
<1>1. PICK pc \in {"d_k8s", "d_gitlab"} :
        reqs' = [reqs EXCEPT ![r] = [IdleReq EXCEPT
                    !.pc = pc, !.doc = d, !.gid = rows[d].gid, !.row = rows[d]]]
  BY DEF DeleteStart
<1> DEFINE q == [IdleReq EXCEPT !.pc = pc, !.doc = d, !.gid = rows[d].gid,
                                !.row = rows[d]]
<1>2. Used(d) /\ rows[d].gid \in Gid /\ rows[d] \in Row
  BY DEF IInv, TypeOK, RowsSound, RowsHaveProjects, DeleteStart, Present, Used
<1>3. q \in Request
  BY <1>2, FreshTyping DEF Request, PCs
<1>4. Fits(q)
  BY <1>2 DEF Fits, IdleReq, Creating, Owning, Inserted, Deleting, PastGitLab
<1>5. PlatformOK'
  BY DEF DeleteStart, platform, PlatformOK, IInv, TypeOK
<1>6. QED
  BY <1>1, <1>3, <1>4, <1>5, Moves DEF DeleteStart

LEMMA SurvivorsAreOld ==
    ASSUME NEW old, NEW mine, mine \subseteq old, NEW left \in Survivors(mine)
    PROVE  (old \ mine) \cup left \subseteq old
BY DEF Survivors

LEMMA DeletePlatformKeeps ==
    ASSUME IInv, NEW r \in Req,
           DeleteReleases(r) \/ DeleteSecrets(r) \/ DeleteAnalyses(r)
    PROVE  IInv'
<1>1. reqs[r] \in Request /\ Fits(reqs[r])
  BY DEF IInv, TypeOK, RequestsFit
<1>2. CASE DeleteReleases(r)
  <2>1. k8s' \subseteq k8s
    BY <1>2, SurvivorsAreOld DEF DeleteReleases, ReleasesOf
  <2>2. PlatformOK'
    BY <1>2, <2>1 DEF DeleteReleases, PlatformOK, IInv, TypeOK
  <2>3. Fits([reqs[r] EXCEPT !.pc = "d_vault"])
    BY <1>1, <1>2 DEF Fits, Request, DeleteReleases, At, Creating, Owning,
       Inserted, Deleting, PastGitLab
  <2>4. QED
    BY <1>2, <2>2, <2>3, Goes DEF DeleteReleases, PCs
<1>3. CASE DeleteSecrets(r)
  <2>1. vault' \subseteq vault
    BY <1>3, SurvivorsAreOld DEF DeleteSecrets, SecretsUnder
  <2>2. PlatformOK'
    BY <1>3, <2>1 DEF DeleteSecrets, PlatformOK, IInv, TypeOK
  <2>3. Fits([reqs[r] EXCEPT !.pc = "d_sonar"])
    BY <1>1, <1>3 DEF Fits, Request, DeleteSecrets, At, Creating, Owning,
       Inserted, Deleting, PastGitLab
  <2>4. QED
    BY <1>3, <2>2, <2>3, Goes DEF DeleteSecrets, PCs
<1>4. CASE DeleteAnalyses(r)
  <2>1. sonar' \subseteq sonar
    BY <1>4, SurvivorsAreOld DEF DeleteAnalyses, AnalysesOf
  <2>2. PlatformOK'
    BY <1>4, <2>1 DEF DeleteAnalyses, PlatformOK, IInv, TypeOK
  <2>3. Fits([reqs[r] EXCEPT !.pc = "d_gitlab"])
    BY <1>1, <1>4 DEF Fits, Request, DeleteAnalyses, At, Creating, Owning,
       Inserted, Deleting, PastGitLab
  <2>4. QED
    BY <1>4, <2>2, <2>3, Goes DEF DeleteAnalyses, PCs
<1>5. QED
  BY <1>2, <1>3, <1>4

LEMMA ScheduledLives ==
    ASSUME IInv, NEW g \in Gid, NEW renamed \in BOOLEAN, gitlab[g].st = "live",
           Scheduled(g, renamed)
    PROVE  LifeGoesOn
BY DEF IInv, TypeOK, Scheduled, LifeGoesOn, GitLabProject, ProjectsHavePaths, Begun

LEMMA GoneLives ==
    ASSUME IInv, NEW g \in Gid, Exists(g),
           gitlab' = [gitlab EXCEPT ![g].st = "gone"]
    PROVE  LifeGoesOn
BY DEF IInv, TypeOK, Exists, LifeGoesOn, GitLabProject, ProjectsHavePaths, Begun

LEMMA SameLives == ASSUME IInv, UNCHANGED gitlab PROVE LifeGoesOn
BY DEF IInv, TypeOK, LifeGoesOn, ProjectsHavePaths, Begun

LEMMA DeleteInGitLabKeeps ==
    ASSUME IInv, NEW r \in Req, DeleteInGitLab(r) PROVE IInv'
<1>1. /\ reqs[r] \in Request /\ Fits(reqs[r]) /\ reqs \in [Req -> Request]
      /\ reqs[r].pc = "d_gitlab" /\ reqs[r].gid \in Gid
  BY DEF IInv, TypeOK, RequestsFit, DeleteInGitLab, At, Fits, Deleting
<1>2. LifeGoesOn
  BY <1>1, ScheduledLives, GoneLives, SameLives DEF DeleteInGitLab
<1>3. Grows /\ ProjectsHavePaths' /\ RowsSound'
  BY <1>2, GitLabMoves DEF DeleteInGitLab
<1> DEFINE q == [reqs[r] EXCEPT !.pc = "p_gitlab"]
<1>4. q \in Request /\ reqs' = [reqs EXCEPT ![r] = q]
  BY <1>1 DEF Request, PCs, DeleteInGitLab, Goto
<1>5. Fits(q)
  BY <1>1 DEF Fits, Request, Creating, Owning, Inserted, Deleting, PastGitLab
<1>6. (reqs \in [Req -> Request] /\ RequestsFit /\ rec \in Run /\ RunFits(rec))'
  <2>1. PICK p \in Request : p = q /\ Fits(p)
    BY <1>4, <1>5
  <2>2. Fits(p)'
    BY <1>3, <2>1, RequestKeeps
  <2>3. QED
    BY <1>3, <1>4, <2>1, <2>2, OneMoves DEF DeleteInGitLab
<1>7. TypeOK'
  BY <1>2, <1>6 DEF IInv, TypeOK, platform, LifeGoesOn, DeleteInGitLab
<1>8. QED
  BY <1>3, <1>6, <1>7 DEF IInv

LEMMA ProbeGitLabKeeps ==
    ASSUME IInv, NEW r \in Req, ProbeGitLab(r) PROVE IInv'
<1>1. reqs[r] \in Request /\ Fits(reqs[r]) /\ reqs[r].pc = "p_gitlab"
  BY DEF IInv, TypeOK, RequestsFit, ProbeGitLab, Probe, At
<1>2. PlatformOK'
  BY DEF ProbeGitLab, Probe, platform, PlatformOK, IInv, TypeOK
<1>3. CASE Goto(r, "d_archive")
  <2>1. Fits([reqs[r] EXCEPT !.pc = "d_archive"])
    BY <1>1 DEF Fits, Request, Creating, Owning, Inserted, Deleting, PastGitLab
  <2>2. QED
    BY <1>2, <1>3, <2>1, Goes DEF ProbeGitLab, Probe, PCs
<1>4. CASE ~Exists(reqs[r].gid) /\ Goto(r, "p_k8s")
  <2>1. reqs[r].gid \in Gid /\ Begun(reqs[r].gid)
    BY <1>1 DEF Fits, Deleting, Used, IInv, RowsSound, RowsHaveProjects
  <2>2. gitlab[reqs[r].gid].st = "gone"
    BY <1>4, <2>1 DEF Begun, Exists, IInv, TypeOK, GitLabProject
  <2>3. Fits([reqs[r] EXCEPT !.pc = "p_k8s"])
    BY <1>1, <2>2 DEF Fits, Request, Creating, Owning, Inserted, Deleting, PastGitLab
  <2>4. QED
    BY <1>2, <1>4, <2>3, Goes DEF ProbeGitLab, Probe, PCs
<1>5. QED
  BY <1>3, <1>4 DEF ProbeGitLab, Probe

LEMMA LaterProbeKeeps ==
    ASSUME IInv, NEW r \in Req,
           NEW pc \in {"p_k8s", "p_vault", "p_sonar"},
           NEW next \in {"p_vault", "p_sonar", "d_audit"},
           NEW remains, Probe(r, pc, remains, next)
    PROVE  IInv'
<1>1. reqs[r] \in Request /\ Fits(reqs[r]) /\ reqs[r].pc = pc
  BY DEF IInv, TypeOK, RequestsFit, Probe, At
<1>2. PlatformOK'
  BY DEF Probe, platform, PlatformOK, IInv, TypeOK
<1>3. Fits([reqs[r] EXCEPT !.pc = "d_archive"]) /\ Fits([reqs[r] EXCEPT !.pc = next])
  BY <1>1 DEF Fits, Request, Creating, Owning, Inserted, Deleting, PastGitLab
<1>4. Goto(r, "d_archive") \/ Goto(r, next)
  BY DEF Probe
<1>5. QED
  BY <1>2, <1>3, <1>4, Goes DEF Probe, PCs

LEMMA DeleteAuditsKeeps ==
    ASSUME IInv, NEW r \in Req, DeleteAudits(r) PROVE IInv'
<1>1. /\ reqs[r] \in Request /\ Fits(reqs[r]) /\ reqs \in [Req -> Request]
      /\ reqs[r].pc = "d_audit" /\ reqs[r].doc \in Doc
  BY DEF IInv, TypeOK, RequestsFit, DeleteAudits, At, Fits, Deleting
<1>2. Grows /\ ProjectsHavePaths' /\ RowsSound'
  BY Quiet DEF DeleteAudits
<1> DEFINE next == [reqs[r] EXCEPT !.pc = "d_remove"]
<1>3. next \in Request /\ reqs' = [reqs EXCEPT ![r] = next]
  BY <1>1 DEF Request, PCs, DeleteAudits, Goto
<1>4. PICK q \in Request : q = next /\ reqs' = [reqs EXCEPT ![r] = q]
  BY <1>3
<1>5. q.doc \in audited' /\ q.doc = reqs[r].doc /\ q.gid = reqs[r].gid /\ q.pc = "d_remove"
  BY <1>1, <1>4 DEF Request, DeleteAudits
<1>6. Fits(q)'
  BY <1>1, <1>5 DEF Fits, DeleteAudits, Creating, Owning, Inserted, Deleting,
     PastGitLab, Used
<1>7. (reqs \in [Req -> Request] /\ RequestsFit /\ rec \in Run /\ RunFits(rec))'
  BY <1>2, <1>4, <1>6, OneMoves DEF DeleteAudits
<1>8. TypeOK'
  BY <1>1, <1>7 DEF IInv, TypeOK, platform, DeleteAudits
<1>9. QED
  BY <1>2, <1>7, <1>8 DEF IInv

(* A row changes its state, and nothing else of it.                         *)
LEMMA StatusMoves ==
    ASSUME IInv, NEW d \in Doc, NEW st \in {"archived", "removed"}, Used(d),
           rows' = [rows EXCEPT ![d].st = st],
           st = "archived" => Present(d),
           st = "removed" => gitlab[rows[d].gid].st = "gone" /\ d \in audited,
           UNCHANGED <<gitlab, audited>>
    PROVE  Grows /\ ProjectsHavePaths' /\ RowsSound' /\ rows' \in [Doc -> Row]
<1> DEFINE w == [rows[d] EXCEPT !.st = st]
<1>1. rows[d] \in Row /\ rows \in [Doc -> Row]
  BY DEF IInv, TypeOK
<1>2. w \in Row /\ rows' = [rows EXCEPT ![d] = w]
  BY <1>1 DEF Row
<1>3. /\ w.st = st /\ w.gid = rows[d].gid
      /\ w.name = rows[d].name /\ w.slug = rows[d].slug
  BY <1>1 DEF Row
<1> HIDE DEF w
<1>4. w.gid \in Gid /\ Begun(w.gid)
  BY <1>3 DEF IInv, RowsSound, RowsHaveProjects, Used
<1>5. w.st \in {"active", "archived"} =>
        \A e \in Doc \ {d} : Present(e) =>
            w.gid # rows[e].gid /\ w.name # rows[e].name /\ w.slug # rows[e].slug
  BY <1>3 DEF IInv, RowsSound, UniqueIndexes
<1>6. QED
  BY <1>2, <1>3, <1>4, <1>5, RowMoves

LEMMA DeleteRemovesKeeps ==
    ASSUME IInv, NEW r \in Req, DeleteRemoves(r) PROVE IInv'
<1>1. Fits(reqs[r]) /\ reqs[r].pc = "d_remove"
  BY DEF IInv, RequestsFit, DeleteRemoves, At
<1>2. /\ reqs[r].doc \in Doc /\ Used(reqs[r].doc) /\ reqs[r].doc \in audited
      /\ gitlab[rows[reqs[r].doc].gid].st = "gone"
  BY <1>1 DEF Fits, Deleting, PastGitLab
<1>3. Grows /\ ProjectsHavePaths' /\ RowsSound' /\ rows' \in [Doc -> Row]
  BY <1>2, StatusMoves DEF DeleteRemoves
<1>4. QED
  BY <1>3, RowStepReturns DEF DeleteRemoves

LEMMA DeleteArchivesKeeps ==
    ASSUME IInv, NEW r \in Req, DeleteArchives(r) PROVE IInv'
<1>1. reqs[r].doc \in Doc /\ Used(reqs[r].doc)
  BY DEF IInv, RequestsFit, DeleteArchives, At, Fits, Deleting
<1>2. CASE Present(reqs[r].doc)
  <2>1. Grows /\ ProjectsHavePaths' /\ RowsSound' /\ rows' \in [Doc -> Row]
    BY <1>1, <1>2, StatusMoves DEF DeleteArchives
  <2>2. QED
    BY <2>1, RowStepReturns DEF DeleteArchives
<1>3. CASE ~Present(reqs[r].doc)
  <2>1. PlatformOK' /\ UNCHANGED rows
    BY <1>3 DEF DeleteArchives, platform, PlatformOK, IInv, TypeOK
  <2>2. QED
    BY <2>1, Returns DEF DeleteArchives
<1>4. QED
  BY <1>2, <1>3

LEMMA ThrowsKeeps == ASSUME IInv, NEW r \in Req, Throws(r) PROVE IInv'
<1>1. PlatformOK'
  BY DEF Throws, platform, PlatformOK, IInv, TypeOK
<1>2. QED
  BY <1>1, Returns DEF Throws

LEMMA RestartKeeps == ASSUME IInv, Restart PROVE IInv'
<1>1. Grows /\ ProjectsHavePaths' /\ RowsSound'
  BY Quiet DEF Restart
<1>2. TypeOK'
  BY FreshTyping DEF Restart, IInv, TypeOK, platform
<1>3. Fits(IdleReq)' /\ RunFits(IdleRec)'
  BY <1>1, FreshTyping, IdleFits, RequestKeeps, RunKeeps
<1>4. RequestsFit' /\ RunFits(rec)'
  BY <1>3 DEF Restart, RequestsFit, Fits, RunFits, Begun, Used
<1>5. QED
  BY <1>1, <1>2, <1>4 DEF IInv

-----------------------------------------------------------------------------
(* GitLab and its pipelines.                                                *)

LEMMA OutsideKeeps == ASSUME IInv, NEW g \in Gid, Outside(g) PROVE IInv'
<1>1. CASE CreatedByHand(g) \/ DeletedByHand(g) \/ RetentionEnds(g)
  <2>1. ASSUME CreatedByHand(g) PROVE LifeGoesOn
    <3>1. PICK p \in Path : GitLabCreate(g, p)
      BY <2>1 DEF CreatedByHand
    <3>2. QED
      BY <3>1 DEF IInv, TypeOK, LifeGoesOn, GitLabCreate, GitLabProject,
         ProjectsHavePaths, Begun
  <2>2. ASSUME DeletedByHand(g) PROVE LifeGoesOn
    BY <2>2, ScheduledLives DEF DeletedByHand
  <2>3. ASSUME RetentionEnds(g) PROVE LifeGoesOn
    BY <2>3, GoneLives DEF RetentionEnds, Exists
  <2>4. LifeGoesOn /\ UNCHANGED <<platform, rows, audited, reqs, rec>>
    BY <1>1, <2>1, <2>2, <2>3 DEF CreatedByHand, DeletedByHand, RetentionEnds
  <2>5. Grows /\ ProjectsHavePaths' /\ RowsSound'
    BY <2>4, GitLabMoves
  <2>6. (reqs \in [Req -> Request] /\ RequestsFit /\ rec \in Run /\ RunFits(rec))'
    BY <2>4, <2>5, NoneMoves
  <2>7. TypeOK'
    BY <2>4, <2>6 DEF IInv, TypeOK, platform, LifeGoesOn
  <2>8. QED
    BY <2>5, <2>6, <2>7 DEF IInv
<1>2. CASE PipelineDeploys(g) \/ PipelineScans(g)
  <2>1. k8s' \subseteq Slug \X Gid /\ sonar' \subseteq Name \X Gid
    <3>1. CASE PipelineDeploys(g)
      BY <3>1 DEF PipelineDeploys, IInv, TypeOK, GitLabProject
    <3>2. CASE PipelineScans(g)
      <4>1. PathWithNamespace(g) \in Name
        BY <3>2, NameTyping DEF PipelineScans, Exists, Begun
      <4>2. QED
        BY <3>2, <4>1 DEF PipelineScans, IInv, TypeOK
    <3>3. QED
      BY <1>2, <3>1, <3>2
  <2>2. UNCHANGED <<gitlab, vault, rows, audited, reqs, rec>>
    BY <1>2 DEF PipelineDeploys, PipelineScans
  <2>3. Grows /\ ProjectsHavePaths' /\ RowsSound'
    BY <2>2, Quiet
  <2>4. (reqs \in [Req -> Request] /\ RequestsFit /\ rec \in Run /\ RunFits(rec))'
    BY <2>2, <2>3, NoneMoves
  <2>5. QED
    BY <2>1, <2>2, <2>3, <2>4 DEF IInv, TypeOK
<1>3. QED
  BY <1>1, <1>2 DEF Outside

-----------------------------------------------------------------------------
(* reconcileGitLabProjects.                                                 *)

(* The run moves on and changes at most the platform's resources.           *)
LEMMA RunGoes ==
    ASSUME IInv, NEW x \in Run, RunFits(x), rec' = x,
           UNCHANGED <<gitlab, rows, audited, reqs>>, PlatformOK'
    PROVE  IInv'
<1>1. Grows /\ ProjectsHavePaths' /\ RowsSound'
  BY Quiet
<1>2. RunFits(x)'
  BY <1>1, RunKeeps
<1>3. (reqs \in [Req -> Request] /\ RequestsFit /\ rec \in Run /\ RunFits(rec))'
  BY <1>1, <1>2, RunMoves
<1>4. TypeOK'
  BY <1>3 DEF IInv, TypeOK, PlatformOK
<1>5. QED
  BY <1>1, <1>3, <1>4 DEF IInv

(* The run moves on together with a sound change of the rows.               *)
LEMMA RunRowStep ==
    ASSUME IInv, NEW x \in Run, RunFits(x), rec' = x,
           Grows, ProjectsHavePaths', RowsSound', rows' \in [Doc -> Row],
           UNCHANGED <<gitlab, platform, audited, reqs>>
    PROVE  IInv'
<1>1. RunFits(x)'
  BY RunKeeps
<1>2. (reqs \in [Req -> Request] /\ RequestsFit /\ rec \in Run /\ RunFits(rec))'
  BY <1>1, RunMoves
<1>3. TypeOK'
  BY <1>2 DEF IInv, TypeOK, platform
<1>4. QED
  BY <1>2, <1>3 DEF IInv

LEMMA RunEnds ==
    ASSUME IInv, rec' = IdleRec,
           UNCHANGED <<gitlab, platform, rows, audited, reqs>>
    PROVE  IInv'
<1>1. PlatformOK'
  BY DEF platform, PlatformOK, IInv, TypeOK
<1>2. QED
  BY <1>1, RunGoes, FreshTyping, IdleFits

LEMMA ReconcileStartKeeps == ASSUME IInv, ReconcileStart PROVE IInv'
<1>1. ASSUME NEW e \in Listing PROVE e \in Listed /\ Begun(e.gid)
  <2>1. PICK g \in Gid : Exists(g) /\ e = [gid |-> g, name |-> PathWithNamespace(g),
                                pending |-> gitlab[g].st = "pending"]
    BY DEF Listing
  <2>2. Begun(g) /\ PathWithNamespace(g) \in Name
    BY <2>1, NameTyping DEF Exists, Begun
  <2>3. QED
    BY <2>1, <2>2 DEF Listed
<1>2. PICK l \in SUBSET Listing :
        rec' = [IdleRec EXCEPT !.pc = "scan", !.list = l,
                    !.live = {e.gid : e \in {x \in Listing : ToRegister(x)}}]
  BY DEF ReconcileStart
<1> DEFINE live == {e.gid : e \in {x \in Listing : ToRegister(x)}}
           x == [IdleRec EXCEPT !.pc = "scan", !.list = l, !.live = live]
<1>3. live \subseteq Gid /\ l \subseteq Listed /\ \A e \in l : Begun(e.gid)
  BY <1>1 DEF Listed
<1> HIDE DEF live
<1>4. x \in Run
  BY <1>3, FreshTyping DEF Run
<1>5. RunFits(x)
  BY <1>3 DEF RunFits, IdleRec
<1>6. PlatformOK' /\ rec' = x
  BY <1>2 DEF ReconcileStart, platform, PlatformOK, IInv, TypeOK, live
<1>7. QED
  BY <1>4, <1>5, <1>6, RunGoes DEF ReconcileStart

LEMMA ReconcileLooksUpKeeps == ASSUME IInv, ReconcileLooksUp PROVE IInv'
<1>1. rec \in Run /\ RunFits(rec) /\ rec.list \subseteq Listed /\ PlatformOK'
  BY DEF IInv, TypeOK, Run, ReconcileLooksUp, platform, PlatformOK
<1>2. PICK e \in rec.list :
        LET rest == [rec EXCEPT !.list = @ \ {e}]
            p == e.name[1] IN
        \/ \E d \in Doc :
            /\ Present(d)
            /\ rec' = [rest EXCEPT !.pc = "save", !.doc = d,
                        !.name = e.name, !.back = "scan"]
        \/ rec' = rest
        \/ rec' = [rest EXCEPT !.pc = "insert", !.gid = e.gid, !.path = p,
                    !.slug = IF SlugTaken(PlainSlug(p)) THEN IdSlug(p, e.gid)
                             ELSE PlainSlug(p)]
  BY DEF ReconcileLooksUp
<1>3. e.gid \in Gid /\ Begun(e.gid) /\ e.name \in Name /\ e.name[1] \in Path
  BY <1>1 DEF RunFits, Listed, Name
<1> DEFINE rest == [rec EXCEPT !.list = rec.list \ {e}]
           p == e.name[1]
           s == IF SlugTaken(PlainSlug(p)) THEN IdSlug(p, e.gid) ELSE PlainSlug(p)
<1>4. rest \in Run
  BY <1>1 DEF Run
<1>5. RunFits(rest)
  BY <1>1 DEF RunFits, Run
<1>6. CASE rec' = rest
  BY <1>1, <1>4, <1>5, <1>6, RunGoes DEF ReconcileLooksUp
<1>7. ASSUME NEW d \in Doc, Present(d),
             rec' = [rest EXCEPT !.pc = "save", !.doc = d,
                        !.name = e.name, !.back = "scan"]
      PROVE  IInv'
  <2> DEFINE x == [rest EXCEPT !.pc = "save", !.doc = d,
                        !.name = e.name, !.back = "scan"]
  <2>1. x \in Run
    BY <1>3, <1>4 DEF Run
  <2>2. RunFits(x)
    BY <1>3, <1>4, <1>5, <1>7 DEF RunFits, Run, Present, Used
  <2>3. QED
    BY <1>1, <1>7, <2>1, <2>2, RunGoes DEF ReconcileLooksUp
<1>8. CASE rec' = [rest EXCEPT !.pc = "insert", !.gid = e.gid, !.path = p, !.slug = s]
  <2> DEFINE x == [rest EXCEPT !.pc = "insert", !.gid = e.gid, !.path = p, !.slug = s]
  <2>1. s \in Slug
    BY <1>3, SlugTyping
  <2> HIDE DEF s, p
  <2>2. p \in Path
    BY <1>3 DEF p
  <2>3. x \in Run
    BY <1>3, <1>4, <2>1, <2>2 DEF Run
  <2>4. RunFits(x)
    BY <1>3, <1>4, <1>5, <2>1, <2>2 DEF RunFits, Run
  <2>5. QED
    BY <1>1, <1>8, <2>3, <2>4, RunGoes DEF ReconcileLooksUp
<1>9. QED
  BY <1>2, <1>6, <1>7, <1>8

LEMMA ReconcileBackfillsKeeps == ASSUME IInv, ReconcileBackfills PROVE IInv'
<1> DEFINE n == <<rec.path, None>>
<1>1. /\ rec \in Run /\ RunFits(rec) /\ rec.pc = "insert"
      /\ rec.gid \in Gid /\ Begun(rec.gid) /\ rec.path \in Path /\ rec.slug \in Slug
  BY DEF IInv, TypeOK, ReconcileBackfills, RunFits
<1>2. CASE rec' = IdleRec /\ UNCHANGED rows
  BY <1>2, RunEnds DEF ReconcileBackfills
<1>3. ASSUME NEW d \in Doc, Insert(d, rec.gid, n, rec.slug, rec.path, "none"),
             rec' = [rec EXCEPT !.pc = "seed"]
      PROVE  IInv'
  <2> DEFINE x == [rec EXCEPT !.pc = "seed"]
  <2>1. Grows /\ ProjectsHavePaths' /\ RowsSound' /\ rows' \in [Doc -> Row]
    BY <1>1, <1>3, Inserts DEF ReconcileBackfills
  <2>2. x \in Run
    BY <1>1 DEF Run
  <2>3. RunFits(x)
    BY <1>1 DEF RunFits, Run
  <2>4. QED
    BY <1>3, <2>1, <2>2, <2>3, RunRowStep DEF ReconcileBackfills
<1>4. QED
  BY <1>2, <1>3 DEF ReconcileBackfills

LEMMA ReconcileSeedsKeeps == ASSUME IInv, ReconcileSeeds PROVE IInv'
<1> DEFINE x == [rec EXCEPT !.pc = "scan"]
<1>1. rec \in Run /\ RunFits(rec) /\ rec.path \in Path
  BY DEF IInv, TypeOK, ReconcileSeeds, RunFits
<1>2. PlatformOK'
  BY <1>1 DEF ReconcileSeeds, PlatformOK, IInv, TypeOK
<1>3. x \in Run
  BY <1>1 DEF Run
<1>4. RunFits(x)
  BY <1>1 DEF RunFits, Run
<1>5. QED
  BY <1>2, <1>3, <1>4, RunGoes DEF ReconcileSeeds

LEMMA ReconcileSweepsKeeps == ASSUME IInv, ReconcileSweeps PROVE IInv'
<1> DEFINE sweep == {d \in Doc : rows[d].st = "active"}
           x == [rec EXCEPT !.pc = "sweep", !.sweep = sweep]
<1>1. rec \in Run /\ RunFits(rec) /\ PlatformOK'
  BY DEF IInv, TypeOK, ReconcileSweeps, platform, PlatformOK
<1>2. sweep \subseteq Doc /\ \A d \in sweep : Used(d)
  BY DEF Used
<1> HIDE DEF sweep
<1>3. x \in Run
  BY <1>1, <1>2 DEF Run
<1>4. RunFits(x)
  BY <1>1, <1>2 DEF RunFits, Run
<1>5. rec' = x
  BY DEF ReconcileSweeps, sweep
<1>6. QED
  BY <1>1, <1>3, <1>4, <1>5, RunGoes DEF ReconcileSweeps

LEMMA ReconcileProbesKeeps == ASSUME IInv, ReconcileProbes PROVE IInv'
<1>1. rec \in Run /\ RunFits(rec) /\ PlatformOK' /\ rec.sweep \subseteq Doc
  BY DEF IInv, TypeOK, Run, ReconcileProbes, platform, PlatformOK
<1>2. PICK d \in rec.sweep :
        \/ /\ gitlab[rows[d].gid].st = "pending"
           /\ rec' = [rec EXCEPT !.sweep = @ \ {d}, !.pc = "save", !.doc = d,
                        !.back = "sweep", !.name = PathWithNamespace(rows[d].gid)]
        \/ rec' = [rec EXCEPT !.sweep = @ \ {d}]
  BY DEF ReconcileProbes
<1> DEFINE rest == [rec EXCEPT !.sweep = rec.sweep \ {d}]
           n == PathWithNamespace(rows[d].gid)
<1>3. d \in Doc /\ Used(d) /\ rows[d].gid \in Gid /\ Begun(rows[d].gid)
  BY <1>1 DEF RunFits, IInv, RowsSound, RowsHaveProjects
<1>4. n \in Name
  BY <1>3, NameTyping
<1> HIDE DEF n
<1>5. rest \in Run
  BY <1>1 DEF Run
<1>6. RunFits(rest)
  BY <1>1 DEF RunFits, Run
<1>7. CASE rec' = rest
  BY <1>1, <1>5, <1>6, <1>7, RunGoes DEF ReconcileProbes
<1>8. CASE rec' = [rec EXCEPT !.sweep = @ \ {d}, !.pc = "save", !.doc = d,
                              !.back = "sweep", !.name = n]
  <2> DEFINE x == [rec EXCEPT !.sweep = rec.sweep \ {d}, !.pc = "save",
                              !.doc = d, !.back = "sweep", !.name = n]
  <2>1. x \in Run
    BY <1>1, <1>3, <1>4 DEF Run
  <2>2. RunFits(x)
    BY <1>1, <1>3, <1>4 DEF RunFits, Run
  <2>3. QED
    BY <1>1, <1>8, <2>1, <2>2, RunGoes DEF ReconcileProbes
<1>9. QED
  BY <1>2, <1>7, <1>8 DEF n

LEMMA ReconcileArchivesKeeps == ASSUME IInv, ReconcileArchives PROVE IInv'
<1>1. /\ rec \in Run /\ RunFits(rec) /\ rows \in [Doc -> Row]
      /\ rec.doc \in Doc /\ Used(rec.doc) /\ rec.name \in Name
  BY DEF IInv, TypeOK, ReconcileArchives, RunFits
<1>2. CASE rec' = IdleRec /\ UNCHANGED rows
  BY <1>2, RunEnds DEF ReconcileArchives
<1>3. ASSUME Present(rec.doc),
             \A e \in Doc \ {rec.doc} : Present(e) => rows[e].name # rec.name,
             rows' = [rows EXCEPT ![rec.doc].st = "archived",
                                  ![rec.doc].name = rec.name],
             rec' = [rec EXCEPT !.pc = rec.back]
      PROVE  IInv'
  <2> DEFINE d == rec.doc
             w == [rows[d] EXCEPT !.st = "archived", !.name = rec.name]
             x == [rec EXCEPT !.pc = rec.back]
  <2>1. rows[d] \in Row
    BY <1>1
  <2>2. w \in Row /\ w.st = "archived" /\ w.name = rec.name
        /\ w.gid = rows[d].gid /\ w.slug = rows[d].slug
    BY <1>1, <2>1 DEF Row
  <2>3. rows' = [rows EXCEPT ![d] = w]
    BY <1>1, <1>3, <2>1
  <2> HIDE DEF w
  <2>4. w.gid \in Gid /\ Begun(w.gid)
    BY <1>1, <2>2 DEF IInv, RowsSound, RowsHaveProjects
  <2>5. \A e \in Doc \ {d} : Present(e) =>
            w.gid # rows[e].gid /\ w.name # rows[e].name /\ w.slug # rows[e].slug
    BY <1>1, <1>3, <2>2 DEF IInv, RowsSound, UniqueIndexes
  <2>6. Grows /\ ProjectsHavePaths' /\ RowsSound' /\ rows' \in [Doc -> Row]
    BY <1>1, <2>2, <2>3, <2>4, <2>5, RowMoves DEF ReconcileArchives
  <2>7. x \in Run
    BY <1>1 DEF Run
  <2>8. RunFits(x)
    BY <1>1 DEF RunFits, Run
  <2>9. QED
    BY <1>3, <2>6, <2>7, <2>8, RunRowStep DEF ReconcileArchives
<1>4. QED
  BY <1>2, <1>3 DEF ReconcileArchives

-----------------------------------------------------------------------------
LEMMA NextKeeps == IInv /\ [Next]_vars => IInv'
<1> SUFFICES ASSUME IInv, [Next]_vars PROVE IInv'
  OBVIOUS
<1>1. ASSUME NEW r \in Req, Create(r) PROVE IInv'
  BY <1>1, CreateStartKeeps, CreateInGitLabKeeps, CreateSeedsBaseKeeps,
     CreateSeedsTargetsKeeps, CreateWiresKeeps, CreateInsertsKeeps DEF Create
<1>2. ASSUME NEW r \in Req, Register(r) PROVE IInv'
  BY <1>2, RegisterStartKeeps, RegisterInsertsKeeps, RegisterSeedsBaseKeeps,
     RegisterSeedsTargetsKeeps, RegisterWiresKeeps DEF Register
<1>3. ASSUME NEW r \in Req, ConfigureSonar(r) PROVE IInv'
  BY <1>3, SonarSavesKeeps, SonarStoresTokenKeeps, SonarSetsCiKeeps
     DEF ConfigureSonar
<1>4. ASSUME NEW r \in Req, Delete(r) PROVE IInv'
  <2>1. CASE ProbeK8s(r) \/ ProbeVault(r) \/ ProbeSonar(r)
    BY <2>1, LaterProbeKeeps DEF ProbeK8s, ProbeVault, ProbeSonar
  <2>2. QED
    BY <1>4, <2>1, DeleteStartKeeps, DeletePlatformKeeps, DeleteInGitLabKeeps,
       ProbeGitLabKeeps, DeleteAuditsKeeps, DeleteRemovesKeeps,
       DeleteArchivesKeeps DEF Delete
<1>5. CASE Reconcile
  <2>1. CASE ReconcileEnds \/ ReconcileThrows
    BY <2>1, RunEnds DEF ReconcileEnds, ReconcileThrows
  <2>2. QED
    BY <1>5, <2>1, ReconcileStartKeeps, ReconcileLooksUpKeeps,
       ReconcileBackfillsKeeps, ReconcileSeedsKeeps, ReconcileSweepsKeeps,
       ReconcileProbesKeeps, ReconcileArchivesKeeps DEF Reconcile
<1>6. CASE UNCHANGED vars
  <2>1. Grows /\ ProjectsHavePaths' /\ RowsSound'
    BY <1>6, Quiet DEF vars
  <2>2. (reqs \in [Req -> Request] /\ RequestsFit /\ rec \in Run /\ RunFits(rec))'
    BY <1>6, <2>1, NoneMoves DEF vars
  <2>3. QED
    BY <1>6, <2>1, <2>2 DEF vars, IInv, TypeOK
<1>7. QED
  BY <1>1, <1>2, <1>3, <1>4, <1>5, <1>6, ThrowsKeeps, RestartKeeps, OutsideKeeps
     DEF Next

(* Whatever runs at the same time, what a request or the reconciliation     *)
(* carries from one call to the next is still true when it uses it: the     *)
(* project exists or has existed, the document is the one it inserted or    *)
(* read, and a deletion past its GitLab probe is of a project that is gone. *)
THEOREM Inductive == Spec => []IInv
BY InitIInv, NextKeeps, PTL DEF Spec

(* Every variable keeps its type: a request carries what its step needs, so *)
(* no handler reads a document, a project or a slug it has not got.         *)
THEOREM TypeCorrect == Spec => []TypeOK
<1>1. IInv => TypeOK
  BY DEF IInv
<1>2. QED
  BY <1>1, Inductive, PTL

(* deleteProject drops a row only when its GitLab project is really gone.   *)
THEOREM RemovedOnlyWhenGone == Spec => []RemovedMeansGone
<1>1. IInv => RemovedMeansGone
  BY DEF IInv, RowsSound
<1>2. QED
  BY <1>1, Inductive, PTL

(* No row disappears without its 'project.deleted' audit entry.             *)
THEOREM DeletionAudited == Spec => []DeletionIsAudited
<1>1. IInv => DeletionIsAudited
  BY DEF IInv, RowsSound
<1>2. QED
  BY <1>1, Inductive, PTL

-----------------------------------------------------------------------------
(* The registry implements the ledger.                                      *)

LEMMA LedgerInit == Init => Ledger!Init
BY DEF Init, Ledger!Init, UnusedProject, FreeRow


LEMMA LedgerStays ==
    ASSUME IInv, UNCHANGED rows,
           \A g \in Gid : gitlab'[g].st = gitlab[g].st
    PROVE  UNCHANGED Ledger!vars
BY DEF Ledger!vars

(* GitLab changes the state of one project.                                 *)
LEMMA LedgerLives ==
    ASSUME IInv, UNCHANGED rows, NEW g \in Gid, NEW from, NEW to,
           gitlab[g].st \in from, gitlab'[g].st = to,
           \A h \in Gid \ {g} : gitlab'[h].st = gitlab[h].st
    PROVE  Ledger!Lives(g, from, to)
<1> DEFINE life == [h \in Gid |-> gitlab[h].st]
<1>1. life[g] \in from
  OBVIOUS
<1>2. [h \in Gid |-> gitlab'[h].st] = [life EXCEPT ![g] = to]
  OBVIOUS
<1>3. QED
  BY <1>1, <1>2 DEF Ledger!Lives

(* One row is entered, archived, struck out or keeps its state.             *)
LEMMA LedgerEnters ==
    ASSUME IInv, UNCHANGED gitlab, NEW d \in Doc, NEW g \in Gid, Begun(g),
           NEW n, NEW s, NEW b, NEW t, Insert(d, g, n, s, b, t)
    PROVE  Ledger!Enter(d, g)
<1>1. /\ rows[d].st = "free" /\ rows \in [Doc -> Row]
      /\ \A e \in Doc \ {d} : Present(e) => rows[e].gid # g
      /\ rows' = [rows EXCEPT ![d] = NewRow(g, n, s, b, t)]
  BY DEF IInv, TypeOK, Insert, Insertable, IndexesAllow
<1>2. \A e \in Doc : Present(e) => rows[e].gid # g
  BY <1>1 DEF Present
<1>3. rows'[d].st = "active" /\ rows'[d].gid = g
      /\ \A e \in Doc \ {d} : rows'[e] = rows[e]
  BY <1>1 DEF NewRow
<1>4. [e \in Doc |-> rows'[e].st] = [[e \in Doc |-> rows[e].st] EXCEPT ![d] = "active"]
      /\ [e \in Doc |-> rows'[e].gid] = [[e \in Doc |-> rows[e].gid] EXCEPT ![d] = g]
  BY <1>3
<1>5. QED
  BY <1>1, <1>2, <1>4 DEF Ledger!Enter, Ledger!Current, Present, Begun

LEMMA LedgerStatus ==
    ASSUME IInv, UNCHANGED gitlab, NEW d \in Doc, Present(d),
           \A e \in Doc : rows'[e].gid = rows[e].gid,
           \A e \in Doc \ {d} : rows'[e].st = rows[e].st,
           \/ rows'[d].st = "archived"
           \/ rows'[d].st = "removed" /\ gitlab[rows[d].gid].st = "gone"
    PROVE  Ledger!Archive(d) \/ Ledger!Strike(d)
<1>1. rows[d].gid \in Gid
  BY DEF IInv, RowsSound, RowsHaveProjects, Present, Used
<1>2. [e \in Doc |-> rows'[e].st] = [[e \in Doc |-> rows[e].st] EXCEPT ![d] = rows'[d].st]
      /\ [e \in Doc |-> rows'[e].gid] = [e \in Doc |-> rows[e].gid]
  OBVIOUS
<1>3. QED
  BY <1>1, <1>2 DEF Ledger!Archive, Ledger!Strike, Ledger!Current, Present

LEMMA LedgerQuiet ==
    ASSUME IInv, UNCHANGED <<gitlab, rows>>
    PROVE  [Ledger!Next]_Ledger!vars
BY LedgerStays

(* Wiring a GitLab project for CI is no event of its life.                  *)
LEMMA LedgerWiring ==
    ASSUME IInv, NEW r \in Req,
           CreateWires(r) \/ RegisterWires(r) \/ SonarSetsCi(r)
    PROVE  [Ledger!Next]_Ledger!vars
<1>1. UNCHANGED rows
  BY DEF CreateWires, RegisterWires, SonarSetsCi
<1>2. \A g \in Gid : gitlab'[g].st = gitlab[g].st
  BY DEF CreateWires, RegisterWires, SonarSetsCi, IInv, TypeOK, GitLabProject
<1>3. QED
  BY <1>1, <1>2, LedgerStays

LEMMA LedgerGitLab ==
    ASSUME IInv, UNCHANGED rows, NEW g \in Gid,
           \/ \E p \in Path : GitLabCreate(g, p)
           \/ gitlab[g].st = "live" /\ (Scheduled(g, TRUE) \/ Scheduled(g, FALSE))
           \/ Exists(g) /\ gitlab' = [gitlab EXCEPT ![g].st = "gone"]
    PROVE  [Ledger!Next]_Ledger!vars
<1>1. gitlab \in [Gid -> GitLabProject]
  BY DEF IInv, TypeOK
<1>2. CASE \E p \in Path : GitLabCreate(g, p)
  <2>1. /\ gitlab[g].st \in {"unused"} /\ gitlab'[g].st = "live"
        /\ \A h \in Gid \ {g} : gitlab'[h].st = gitlab[h].st
    BY <1>1, <1>2 DEF GitLabCreate, GitLabProject
  <2>2. QED
    BY <2>1, LedgerLives DEF Ledger!Next
<1>3. CASE gitlab[g].st = "live" /\ (Scheduled(g, TRUE) \/ Scheduled(g, FALSE))
  <2>1. /\ gitlab[g].st \in {"live"} /\ gitlab'[g].st = "pending"
        /\ \A h \in Gid \ {g} : gitlab'[h].st = gitlab[h].st
    BY <1>1, <1>3 DEF Scheduled, GitLabProject
  <2>2. QED
    BY <2>1, LedgerLives DEF Ledger!Next
<1>4. CASE Exists(g) /\ gitlab' = [gitlab EXCEPT ![g].st = "gone"]
  <2>1. /\ gitlab[g].st \in {"live", "pending"} /\ gitlab'[g].st = "gone"
        /\ \A h \in Gid \ {g} : gitlab'[h].st = gitlab[h].st
    BY <1>1, <1>4 DEF Exists, GitLabProject
  <2>2. QED
    BY <2>1, LedgerLives DEF Ledger!Next
<1>5. QED
  BY <1>2, <1>3, <1>4

LEMMA LedgerInsertion ==
    ASSUME IInv,
           \/ \E r \in Req : CreateInserts(r) \/ RegisterInserts(r)
           \/ ReconcileBackfills
    PROVE  [Ledger!Next]_Ledger!vars
<1>1. UNCHANGED gitlab
  BY DEF CreateInserts, RegisterInserts, ReconcileBackfills
<1>2. CASE UNCHANGED rows
  BY <1>1, <1>2, LedgerQuiet
<1>3. ASSUME NEW r \in Req, CreateInserts(r) \/ RegisterInserts(r), ~UNCHANGED rows
      PROVE  [Ledger!Next]_Ledger!vars
  <2> DEFINE q == reqs[r]
  <2>1. PICK d \in Doc :
          Insert(d, q.gid, <<q.path, None>>, q.slug, q.path, TargetsFor(q.deploy))
    BY <1>3 DEF CreateInserts, RegisterInserts
  <2>2. q.gid \in Gid /\ Begun(q.gid)
    BY <1>3 DEF IInv, RequestsFit, Fits, CreateInserts, RegisterInserts, At, Owning
  <2>3. PICK g \in Gid : g = q.gid
    BY <2>2
  <2>4. Ledger!Enter(d, g)
    BY <1>1, <2>1, <2>2, <2>3, LedgerEnters
  <2>5. QED
    BY <2>4 DEF Ledger!Next
<1>4. ASSUME ReconcileBackfills, ~UNCHANGED rows
      PROVE  [Ledger!Next]_Ledger!vars
  <2>1. PICK d \in Doc :
          Insert(d, rec.gid, <<rec.path, None>>, rec.slug, rec.path, "none")
    BY <1>4 DEF ReconcileBackfills
  <2>2. rec.gid \in Gid /\ Begun(rec.gid)
    BY <1>4 DEF IInv, RunFits, ReconcileBackfills
  <2>3. PICK g \in Gid : g = rec.gid
    BY <2>2
  <2>4. Ledger!Enter(d, g)
    BY <1>1, <2>1, <2>2, <2>3, LedgerEnters
  <2>5. QED
    BY <2>4 DEF Ledger!Next
<1>5. QED
  BY <1>2, <1>3, <1>4

LEMMA LedgerMarks ==
    ASSUME IInv, NEW r \in Req, DeleteRemoves(r) \/ DeleteArchives(r)
    PROVE  [Ledger!Next]_Ledger!vars
<1> DEFINE d == reqs[r].doc
<1>1. d \in Doc /\ Used(d) /\ Fits(reqs[r]) /\ rows \in [Doc -> Row] /\ UNCHANGED gitlab
  BY DEF IInv, TypeOK, RequestsFit, DeleteRemoves, DeleteArchives, At, Fits, Deleting
<1>2. rows[d].st \in {"active", "archived", "removed"}
  BY <1>1 DEF Row, Used
<1>3. CASE DeleteRemoves(r)
  <2>1. gitlab[rows[d].gid].st = "gone"
    BY <1>1, <1>3 DEF DeleteRemoves, At, Fits, PastGitLab, Deleting
  <2>2. /\ rows'[d].st = "removed"
        /\ \A e \in Doc : rows'[e].gid = rows[e].gid
        /\ \A e \in Doc \ {d} : rows'[e].st = rows[e].st
    BY <1>1, <1>3 DEF DeleteRemoves, Row
  <2>3. CASE Present(d)
    BY <1>1, <2>1, <2>2, <2>3, LedgerStatus DEF Ledger!Next
  <2>4. CASE ~Present(d)
    BY <1>1, <1>2, <2>2, <2>4 DEF Present, Ledger!vars
  <2>5. QED
    BY <2>3, <2>4
<1>4. CASE DeleteArchives(r) /\ Present(d)
  <2>1. rows' = [rows EXCEPT ![d].st = "archived"]
    BY <1>4 DEF DeleteArchives
  <2>2. /\ rows'[d].st = "archived"
        /\ \A e \in Doc : rows'[e].gid = rows[e].gid
        /\ \A e \in Doc \ {d} : rows'[e].st = rows[e].st
    BY <1>1, <2>1 DEF Row
  <2>3. QED
    BY <1>1, <1>4, <2>2, LedgerStatus DEF Ledger!Next
<1>5. CASE DeleteArchives(r) /\ ~Present(d)
  BY <1>1, <1>5, LedgerQuiet DEF DeleteArchives
<1>6. QED
  BY <1>3, <1>4, <1>5

LEMMA LedgerRenames ==
    ASSUME IInv, ReconcileArchives PROVE [Ledger!Next]_Ledger!vars
<1> DEFINE d == rec.doc
<1>1. d \in Doc /\ rows \in [Doc -> Row] /\ UNCHANGED gitlab
  BY DEF IInv, TypeOK, ReconcileArchives, RunFits
<1>2. CASE UNCHANGED rows
  BY <1>1, <1>2, LedgerQuiet
<1>3. CASE Present(d) /\ rows' = [rows EXCEPT ![rec.doc].st = "archived",
                                              ![rec.doc].name = rec.name]
  <2>1. /\ rows'[d].st = "archived"
        /\ \A e \in Doc : rows'[e].gid = rows[e].gid
        /\ \A e \in Doc \ {d} : rows'[e].st = rows[e].st
    BY <1>1, <1>3 DEF Row
  <2>2. QED
    BY <1>1, <1>3, <2>1, LedgerStatus DEF Ledger!Next
<1>4. QED
  BY <1>2, <1>3 DEF ReconcileArchives

LEMMA LedgerAllowlist ==
    ASSUME IInv, NEW r \in Req, SonarSaves(r) PROVE [Ledger!Next]_Ledger!vars
<1>1. rows \in [Doc -> Row] /\ UNCHANGED gitlab
  BY DEF IInv, TypeOK, SonarSaves
<1>2. \A d \in Doc : rows'[d].st = rows[d].st /\ rows'[d].gid = rows[d].gid
  BY <1>1 DEF SonarSaves, Row
<1>3. QED
  BY <1>1, <1>2 DEF Ledger!vars

LEMMA LedgerDeletes ==
    ASSUME IInv, NEW r \in Req, DeleteInGitLab(r) PROVE [Ledger!Next]_Ledger!vars
<1>1. reqs[r].gid \in Gid /\ UNCHANGED rows
  BY DEF IInv, RequestsFit, Fits, Deleting, DeleteInGitLab, At
<1>2. PICK g \in Gid :
        \/ Exists(g) /\ gitlab' = [gitlab EXCEPT ![g].st = "gone"]
        \/ gitlab[g].st = "live" /\ (Scheduled(g, TRUE) \/ Scheduled(g, FALSE))
        \/ UNCHANGED gitlab
  BY <1>1 DEF DeleteInGitLab, Scheduled
<1>3. CASE UNCHANGED gitlab
  BY <1>1, <1>3, LedgerQuiet
<1>4. CASE ~UNCHANGED gitlab
  BY <1>1, <1>2, <1>4, LedgerGitLab
<1>5. QED
  BY <1>3, <1>4

LEMMA LedgerStep == IInv /\ [Next]_vars => [Ledger!Next]_Ledger!vars
<1> SUFFICES ASSUME IInv, [Next]_vars PROVE [Ledger!Next]_Ledger!vars
  OBVIOUS
<1>1. ASSUME NEW r \in Req, Create(r) PROVE [Ledger!Next]_Ledger!vars
  <2>1. CASE CreateInGitLab(r)
    <3>1. reqs[r].path \in Path /\ UNCHANGED rows
      BY <2>1 DEF IInv, RequestsFit, Fits, Creating, CreateInGitLab, At
    <3>2. CASE UNCHANGED gitlab
      BY <3>1, <3>2, LedgerQuiet
    <3>3. CASE ~UNCHANGED gitlab
      BY <2>1, <3>1, <3>3, LedgerGitLab DEF CreateInGitLab
    <3>4. QED
      BY <3>2, <3>3
  <2>2. CASE CreateStart(r) \/ CreateSeedsBase(r) \/ CreateSeedsTargets(r)
    BY <2>2, LedgerQuiet DEF CreateStart, CreateSeedsBase, CreateSeedsTargets
  <2>3. QED
    BY <1>1, <2>1, <2>2, LedgerWiring, LedgerInsertion DEF Create
<1>2. ASSUME NEW r \in Req, Register(r) PROVE [Ledger!Next]_Ledger!vars
  <2>1. CASE RegisterStart(r) \/ RegisterSeedsBase(r) \/ RegisterSeedsTargets(r)
    BY <2>1, LedgerQuiet DEF RegisterStart, RegisterSeedsBase, RegisterSeedsTargets
  <2>2. QED
    BY <1>2, <2>1, LedgerWiring, LedgerInsertion DEF Register
<1>3. ASSUME NEW r \in Req, ConfigureSonar(r) PROVE [Ledger!Next]_Ledger!vars
  <2>1. CASE SonarStoresToken(r)
    BY <2>1, LedgerQuiet DEF SonarStoresToken
  <2>2. QED
    BY <1>3, <2>1, LedgerAllowlist, LedgerWiring DEF ConfigureSonar
<1>4. ASSUME NEW r \in Req, Delete(r) PROVE [Ledger!Next]_Ledger!vars
  <2>1. CASE DeleteInGitLab(r)
    BY <2>1, LedgerDeletes
  <2>2. CASE DeleteRemoves(r) \/ DeleteArchives(r)
    BY <2>2, LedgerMarks
  <2>3. CASE \/ \E d \in Doc : DeleteStart(r, d)
             \/ DeleteReleases(r) \/ DeleteSecrets(r) \/ DeleteAnalyses(r)
             \/ ProbeGitLab(r) \/ ProbeK8s(r) \/ ProbeVault(r) \/ ProbeSonar(r)
             \/ DeleteAudits(r)
    BY <2>3, LedgerQuiet DEF DeleteStart, DeleteReleases, DeleteSecrets,
       DeleteAnalyses, ProbeGitLab, ProbeK8s, ProbeVault, ProbeSonar, Probe,
       DeleteAudits
  <2>4. QED
    BY <1>4, <2>1, <2>2, <2>3 DEF Delete
<1>5. CASE Reconcile
  <2>1. CASE ReconcileBackfills
    BY <2>1, LedgerInsertion
  <2>2. CASE ReconcileArchives
    BY <2>2, LedgerRenames
  <2>3. CASE \/ ReconcileStart \/ ReconcileLooksUp \/ ReconcileSeeds
             \/ ReconcileSweeps \/ ReconcileProbes \/ ReconcileEnds
             \/ ReconcileThrows
    BY <2>3, LedgerQuiet DEF ReconcileStart, ReconcileLooksUp, ReconcileSeeds,
       ReconcileSweeps, ReconcileProbes, ReconcileEnds, ReconcileThrows
  <2>4. QED
    BY <1>5, <2>1, <2>2, <2>3 DEF Reconcile
<1>6. ASSUME NEW g \in Gid, Outside(g) PROVE [Ledger!Next]_Ledger!vars
  <2>1. CASE CreatedByHand(g) \/ DeletedByHand(g) \/ RetentionEnds(g)
    BY <2>1, LedgerGitLab DEF CreatedByHand, DeletedByHand, RetentionEnds, Exists
  <2>2. CASE PipelineDeploys(g) \/ PipelineScans(g)
    BY <2>2, LedgerQuiet DEF PipelineDeploys, PipelineScans
  <2>3. QED
    BY <1>6, <2>1, <2>2 DEF Outside
<1>7. CASE Restart \/ UNCHANGED vars \/ \E r \in Req : Throws(r)
  BY <1>7, LedgerQuiet DEF Restart, vars, Throws
<1>8. QED
  BY <1>1, <1>2, <1>3, <1>4, <1>5, <1>6, <1>7 DEF Next

(* The registry implements the ledger: whatever fails, races or restarts,   *)
(* an entry is made once per project, never reactivated, and struck out     *)
(* only after GitLab has removed the project.                               *)
THEOREM RegistryImplementsLedger == Spec => ImplementsLedger
<1>1. Init => Ledger!Init
  BY LedgerInit
<1>2. IInv /\ [Next]_vars => [Ledger!Next]_Ledger!vars
  BY LedgerStep
<1>3. QED
  BY <1>1, <1>2, Inductive, PTL DEF Spec, ImplementsLedger, Ledger!Spec

=============================================================================
