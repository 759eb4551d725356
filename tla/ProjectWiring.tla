---------------------------- MODULE ProjectWiring ----------------------------
(***************************************************************************)
(* Target and profile requests together on one project: they share its     *)
(* document, its target secrets, its CI/CD variables and its branches.     *)
(***************************************************************************)
EXTENDS DeployWiring, EnvProfiles, ProjectInputs

CONSTANTS
    Ops,        \* the requests of this instance
    Creations,  \* how the project came to be
    UserRoots   \* the .gitlab-ci.yml that users wrote, by branch

ASSUME OpsAssumption == Ops \subseteq ProjectRequest
ASSUME CreationsAssumption ==
    \A in \in Creations :
        /\ [deployable |-> in.deployable, app |-> in.app, targets |-> in.targets, opts |-> in.opts]
              \in CreateProjectInput \cup RegisterGitLabProjectInput
        /\ \A k \in Key :                 \* as buildDeploymentTargetFromInput asks
              InitialTargets(in)[k] # Nil
              => ValidRef(InitialTargets(in)[k].ref, InitialTargets(in)[k].on)
        /\ {in.legacy, in.pinned} \subseteq BOOLEAN

(* The profiles of a project at first are what earlier uploads stored; an   *)
(* upload makes a new id.                                                   *)
StoredProfile == [phase : {"build", "runtime"}, branches : SUBSET Branch, job : Optional(App),
                  file : Optional(File), targets : SUBSET Key, names : SUBSET RtKey]
ASSUME ProfilesAssumption ==
    \A in \in Creations :
        /\ in.profiles \in [Profile -> StoredProfile \cup {Nil}]
        /\ \A p, q \in Profile :
              p # q /\ in.profiles[p] # Nil /\ in.profiles[q] # Nil
              => ~Overlaps(in.profiles[p], in.profiles[q])
        /\ \A o \in Ops : o.op = "upload" => in.profiles[o.profile] = Nil

Managed == {"template", "deploy-targets", "build-jobs"}
MergedFile == [shape : Shape, jobs : {UserRoots[b].jobs : b \in Branch} \cup {{}},
               includes : SUBSET Managed]
ASSUME RootsAssumption ==
    \A b \in Branch : /\ UserRoots[b] = [shape |-> UserRoots[b].shape, jobs |-> UserRoots[b].jobs,
                                          includes |-> UserRoots[b].includes]
                      /\ UserRoots[b].shape \in Shape
                      /\ UserRoots[b].shape \in {"absent", "scalar"} => UserRoots[b].jobs = {}

(* The project as createProject leaves it: secrets seeded, variables        *)
(* published, fragments on the default branch; a legacy row, which the      *)
(* reconciliation inserts, has no targets and only its secrets.             *)
NewDoc(in) ==
    [ver |-> 0, profiles |-> in.profiles, pinned |-> in.pinned, legacy |-> in.legacy,
     runtime |-> (\A p \in Profile : in.profiles[p] = Nil) \/ RuntimeEnv(in.profiles),
     deployable |-> in.deployable, app |-> in.app,
     targets |-> IF in.legacy THEN [k \in Key |-> Nil] ELSE InitialTargets(in)]

NewGitLab(ts, wired) ==
    [ref   |-> [k \in Key |-> IF ts[k] = Nil THEN Nil ELSE ts[k].ref],
     host  |-> [k \in Key |-> IF ts[k] = Nil THEN NoApps ELSE ts[k].host],
     jobs  |-> [b \in Branch |-> IF b = MainBranch /\ wired THEN Fragment(ts)
                                 ELSE Fragment([k \in Key |-> Nil])],
     root  |-> [b \in Branch |->
                  IF b = MainBranch /\ wired /\ UserRoots[b].shape # "garbage"
                  THEN MergedRoot(UserRoots[b], ManagedIncludes(ts)) ELSE UserRoots[b]],
     chart |-> [b \in Branch |-> IF b = MainBranch /\ wired THEN TRUE ELSE Nil]]

NamesIn(profiles, k) ==
    UNION {profiles[p].names : p \in {q \in Profile : profiles[q] # Nil /\ k \in profiles[q].targets}}

NewVault(doc) ==
    [target |-> [k \in Key |-> IF k \in Standard \cup KeysOf(doc.targets)
                               THEN {Seed} \cup NamesIn(doc.profiles, k) ELSE {}],
     body   |-> [p \in Profile |-> IF doc.profiles[p] = Nil THEN Nil ELSE doc.profiles[p].names],
     index  |-> IndexOf(doc.profiles)]

WiringInit ==
    \E in \in Creations :
        /\ row = NewDoc(in)
        /\ vault = NewVault(NewDoc(in))
        /\ gitlab = NewGitLab(NewDoc(in).targets, ~in.legacy)
        /\ releases = {}
        /\ req = [r \in Req |-> Idle]

WiringNext ==
    \/ \E r \in Req, o \in Ops : WiringStarts(r, o) \/ ProfileStarts(r, o)
    \/ \E r \in Req : Called(r)
    \/ \E k \in Key, a \in App, b \in Branch : PipelineDeploys(k, a, b)

WiringSpec == WiringInit /\ [][WiringNext]_project

-----------------------------------------------------------------------------
Target == [on : BOOLEAN, ref : Branch \cup {NoRef},
           host : [App -> Host \cup {Nil} \cup (Key \X App)]]

ASSUME NilAssumption ==
    /\ Nil \notin Target /\ Nil \notin StoredProfile /\ Nil \notin MergedFile /\ Nil \notin BOOLEAN
    /\ Nil \notin Profile /\ \A names \in SUBSET RtKey : names # Nil

(* The type of the project's state.                                         *)
WiringTypeOK ==
    /\ \A k \in Key : row.targets[k] \in Target \cup {Nil}
    /\ row.ver \in Nat /\ {row.legacy, row.pinned, row.runtime} \subseteq BOOLEAN
    /\ vault.target \in [Key -> SUBSET (RtKey \cup {Seed})]
    /\ vault.body \in [Profile -> (SUBSET RtKey) \cup {Nil}]
    /\ gitlab.ref \in [Key -> Branch \cup {NoRef, Nil}]
    /\ \A b \in Branch : gitlab.root[b].shape \in Shape
    /\ releases \subseteq Key \X App
    /\ \A r \in Req : req[r].st \in {"idle", "busy", "done", "failed", "rejected"}

OpsOf(kinds) == {r \in Req : req[r].op.op \in kinds}

(* No request runs, none failed half way, and each of the requests that     *)
(* change targets did change the stored array.                              *)
Settled(kinds) ==
    /\ Done /\ \A r \in Req : req[r].st # "failed"
    /\ \A r \in OpsOf({"upsert", "remove", "migrate"}) : req[r].st = "done" => req[r].wrote
    /\ OpsOf({"upsert", "remove", "migrate", "hostname"}) = OpsOf(kinds)

(* Two requests that both change the targets of a project publish every     *)
(* variable of every target before they save: what GitLab is left with is   *)
(* what MongoDB is left with, because the second of two requests that read  *)
(* the same document fails at its save (syncAllDeploymentWiring).           *)
WiringFollowsRow ==
    Settled({"upsert", "remove", "migrate"}) =>
        \A k \in Key :
            LET t == row.targets[k]
            IN  /\ t # Nil /\ (t.on \/ OpsOf({"migrate"}) = {}) =>
                      /\ gitlab.ref[k] = t.ref
                      /\ \A a \in AppsOf(t) : gitlab.host[k][a] = t.host[a]
                /\ t = Nil => gitlab.ref[k] \in {NoRef, Nil}
                /\ \A a \in App \ AppsOf(t) : gitlab.host[k][a] = Nil

(* Once target requests have settled, no push installs a release of an app  *)
(* that the row does not have on an enabled target: fragments that older    *)
(* requests left on other branches are never selected.                      *)
DeploysOnlyEnabled ==
    [][ Settled({"upsert", "remove"}) =>
          \A ka \in releases' \ releases :
             /\ Generates(row.targets[ka[1]])
             /\ ka[2] \in AppsOf(row.targets[ka[1]]) ]_project

(* An enabled target that a request saved has its jobs on the branch that   *)
(* its ref names, and that branch includes them: committing to the default  *)
(* branch instead was a bug the code now comments on (1876 to 1878).        *)
JobsFollowTarget ==
    Settled({"upsert", "remove"}) =>
        \A r \in OpsOf({"upsert"}) :
            LET o == req[r].op
                t == row.targets[o.key]
            IN  req[r].st = "done" /\ Generates(t) /\ o.on /\ AppsOf(t) = o.apps
                /\ o.ref = t.ref
                => /\ \A a \in App : <<o.key, a>> \in gitlab.jobs[t.ref].deploy <=> a \in o.apps
                   /\ \/ "deploy-targets" \in gitlab.root[t.ref].includes
                      \/ UserRoots[t.ref].shape = "garbage"

(* Whatever the requests write to the branches, the jobs that users wrote   *)
(* in .gitlab-ci.yml stay there (mergeProjectGitlabCi).                     *)
UserJobsKept == \A b \in Branch : gitlab.root[b].jobs = UserRoots[b].jobs

(* A row stops being legacy only once some branch has the chart values and  *)
(* the template include, unless its file could not be merged.               *)
MigratedIsWired ==
    ~row.legacy =>
        \E b \in Branch : /\ gitlab.chart[b] # Nil
                          /\ \/ "template" \in gitlab.root[b].includes
                             \/ UserRoots[b].shape = "garbage"

(* An upload that was answered is stored until someone deletes it, and      *)
(* profiles that were never edited do not overlap, although each upload     *)
(* checks the rule on the document it loaded and then saves the whole       *)
(* array it made from it.                                                   *)
UploadsStoredApart ==
    /\ \A r \in OpsOf({"upload"}) :
          req[r].st = "done" =>
             \/ req[r].op.profile \in ProfilesOf(row)
             \/ \E q \in OpsOf({"drop"}) : req[q].op.profile = req[r].op.profile
    /\ OpsOf({"content", "metadata"}) = {} =>
          \A p, q \in ProfilesOf(row) : p # q => ~Overlaps(row.profiles[p], row.profiles[q])

(* The pipeline finds what ci/index names: a listed profile that no request *)
(* is deleting is in the document and has its body in OpenBao.              *)
IndexedIsReadable ==
    \A e \in vault.index :
        \/ e[1] \in ProfilesOf(row) /\ vault.body[e[1]] # Nil
        \/ \E r \in OpsOf({"drop"}) : req[r].op.profile = e[1]

(* After uploads and deletions, the pods of a target see no key that no     *)
(* stored profile brings: the keys of deleted profiles are gone, although   *)
(* an upload writes back the whole secret that it read.                     *)
NoOrphanKeys ==
    /\ Done /\ \A r \in Req : Succeeded(r)
    /\ OpsOf({"content", "metadata"}) = {}
    => \A k \in Key : vault.target[k] \subseteq {Seed} \cup NamesIn(row.profiles, k)

(* What the documentation says of a runtime profile: its keys are in the    *)
(* secret of each of its targets.                                           *)
RuntimeKeysInTarget ==
    Done /\ (\A r \in Req : Succeeded(r)) =>
        \A k \in KeysOf(row.targets) : NamesIn(row.profiles, k) \subseteq vault.target[k]

(* The chart gets the runtime secrets exactly while a stored profile has    *)
(* some, although each request computes the flag from the list it loaded    *)
(* and the flag itself is saved without asking for the version.             *)
FlagFollowsProfiles ==
    ProfilesOf(row) # {} =>
        (row.runtime <=> \E p \in ProfilesOf(row) : row.profiles[p].phase = "runtime")

(* Whatever runs beside it and wherever it stops, each change a request     *)
(* makes to the document is that request's edit of the document as it is    *)
(* stored at that moment, although it was made from an older one: targets   *)
(* are replaced one request after the other, no pin or migration brings     *)
(* anything back, and an upload is admitted beside what it is stored with.  *)
Document == INSTANCE ProjectDocument WITH
    targets <- row.targets, profiles <- row.profiles, runtime <- row.runtime,
    legacy <- row.legacy, pinned <- row.pinned,
    origin <- [app |-> row.app, deployable |-> row.deployable]

ImplementsDocument == Document!Spec

=============================================================================
