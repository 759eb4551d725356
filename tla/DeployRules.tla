----------------------------- MODULE DeployRules -----------------------------
(***************************************************************************)
(* The pure rules of api/src/projects/deploy: how a deployment target gets *)
(* its branch and its hosts, which GitLab jobs, includes and variables the *)
(* targets of a project generate, and how the generated include list is    *)
(* merged into the project's own .gitlab-ci.yml.                           *)
(*                                                                         *)
(* A target is its enabled flag, its deployRef and the host of each of its *)
(* apps.  An app stands for its name and its image, which name its         *)
(* environment scope and its Helm release; namespaces, cluster profiles    *)
(* and Dockerfiles are left out.                                           *)
(***************************************************************************)
EXTENDS Naturals, FiniteSets

CONSTANTS
    Key,        \* keys of deployment targets
    Standard,   \* those the pipeline template has jobs for: dev, stg, prod
    Prod,       \* the key "prod"
    DefaultRef, \* DEFAULT_DEPLOY_REFS
    App,
    Branch,
    MainBranch, \* GitLab's default branch of the project
    Host,       \* hosts that users ask for
    NoRef,      \* DEPLOY_REF_DISABLED, the ref "none"
    Nil         \* undefined

ASSUME KeyAssumption == Standard \subseteq Key /\ Prod \in Standard
ASSUME RefAssumption ==
    /\ DefaultRef \in [Standard -> Branch]
    /\ MainBranch \in Branch
    /\ NoRef \notin Branch /\ Nil \notin Branch \cup Host /\ Nil # NoRef
    /\ Nil \notin Key \X App
ASSUME FiniteAssumption == IsFiniteSet(Key) /\ IsFiniteSet(App) /\ IsFiniteSet(Branch)

First(S) == CHOOSE a \in S : TRUE

(* The apps of a target, and the hosts that saving gives them: the one that *)
(* was asked for the app, else one derived from app and key.                *)
NoApps == [a \in App |-> Nil]
DerivedHostSwapped(k, a) == <<a, k>>
DerivedHost(k, a) == <<k, a>>
HostsFor(k, apps, asked) ==
    [a \in App |-> IF a \notin apps THEN Nil
                   ELSE IF asked[a] # Nil THEN asked[a]
                   ELSE DerivedHost(k, a)]
AppsOf(t) == IF t = Nil THEN {} ELSE {a \in App : t.host[a] # Nil}

DefaultDeployRef(k) == IF k \in Standard THEN DefaultRef[k] ELSE Nil

(* assertValidActiveDeployRef: an enabled target needs a branch. *)
ValidRef(ref, on) == ref # Nil /\ (on => ref # NoRef)

(* The ref of a target that is saved with the flag on: the one asked for,   *)
(* else the stored one (which is "none" while the target is disabled), else *)
(* the default of its key.                                                  *)
SavedRef(k, on, asked, old) ==
    IF ~on THEN NoRef
    ELSE IF asked # Nil THEN asked
    ELSE IF old # Nil THEN old.ref
    ELSE DefaultDeployRef(k)

DeriveStandard(k, app, deployable) ==
    IF k \notin Standard THEN Nil
    ELSE [on   |-> deployable,
          ref  |-> IF deployable THEN DefaultRef[k] ELSE NoRef,
          host |-> HostsFor(k, {app}, NoApps)]

(* Branch options: a default branch, a ref per standard key, and whether    *)
(* the default branch is for every enabled standard target.                 *)
NoOptions == [main |-> Nil, refs |-> [k \in Standard |-> Nil], all |-> FALSE]

OverriddenRef(k, t, opts) ==
    IF k \notin Standard THEN t.ref
    ELSE IF opts.refs[k] # Nil THEN opts.refs[k]
    ELSE IF opts.main # Nil /\ t.on /\ (opts.all \/ k = Prod) THEN opts.main
    ELSE t.ref

Overridden(ts, opts) ==
    [k \in Key |-> IF ts[k] = Nil THEN Nil
                   ELSE [ts[k] EXCEPT !.ref = OverriddenRef(k, ts[k], opts)]]

(* createProject and registerGitLabProject: the targets of a new row.  The  *)
(* host of a target is for the app that it gets when it names none.         *)
InputTarget(k, in, app, deployable) ==
    LET on == IF in.on = Nil THEN deployable ELSE in.on
    IN  [on   |-> on,
         ref  |-> SavedRef(k, on, in.ref, Nil),
         host |-> IF in.apps = {} THEN HostsFor(k, {app}, [NoApps EXCEPT ![app] = in.host])
                  ELSE HostsFor(k, in.apps, in.hosts)]

InitialTargets(in) ==
    Overridden([k \in Key |-> IF in.targets = Nil
                              THEN DeriveStandard(k, in.app, in.deployable)
                              ELSE IF in.targets[k] = Nil THEN Nil
                              ELSE InputTarget(k, in.targets[k], in.app, in.deployable)],
               in.opts)

PipelineRef(opts) == IF opts.main # Nil THEN opts.main ELSE MainBranch

-----------------------------------------------------------------------------
(***************************************************************************)
(* What the targets of a project generate.                                 *)
(***************************************************************************)
KeysOf(ts) == {k \in Key : ts[k] # Nil}
Generates(t) == t # Nil /\ t.on /\ t.ref # NoRef

DeployJobs(ts) == {ka \in Key \X App : Generates(ts[ka[1]]) /\ ka[2] \in AppsOf(ts[ka[1]])}

(* The template's own deploy job of a key is turned off where apps have one. *)
DisabledBuiltins(ts) == {k \in Standard : \E a \in App : <<k, a>> \in DeployJobs(ts)}

(* One build job per app of any target; it runs on the branch of each.      *)
BuildJobs(ts) == {ak \in App \X Key : <<ak[2], ak[1]>> \in DeployJobs(ts)}

ManagedIncludes(ts) ==
    {"template"} \cup (IF DeployJobs(ts) = {} THEN {} ELSE {"deploy-targets"})
                 \cup (IF BuildJobs(ts) = {} THEN {} ELSE {"build-jobs"})

(* The two fragments, deleted from the branch when they would be empty.     *)
Fragment(ts) == [deploy |-> DeployJobs(ts), off |-> DisabledBuiltins(ts),
                 build |-> BuildJobs(ts)]

-----------------------------------------------------------------------------
(***************************************************************************)
(* mergeProjectGitlabCi.  A root file is absent, a YAML mapping, YAML that *)
(* is no mapping ("scalar"), YAML with tags the parser does not know       *)
(* ("tagged"), or text without a top-level key ("garbage"); it holds the   *)
(* user's jobs and a list of includes.                                     *)
(***************************************************************************)
Shape == {"absent", "scalar", "yaml", "tagged", "garbage"}
NoRoot == [shape |-> "absent", jobs |-> {}, includes |-> {}]

RewrittenRoot(root, includes) == [shape |-> "yaml", jobs |-> {}, includes |-> includes]

(* mergeIncludeBlockFallback: replaces the include block only.              *)
IncludeFallback(root, includes) ==
    IF root.shape = "garbage" THEN Nil ELSE [root EXCEPT !.includes = includes]

MergedRoot(root, includes) ==
    CASE root.shape \in {"absent", "scalar"} -> RewrittenRoot(root, includes)
      [] root.shape = "yaml"                 -> [root EXCEPT !.includes = includes]
      [] OTHER                               -> IncludeFallback(root, includes)

=============================================================================
