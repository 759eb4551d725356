# Formal verification of the DevSecOps platform

TLA+ models of the platform's Management API (`src/api`), of its web console
(`src/console`) and of the host's disk watchdog (`src/bootstrap/watchdog.sh`),
checked with TLC and, in part, proved with TLAPS.

The API owns the registry of projects: MongoDB rows that say which GitLab
project, which secrets, which Helm releases and which Sonar projects belong
together.  It keeps five systems in step with sequences of HTTP calls, without
transactions, locks or rollback, and anybody may work in GitLab at the same
time.  That is where the hard behaviour is; the console and the watchdog add
late answers and processes that are killed half-way.

Contents: [the system](#the-system), [the modules](#the-modules),
[the runs](#the-runs), [fairness](#fairness), [the proofs](#the-proofs),
[divergences found](#divergences-found), [not modelled](#not-modelled),
[what is left](#what-is-left).

## The system

### Components

| Component | State it keeps | Operations | Correct when |
|---|---|---|---|
| Project registry (`projects.service.ts`, `slug.service.ts`, `project.schema.ts`) | collection `projects`, audit log, `reconcileInFlight` | `createProject`, `registerGitLabProject`, `deleteProject`, `reconcileGitLabProjects` | a row goes away only when its project and resources are gone; one project uses a release; a reconciliation overlooks no project of a user |
| Deployment targets and wiring (`projects.service.ts`, `deploy/*`) | `deploymentTargets`, GitLab CI variables, generated CI fragments | `upsertDeploymentTarget`, `removeDeploymentTarget`, `setHostnameOverride`, `syncAllDeploymentWiring` | CI variables and fragments say what the row says; only enabled targets are deployed; what users wrote in `.gitlab-ci.yml` stays |
| Migration and pinning (`projects.service.ts`) | `legacyV1`, `pinnedV1`, repository files | `migrateProjectToAutoDevops`, `setPinnedV1` | a row that stopped being legacy has its pipeline |
| Environment profiles (`env/env-profile.service.ts`) | `envProfiles`, profile secrets, runtime keys merged into target secrets, `ci/index` | `uploadProfile`, `updateProfileContent`, `updateProfileMetadata`, `deleteProfile` | uploads are stored and do not overlap; the index names what can be read; no keys of deleted profiles are left |
| Sonar configuration (`projects.service.ts`, `sonar/*`, `sonarqube.service.ts`) | `sonar` of the row, Sonar projects, token, CI variables | enabling at creation, cleanup at deletion; provision, prune, disable | a deleted project has no analysis |
| MCP access keys and server (`mcp/*`) | keys: hash, scope, `revokedAt`, `lastUsedAt` | create, revoke, authenticate; JSON-RPC batches of tool calls | active keys are bounded; a revoked key is never served again; a tool runs only in its scope |
| Guards and audit actor (`common/guards`, `common/audit`) | one asynchronous context per request | admit or refuse, stamp audit entries | entries name their caller and what the request may do |
| Clients: GitLab, Vault (OpenBao), Kubernetes | none but loaded kubeconfigs | sequences of HTTP requests | failures never read as "nothing there"; concurrent callers do not break each other |
| Auto DevOps pipeline (`configs/auto-devops-pipeline`) | releases, Sonar projects | deploy and scan jobs | deploys what the CI variables say |
| Host watchdog (`bootstrap/watchdog.sh`, `gitaly-promote-incoming.sh`) | state file, lock in Traefik, running groups | tick: promote, sample, warn, drain, ordered stop; `--clear` | an interrupted shutdown is finished by a later tick; "stopped" means stopped; data stores outlive GitLab |
| Console (`console/src`) | React state of one page | lists, detail pane, log view, profile forms, target form | what is on screen belongs to what it is headed by; a form changes what was edited and nothing else |
| GraphQL and REST surface | none | map inputs and outputs, write audit entries | see guards and audit actor |
| Configs, templates, operator scripts, compose | none beyond the above | thin wrappers, I/O | not modelled |

### How they interact

The API is one Node.js process.  A handler runs alone between two `await`s; at
each `await` any other request, and any developer, pipeline or retention job of
the outside systems, may take steps.  The interesting facts:

* `createProject` provisions first and inserts its MongoDB row last.  The slug
  it checked at the start is reserved only by the unique index at the end.
* `registerGitLabProject` inserts first and wires afterwards.  Its input may give the row
  another path than GitLab's, and with it another slug and other Sonar keys.
* `deleteProject` reads the row once, tears down Kubernetes, Vault and Sonar
  with every failure swallowed, asks GitLab to delete the project, then probes
  all four systems for remainders.  Nothing left: audit entry, then `deleteOne`.
  Something left, or a probe that fails: the row is archived.
* `reconcileGitLabProjects` lists GitLab once, then works through the list,
  inserting rows for projects without one and archiving rows of projects that
  are scheduled for deletion, then sweeps the active rows.  Projects of the template
  and config groups are passed over.  Concurrent calls share one promise.
* GitLab may delete at once, schedule a deletion, or (version 18) schedule and
  rename; the old path is then free for somebody else.
* A pipeline deploys and scans as long as its GitLab project exists,
  whatever the registry thinks.
* A target or profile request loads the project's document, plans from it, and
  then makes its calls one by one.  Everything it writes outside MongoDB is
  written before Mongoose compares `__v`, which protects arrays and nothing else.
* Target secrets are shared: targets seed them (replacing the whole secret),
  profiles merge keys into them (read, then write back).
* MCP clients authenticate with a key whose scope is fixed at the look-up; the
  console may revoke it while a batch is being served.
* The audit interceptor opens an asynchronous context per request; entries are
  stamped from it when they are written, awaits later.
* The scheduler starts a watchdog tick every two minutes, kills one that takes
  too long, and an operator may start, clear and bring up the stack at any time.
* The console sends requests at clicks and by a timer; their answers come in any
  order and meet whatever is on screen by then.

### What is hard about it

Interleavings of requests at every await; a listing, document or form that is
stale when it is used; handlers that stop halfway (exception or restart) and leave
resources without a row; calls that fail silently; answers out of order; a
deletion that is retried; a tick that is killed; names that are used again.
`PROJECT.json` lists each such hazard at its line, with the property that watches
it or the reason why none does.

## The modules

| Module | What it is |
|---|---|
| `ProjectRegistry` | the registry and the resources of the four systems, with the properties |
| `ProjectLedger` | the abstract specification: what a registry promises, without the how |
| `ProjectRegistryProofs` | the inductive invariant, the theorems and their proofs |
| `RegistryOutcomes` | more theorems of the registry: what a finished deletion leaves, what a reconciliation finds |
| `MCProjectRegistry` | the definitions TLC needs (symmetry, one leaf for every path) |
| `DeployRules` | pure rules: hosts, refs, fragments, the merge of `.gitlab-ci.yml` |
| `ProfileRules` | pure rules of env profiles: what an upload stores, overlap, the runtime flag |
| `ProjectCalls` | one project, its outside state, and how a request makes its calls one at a time |
| `DeployWiring` | the plans of the target, migration and pin handlers |
| `EnvProfiles` | the plans of the profile handlers |
| `ProjectInputs` | the requests GraphQL lets through, as types |
| `ProjectWiring` | the composition of the two, with the properties; `MCWiring` instantiates it |
| `ProjectDocument` | the abstract specification of a project's document: one request's edit at a time |
| `WiringProofs` | the theorems about the targets and profiles of a project |
| `McpAccess`, `McpAccessProofs` | MCP keys, admission, batches and tools; the theorems |
| `ApiAccess` | guards, audit actor, and what each resolver changes and audits |
| `GitLabClient`, `GitLabClientProofs` | the GitLab client, request by request; the theorems |
| `KubeClient`, `KubeClientProofs` | the Kubernetes client, request by request; the theorems |
| `Watchdog`, `WatchdogProofs` | the host's disk failsafe; the theorems |
| `LogPanel`, `ConsolePage` | the log view, and the projects page that contains it |
| `ProfileEditor`, `TargetForm` | the profile forms and the target form of the console |
| `ServicesProofs` | theorems about `ApiAccess`, `ConsolePage`, `ProfileEditor` and `TargetForm`, and about all the parts of `MCServices` side by side |
| `MCServices` | instances of the eight modules above that stand alone, checked together |

### ProjectRegistry: state

| Variable | In the system |
|---|---|
| `gitlab` | per project id: not yet created, live, scheduled for deletion (`pending`), gone; its path, whether GitLab has renamed it; the slug its deploy CI variables name (`wired`), whether its Sonar variables are set (`scan`) |
| `vault` | the base paths `projects/<path>` that have a secret at them or below them |
| `k8s` | Helm releases, with the project whose pipeline installed them |
| `sonar` | Sonar projects, with the project whose pipeline made them |
| `rows` | documents of the collection: free (not yet inserted), active, archived, removed; GitLab id, `gitlabPath`, `effectiveSlug`, `vaultBasePath`, targets, Sonar allowlist |
| `audited` | documents with a `project.deleted` entry |
| `reqs` | the requests in flight: which await they stand at, and the locals they carry over it; for a deletion also the document it read (`row`) |
| `rec` | the reconciliation run: the rest of its listing, the project in hand, the rest of the sweep; `live` remembers for a property what was live when it listed |

The rows hold the path as a pair of the path and, after a rename, the project
id: GitLab renames to `<path>-deletion_scheduled-<id>`.  A slug is the leaf, the
leaf with a suffix hashed from the group path, or (backfill) the leaf with the
project id.

### ProjectRegistry: actions

An action is what a handler does from one await to the next.

| Actions | Code |
|---|---|
| `CreateStart` ... `CreateInserts` | `createProject` 469-724: slug, GitLab project, base secret, target secrets, CI wiring, row |
| `SonarSaves`, `SonarStoresToken`, `SonarSetsCi` | `updateProjectSonarConfig` and what it calls, as create and register end with it |
| `RegisterStart` ... `RegisterWires` | `registerGitLabProject`, `syncAllDeploymentWiring` |
| `DeleteStart`, `DeleteReleases`, `DeleteSecrets`, `DeleteAnalyses`, `DeleteInGitLab`, `ProbeGitLab`, `ProbeK8s`, `ProbeVault`, `ProbeSonar`, `DeleteAudits`, `DeleteRemoves`, `DeleteArchives` | `deleteProject` 737-857 and `detectDeletionRemainders`; `skipPlatformCleanup` starts at `DeleteInGitLab` |
| `ReconcileStart` ... `ReconcileThrows` | `reconcileGitLabProjects`, `archiveActiveProjectsPendingGitLabDeletion`, `syncArchivedForGitLabScheduledDeletion` |
| `Throws(r)` | a call that the handler does not catch rejects; nothing is rolled back |
| `Restart` | the API process is restarted: all requests and the run are forgotten |
| `CreatedByHand`, `DeletedByHand`, `RetentionEnds`, `PipelineDeploys`, `PipelineScans` | GitLab, its users, its pipelines (external) |

`Enabled` selects the operations and outside events of an instance, so that
a run asks its question with the actors it needs:

| Feature | Adds |
|---|---|
| `create`, `register`, `delete`, `reconcile` | the four mutations |
| `override` | `slugOverride`: any explicit slug, another path's hashed one included |
| `relocate` | registrations whose `groupPath` or `projectSlug` put the row at another path than GitLab's |
| `deploy`, `sonar` | creations and registrations that ask for targets, for an allowlist |
| `skip` | deletions with `skipPlatformCleanup` |
| `byHand` | projects created in GitLab itself |
| `schedule`, `rename` | deletions that GitLab schedules, that it schedules with a rename |
| `faults` | calls that reject, teardown that leaves things behind, probes that cannot ask |
| `restart` | restarts of the API |

### Abstractions

* A list of targets is "none", "disabled" or "enabled"; a row inserted by a
  backfill has none (`deploymentTargets` is an array path of the schema, so
  Mongoose fills in `[]`).  Secrets under a base path are present or absent
  as a whole; `Survivors` keeps a tree when one node of it could not be deleted.
* The whole path stands for the 4 hex digits of its hash: that two group paths
  hash alike is left out, and so is a leaf that looks like a hashed slug.
* `MetaPath` are the paths in the template and config groups; a path in them is known
  by its name here, by the id of its group in the code.
* Sonar is configured and a project has one analysed branch: the one that its targets
  deploy, or that its allowlist names.  Sonar keys of different paths are different.
  What other branches leave is not modelled.  Kubeconfigs exist.
* `SlugService.resolve` asks whether the plain slug is taken and then, if so, the hashed
  one; the two answers are one step (`Resolves`).
* `project.schema.ts` has unique indexes on GitLab id, path and slug.  They are the
  guard `IndexesAllow` of every write, so that rows are unique by construction; no
  property says it.
* Probes after the first remainder are skipped: their answers cannot change the
  decision, which is to archive.
* Document ids and project ids are never reused, as in MongoDB and GitLab; `Doc`
  and `Gid` bound how many there are.

### Targets and profiles: DeployRules, ProjectCalls, DeployWiring, EnvProfiles, ProjectWiring

All requests about one project work on the same things, so they share a state:

| Variable | In the system |
|---|---|
| `row` | the MongoDB document: targets, profiles, `runtimeEnvEnabled`, `legacyV1`, `pinnedV1`, and `ver`, Mongoose's `__v` |
| `vault` | per target the names of the keys in its secret (`Seed` stands for the two keys that seeding writes), per profile its body, and `ci/index` |
| `gitlab` | the ref and host variables of the targets; per branch the generated fragment, the root `.gitlab-ci.yml` (shape, jobs and includes) and the chart values |
| `releases` | Helm releases by target and app |
| `req` | the requests: the document they loaded, the calls they have still to make, what they have read |

A handler decides everything from the document it loaded, so it is modelled by
the *plan* it makes: `UpsertPlan(doc, o)` is the sequence of calls that
`upsertDeploymentTarget` makes for input `o`, in its order, with its early
returns.  `ProjectCalls` has one action per kind of call; requests interleave at
each of them.

| Definitions | Code |
|---|---|
| `UpsertPlan`, `RemovePlan`, `HostnamePlan` | `upsertDeploymentTarget`, `removeDeploymentTarget`, `setHostnameOverride` |
| `MigratePlan`, `PinPlan` | `migrateProjectToAutoDevops`, `setPinnedV1` |
| `UploadPlan`, `ContentPlan`, `MetadataPlan`, `DropPlan` | the four mutations of `EnvProfileService` |
| `SyncAll`, `AfterSave` | `syncAllDeploymentWiring`; `syncCiIndex` and the chart refresh |
| `SavedRef`, `HostsFor`, `InitialTargets`, `Overridden`, `Fragment`, `MergedRoot` | the pure helpers of `deploy/*` |
| `Saves`, `Stale`, `Written` | Mongoose's `save`: the paths that changed, under the loaded `__v` when an array is among them |
| `ReadsSecret`, `MergesSecret` | `readSecrets`, which answers `{}` on any error, and the write of the merged secret |
| `Throws1` | any call rejects, or the process stops; nothing is rolled back |
| `PipelineDeploys` | a push runs the jobs that its branch's fragment defines and the variables select (external) |

`ProjectDocument` is what the API promises of the document, without loads, versions
and saves: each change is one request's edit (`UpsertTarget`, `Upload`, `SetPinned` ...)
of the document *as it is stored at that moment*.  `ProjectWiring` implements it
(`ImplementsDocument`); the mapping takes the fields of `row` and drops `ver` and all that
is outside the document.  It allows one thing that a careful reader may not expect: when
an upload or a deletion saves the list of profiles, the names, branches and targets of
*other* profiles may change (`OthersStay`).  An edit of a profile in place does not
raise `__v`, so an older list can be written over it; the phase, which no edit
changes, cannot be lost that way, and neither can a whole profile.

Abstracted: the content of a key (a secret is its set of key names), the label and
content type of a profile, which cluster and namespace a target is on, the image and
Dockerfile of an app, CI warnings, audit entries (`ApiAccess` has them).  A project starts as creation, registration or a backfill
leaves it (`Creations`); `ProjectRegistry` models how it gets there, with targets
as one word.  A root file is `"absent"`, a YAML mapping (`"yaml"`), YAML that is no mapping and is
rewritten like an absent one (`"scalar"`), YAML with tags that the parser does not know
(`"tagged"`) or text without a top-level key (`"garbage"`), with the user's own jobs
kept apart from the includes.

### MCP: McpAccess

`keys` are the rows, `operators` the console's requests (count, then insert;
find, then save), `clients` the listener's (look-up, save of `lastUsedAt`, then
the items of the body one after the other).  `answered` and `late` are history
for the property.  `McpTools` names every tool with its scope, `Parses` the
arguments it cannot do without; `Deletes`, `Changes` and `Reveals` say what the
services do for it whatever its arguments, taken from the services and not from the
scopes.  `TearsDown` is what `upsert_deployment_target` does besides when its arguments
disable the target: it deletes releases.  `ScopesHonoured` holds the tools to their
tiers, that upsert to the one of the operate keys; what their instructions say of it
is among the [divergences](#divergences-found).

### Guards and audit: ApiAccess

`Admitted` is the decision of `CombinedAuthGuard`; a handler is the sequence of
its changes and audit entries (`Handler`), taken from the resolvers and services.  A
project that is created or registered with Sonar branches has two entries
(`WithSonar`).
`store` is the asynchronous context of each request.  Reconciliations share the
promise of the one under way.

### Clients: GitLabClient, KubeClient

A call of the client is a small program counter over the HTTP requests it is made
of.  `GitLabClient` has `setProjectCiVariables`, its deletion,
`commitRepositoryActions` with the one-file path over `upsertFile`,
`createGroupHierarchy`, and `tryDeleteProject` with the purge of images and packages.
Any request may break, before or after it had its effect (`Breaks`), listings show
one page.  A group has one segment for its name and the end of its path, so that
`findGroup`'s match of either is one match; the page it searches may lack it.
`KubeClient` loads clients once, ensures namespaces, deletes a release
kind by kind, probes for releases and tails pods; pipelines deploy, pods roll,
kubeconfigs change and the API restarts in between.  `Kind` are the kinds a teardown
deletes; `ChartOnly` are those that only the chart knows: the ExternalSecret, which it
installs unless its values say no, and the HorizontalPodAutoscaler.

### Watchdog

`tick` holds the ticks that run (each a process, `pc` its place in the script),
`file` the state file, `up` the running groups, `push` what became of pushes
that GitLab was receiving.  A tick reads the state and the free space once and
then acts on it; `df` output that is not a number counts as full.  `excused` is
history: groups whose stop failed or was a dry run's, or that were started since.

### Console: LogPanel, ConsolePage, ProfileEditor, TargetForm

React runs the effects of a change before the next event, so a step is an event
(click, timer, answer) with the effects it causes; requests are in flight between
steps.  `LogPanel` is the log view with `requestSeq` and `loadingRef`; the container
filter, which loads nothing when it is typed, is no part of what is chosen.
`ConsolePage` extends it with list, detail pane, tabs, audit rows and mutations;
`panelOf` is the project that the log view was opened for and keeps.
`ProfileEditor` is the upload form, which keeps one content as text and as rows,
and the dialog of a stored profile.  `TargetForm` is the target form with the
conversions of `deployment-target-form.ts`, against the part of
`upsertDeploymentTarget` that decides what a saved target becomes.

## The runs

| Run | Instance | Properties | Shows |
|---|---|---|---|
| `RegistryRaces` | 2 requests, 2 projects, 2 documents, 2 paths and one template path with one leaf; create, reconcile, rename, restart, faults | `TypeOK`, `ReconcileFindsEveryProject` | two creations that want one slug, stopped anywhere, racing a reconciliation: a run that ends has overlooked no listed project of a user |
| `RegistryEverything` | 2 requests, 1 project, 2 documents, 1 path; create, override, delete, reconcile, rename, schedule, restart, faults | `ImplementsLedger` | the registry implements the ledger, refinement mapping in `ProjectRegistry` |
| `RegistryDeletion` | 2 requests, 1 project, 1 document, 2 paths; everything but reconciliation, slug overrides and restarts | `RemovedMeansGone`, `DeletionIsAudited`, `NoReleaseLeftBehind`, `NoAnalysisLeftBehind` | two deletions, or a deletion and a creation or registration, with every cleanup call failing at will and pipelines deploying in between: a row is removed only when nothing of its project is left |
| `RegistryRetry` | 2 requests, 1 project, 1 document, 1 path; no faults, no symmetry | `RetriedDeletesFinish` | as long as what is asked of the outside systems is done, no row needs deleting for ever |
| `Wiring` | 2 requests out of 21, 2 targets, 2 apps, 2 branches, 3 profiles, 4 creations; any call may throw, pipelines run | see below | what GitLab, OpenBao and the clusters are left with follows the stored document |
| `Services` | one of eight parts per behaviour; bounds below | see below | the parts that share no state with the registry |
| `RegistryRemainder`, `RegistryGhost`, `RegistrySharedSecrets`, `RegistrySharedRelease`, `RegistryPage`, `WiringSecrets` | the smallest instance that shows it | one each | TLC finds the property violated: [divergences](#divergences-found) |

### Registry

The bounds are the smallest in which the events of interest happen together:
two requests make every race of two handlers (the third actor is the
reconciliation, pipelines or GitLab); two documents allow a row to be removed
and entered again; two paths with one leaf make slugs collide, twice, and a third one in
a template group is passed over; in `RegistryDeletion` the second path is the one a row
is registered under against GitLab's.  One page of two projects is as large as the
listing, except in `RegistryPage`.
Symmetry is used in runs that check invariants, action properties and a safety
refinement, never with a temporal property.

### Wiring

| Property | Says |
|---|---|
| `WiringTypeOK` | the type invariant |
| `WiringFollowsRow` | once target requests have settled, ref and host variables are those of the stored row, in whatever order requests published them |
| `DeploysOnlyEnabled` | after that, no push installs an app the row does not have on an enabled target |
| `JobsFollowTarget` | a saved target has its jobs on the branch its ref names, and that branch includes them |
| `UserJobsKept` | the jobs that users wrote in `.gitlab-ci.yml` survive every commit |
| `MigratedIsWired` | a row stops being legacy only once some branch has chart values and include |
| `UploadsStoredApart` | answered uploads are stored, and unedited profiles do not overlap |
| `IndexedIsReadable` | `ci/index` names only profiles that are stored with their body |
| `NoOrphanKeys` | after uploads and deletions, a target's secret holds no key that no stored profile brings |
| `ImplementsDocument` | `ProjectWiring` implements `ProjectDocument`: every change of the document is one request's edit of the stored document |

The twenty-one requests are in `MCWiring`: enabling, disabling, moving and shrinking
targets, removal with and without teardown, a host name, migrations with and
without branch options, pin; uploads that do and do not overlap, new content,
moved metadata, an edited job and file, deletion.  Projects start as created, as created with custom
targets, as a legacy row, and as a pinned one.  Two requests are enough for a
race: all that a request knows of others is what its reads return and whether its save is
refused.  Properties about settled requests exclude those that failed half way,
since the code rolls nothing back.

### Services

The eight parts share no state, so a behaviour chooses one (`focus`) and moves
only that: the state space is the sum, not the product, and each part is explored
completely within its bounds.

| Part | Bounds (`Services.cfg`) | Properties |
|---|---|---|
| MCP | 2 keys, limit 1, 2 operators, 1 client, 4 bodies | `ActiveKeysBounded` (the limit is passed by at most one key per concurrent creation), `RevocationObeyed`, `RevokedStaysRevoked`, `ScopesHonoured` |
| Watchdog | 1 tick at a time, 1 push, real and dry runs, 1 kill or crossing, 2 changes of free space, GitLab's stop may fail | `StoppedMeansStopped`, `DataOutlivesGitLab`, `DrainingEnds`, `PressureIsMet` |
| GitLab client | 2 calls, 2 variables, 2 files, 2 group names, 3 packages on pages of 2 | `SetNeverRefused`, `CommitsWhole`, `DeletedIsGone`, `LeafUnderPath`, `PurgeEnds` |
| Kubernetes client | 2 calls, 2 releases on 2 clusters, 2 pods of which 1 is tailed, 1 outside event | `VerdictErrsSafe`, `RetryFinishes`, `LogsTellOfEveryPod` |
| Console page and log view | 2 projects, 3 clicks, 1 save, 1 list request, 2 choices, 2 loads | `AnswersMatchScreen` |
| Profile forms | 1 key, 2 stored profiles, 1 upload | `SecretsStayInPlace` |
| Target form | 2 projects, 2 target keys, 2 apps, 2 branches, 3 edits | `EditKeepsTheRest` |
| Guards and audit | 2 requests, 4 settings, 19 kinds of request | `AuditNamesCaller` |

`RetryFinishes` is about the kinds that a teardown deletes.  `LogsTellOfEveryPod` says
that an answer without a message tells of every pod the release had, and that one which
says how many of how many pods it shows leaves out no more than it must; two pods of
which one is read reach both.  `AnswersMatchScreen` relates four things: the audit rows and
the project on screen, the spinners and the requests under way, the log lines and the
choice on their form, and that form's project and the project on screen, as long as
this one is active.  For an archived one it may be another
([divergences](#divergences-found)).

`ServicesTypeOK` is the conjunction of the parts' type invariants.  The limit of
keys and the page size are 1 and 2 instead of 25 and 100: the code uses them only in
comparisons, and the bounds are passed in both.  Three packages make two pages,
the second not full; three clicks are enough to open a project, leave it and open
another while the first one's answers are under way.  Overlapping ticks are
covered by the theorems, which hold for any number.

`CHECK_DEADLOCK FALSE` is set in `RegistryDeletion`, `RegistryRetry`, `Wiring`,
`WiringSecrets` and `Services`, where an instance stops once its ids, its requests
or its bounds are used up.

Each property of a passing run has a mutant in `PROJECT.json`: a plausible bug of
the code (a probe that takes any error for "gone", a save that asks for no
version, an answer that is not matched with its request, a stop order with the
databases first) under which TLC finds the property violated.  The variants stand
next to their originals in the modules.

## Fairness

The registry and wiring runs assume none: the code schedules nothing by itself,
and a request may stop anywhere.  `RetriedDeletesFinish` says that a step is taken
only finitely often, and holds of behaviours that stop as well.

* `WatchdogFairness`: a real tick is started again and again, and a tick that is
  not killed goes on.  The scheduler starts one every two minutes
  (`src/__DOCS__/XX_milestone/05_failsafe_backends.md`,
  `src/__DOCS__/01_infra/04_operations.md`), and every wait of the script has a
  deadline: the drain, and each `docker compose stop -t`.  Kills and operator
  crossings are bounded by `MaxKills`: a tick that is killed every time can finish
  nothing.  On it rest `DrainingEnds` and `PressureIsMet`.
* `GitLabFairness`: each call of the client takes its next step, because GitLab
  answers or the connection breaks.  On it rests `PurgeEnds`.  The client sets no
  timeout of its own; a connection that neither answers nor breaks would wait.

## The proofs

| Module | Theorem | States |
|---|---|---|
| `ProjectRegistryProofs` | `Inductive` | `Spec => []IInv` |
| | `TypeCorrect` | `Spec => []TypeOK` |
| | `RemovedOnlyWhenGone` | `Spec => []RemovedMeansGone` |
| | `DeletionAudited` | `Spec => []DeletionIsAudited` |
| | `RegistryImplementsLedger` | `Spec => ImplementsLedger` |
| `RegistryOutcomes` | `SnapshotsStayTrue` | `Spec => []CleanupInv` |
| | `NoReleaseSurvives` | `Spec => []NoReleaseLeftBehind` |
| | `NoAnalysisSurvives` | `Spec => []NoAnalysisLeftBehind` |
| | `ReconcileLeavesNobodyOut` | `Spec /\ []OnePage => ReconcileFindsEveryProject` |
| `McpAccessProofs` | `McpInvariant`, `McpTypes` | `McpSpec => []McpInv`, `McpSpec => []McpTypeOK` |
| | `RevocationIsObeyed` | `McpSpec => []RevocationObeyed` |
| | `RevocationIsFinal` | `McpSpec => RevokedStaysRevoked` |
| | `LimitNearlyKept` | `McpSpec => []ActiveKeysBounded` |
| | `ScopesAreHonoured` | `McpSpec => []ScopesHonoured` |
| `GitLabClientProofs` | `GitLabInvariant`, `GitLabTyped` | `GitLabSpec => []GitLabInv`, `GitLabSpec => []GitLabTypeOK` |
| | `SettersDoNotClash` | `GitLabSpec => []SetNeverRefused` |
| | `DeletionFreesPath` | `GitLabSpec => []DeletedIsGone` |
| | `CommitsAreWhole` | `GitLabSpec => []CommitsWhole` |
| | `HierarchyIsAsAsked` | `GitLabSpec => []LeafUnderPath` |
| `KubeClientProofs` | `KubeInvariant`, `KubeTyped` | `KubeSpec => []KubeInv`, `KubeSpec => []KubeTypeOK` |
| | `VerdictIsSafe` | `KubeSpec => []VerdictErrsSafe` |
| | `TeardownClears` | `KubeSpec => []RetryFinishes` |
| | `LogsAreComplete` | `KubeSpec => []LogsTellOfEveryPod` |
| `WiringProofs` | `WiringInvariant`, `WiringTyped` | `WiringSpec => []WiringInv`, `WiringSpec => []WiringTypeOK` |
| | `UsersKeepJobs` | `WiringSpec => []UserJobsKept` |
| | `MigrationsAreWired` | `WiringSpec => []MigratedIsWired` |
| | `ProfileInvariant` | `WiringSpec => []ProfileInv` |
| | `IndexIsReadable` | `WiringSpec => []IndexedIsReadable` |
| | `UploadsStayApart` | `WiringSpec => []UploadsStoredApart` |
| | `VariablesFollowRow` | `WiringSpec => []WiringFollowsRow` |
| | `JobsAreOnTheirBranch` | `WiringSpec => []JobsFollowTarget` |
| | `OnlyEnabledDeploys` | `WiringSpec => DeploysOnlyEnabled` |
| | `SecretsFollowRow` | `WiringSpec => []NoOrphanKeys` |
| | `RuntimeFlagIsTrue` | `WiringSpec => []FlagFollowsProfiles` |
| | `WiringImplementsDocument` | `WiringSpec => ImplementsDocument` |
| `WatchdogProofs` | `WatchdogInvariant`, `WatchdogTypes` | `WatchdogSpec => []WatchdogInv`, `WatchdogSpec => []WatchdogTypeOK` |
| | `StoppedIsTrue` | `WatchdogSpec => []StoppedMeansStopped` |
| | `GitLabGoesFirst` | `WatchdogSpec => []DataOutlivesGitLab` |
| `ServicesProofs` | `ApiInvariant`, `ApiTyped` | `ApiSpec => []ApiInv`, `ApiSpec => []ApiTypeOK` |
| | `AuditIsTrue` | `ApiSpec => []AuditNamesCaller` |
| | `ConsoleInvariant`, `ConsoleTyped` | `ConsoleSpec => []ConsoleInv`, `ConsoleSpec => []ConsoleTypeOK` |
| | `ScreenIsTrue` | `ConsoleSpec => []AnswersMatchScreen` |
| | `SecretsStay`, `EditorTyped` | `EditorSpec => SecretsStayInPlace`, `EditorSpec => []EditorTypeOK` |
| | `EditsKeepTheRest`, `FormTyped` | `TargetFormSpec => EditKeepsTheRest`, `TargetFormSpec => []TargetFormTypeOK` |
| | `ServicesInvariant`, `ServicesTyped` | `ServicesSpec => []ServicesInv`, `ServicesSpec => []ServicesTypeOK` |

They hold for any sets of requests, projects, documents and paths, any page size
and choice of `Enabled`; any keys, operators, clients, bodies and limit; any
calls, variables, files, groups, packages and page size; any target and profile
requests, operations, target keys, apps, branches, profiles and runtime keys; any ticks, pushes, modes
and bounds.  Assumptions: `LeafOf` gives every path a leaf,
`None` is not an id or a path; `NoKey` is not a key or a row, bodies are sequences
of items, the limit is a positive number, keys and
operators are finite and there is an operator; `Nobody` is not a call and the page
size is positive; a Kubernetes call names at least one release and a release has
finitely many pods; the settings, requests and stored targets of the API and the
console have their types, a stored target that is off has no branch, and "none" values are no
projects; target keys, apps and branches are finite, default refs are branches, and `Nil` is
no branch, host, target, profile or stored value; a root file is a record of known
shape, and an absent one has no jobs; the targets a project starts with have valid refs, as
`buildDeploymentTargetFromInput` asks; its profiles do not overlap, and an upload's id
is fresh; the watchdog's and the forms' bounds are numbers.
TLC evaluates all of them.  One theorem has a hypothesis of its own:
`ReconcileLeavesNobodyOut` is about instances where GitLab has at most a page of
projects (`[]OnePage`), because `listProjects` reads one page.  `RegistryPage` shows
what happens with more.

### Registry

None of the safety properties is inductive.  That a removed row's project is
gone depends on what a deletion learnt several awaits before: the row is removed
at the end of `deleteProject`, GitLab was probed four steps earlier, and other
requests and GitLab have moved since.  `IInv` therefore says what every request
(`Fits`) and the reconciliation (`RunFits`) carry at each step and that it is
still true: past the GitLab probe the project is gone, before `deleteOne` the
entry is written, a document in hand has been inserted and is of the project in
hand.  The argument has three parts:

1. *Nothing is taken back* (`Grows`).  A project that has begun keeps its path, one that is
   gone stays gone, a document keeps its project, an audit entry stays.  So what
   a request carries survives every step of all the others
   (`RequestKeeps`, `RunKeeps`): this is the non-interference argument, made once.
2. *Kinds of step.*  Lemmas for the steps that leave the rows alone, that move
   one request, that move the run, that change one row; each action is then
   an instance with its own few facts.
3. *Refinement.*  `LedgerStep` maps each action to a step of the ledger
   or a stutter, using `IInv` where the ledger's guards need what the code only
   knows from an earlier probe (`Strike`) or leaves to an index (`Enter`).

The outcomes of a deletion (`RegistryOutcomes`) need one more invariant on top of
`IInv`.  A deletion looks for releases and analyses under the slug and the name of the
row it loaded, and the row may be renamed meanwhile.  `CleanupInv` says that its
snapshot still is what the row says, but for a rename (`Remembers`), that a renamed
row stays so (`RenamedForGood`), and that what the cluster probe and the
Sonar probe found absent is absent still: their project is gone by then, and a gone
project runs no pipeline (`NothingComesBack`).

A reconciliation answers for the projects that were live when it listed them.
`RunInv` divides these into the settled (they have a row, or are gone since; both are final) and the
awaited (in the rest of the list, or being inserted); every step moves a project from
awaited to settled or leaves it, and at the end nothing is awaited.

### Targets and profiles

A request is the rest of its plan, and a plan has as many calls as there are targets,
apps and profiles.  The invariants therefore never speak of positions in a plan.  They
say which calls are still to be made (`OpsOf`, a set), and two facts about their order:
`Rank`, which puts what is written outside before the save of the row and what only
refreshes after it, and that a write of what was read comes right after its read.  One
lemma per plan shows that the plan has this shape; one lemma per kind of call shows
what the call does; the invariants follow without looking at a plan again.

* `WiringInv` has the types, the ones of the calls still to be made included, and that
  a request's read of a root file still holds the users' jobs of that branch
  (`UsersKeepJobs`).
* `FlagInv`: while a save that lowers `legacyV1` is pending, some branch is wired or
  still to be wired by this request; when the save comes, nothing of lower rank is left,
  so the branch is wired (`MigrationsAreWired`).
* `ProfileInv`: a loaded document whose `__v` is the row's agrees with it on which
  profiles exist (`VersionFits`), because every save that adds or drops one raises `__v`.
  A stored profile keeps its body (`Kept`), a save brings only profiles whose
  body is written (`Brings`, `WritesBody`).  The index written from such a document names
  stored profiles with a body (`IndexIsReadable`).
* `ApartInv`: a pending upload overlaps no profile of the document it loaded, hence none
  of the row its save is accepted into (`UploadsStayApart`).
* `WorkInv` says what the calls left do: each publishes, commits or merges what the
  document to be saved says, a request that has saved an array only refreshes, and one
  that is going to be refused saves nothing.
* `Course` is the order that `__v` imposes.  A save that changes an array raises `__v`,
  so any other request that loaded the same document fails at its own save.  If no
  request failed or will fail, at most one of those that change the array is under way
  (`Active`).
* `FollowInv`, while `Course` holds: GitLab is as the row says, or as the document of
  the active request says but for what one of its calls will still do.  No other
  request can interfere, since it would be a second active one.  At its save the active
  request's document becomes the row, and nothing that writes outside is left
  (`VariablesFollowRow`, `JobsAreOnTheirBranch`, `OnlyEnabledDeploys`).
* `SecretInv` is the same argument for secrets: a target's secret has keys of the
  profiles of the row, or of the loaded profiles where the active request still has the
  merge that takes them out.  `MergeReady` says it of what such a merge has already
  read (`SecretsFollowRow`).
* `DocumentInv` carries the refinement, without `Course`: it holds whichever requests fail.
  A document in hand whose `__v` is the row's is the stored one, but for the flags and
  for what edits in place made of its profiles (`AsStored`); a save still to be made is
  its request's edit of the document in hand (`EditFits`), of which the plans have one
  lemma each.  An accepted save of an array is therefore that edit of the stored array.
  A save without an array is accepted whatever the version: pin and migration write flags, an edit
  in place one profile, and neither writes back what it had loaded (`Edited`,
  `EditIsAction`).  That the runtime flag is true of the stored profiles, although it
  is saved as a field of its own, is a part of the same invariant (`RuntimeFlagIsTrue`;
  the run needs no property for it, since every action of `ProjectDocument` keeps it).

Proving changed the model here.  `HostsFor` was a `CASE` whose arms overlap and
is a conditional in the order of the code now.  Plans over a set are made with
`SetToSeq`, in any order, where a recursion fixed one.  `WiringFollowsRow` says more than
before, and the assumptions on what a project starts with are named
(`CreationsAssumption`, `ProfilesAssumption`, `RootsAssumption`, `NilAssumption`), so
that TLC evaluates them.

### MCP keys

`RevocationObeyed` looks at one step, that of serving an item, but what makes it
true happened at the look-up.  `McpInv` adds three facts: operators and clients
under way work on keys that exist; an answered key is revoked; a request that
came after the answer has not got past the look-up.  The delicate step is
`SavesLastUsed`, which writes a row that may have been revoked since the look-up:
`RowWrites` shows that the save does not write `revokedAt`.

`LimitNearlyKept` is inductive by itself: `Counted` are the creations that have
counted and not inserted, each of them counted while there was room, and an
insertion moves one from there to the active keys.  The rest is cardinalities of sets that
change in one element.  `ScopesAreHonoured` rests on a fact about the look-up
(`ScopesFit`): a request serves with the scope its key has, because no step changes
the scope a key counts as (`ScopeStays`).

### GitLab client

A setter decides between POST and PUT from a listing that may be old, and GitLab
answers 404 to a PUT of what is not there.  `Fits` says what one call carries: a
setter that nothing hurt works on a project that is there and, once it has chosen
PUT, on a variable that exists; a deletion answered ok is of a project that is
gone.  Other calls cannot take that away (`FitsOn`): they only add variables, except
a deletion of a variable or project, which marks the calls under way as hurt
(`DropsKeep`, `DeletesKeep`).  This is the same non-interference argument as the
registry's, with the hurt mark in the place of "nothing is taken back".

`ContentInvariant` is about what a call leaves behind: a commit has written all of its
list or nothing; a group walk stands on
a group that exists, at the segments it has walked (`CommitsAreWhole`,
`HierarchyIsAsAsked`).

### Kubernetes client

`KubeInv` follows each kind of call through its loops.  A teardown has cleared, of the
release it is at, the kinds before the present one, and all kinds of the releases
before that, as long as no request failed and nothing was deployed since.  The
releases of a probe that ran all along run still and are yet to be asked for.  A log answer has
told of the pods it has read, and these are all that were listed or as many as it may read.
Deployments, restarts and pods that roll disturb only
what the invariant leaves out by its history fields (`held`, `clean`, `listed`, `seen`).

### API, console and forms

`ServicesProofs` has one inductive invariant for each of the four modules.

* *API*: a handler under way is the rest of a plan that ends in its answer
  (`Plan`), each of its remaining words may be said by its operation, and its
  context holds its own caller.  That a profile is answered only after its entry follows because the
  entry comes before the answer in the only plan of that operation.
* *Console page*: among the audit requests under way at most those for the selected
  project are live, and the pane is loading exactly while there is one; the log view's
  answers are numbered, and only the latest number is shown (`PaneFits`, `LogFits`); a log
  view for an active project was opened for it, because every selection of one leaves the
  App logs tab first (`PanelFits`).
* *Profile forms*: a dialog that has finished loading has its own profile's content unless the
  load failed, and rows are typed only where the phase allows them.
* *Target form*: a row opened on an app is overridden, one that follows its name has
  that name as image, a submitted request is what the form was when it was sent (`FormInv`).

`ServicesInv` is the conjunction of these and of the invariants of the other four modules.
A step of `MCServices` is a step of one part and a stutter of the rest (`PartsMove`), so
the lemmas that each part keeps its invariant give the whole (`ServicesTyped`).

Proving corrected the model twice.  In `ConsolePage` a conjunction that computes
`auditing'` was laid out so that it read as a guard, and a deletion or a change of
category never closed the pane; the invariant of the page could not be established
for that step.  Several `CASE` expressions (the ref of a saved target,
branch options, the actor of a request) had arms that overlap, which TLA+ leaves open while TLC takes
the first; they are conditionals now, in the order of the code.

### Watchdog

That "stopped" is true when it is recorded depends on eight stops before it, while
other ticks, kills and the operator interfere.  `Passed` says that whatever group a
tick has passed in the stop order is down or excused, for every tick at once;
`Finishing` the same of all groups once a tick is about to record the end.
`QuietStep` shows that steps which start no group without excusing it keep both,
whatever tick takes them; `StopStep` that the step of one group extends them.
`OrderInjective` and `OrderCovers` are the facts about the stop order it rests on.

### Only model-checked

Every safety property of a passing run has a theorem.  Liveness (`RetriedDeletesFinish`, `DrainingEnds`, `PressureIsMet`,
`PurgeEnds`) is out of reach of the proof system.

## Divergences found

Each is a run in which TLC shows the property violated; the quotes are in
`PROJECT.json`.

* `RegistryRemainder`: a creation that fails after the CI wiring leaves a project
  whose pipeline deploys.  Backfilled as a legacy row without targets, it is
  deleted without its releases being torn down or probed for.
* `RegistryGhost`: a reconciliation whose listing is older than a deletion
  backfills the project that has just been removed.
* `RegistrySharedSecrets`: archiving after GitLab's rename moves `gitlabPath` and
  leaves `vaultBasePath`; a new project on the old path shares it, and deleting
  the archived row deletes the live project's secrets.
* `RegistrySharedRelease`: two creations that resolve one slug concurrently wire
  two GitLab projects to deploy one release; only one row is inserted.
* `RegistryPage`: `listProjects` reads one page of 100.
* `WiringSecrets`: saving any target seeds every target's secret again, and a KV v2
  write replaces the secret: the keys of runtime profiles are gone while the
  profiles are still listed for the target.

Seen while reading, without a run of their own.  In the API:

* `updateProjectSonarConfig` (comment at line 1142) "writes token to Vault when
  provided"; `resolveSonarAnalysisToken` returns a provided token without writing it.
* A Bearer token is not accepted for GraphQL (`combined-auth.guard.ts:64`), against
  `99_maintainers/03_management_api.md:187`; this rests on the library's default.
* The `operate` scope is documented with "No delete or teardown"
  (`99_maintainers/02_services.md:356`, and "It cannot delete or tear down" in
  `mcp-scopes.ts:38`), but `upsert_deployment_target` with `enabled: false` tears down the
  target's releases (`projects.service.ts:1870`).  `ScopesHonoured` is stated for what the
  code does, and says so.
* Removing a target "tears down its K8s resources" (`projects.resolver.ts:360`; "all
  per-app Helm releases" in `02_admin/05_management_api.md:124`).  `teardownRelease`
  deletes Deployments, Services, Ingresses and the Helm Secrets; the ExternalSecret and the
  autoscaler that the chart installs stay, and without its Secrets Helm no longer knows of
  them.  `RetryFinishes` is stated for the kinds that are deleted.
* `registerGitLabProject` takes `groupPath` and `projectSlug` from its input
  (`projects.service.ts:1723`).  The Sonar keys that a deletion asks for are made of them,
  those of the scan job of the GitLab path: the row is removed and the analysis stays,
  against `02_services.md:415`.  `NoAnalysisLeftBehind` is stated for rows under GitLab's
  path.
* Re-enabling a disabled target with a blank ref is refused, because the stored ref
  is `none`.
* `upsertFile` decides between POST and PUT from a read: of two concurrent creations
  of one file one is answered 400.  `ensureNamespace` likewise with 409.
* `createGroupHierarchy` searches its first segment among all groups, so it may
  continue under a nested group of that name; `LeafUnderPath` is stated for the
  suffix accordingly.
* Kubernetes clients are loaded once, while `getKubeconfigB64` reads the file again.
  A release counts as remaining by its Deployment alone.

In the watchdog:

* Packs in a quarantine are passed over and removed with it (`push` becomes
  `"lost"`).
* `--clear` removes the Traefik lock only while Traefik runs, and Traefik is among
  what a shutdown stops: the lock then survives the next start.
* A dry run writes the state file, and records "stopped" without stopping anything.

In the console:

* A late `onUpdated` moves the detail pane to the project it came with; an open
  target form is then saved to that project.
* The log view keeps the project it was opened for (`AppContainerLogPanel.tsx:94`, rendered
  without a key).  Going from one archived project to another leaves the App logs tab open,
  and the first one's logs are shown and polled under the second one's heading.
* `ProjectList` has no sequence guard: a late list of another category is shown.
* After an upload whose refetch failed, the form is kept and "Upload" sends it again.
* The profile dialog keeps the previous profile's secrets when its own load fails,
  with Save enabled.

## Not modelled

* *Sonar after creation* (provision, prune, disable): its calls are of the same shape
  as the enabling that `ProjectRegistry` has; SonarQube's own behaviour on
  tokens and projects is not visible from the code.
* *Registry and wiring in one state space*: `ProjectRegistry` has creation and
  deletion with targets as one word, `ProjectWiring` the life of a project in between.
  A target request that races the deletion of its row is in neither.
* *Several API processes*: the compose file runs one, and `reconcileInFlight` is
  per process.
* *MongoDB itself*: a write is atomic and seen by every later read.
* *Contents*: of files beyond what pipelines select by, of secrets beyond key names,
  of log lines; Helm's own state; permissions in GitLab.
* *Forks, pipeline triggers, commit statuses, `restartDeployment`*: single requests
  whose effects nothing in the code reads back.
* *Create and register forms, Sonar and MCP panels of the console*: forms without
  state that outlives one submit.
* *Configs and templates*: wrappers of one GitLab call each.
* *Bootstrap, backup, restore and upgrade scripts, compose, Traefik, Keycloak theme*:
  linear operator scripts, configuration and assets.

## What is left

1. Sonar after creation as a plan over `ProjectCalls`, with the token as one more secret;
   a late allowlist against a deletion.
2. A registry whose rows carry the targets of `ProjectWiring`, so that a target
   request can race a deletion.
3. `ProjectDocument` extended by GitLab and OpenBao: a request changes the document, the
   variables and the secrets in one step, with `ProjectWiring` shown to implement it while
   `Course` holds.
