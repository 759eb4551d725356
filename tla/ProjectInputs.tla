---------------------------- MODULE ProjectInputs ----------------------------
(***************************************************************************)
(* The requests that the GraphQL schema lets through to ProjectsService    *)
(* and EnvProfileService (graphql/project.inputs.ts), as far as the plans  *)
(* read them.  Nil is a nullable field that was left out; a list may be    *)
(* empty, because the validators of the lists accept an empty one.  The    *)
(* job selector of a metadata edit is a set of at most one: {} leaves it   *)
(* alone, {Nil} clears it.                                                 *)
(***************************************************************************)
EXTENDS ProjectCalls

CONSTANT File   \* the workspace files that build profiles are written to

Optional(S) == S \cup {Nil}
Ref == Branch \cup {NoRef}     \* a deployRef is any string, "none" too

TargetAppInput == SUBSET App   \* with the hosts of the target's hosts field
DeployBranchRefsInput == [Standard -> Optional(Branch)]
DeployBranchOptionsInput ==
    [main : Optional(Branch), refs : DeployBranchRefsInput, all : BOOLEAN]
DeploymentTargetInput ==
    [on : Optional(BOOLEAN), ref : Optional(Ref), apps : TargetAppInput,
     hosts : [App -> Optional(Host)], host : Optional(Host)]

(* Only a registered project brings branch options.                         *)
RegisterGitLabProjectInput ==
    [deployable : BOOLEAN, app : App, targets : Optional([Key -> Optional(DeploymentTargetInput)]),
     opts : DeployBranchOptionsInput]
CreateProjectInput == {in \in RegisterGitLabProjectInput : in.opts = NoOptions}

UpsertDeploymentTargetInput ==
    [op : {"upsert"}, key : Key, on : BOOLEAN, ref : Optional(Ref), apps : TargetAppInput,
     hosts : [App -> Optional(Host)], teardown : BOOLEAN]
RemoveDeploymentTargetArgs == [op : {"remove"}, key : Key, teardown : BOOLEAN]
HostnameArgs == [op : {"hostname"}, key : Key, host : Host]
MigrateInput == [op : {"migrate"}, opts : DeployBranchOptionsInput, unpin : BOOLEAN]
PinArgs == [op : {"pin"}, pinned : BOOLEAN]

UploadEnvProfileInput ==
    [op : {"upload"}, profile : Profile, phase : {"build", "runtime"}, branches : SUBSET Branch,
     job : Optional(App), file : Optional(File), targets : SUBSET Key, names : SUBSET RtKey]
UpdateEnvProfileMetadataInput ==
    [op : {"metadata"}, profile : Profile, branches : Optional(SUBSET Branch),
     targets : Optional(SUBSET Key),
     job : {{}} \cup {{j} : j \in Optional(App)}, file : Optional(File)]
UpdateEnvProfileContentInput == [op : {"content"}, profile : Profile, names : SUBSET RtKey]
DeleteEnvProfileArgs == [op : {"drop"}, profile : Profile]

ProjectRequest ==
    UNION {UpsertDeploymentTargetInput, RemoveDeploymentTargetArgs, HostnameArgs, MigrateInput,
           PinArgs, UploadEnvProfileInput, UpdateEnvProfileMetadataInput,
           UpdateEnvProfileContentInput, DeleteEnvProfileArgs}

=============================================================================
