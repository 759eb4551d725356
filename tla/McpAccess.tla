------------------------------ MODULE McpAccess ------------------------------
(***************************************************************************)
(* The MCP listener of the Management API (api/src/mcp): operators issue   *)
(* and revoke access keys from the console, clients call tools with them.  *)
(* A key has one scope; a higher scope includes the tools below it.  Every *)
(* step below is the code between two awaits, so that a revocation may     *)
(* fall between the look-up of a key and the tools called with it.         *)
(***************************************************************************)
EXTENDS Naturals, Sequences, FiniteSets

CONSTANTS
    KeyId,      \* access keys that may come to exist
    Operator,   \* concurrent create and revoke requests of the console
    Client,     \* concurrent HTTP requests to the listener
    MaxActive,  \* MAX_ACTIVE_KEYS
    Bodies,     \* the JSON-RPC bodies clients post: sequences of items
    NoKey

ASSUME MaxAssumption == MaxActive \in Nat \ {0}
ASSUME RequestsAssumption == IsFiniteSet(KeyId) /\ IsFiniteSet(Operator) /\ Operator # {}
Scope == {"read", "read_secret", "operate", "full"}
KeyRow == [scope : Scope \cup {"unset"}, revoked : BOOLEAN]
Item == [method : STRING, tool : STRING, args : SUBSET STRING, off : BOOLEAN, id : BOOLEAN]
ASSUME NoKeyAssumption == NoKey \notin KeyId \cup KeyRow
ASSUME BodiesAssumption == Bodies \subseteq Seq(Item)

VARIABLES
    keys,       \* the rows of McpAccessKey
    operators,  \* the console's requests in progress
    clients,    \* the listener's requests in progress
    answered,   \* keys whose revocation has been answered
    served      \* the item the last step served, what it ran and answered
mcpVars == <<keys, operators, clients, answered, served>>

-----------------------------------------------------------------------------
(***************************************************************************)
(* Scopes and tools.                                                       *)
(***************************************************************************)
Rank == [s \in Scope |-> CASE s = "read" -> 1 [] s = "read_secret" -> 2
                           [] s = "operate" -> 3 [] s = "full" -> 4]
ScopeAllows(granted, required) == Rank[granted] >= Rank[required]

Tier(tools, s) == {<<t, s>> : t \in tools}
QueryTools == Tier({"platform_health", "list_projects", "get_project", "list_audit_logs"}, "read")
SecretTools == Tier({"get_env_profile_content"}, "read_secret")
SettingTools == Tier({"set_hostname", "set_pinned", "update_env_profile_content",
                      "update_env_profile_metadata"}, "operate")
RemovalNames == {"delete_env_profile", "remove_deployment_target", "delete_project"}
OperatorRemovals == Tier(RemovalNames, "operate")
RemovalTools == Tier(RemovalNames, "full")
CatalogTools == Tier({"slug_available", "list_templates", "get_template", "list_configs",
                      "get_config", "list_env_profiles"}, "read")
ProvisionTools == Tier({"create_project", "register_gitlab_project", "upsert_deployment_target",
                        "upload_env_profile"}, "operate")
PipelineTools == Tier({"update_sonar_config", "provision_sonar_projects",
                       "migrate_to_auto_devops", "create_template", "create_config",
                       "update_config_file"}, "operate")
TeardownTools == Tier({"delete_sonar_projects", "reconcile_gitlab_projects",
                       "delete_template", "delete_config"}, "full")

McpTools == QueryTools \cup SecretTools \cup SettingTools \cup RemovalTools \cup CatalogTools
            \cup ProvisionTools \cup PipelineTools \cup TeardownTools
ToolNames == {e[1] : e \in McpTools}
ToolScope(t) == (CHOOSE e \in McpTools : e[1] = t)[2]
ToolsForScope(s) == {e[1] : e \in {x \in McpTools : ScopeAllows(s, x[2])}}

(* What the services do for a tool whatever its arguments: delete           *)
(* something, change something, hand out a secret value, or none of these.  *)
Deletes == {"delete_sonar_projects", "delete_template", "delete_config", "delete_env_profile",
            "remove_deployment_target", "delete_project"}
Changes == {"set_hostname", "set_pinned", "update_env_profile_content",
            "update_env_profile_metadata", "create_project", "register_gitlab_project",
            "upsert_deployment_target", "upload_env_profile", "update_sonar_config",
            "provision_sonar_projects", "migrate_to_auto_devops", "create_template",
            "create_config", "update_config_file", "reconcile_gitlab_projects"}
Reveals == {"get_env_profile_content"}

(* A target that is disabled loses its releases, unless the arguments say   *)
(* not to (teardownK8sOnDisable).                                           *)
TearsDown(i) == i.tool = "upsert_deployment_target" /\ i.off

-----------------------------------------------------------------------------
(***************************************************************************)
(* The console's side: McpAccessKeyService.create and revoke.              *)
(***************************************************************************)
ActiveKeys == {k \in KeyId : keys[k] # NoKey /\ ~keys[k].revoked}
IdleOperator == [st |-> "idle", key |-> NoKey]
Nothing == [key |-> NoKey, tool |-> "none", down |-> FALSE, ran |-> FALSE, late |-> FALSE,
            reply |-> "none"]
IdleClient == [st |-> "idle", key |-> NoKey, scope |-> "read", late |-> FALSE,
               body |-> <<>>]

(* Keys made before there were scopes have none: they count as read keys,   *)
(* and get the scope with the next save of the row.                         *)
Legacy == [scope |-> "unset", revoked |-> FALSE]
ScopeOf(key) == IF key.scope = "unset" THEN "read" ELSE key.scope
WithScope(key) == [scope |-> ScopeOf(key), revoked |-> key.revoked]

AtMostLimit == Cardinality(ActiveKeys) <= MaxActive
HasRoom == Cardinality(ActiveKeys) < MaxActive

CountsKeys(o) ==
    /\ operators[o].st = "idle" /\ HasRoom
    /\ operators' = [operators EXCEPT ![o].st = "counted"]
    /\ UNCHANGED <<keys, clients, answered>> /\ served' = Nothing

InsertsKey(o, k, s) ==
    /\ operators[o].st = "counted" /\ keys[k] = NoKey
    /\ keys' = [keys EXCEPT ![k] = [scope |-> s, revoked |-> FALSE]]
    /\ operators' = [operators EXCEPT ![o] = IdleOperator]
    /\ UNCHANGED <<clients, answered>> /\ served' = Nothing

(* revoke reads the key, and answers without a write when it was revoked.   *)
FindsKey(o, k) ==
    /\ operators[o].st = "idle" /\ keys[k] # NoKey
    /\ IF keys[k].revoked
       THEN answered' = answered \cup {k} /\ UNCHANGED operators
       ELSE /\ operators' = [operators EXCEPT ![o] = [st |-> "found", key |-> k]]
            /\ UNCHANGED answered
    /\ UNCHANGED <<keys, clients>> /\ served' = Nothing

OnlyAnswers(key) == WithScope(key)
Revokes(key) == [scope |-> ScopeOf(key), revoked |-> TRUE]

RevokesKey(o) ==
    /\ operators[o].st = "found"
    /\ keys' = [keys EXCEPT ![operators[o].key] = Revokes(@)]
    /\ operators' = [operators EXCEPT ![o] = IdleOperator]
    /\ answered' = answered \cup {operators[o].key}
    /\ UNCHANGED clients /\ served' = Nothing

-----------------------------------------------------------------------------
(***************************************************************************)
(* The listener's side.  late records that a request arrived when the      *)
(* revocation of its key had been answered.                                *)
(***************************************************************************)
Arrives(c, k, body) ==
    /\ clients[c].st = "idle" /\ keys[k] # NoKey
    /\ clients' = [clients EXCEPT ![c] = [st |-> "arrived", key |-> k, scope |-> "read",
                                         late |-> k \in answered, body |-> body]]
    /\ UNCHANGED <<keys, operators, answered>> /\ served' = Nothing

(* authenticate: findOne by hash, then lastUsedAt and a missing scope are   *)
(* saved; the save does not write revokedAt.                                *)
AnyKey(k) == TRUE
UsableKey(k) == ~keys[k].revoked

LooksUp(c) ==
    /\ clients[c].st = "arrived"
    /\ IF UsableKey(clients[c].key)
       THEN clients' = [clients EXCEPT ![c].st = "known",
                                       ![c].scope = ScopeOf(keys[clients[c].key])]
       ELSE clients' = [clients EXCEPT ![c].st = "401"]
    /\ UNCHANGED <<keys, operators, answered>> /\ served' = Nothing

(* The save writes lastUsedAt and a missing scope, not the whole row.       *)
WholeRow(c) == [scope |-> clients[c].scope, revoked |-> FALSE]
Touched(c) == WithScope(keys[clients[c].key])

SavesLastUsed(c) ==
    /\ clients[c].st = "known"
    /\ keys' = [keys EXCEPT ![clients[c].key] = Touched(c)]
    /\ clients' = [clients EXCEPT ![c].st = IF clients[c].body = <<>> THEN "stream" ELSE "serving"]
    /\ UNCHANGED <<operators, answered>> /\ served' = Nothing

(* Arguments a tool cannot do without, the ones of an object that is given, *)
(* and get_project's choice of one name.  An optional argument of the wrong *)
(* type is as good as absent and is not in args.                            *)
DirectArgs(t) ==
    CASE t \in {"get_env_profile_content", "delete_env_profile", "update_env_profile_metadata"}
                                               -> {"projectId", "profileId"}
      [] t = "update_env_profile_content"      -> {"projectId", "profileId", "content"}
      [] t = "set_hostname"                    -> {"id", "targetKey", "hostname"}
      [] t = "set_pinned"                      -> {"id", "pinned"}
      [] t = "create_project"                  -> {"groupPath", "projectSlug"}
      [] t = "register_gitlab_project"         -> {"gitlabProjectId"}
      [] t = "upsert_deployment_target"        -> {"id", "targetKey", "enabled", "apps"}
      [] t = "upload_env_profile"              -> {"projectId", "label", "injectionPhase",
                                                   "branches", "content"}
      [] OTHER                                 -> {}

LaterArgs(t) ==
    CASE t = "list_env_profiles"               -> {"projectId"}
      [] t \in {"slug_available", "get_template", "get_config", "create_template",
                "delete_template", "delete_config"} -> {"slug"}
      [] t = "update_sonar_config"             -> {"id", "allowedBranches"}
      [] t \in {"provision_sonar_projects", "delete_sonar_projects"} -> {"id", "branches"}
      [] t = "create_config"                   -> {"slug", "ciContent"}
      [] t = "update_config_file"              -> {"slug", "filePath", "content",
                                                   "commitMessage"}
      [] t = "remove_deployment_target"        -> {"id", "targetKey"}
      [] t \in {"migrate_to_auto_devops", "delete_project"} -> {"id"}
      [] OTHER                                 -> {}

NestedArgs(args) ==
    UNION {IF "sonar" \in args THEN {"sonar.allowedBranches"} ELSE {},
           IF "apps" \in args THEN {"apps.name", "apps.image"} ELSE {},
           IF "deploymentTargets" \in args THEN {"deploymentTargets.key"} ELSE {}}

OneName(t, args) ==
    t = "get_project" => Cardinality(args \cap {"id", "gitlabPath", "slug"}) = 1

Parses(t, args) == /\ DirectArgs(t) \cup LaterArgs(t) \cup NestedArgs(args) \subseteq args
                   /\ OneName(t, args)

(* handleMcpBody serves the items of a batch one after the other, all with  *)
(* the scope found at authentication.  An item is a JSON-RPC message: its   *)
(* method, its tool ("none" where it names none), its arguments, whether    *)
(* they disable a target and tear it down, and whether it has an id;        *)
(* notifications are served and not answered.                               *)
ToolRuns(i, scope) ==
    /\ i.method = "tools/call" /\ i.tool \in ToolNames
    /\ ScopeAllows(scope, ToolScope(i.tool))
    /\ Parses(i.tool, i.args)

Reply(i, scope) ==
    CASE i.method = "invalid"                                   -> "-32600"
      [] i.method \in {"initialize", "ping", "tools/list"}      -> "result"
      [] i.method = "tools/call" /\ i.tool = "none"             -> "isError"
      [] i.method = "tools/call" /\ i.tool \notin ToolNames     -> "-32601"
      [] i.method = "tools/call" /\ ToolRuns(i, scope)          -> "result"
      [] i.method = "tools/call" /\ i.tool \in ToolNames
            /\ ~ToolRuns(i, scope)                              -> "isError"
      [] OTHER                                                  -> "-32601"

Silent(i) == ~i.id /\ i.method # "invalid"

Serves(c) ==
    LET i == Head(clients[c].body)
        s == clients[c].scope
    IN  /\ clients[c].st = "serving" /\ clients[c].body # <<>>
        /\ served' = [key |-> clients[c].key, tool |-> i.tool, down |-> TearsDown(i),
                      ran |-> ToolRuns(i, s), late |-> clients[c].late,
                      reply |-> IF Silent(i) THEN "none" ELSE Reply(i, s)]
        /\ clients' = [clients EXCEPT ![c].body = Tail(@)]
        /\ UNCHANGED <<keys, operators, answered>>

(* A request is answered, or a stream is closed.  A client that goes away   *)
(* earlier does not stop the handler.                                       *)
Leaves(c) ==
    /\ \/ clients[c].st \in {"401", "stream"}
       \/ clients[c].st = "serving" /\ clients[c].body = <<>>
    /\ clients' = [clients EXCEPT ![c] = IdleClient]
    /\ UNCHANGED <<keys, operators, answered>> /\ served' = Nothing

McpInit ==
    /\ keys \in [KeyId -> {NoKey, Legacy}]
    /\ Cardinality(ActiveKeys) <= MaxActive
    /\ operators = [o \in Operator |-> IdleOperator]
    /\ clients = [c \in Client |-> IdleClient]
    /\ answered = {}
    /\ served = Nothing

McpNext ==
    \/ \E o \in Operator : \/ \E k \in KeyId, s \in Scope : InsertsKey(o, k, s)
                           \/ \E k \in KeyId : FindsKey(o, k)
                           \/ CountsKeys(o)
                           \/ RevokesKey(o)
    \/ \E c \in Client : \/ \E k \in KeyId, b \in Bodies : Arrives(c, k, b)
                         \/ LooksUp(c) \/ SavesLastUsed(c) \/ Serves(c) \/ Leaves(c)

McpSpec == McpInit /\ [][McpNext]_mcpVars

-----------------------------------------------------------------------------
McpTypeOK ==
    /\ keys \in [KeyId -> {NoKey} \cup KeyRow]
    /\ operators \in [Operator -> [st : {"idle", "counted", "found"}, key : KeyId \cup {NoKey}]]
    /\ clients \in [Client -> [st : {"idle", "arrived", "known", "401", "serving", "stream"},
                               key : KeyId \cup {NoKey}, scope : Scope, late : BOOLEAN,
                               body : Seq(Item)]]
    /\ answered \subseteq KeyId

(* The limit on active keys is read before the insert: requests that have   *)
(* counted and not inserted yet may exceed it, each by one key and no more. *)
ActiveKeysBounded ==
    Cardinality(ActiveKeys) + Cardinality({o \in Operator : operators[o].st = "counted"})
        < MaxActive + Cardinality(Operator)

(* Once a revocation has been answered, no request that arrives with the    *)
(* key runs a tool, whatever look-ups were under way.                       *)
RevocationObeyed == ~(served.ran /\ served.late)

(* Whatever a client does with a key while it is being revoked, the         *)
(* lastUsedAt save included, a revoked key stays revoked with its scope.    *)
RevokedStaysRevoked ==
    [][\A k \in KeyId : (keys[k] # NoKey /\ keys[k].revoked) =>
          (keys'[k] # NoKey /\ keys'[k].revoked /\ ScopeOf(keys'[k]) = ScopeOf(keys[k]))]_mcpVars

(* The tiers of the tools, for the scope the key has by the time that the   *)
(* tool runs, which was looked up some awaits ago: the tools that delete    *)
(* run for a full key only, what changes anything from operate on, and a    *)
(* read key never gets a secret.  An upsert that disables a target deletes  *)
(* its releases, and an operate key may do that, although mcp-scopes.ts     *)
(* says of it that "it cannot delete or tear down".                         *)
ScopesHonoured ==
    served.ran =>
        LET scope == ScopeOf(keys[served.key])
        IN  /\ served.tool \in Deletes => scope = "full"
            /\ served.tool \in Changes \/ served.down => scope \in {"operate", "full"}
            /\ served.tool \in Reveals => scope # "read"
=============================================================================
