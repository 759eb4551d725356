------------------------------ MODULE ApiAccess ------------------------------
(***************************************************************************)
(* How a request enters the Management API and what the audit log says of  *)
(* it afterwards: CombinedAuthGuard and OidcJwtStrategy (api/src/common/   *)
(* guards), AuditActorInterceptor and the asynchronous context it opens    *)
(* (common/audit), the resolvers and the REST shim (projects/graphql,      *)
(* projects.controller.ts), the MCP server's own context, and the stamp    *)
(* that AuditLogSchema puts on an entry.  Handlers interleave at their     *)
(* awaits; each is the sequence of what it changes and of the entries it   *)
(* writes, in the order of its code.                                       *)
(***************************************************************************)
EXTENDS Naturals, Sequences

CONSTANTS
    Http,       \* concurrent requests
    Setup,      \* possible settings: is an API key, is OIDC, is a group required?
    Header      \* what the requests of this instance bring

VARIABLES
    setup,      \* the settings of this process
    sent,       \* what each request brought: transport, headers, operation
    at,         \* where it is
    rest,       \* what its handler has still to do
    store,      \* auditActorAls: the caller of each request's own context
    running,    \* the request whose reconciliation is under way, or Alone
    audit       \* audit_logs

apiState == <<setup, sent, at, rest, store, running, audit>>

Alone == "none"
Unsent == [via |-> "none", key |-> "none", bearer |-> "none", op |-> "none"]

-----------------------------------------------------------------------------
(* The handlers.  "changes" and "reads" stand for their awaited calls.       *)
Queries == {"projects", "project", "auditLogs", "envProfiles", "templates", "configs",
            "slugAvailable", "mcpAccessKeys"}
Unaudited == {"uploadEnvProfile", "deleteEnvProfile"}
NewProjectEvents ==
    {<<"createProject", "project.created">>, <<"registerGitLabProject", "project.registered">>}
ProjectEvents ==
    {<<"migrateProjectToAutoDevops", "project.migrated">>, <<"setPinnedV1", "project.pinned_v1">>,
     <<"setHostnameOverride", "project.hostname_override">>}
TargetEvents ==
    {<<"setDeploymentTargetHostname", "project.hostname_override">>,
     <<"upsertDeploymentTarget", "project.deployment.upserted">>,
     <<"removeDeploymentTarget", "project.deployment.removed">>}
SonarEvents ==
    {<<"updateProjectSonarConfig", "project.sonar_config_updated">>,
     <<"provisionSonarProjects", "project.sonar_provisioned">>,
     <<"deleteSonarProjects", "project.sonar_deleted">>}
ProfileEvents ==
    {<<"updateEnvProfileContent", "env.profile.content_updated">>,
     <<"updateEnvProfileMetadata", "env.profile.metadata_updated">>}
KeyEvents ==
    {<<"createMcpAccessKey", "mcp.key.created">>, <<"revokeMcpAccessKey", "mcp.key.revoked">>}
AuditedAfter == NewProjectEvents \cup ProjectEvents \cup TargetEvents \cup SonarEvents
                \cup ProfileEvents \cup KeyEvents

\* A new project with Sonar branches gets its Sonar configuration too.
WithSonar(event) == <<"changes", event, "changes", "project.sonar_config_updated", "answers">>
\* A project that is no legacy one, a key that is revoked already.
MayFindDone == {"migrateProjectToAutoDevops", "revokeMcpAccessKey"}
RevealAnswersFirst == {<<"reads", "answers", "env.profile.revealed">>}
Reveal == {<<"reads", "env.profile.revealed", "answers">>}
ReadLogs == {<<"reads", "app.logs.read", "answers">>, <<"reads", "answers">>}   \* follow
Delete ==
    {<<"changes", "project.deleted", "changes", "answers">>,
     <<"changes", "changes", "project.archived", "answers">>,
     <<"changes", "project.sonar_deleted", "project.deleted", "changes", "answers">>,
     <<"changes", "project.sonar_deleted", "changes", "project.archived", "answers">>}
Reconcile == {<<"reads", "changes", "project.reconciled_legacy", "changes", "answers">>,
              <<"reads", "answers">>}

\* Every operation with what its handler may turn out to do.
Handlers ==
    ((Queries \cup MayFindDone) \X {<<"reads", "answers">>})
    \cup (Unaudited \X {<<"changes", "answers">>})
    \cup {<<e[1], <<"changes", e[2], "answers">>>> : e \in AuditedAfter}
    \cup {<<e[1], WithSonar(e[2])>> : e \in NewProjectEvents}
    \cup ({"envProfileContent"} \X Reveal)
    \cup ({"appContainerLogs"} \X ReadLogs)
    \cup ({"deleteProject"} \X Delete)
    \cup ({"reconcileGitLabProjects"} \X Reconcile)
Operation == {h[1] : h \in Handlers}
Handler(op) == {h[2] : h \in {g \in Handlers : g[1] = op}}
Events(plan) == {i \in DOMAIN plan : plan[i] \notin {"reads", "changes", "answers"}}
MayWrite(op) == UNION {{plan[i] : i \in Events(plan)} : plan \in Handler(op)}

(* A request names an operation of the API, and comes with or without a key *)
(* and a token.                                                             *)
ASSUME AccessAssumption ==
    /\ Setup \subseteq [apiKey : BOOLEAN, oidc : BOOLEAN, group : BOOLEAN]
    /\ \A h \in Header : h.op \in Operation

-----------------------------------------------------------------------------
(* Admission.  The API key comes first, and a wrong one is final; a token is *)
(* looked at only without one; without settings everybody is let in.  The    *)
(* token check reads the HTTP request of the execution context, which a      *)
(* GraphQL execution does not have in that place.                            *)
PassportFinds(via) == via = "rest"
TokenAccepted(h) ==
    /\ PassportFinds(h.via)
    /\ h.bearer = "valid" \/ (h.bearer = "groupless" /\ ~setup.group)
Admitted(h) ==
    \/ h.key = "right" /\ setup.apiKey
    \/ h.key = "none" /\ h.bearer # "none" /\ setup.oidc /\ TokenAccepted(h)
    \/ h.key = "none" /\ ~setup.apiKey /\ ~setup.oidc

(* AuditActorInterceptor: request.user is what the token check left there.  *)
ActorOf(h) ==
    IF h.via = "mcp" THEN "mcp:prefix"
    ELSE IF h.key = "none" /\ h.bearer # "none" /\ setup.oidc THEN "oidc:user"
    ELSE IF h.key = "right" /\ setup.apiKey THEN "api-key"
    ELSE "unknown"

\* The actor is in the context of one request, not of the process.
EntersShared(r) == store' = [q \in Http |-> ActorOf(sent[r])]
Enters(r) == store' = [store EXCEPT ![r] = ActorOf(sent[r])]

\* REST keeps reading endpoints; the others are answered 410 Gone.
Gone(h) == h.via = "rest" /\ h.op \notin {"projects", "project"}

Receives(r, h) ==
    /\ at[r] = "none"
    /\ sent' = [sent EXCEPT ![r] = h]
    /\ at' = [at EXCEPT ![r] = "guard"]
    /\ UNCHANGED <<setup, rest, store, running, audit>>

\* MCP requests carry a key of McpAccess, which that module looks up.
Refuses(r) ==
    /\ at[r] = "guard"
    /\ (sent[r].via # "mcp" => ~Admitted(sent[r]) \/ Gone(sent[r]))
    /\ at' = [at EXCEPT ![r] = "refused"]
    /\ UNCHANGED <<setup, sent, rest, store, running, audit>>

\* A reconciliation that finds one under way waits for that one's answer.
Joins(r) == sent[r].op = "reconcileGitLabProjects" /\ running # Alone
Admits(r) ==
    /\ at[r] = "guard"
    /\ sent[r].via = "mcp" \/ (Admitted(sent[r]) /\ ~Gone(sent[r]))
    /\ Enters(r)
    /\ at' = [at EXCEPT ![r] = "handler"]
    /\ IF Joins(r)
       THEN rest' = [rest EXCEPT ![r] = <<>>] /\ UNCHANGED running
       ELSE /\ \E plan \in Handler(sent[r].op) : rest' = [rest EXCEPT ![r] = plan]
            /\ running' = IF sent[r].op = "reconcileGitLabProjects" THEN r ELSE running
    /\ UNCHANGED <<setup, sent, audit>>

HasNext(r) == at[r] = "handler" /\ rest[r] # <<>>
Steps(r) == rest' = [rest EXCEPT ![r] = Tail(@)]

\* An awaited call returns.
Awaits(r) ==
    /\ HasNext(r) /\ Head(rest[r]) \in {"reads", "changes"}
    /\ Steps(r)
    /\ UNCHANGED <<setup, sent, at, store, running, audit>>

\* auditLogModel.create: the schema stamps the caller of the context.
WritesEntry(r) ==
    /\ HasNext(r) /\ Head(rest[r]) \notin {"reads", "changes", "answers"}
    /\ audit' = audit \cup {[event |-> Head(rest[r]), actor |-> store[r]]}
    /\ Steps(r)
    /\ UNCHANGED <<setup, sent, at, store, running>>

\* The answer, also of those that joined a reconciliation.
Answered(r) == {r} \cup IF running = r THEN {q \in Http : at[q] = "handler" /\ rest[q] = <<>>}
                        ELSE {}
EndsWith(r, how) ==
    /\ at' = [q \in Http |-> IF q \in Answered(r) THEN how ELSE at[q]]
    /\ rest' = [rest EXCEPT ![r] = <<>>]
    /\ running' = IF running = r THEN Alone ELSE running
    /\ UNCHANGED <<setup, sent, store, audit>>
AnswersRequest(r) == HasNext(r) /\ Head(rest[r]) = "answers" /\ EndsWith(r, "answered")
HandlerThrows(r) == HasNext(r) /\ EndsWith(r, "failed")

ApiInit ==
    /\ setup \in Setup
    /\ sent = [r \in Http |-> Unsent] /\ at = [r \in Http |-> "none"]
    /\ rest = [r \in Http |-> <<>>] /\ store = [r \in Http |-> "none"]
    /\ running = Alone /\ audit = {}

ApiNext ==
    \E r \in Http :
        \/ \E h \in Header : Receives(r, h)
        \/ Refuses(r) \/ Admits(r) \/ Awaits(r) \/ WritesEntry(r)
        \/ AnswersRequest(r) \/ HandlerThrows(r)

ApiSpec == ApiInit /\ [][ApiNext]_apiState

ApiTypeOK ==
    /\ setup \in [apiKey : BOOLEAN, oidc : BOOLEAN, group : BOOLEAN]
    /\ \A r \in Http : /\ sent[r] \in Header \cup {Unsent}
                       /\ at[r] \in {"none", "guard", "handler", "answered", "failed", "refused"}
    /\ running \in Http \cup {Alone}
    /\ \A e \in audit : e.actor \in {"mcp:prefix", "oidc:user", "api-key", "unknown"}

(* The audit log can be believed: an entry names the caller of a request    *)
(* that was let in and whose operation writes such entries, whichever       *)
(* requests were at their awaits meanwhile; only a process without any      *)
(* authentication writes "unknown"; and no profile content is answered      *)
(* before the entry that says who saw it.                                   *)
AuditNamesCaller ==
    /\ \A e \in audit : \E r \in Http :
          /\ at[r] \in {"handler", "answered", "failed"}
          /\ e.event \in MayWrite(sent[r].op) /\ e.actor = ActorOf(sent[r])
    /\ \A e \in audit : e.actor = "unknown" => ~setup.apiKey /\ ~setup.oidc
    /\ \A r \in Http :
          at[r] = "answered" /\ sent[r].op = "envProfileContent"
          => [event |-> "env.profile.revealed", actor |-> ActorOf(sent[r])] \in audit
=============================================================================
