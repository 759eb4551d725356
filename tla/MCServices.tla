----------------------------- MODULE MCServices -----------------------------
(***************************************************************************)
(* Instances of the parts that the project document does not join: the MCP *)
(* server and its keys, the API's front door, the clients of GitLab and of *)
(* the clusters, the host watchdog and the console's panels.  They share   *)
(* no state, so each behaviour moves one of them, its focus.               *)
(***************************************************************************)
EXTENDS McpAccess, Watchdog, GitLabClient, KubeClient, ConsolePage, ProfileEditor, TargetForm,
        ApiAccess

CONSTANT h1     \* a host that a user types

VARIABLE focus

services == <<focus, mcpVars, watchdogVars, gitlabVars, kubeVars, consoleVars, editorVars,
              formPanel, apiState>>

(* The bodies a client posts: none, one with a notification, and two        *)
(* batches.                                                                 *)
Call(t, a) == [method |-> "tools/call", tool |-> t, args |-> a, off |-> FALSE, id |-> TRUE]
Initialized == [method |-> "notifications/initialized", tool |-> "none", args |-> {},
                off |-> FALSE, id |-> FALSE]
Upsert == {"id", "targetKey", "enabled", "apps"}
MCBodies ==
    {<<>>,
     <<Initialized, Call("get_env_profile_content", {"projectId", "profileId"})>>,
     <<[Call("upsert_deployment_target", Upsert \cup {"apps.name", "apps.image"})
           EXCEPT !.off = TRUE],
       Call("delete_project", {"id"})>>,
     <<Call("upsert_deployment_target", Upsert), Call("get_project", {"id"}), Call("none", {})>>}

(* Release r1 is on the cluster of profile q1, r2 on that of q2.            *)
MCProfileOf == [r \in Release |-> IF r = "r1" THEN "q1" ELSE "q2"]
MCLists == {<<"r1">>, <<"r1", "r2">>}

(* Target dev has a default ref, eu has none; it is enabled with a host of  *)
(* its own, or disabled with a derived and a typed host.                    *)
MCDefault == [k \in TargetKey |-> IF k = "dev" THEN "b1" ELSE Blank]
AppShown(n, h) == [name |-> n, image |-> n, host |-> h]
OnlyDev(t) == [k \in TargetKey |-> IF k = "dev" THEN t ELSE Blank]
Live == OnlyDev([on |-> TRUE, ref |-> "b2", apps |-> <<AppShown("a1", h1)>>])
MCStarts ==
    {Live, OnlyDev([on |-> FALSE, ref |-> NoneRef,
                    apps |-> <<AppShown("a1", <<"dev", "a1">>), AppShown("a2", h1)>>])}

(* Requests of every transport, with the keys and tokens that matter to it. *)
Unlocked == [apiKey |-> FALSE, oidc |-> FALSE, group |-> FALSE]
MCSetup == {Unlocked, [Unlocked EXCEPT !.apiKey = TRUE], [Unlocked EXCEPT !.oidc = TRUE],
            [apiKey |-> TRUE, oidc |-> TRUE, group |-> TRUE]}
Brings(via, k, b, op) == [via |-> via, key |-> k, bearer |-> b, op |-> op]
MCHeader ==
    {Brings("graphql", k, "none", op) :
        k \in {"none", "right", "wrong"},
        op \in {"createProject", "deleteProject", "envProfileContent", "reconcileGitLabProjects"}}
    \cup {Brings("graphql", "none", "valid", "uploadEnvProfile"),
          Brings("rest", "none", "valid", "projects"),
          Brings("rest", "none", "groupless", "project"),
          Brings("rest", "right", "none", "createProject")}
    \cup {Brings("mcp", "none", "none", op) :
             op \in {"setPinnedV1", "appContainerLogs", "reconcileGitLabProjects"}}

-----------------------------------------------------------------------------
Part == {"mcp", "watchdog", "gitlab", "kube", "console", "editor", "form", "api"}

AnyProj == CHOOSE p \in Proj : TRUE

(* A part out of focus rests in one of its initial states.                  *)
ServicesInit ==
    /\ focus \in Part
    /\ McpInit /\ (focus # "mcp" => keys = [k \in KeyId |-> NoKey])
    /\ WatchdogInit
    /\ GitLabInit /\ (focus # "gitlab" => image = FALSE)
    /\ KubeInit /\ (focus # "kube" => apiClients = {})
    /\ ConsoleInit
    /\ focus # "console" =>
          preferred = NoProject /\ registry = [s \in Shown |-> [status |-> "active", at |-> 0]]
    /\ EditorInit
    /\ TargetFormInit
    /\ focus # "form" => pane = AnyProj /\ stored = [p \in Proj |-> Live]
    /\ ApiInit /\ (focus # "api" => setup = Unlocked)

ServicesNext ==
    /\ UNCHANGED focus
    /\ \/ /\ focus = "mcp" /\ McpNext
          /\ UNCHANGED <<watchdogVars, gitlabVars, kubeVars, consoleVars, editorVars, formPanel, apiState>>
       \/ /\ focus = "watchdog" /\ WatchdogNext
          /\ UNCHANGED <<mcpVars, gitlabVars, kubeVars, consoleVars, editorVars, formPanel, apiState>>
       \/ /\ focus = "gitlab" /\ GitLabNext
          /\ UNCHANGED <<mcpVars, watchdogVars, kubeVars, consoleVars, editorVars, formPanel, apiState>>
       \/ /\ focus = "kube" /\ KubeNext
          /\ UNCHANGED <<mcpVars, watchdogVars, gitlabVars, consoleVars, editorVars, formPanel, apiState>>
       \/ /\ focus = "console" /\ ConsoleNext
          /\ UNCHANGED <<mcpVars, watchdogVars, gitlabVars, kubeVars, editorVars, formPanel, apiState>>
       \/ /\ focus = "editor" /\ EditorNext
          /\ UNCHANGED <<mcpVars, watchdogVars, gitlabVars, kubeVars, consoleVars, formPanel, apiState>>
       \/ /\ focus = "form" /\ TargetFormNext
          /\ UNCHANGED <<mcpVars, watchdogVars, gitlabVars, kubeVars, consoleVars, editorVars, apiState>>
       \/ /\ focus = "api" /\ ApiNext
          /\ UNCHANGED <<mcpVars, watchdogVars, gitlabVars, kubeVars, consoleVars, editorVars, formPanel>>

(* WatchdogFairness and GitLabFairness, of the part in focus.               *)
ServicesSpec ==
    /\ ServicesInit /\ [][ServicesNext]_services
    /\ \A t \in Tick : /\ WF_watchdogVars(focus = "watchdog" /\ TickStarts(t, "real"))
                       /\ WF_watchdogVars(focus = "watchdog" /\ TickStep(t))
    /\ \A c \in Caller : WF_gitlabVars(focus = "gitlab" /\ CallStep(c))

(* The types of all the parts.                                              *)
ServicesTypeOK ==
    /\ McpTypeOK /\ WatchdogTypeOK /\ GitLabTypeOK /\ KubeTypeOK
    /\ ConsoleTypeOK /\ EditorTypeOK /\ TargetFormTypeOK /\ ApiTypeOK

=============================================================================
