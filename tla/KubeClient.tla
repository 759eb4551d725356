------------------------------ MODULE KubeClient ------------------------------
(***************************************************************************)
(* The API's Kubernetes client (k8s.service.ts): clients loaded once from     *)
(* the kubeconfig files, namespaces ensured, releases torn down and looked *)
(* for kind by kind, container logs tailed pod by pod, while pipelines     *)
(* deploy, pods roll, requests fail and the API restarts.                  *)
(***************************************************************************)
EXTENDS Naturals, Sequences, FiniteSets, Functions

CONSTANTS
    Ask,        \* calls of the client, one each
    Release,    \* Helm releases, each of one cluster profile
    ProfileOf,  \* Release -> profile
    Lists,      \* lists of releases that are torn down or looked for together
    Pod,        \* pods a release can have
    MaxPods,    \* pods whose logs are read, 8 in the code
    MaxEvents   \* bound: restarts, deployments, rolls, kubeconfig changes and
                \* deletions that fail

ASSUME KubeAssumption == MaxPods \in Nat /\ MaxEvents \in Nat /\ IsFiniteSet(Pod)

(* A call for no release at all makes no request, and is left out.          *)
ASSUME ListsAssumption == Lists \subseteq Seq(Release) \ {<<>>}

VARIABLES
    yamls,      \* profiles that have a kubeconfig file
    apiClients,    \* profiles whose client was loaded when the API started
    spaces,     \* profiles whose namespace exists
    objects,    \* <<release, kind>> pairs in the clusters
    pods,       \* pods of each release
    ask,        \* the calls under way
    events
kubeVars == <<yamls, apiClients, spaces, objects, pods, ask, events>>

Profile == {ProfileOf[r] : r \in Release}
(* What a teardown deletes; "Secret" are the ones Helm keeps a release in.  *)
Kinds == <<"Deployment", "Service", "Ingress", "Secret">>
Kind == {"Deployment", "Service", "Ingress", "Secret"}
(* What the chart of the releases installs besides, when its values say so: *)
(* the first one, with the Secret it fills, unless they say no.             *)
ChartOnly == {"ExternalSecret", "HorizontalPodAutoscaler"}
Resource == Kind \cup ChartOnly
Runs(r) == <<r, "Deployment">> \in objects
World == <<yamls, spaces, pods>>

(* "todo" is what is left to do, "held" the releases that ran all along,    *)
(* "clean" those no request failed for and nothing was deployed of since,   *)
(* "listed" the pods of the release, "seen" the ones of them that are read, *)
(* "told" the pods the answer accounts for.                                 *)
IdleAsk == [op |-> "none", pc |-> "idle", todo |-> <<>>, at |-> 1, end |-> "open",
            held |-> {}, clean |-> {}, listed |-> {}, seen |-> {}, told |-> {}]
AskIs(a, op, pc) == ask[a].op = op /\ ask[a].pc = pc
Alters(a, new) == ask' = [ask EXCEPT ![a] = new]
Ended(a, end) == [ask[a] EXCEPT !.pc = "done", !.end = end]
First(a) == Head(ask[a].todo)
Served(a) == ProfileOf[First(a)] \in apiClients

Happens == events < MaxEvents /\ events' = events + 1

(* The call turns to its next release.                                      *)
Onward(rec, end) == IF Len(rec.todo) = 1 THEN [rec EXCEPT !.pc = "done", !.end = end]
                    ELSE [rec EXCEPT !.todo = Tail(@), !.at = 1]

AskStarts(a, op, rels) ==
    /\ AskIs(a, "none", "idle")
    /\ Alters(a, [IdleAsk EXCEPT !.op = op, !.pc = "go", !.todo = rels,
                                !.held = {r \in Range(rels) : Runs(r)},
                                !.clean = Range(rels)])
    /\ UNCHANGED <<World, apiClients, objects, events>>

-----------------------------------------------------------------------------
(* ensureNamespace: only a 404 creates; without a client nothing is done.   *)
(* A create that fails, because the namespace is there by now or otherwise, *)
(* makes the call throw.                                                    *)
EnsureReads(a) ==
    /\ AskIs(a, "ensure", "go")
    /\ IF Served(a) /\ ProfileOf[First(a)] \notin spaces
       THEN \/ Alters(a, [ask[a] EXCEPT !.pc = "create"])
            \/ Alters(a, Ended(a, "ok"))
       ELSE Alters(a, Ended(a, "ok"))
    /\ UNCHANGED <<World, apiClients, objects, events>>

EnsureCreates(a) ==
    /\ AskIs(a, "ensure", "create")
    /\ \/ Alters(a, Ended(a, "error")) /\ UNCHANGED spaces
       \/ /\ ProfileOf[First(a)] \notin spaces
          /\ Alters(a, Ended(a, "ok")) /\ spaces' = spaces \cup {ProfileOf[First(a)]}
    /\ UNCHANGED <<yamls, pods, apiClients, objects, events>>

-----------------------------------------------------------------------------
(* teardownProjectTargets: kind after kind, release after release.  What is *)
(* missing is as good as deleted; what cannot be deleted is passed over.    *)
StopsAtMissing(a, left) ==
    IF ask[a].at = 4 \/ <<First(a), Kinds[ask[a].at]>> \notin objects THEN Onward(left, "ok")
    ELSE [left EXCEPT !.at = @ + 1]
NextKind(a, left) == IF ask[a].at = 4 THEN Onward(left, "ok") ELSE [left EXCEPT !.at = @ + 1]

TeardownSkips(a) ==
    /\ AskIs(a, "teardown", "go") /\ ~Served(a)
    /\ Alters(a, Onward([ask[a] EXCEPT !.clean = @ \ {First(a)}], "ok"))
    /\ UNCHANGED <<World, apiClients, objects, events>>

DeletesKind(a) ==
    /\ AskIs(a, "teardown", "go") /\ Served(a)
    /\ \/ /\ objects' = objects \ {<<First(a), Kinds[ask[a].at]>>}
          /\ ask' = [b \in Ask |->
               IF b = a THEN NextKind(a, ask[a])
               ELSE IF ask[a].at = 1 THEN [ask[b] EXCEPT !.held = @ \ {First(a)}] ELSE ask[b]]
          /\ UNCHANGED events
       \/ /\ Alters(a, NextKind(a, [ask[a] EXCEPT !.clean = @ \ {First(a)}]))
          /\ Happens /\ UNCHANGED objects
    /\ UNCHANGED <<World, apiClients>>

(* hasReleaseInTargets: the first release found answers; an error counts as *)
(* found, and a profile without a client as empty.                          *)
UnknownIsGone(a) == {Runs(First(a)), FALSE}
Reads(a) == {Runs(First(a)), TRUE}

LooksForRelease(a) ==
    /\ AskIs(a, "has", "go")
    /\ \E found \in IF Served(a) THEN Reads(a) ELSE {FALSE} :
         Alters(a, IF found THEN Ended(a, "remains")
                   ELSE Onward(IF Served(a) THEN ask[a]
                               ELSE [ask[a] EXCEPT !.held = @ \ {First(a)}], "none"))
    /\ UNCHANGED <<World, apiClients, objects, events>>

-----------------------------------------------------------------------------
(* readReleaseContainerLogs: the first pods of a listing, one after the     *)
(* other; a pod that cannot be read is told of with an error.  With more    *)
(* pods than it reads the answer says how many of how many it shows.        *)
FirstOf(listed, some) ==
    /\ some \subseteq listed /\ Cardinality(some) <= MaxPods
    /\ Cardinality(some) < MaxPods => some = listed

LogsList(a) ==
    /\ AskIs(a, "logs", "go")
    /\ \/ Alters(a, Ended(a, "message"))
       \/ /\ Served(a) /\ pods[First(a)] # {}
          /\ \E some \in SUBSET pods[First(a)] :
               /\ FirstOf(pods[First(a)], some)
               /\ Alters(a, [ask[a] EXCEPT !.pc = "pods", !.listed = pods[First(a)], !.seen = some])
    /\ UNCHANGED <<World, apiClients, objects, events>>

Unread(a) == ask[a].seen \ ask[a].told
SaysNothing(a) == "ok"
Says(a) == IF Cardinality(ask[a].listed) > Cardinality(ask[a].seen) THEN "partial" ELSE "ok"

LogsRead(a) ==
    /\ AskIs(a, "logs", "pods")
    /\ \E p \in Unread(a) :
         LET rec == [ask[a] EXCEPT !.told = @ \cup {p}] IN
         Alters(a, IF Unread(a) = {p} THEN [rec EXCEPT !.pc = "done", !.end = Says(a)] ELSE rec)
    /\ UNCHANGED <<World, apiClients, objects, events>>

-----------------------------------------------------------------------------
(* Pipelines, pods, operators, and a restart of the API, which forgets the  *)
(* calls under way and loads what kubeconfig files it can.                  *)

Deploys(r) ==
    /\ Happens
    /\ \E more \in SUBSET ChartOnly : objects' = objects \cup ({r} \X (Kind \cup more))
    /\ ask' = [a \in Ask |-> [ask[a] EXCEPT !.clean = @ \ {r}]]
    /\ UNCHANGED <<World, apiClients>>

PodsRoll(r) == /\ Happens /\ \E p \in pods[r] : pods' = [pods EXCEPT ![r] = @ \ {p}]
               /\ UNCHANGED <<yamls, spaces, apiClients, objects, ask>>

YamlChanges(p) == /\ Happens
                  /\ yamls' = IF p \in yamls THEN yamls \ {p} ELSE yamls \cup {p}
                  /\ UNCHANGED <<spaces, pods, apiClients, objects, ask>>

Restarts ==
    /\ Happens
    /\ apiClients' \in SUBSET yamls
    /\ ask' = [a \in Ask |-> IF ask[a].pc \in {"idle", "done"} THEN ask[a]
                             ELSE [ask[a] EXCEPT !.pc = "done", !.end = "lost"]]
    /\ UNCHANGED <<World, objects>>

AskStep(a) == \/ EnsureReads(a) \/ EnsureCreates(a) \/ TeardownSkips(a) \/ DeletesKind(a)
              \/ LooksForRelease(a) \/ LogsList(a) \/ LogsRead(a)

KubeInit ==
    /\ yamls = Profile /\ apiClients \in SUBSET Profile /\ spaces = {}
    /\ objects = Release \X (Kind \cup {"ExternalSecret"})
    /\ pods = [r \in Release |-> Pod]
    /\ ask = [a \in Ask |-> IdleAsk] /\ events = 0

KubeNext ==
    \/ \E a \in Ask : \/ AskStep(a)
                      \/ \E list \in Lists : \/ AskStarts(a, "teardown", list)
                                             \/ AskStarts(a, "has", list)
                      \/ \E r \in Release : AskStarts(a, "ensure", <<r>>) \/ AskStarts(a, "logs", <<r>>)
    \/ \E r \in Release : Deploys(r) \/ PodsRoll(r)
    \/ \E p \in Profile : YamlChanges(p)
    \/ Restarts

KubeSpec == KubeInit /\ [][KubeNext]_kubeVars

-----------------------------------------------------------------------------
KubeTypeOK ==
    /\ yamls \subseteq Profile /\ apiClients \subseteq Profile /\ spaces \subseteq Profile
    /\ objects \subseteq Release \X Resource /\ pods \in [Release -> SUBSET Pod]
    /\ \A a \in Ask : /\ ask[a].at \in 1 .. 4
                      /\ ask[a].end \in {"open", "ok", "error", "remains", "none", "message",
                                        "partial", "lost"}
                      /\ ask[a].told \subseteq ask[a].seen
    /\ events \in 0 .. MaxEvents

(* "No release remains", on which a deletion forgets its project, is never  *)
(* answered of a release that ran all along on a cluster the API can reach, *)
(* whatever requests fail.                                                  *)
VerdictErrsSafe == \A a \in Ask : ask[a].end = "none" => ask[a].held = {}

(* A teardown none of whose requests failed leaves none of the kinds it     *)
(* deletes of its release, in whatever half-way state an earlier one left   *)
(* it, unless a pipeline has deployed it since.  What the chart installs    *)
(* besides (ChartOnly) stays, although removing a target is said to tear    *)
(* down its releases.                                                       *)
RetryFinishes ==
    \A a \in Ask : AskIs(a, "teardown", "done") /\ ask[a].end = "ok" =>
        \A r \in ask[a].clean : \A k \in Kind : <<r, k>> \notin objects

(* Nobody takes some of the pods for all of them: an answer without a       *)
(* message tells of every pod the release had when it was listed, also of   *)
(* the ones that were gone when their log was read, and one that says how   *)
(* many of how many it shows leaves some out, but no more than it must.     *)
LogsTellOfEveryPod ==
    \A a \in Ask : AskIs(a, "logs", "done") =>
        /\ ask[a].end = "ok" => ask[a].told = ask[a].listed
        /\ ask[a].end = "partial" => /\ ask[a].told # ask[a].listed
                                    /\ Cardinality(ask[a].told) = MaxPods

=============================================================================
