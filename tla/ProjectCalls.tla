---------------------------- MODULE ProjectCalls ----------------------------
(***************************************************************************)
(* One project of the Management API while requests change its deployment  *)
(* targets and its env profiles.  A request loads the MongoDB document,    *)
(* decides from it what it will do, and then makes its calls to OpenBao    *)
(* (Vault), GitLab, Kubernetes and MongoDB one at a time: the plan of a    *)
(* handler (DeployWiring, EnvProfiles) is the sequence of calls it has     *)
(* still to make.  Requests interleave at every call; a call that throws,  *)
(* or an API process that dies, ends its request where it stands, and      *)
(* nothing is rolled back.                                                 *)
(***************************************************************************)
EXTENDS ProfileRules, SequencesExt

CONSTANTS
    Req,        \* concurrent API requests
    RtKey,      \* environment keys of runtime profiles
    Seed        \* DEPLOY_ENV and VAULT_PROJECT_PATH, which seeding writes

VARIABLES
    row,        \* the project's MongoDB document
    vault,      \* its secrets: one per target, one per profile, ci/index
    gitlab,     \* its CI/CD variables and the files of its branches
    releases,   \* Helm releases in the clusters, by target and app
    req         \* the requests

project == <<row, vault, gitlab, releases, req>>

-----------------------------------------------------------------------------
(***************************************************************************)
(* The document.  ver is Mongoose's __v.                                   *)
(***************************************************************************)
Fields == {"targets", "profiles", "runtime", "legacy", "pinned"}
Arrays == {"targets", "profiles"}

Deployable(doc) == doc.deployable \/ \E k \in KeysOf(doc.targets) : doc.targets[k].on
ProfilesOf(doc) == {p \in Profile : doc.profiles[p] # Nil}

Forgotten == [targets |-> <<>>]     \* the document of a request that ended
NoMemory == [secret |-> {}, body |-> {}, root |-> NoRoot]

(* Calls.  Those for each app, target or branch are made in some order.     *)
Teardown(k, apps) == SetToSeq({[c |-> "teardown", k |-> k, a |-> a] : a \in apps})
SeedTarget(k) == <<[c |-> "seed", k |-> k]>>
SeedAll(ts) == SetToSeq({[c |-> "seed", k |-> k] : k \in KeysOf(ts)})
Unscope(k, apps) == SetToSeq({[c |-> "unscope", k |-> k, a |-> a] : a \in apps})
PublishEnabled(ts) ==
    SetToSeq({[c |-> "publish", k |-> k, t |-> ts[k]] : k \in {j \in KeysOf(ts) : ts[j].on}})
Publish(ts) == SetToSeq({[c |-> "publish", k |-> k, t |-> ts[k]] : k \in KeysOf(ts)})
PublishNoRef(k) == <<[c |-> "no-ref", k |-> k]>>
CommitCi(b, ts) == <<[c |-> "read-root", b |-> b], [c |-> "commit", b |-> b, ts |-> ts]>>
CommitRoot(b, ts) == <<[c |-> "read-root", b |-> b], [c |-> "root", b |-> b, ts |-> ts]>>
SetAppHost(k, a, h) == <<[c |-> "app-host", k |-> k, a |-> a, h |-> h]>>
MergeInto(targets, minus, plus, body) ==          \* reads and merges by turns
    LET s == SetToSeq(targets)
    IN  [i \in 1 .. 2 * Len(s) |->
           IF i % 2 = 1 THEN [c |-> "read", k |-> s[(i + 1) \div 2]]
           ELSE [c |-> "merge", k |-> s[i \div 2], minus |-> minus, plus |-> plus, body |-> body]]
WriteBody(p, names) == <<[c |-> "body", p |-> p, names |-> names]>>
ReadBody(p) == <<[c |-> "read-body", p |-> p]>>
DropBody(p) == <<[c |-> "drop-body", p |-> p]>>
WriteIndex(profiles) == <<[c |-> "index", profiles |-> profiles]>>
Reject == <<[c |-> "reject"]>>

(* doc.save() of the document as the handler changed it; at is the element  *)
(* of the array it assigned, Nil when it assigned whole arrays.             *)
Save(new) == <<[c |-> "save", new |-> new, at |-> Nil]>>
SaveProfileAt(p, new) == <<[c |-> "save", new |-> new, at |-> p]>>

(* refreshChartValuesOnGitlab, for each branch of a profile.                *)
RefreshCharts(doc, branches) ==
    IF Deployable(doc)
    THEN SetToSeq({[c |-> "chart", b |-> b, on |-> doc.runtime] : b \in branches})
    ELSE <<>>

-----------------------------------------------------------------------------
(***************************************************************************)
(* Making the calls.                                                       *)
(***************************************************************************)
Idle == [st |-> "idle", op |-> [op |-> "none"], doc |-> Forgotten,
         todo |-> <<>>, mem |-> NoMemory, wrote |-> FALSE]

Ended(r, st) ==
    [req EXCEPT ![r] = [@ EXCEPT !.st = st, !.doc = Forgotten, !.todo = <<>>,
                                 !.mem = NoMemory]]

Next1(r, c) == req[r].st = "busy" /\ req[r].todo # <<>> /\ Head(req[r].todo).c = c
Call(r) == Head(req[r].todo)
Returns(r, x) == req' = [req EXCEPT ![r] = [x EXCEPT !.todo = Tail(@)]]

(* teardownRelease: errors are logged and swallowed.                        *)
TearsDown(r) ==
    /\ Next1(r, "teardown")
    /\ \E gone \in SUBSET {<<Call(r).k, Call(r).a>>} : releases' = releases \ gone
    /\ Returns(r, req[r])
    /\ UNCHANGED <<row, vault, gitlab>>

(* A KV v2 write replaces the whole secret. *)
Seeds(r) ==
    /\ Next1(r, "seed")
    /\ vault' = [vault EXCEPT !.target[Call(r).k] = {Seed}]
    /\ Returns(r, req[r])
    /\ UNCHANGED <<row, gitlab, releases>>

SetsVariables(r) ==
    /\ \/ /\ Next1(r, "unscope")
          /\ gitlab' = [gitlab EXCEPT !.host[Call(r).k][Call(r).a] = Nil]
       \/ /\ Next1(r, "publish")
          /\ gitlab' = [gitlab EXCEPT
                          !.ref[Call(r).k] = Call(r).t.ref,
                          !.host[Call(r).k] = [a \in App |-> IF a \in AppsOf(Call(r).t)
                                                             THEN Call(r).t.host[a] ELSE @[a]]]
       \/ /\ Next1(r, "no-ref")
          /\ gitlab' = [gitlab EXCEPT !.ref[Call(r).k] = NoRef]
       \/ /\ Next1(r, "app-host")
          /\ \E h \in {Call(r).h, gitlab.host[Call(r).k][Call(r).a]} :  \* errors are swallowed
                gitlab' = [gitlab EXCEPT !.host[Call(r).k][Call(r).a] = h]
    /\ Returns(r, req[r])
    /\ UNCHANGED <<row, vault, releases>>

(* The commit is made of what was read before it.                           *)
ReadsRoot(r) ==
    /\ Next1(r, "read-root")
    /\ Returns(r, [req[r] EXCEPT !.mem.root = gitlab.root[Call(r).b]])
    /\ UNCHANGED <<row, vault, gitlab, releases>>

Commits(r) ==
    LET b == Call(r).b
        root == MergedRoot(req[r].mem.root, ManagedIncludes(Call(r).ts))
        kept == IF root = Nil THEN gitlab.root[b] ELSE root    \* skipRootWrite
    IN  /\ \/ /\ Next1(r, "commit")
              /\ gitlab' = [gitlab EXCEPT !.jobs[b] = Fragment(Call(r).ts), !.root[b] = kept]
           \/ /\ Next1(r, "root")
              /\ gitlab' = [gitlab EXCEPT !.root[b] = kept]
        /\ Returns(r, req[r])
        /\ UNCHANGED <<row, vault, releases>>

CommitsChart(r) ==
    /\ Next1(r, "chart")
    /\ gitlab' = [gitlab EXCEPT !.chart[Call(r).b] = Call(r).on]
    /\ Returns(r, req[r])
    /\ UNCHANGED <<row, vault, releases>>

(* readSecrets answers {} on any error; the merge writes back what was read. *)
ReadsSecret(r) ==
    /\ Next1(r, "read")
    /\ \E s \in {{}, vault.target[Call(r).k]} : Returns(r, [req[r] EXCEPT !.mem.secret = s])
    /\ UNCHANGED <<row, vault, gitlab, releases>>

MergesSecret(r) ==
    /\ Next1(r, "merge")
    /\ LET m == Call(r)
           body == IF m.body THEN req[r].mem.body ELSE {}
       IN  vault' = [vault EXCEPT !.target[m.k] =
                       (req[r].mem.secret \ m.minus) \cup m.plus \cup body]
    /\ Returns(r, [req[r] EXCEPT !.mem.secret = {}])
    /\ UNCHANGED <<row, gitlab, releases>>

TouchesBody(r) ==
    /\ \/ /\ Next1(r, "body")
          /\ vault' = [vault EXCEPT !.body[Call(r).p] = Call(r).names]
          /\ Returns(r, req[r])
       \/ /\ Next1(r, "read-body")
          /\ \E s \in {{}, IF vault.body[Call(r).p] = Nil THEN {} ELSE vault.body[Call(r).p]} :
                Returns(r, [req[r] EXCEPT !.mem.body = s])
          /\ UNCHANGED vault
       \/ /\ Next1(r, "drop-body")                     \* errors are swallowed
          /\ \E left \in {Nil, vault.body[Call(r).p]} :
                vault' = [vault EXCEPT !.body[Call(r).p] = left]
          /\ Returns(r, req[r])
    /\ UNCHANGED <<row, gitlab, releases>>

WritesIndex(r) ==
    /\ Next1(r, "index")
    /\ vault' = [vault EXCEPT !.index = Call(r).profiles]
    /\ Returns(r, req[r])
    /\ UNCHANGED <<row, gitlab, releases>>

(* Mongoose sends the paths that changed since the document was loaded.     *)
(* Assigning an array asks that __v is still the loaded one and increments  *)
(* it; assigning one element of an array only asks; other fields do not.    *)
Changed(r) == {f \in Fields : Call(r).new[f] # req[r].doc[f]}
PositionalOnly(r) == Call(r).at # Nil
Versioned(r) == Call(r).at # Nil \/ Changed(r) \cap Arrays # {}
NeverStale(r) == FALSE
Stale(r) == Versioned(r) /\ row.ver # req[r].doc.ver

WrittenWhole(r) == [Call(r).new EXCEPT !.ver = IF Versioned(r) THEN row.ver + 1 ELSE row.ver]
Written(r) ==
    LET new == Call(r).new
        at == Call(r).at
        array == IF at = Nil THEN Changed(r) ELSE Changed(r) \ Arrays
        next == [f \in DOMAIN row |-> IF f \in array THEN new[f] ELSE row[f]]
    IN  IF at # Nil THEN [next EXCEPT !.profiles[at] = new.profiles[at]]
        ELSE IF Versioned(r) THEN [next EXCEPT !.ver = @ + 1] ELSE next

Saves(r) ==
    /\ Next1(r, "save")
    /\ ~Stale(r)
    /\ row' = Written(r)
    /\ Returns(r, [req[r] EXCEPT !.doc = [Call(r).new EXCEPT !.ver =
                                            IF Versioned(r) THEN row'.ver ELSE req[r].doc.ver],
                                 !.wrote = @ \/ Versioned(r)])
    /\ UNCHANGED <<vault, gitlab, releases>>

(* VersionError, a refused input, or any call that throws. *)
Throws1(r) ==
    /\ req[r].st = "busy" /\ req[r].todo # <<>>
    /\ req' = Ended(r, "failed")
    /\ UNCHANGED <<row, vault, gitlab, releases>>

Rejects(r) ==
    /\ Next1(r, "reject")
    /\ req' = Ended(r, "rejected")
    /\ UNCHANGED <<row, vault, gitlab, releases>>

Answers(r) ==
    /\ req[r].st = "busy" /\ req[r].todo = <<>>
    /\ req' = Ended(r, "done")
    /\ UNCHANGED <<row, vault, gitlab, releases>>

(* A push to branch b runs its pipeline: the job of a target and app, which *)
(* the fragment of b defines, runs when the target's ref variable is b.     *)
PipelineDeploys(k, a, b) ==
    /\ "deploy-targets" \in gitlab.root[b].includes
    /\ <<k, a>> \in gitlab.jobs[b].deploy
    /\ gitlab.ref[k] = b
    /\ releases' = releases \cup {<<k, a>>}
    /\ UNCHANGED <<row, vault, gitlab, req>>

Called(r) ==
    \/ TearsDown(r) \/ Seeds(r) \/ SetsVariables(r) \/ ReadsRoot(r) \/ Commits(r)
    \/ CommitsChart(r) \/ ReadsSecret(r) \/ MergesSecret(r) \/ TouchesBody(r)
    \/ WritesIndex(r) \/ Saves(r) \/ Throws1(r) \/ Rejects(r) \/ Answers(r)

(* Loading the document and planning from it.                               *)
Begins(r, o, plan) ==
    /\ req[r].st = "idle"
    /\ req' = [req EXCEPT ![r] = [Idle EXCEPT !.st = "busy", !.op = o, !.doc = row,
                                              !.todo = plan]]
    /\ UNCHANGED <<row, vault, gitlab, releases>>

Done == \A r \in Req : req[r].st # "busy"
Succeeded(r) == req[r].st \in {"idle", "done"}

=============================================================================
