----------------------------- MODULE GitLabClient -----------------------------
(***************************************************************************)
(* The API's GitLab client (gitlab.service.ts) below the level the         *)
(* registry sees: every operation that changes one project or the groups,  *)
(* as the sequence of HTTP requests it is made of, interleaved with other  *)
(* calls.  GitLab's own answers are modelled from how the client uses      *)
(* them.  A request may fail, before or after it took effect.              *)
(***************************************************************************)
EXTENDS Naturals, Sequences, FiniteSets
LOCAL INSTANCE SequencesExt

CONSTANTS
    Caller,     \* calls of the client, one each; also the value a call writes
    CiKey,      \* names of CI variables (with their scope)
    Path,       \* files of the repository
    Name,       \* names of groups
    Kept,       \* packages in the project's registry, as numbers 1 .. n
    PerPage,    \* the page size, 100 in the code
    Nobody      \* the value of what is absent

ASSUME GitLabAssumption ==
    PerPage \in Nat \ {0} /\ Kept \subseteq Nat /\ IsFiniteSet(Kept) /\ Nobody \notin Caller

VARIABLES
    project,    \* "live", "pending" (scheduled for deletion) or "gone"
    vars,       \* the project's CI variables
    files,      \* the files of one branch
    packages,   \* packages of the project
    image,      \* whether the container registry holds an image
    groups,     \* the groups, each as its path
    call,       \* the calls under way
    wrote       \* <<call, file>> pairs a commit changed
gitlabVars == <<project, vars, files, packages, image, groups, call, wrote>>

-----------------------------------------------------------------------------
(* Calls.  "list" is what the caller asked for, "todo" what is left of it,  *)
(* "at" the group found last, "page" the page read last; "hurt" says that a *)
(* request of the call failed or that what it works on was deleted.         *)
IdleCall == [op |-> "none", pc |-> "idle", list |-> <<>>, todo |-> <<>>, at |-> <<>>,
             page |-> 0, end |-> "open", hurt |-> FALSE]

Is(c, pc) == call[c].pc = pc
Turns(c, pc) == call' = [call EXCEPT ![c].pc = pc]
Answers(c, end) == call' = [call EXCEPT ![c].pc = "done", ![c].end = end]
Todo(c) == call[c].todo
Reachable == project # "gone"
Repository == <<files, wrote>>
Registry == <<packages, image>>
Beyond == <<project, Registry, groups>>

Begins(c, op, pc, todo) ==
    /\ Is(c, "idle")
    /\ call' = [call EXCEPT ![c] = [IdleCall EXCEPT !.op = op, !.pc = pc, !.list = todo,
                                                   !.todo = todo, !.hurt = ~Reachable]]
    /\ UNCHANGED <<vars, Beyond, Repository>>

(* A request fails and the call throws; a deletion (tryDeleteProject)       *)
(* catches that and answers ok: false.  Its last request may have had its   *)
(* effect all the same.  The requests of a purge never make it throw.       *)
Failure(c) == IF call[c].op = "delete" THEN "refused" ELSE "error"
Breaks(c) ==
    /\ \/ call[c].pc \notin {"idle", "done", "images", "packages", "package"}
       \/ Is(c, "done") /\ call[c].end = "ok"
    /\ call' = [call EXCEPT ![c].pc = "done", ![c].end = Failure(c), ![c].hurt = TRUE]
    /\ UNCHANGED <<vars, Beyond, Repository>>

-----------------------------------------------------------------------------
(* setProjectCiVariables: one variable after the other.  The listing is     *)
(* one page, so a variable that exists may not be on it.                    *)
Key(c) == Head(Todo(c))
NextKey(c) == IF Len(Todo(c)) = 1 THEN Answers(c, "ok")
              ELSE call' = [call EXCEPT ![c].pc = "look", ![c].todo = Tail(@)]

SetLooks(c) ==
    /\ Is(c, "look")
    /\ \E seen \in {FALSE, Reachable /\ vars[Key(c)] # Nobody} :
         Turns(c, IF seen THEN "put" ELSE "post")
    /\ UNCHANGED <<vars, Beyond, Repository>>

SetPuts(c) ==
    /\ Is(c, "put")
    /\ IF Reachable /\ vars[Key(c)] # Nobody
       THEN vars' = [vars EXCEPT ![Key(c)] = c] /\ NextKey(c)
       ELSE Answers(c, "error") /\ UNCHANGED vars
    /\ UNCHANGED <<Beyond, Repository>>

(* A POST of a variable that exists is answered 400, and becomes a PUT.     *)
Taken(c) == Answers(c, "error")
Again(c) == Turns(c, "put")
SetPosts(c) ==
    /\ Is(c, "post")
    /\ IF ~Reachable THEN Answers(c, "error") /\ UNCHANGED vars
       ELSE IF vars[Key(c)] # Nobody THEN Again(c) /\ UNCHANGED vars
       ELSE vars' = [vars EXCEPT ![Key(c)] = c] /\ NextKey(c)
    /\ UNCHANGED <<Beyond, Repository>>

(* deleteProjectCiVariable: 404 is as good as done.  Setters under way are  *)
(* marked.                                                                  *)
DropsVariable(c) ==
    /\ Is(c, "drop")
    /\ vars' = IF Reachable THEN [vars EXCEPT ![Key(c)] = Nobody] ELSE vars
    /\ call' = [d \in Caller |->
                  IF d = c THEN [call[d] EXCEPT !.pc = "done", !.end = "ok"]
                  ELSE [call[d] EXCEPT !.hurt = @ \/ call[d].op = "set"]]
    /\ UNCHANGED <<Beyond, Repository>>

-----------------------------------------------------------------------------
(* commitRepositoryActions: a list of <<file, action>>.  One action goes    *)
(* through the file API, more of them are one commit.                       *)
Changed(f, action, c) == [files EXCEPT ![f] = IF action = "delete" THEN Nobody ELSE c]
Applies(f, action) == Reachable /\ (action = "create" <=> files[f] = Nobody)
File(c) == Todo(c)[1][1]
Asked(todo) == {todo[i][1] : i \in DOMAIN todo}
Routed(todo) == IF Len(todo) > 1 THEN "commit" ELSE IF todo[1][2] = "delete" THEN "remove" ELSE "read"

(* One change by the file API.                                              *)
Saves(c, action) ==
    /\ IF Applies(File(c), action)
       THEN /\ files' = Changed(File(c), action, c) /\ wrote' = wrote \cup {<<c, File(c)>>}
            /\ Answers(c, "ok")
       ELSE Answers(c, "error") /\ UNCHANGED Repository
    /\ UNCHANGED <<vars, Beyond>>

CommitsInTurn(c) ==
    /\ Is(c, "commit")
    /\ IF Applies(File(c), Todo(c)[1][2])
       THEN /\ files' = Changed(File(c), Todo(c)[1][2], c) /\ wrote' = wrote \cup {<<c, File(c)>>}
            /\ IF Len(Todo(c)) = 1 THEN Answers(c, "ok") ELSE call' = [call EXCEPT ![c].todo = Tail(@)]
       ELSE Answers(c, "error") /\ UNCHANGED Repository
    /\ UNCHANGED <<vars, Beyond>>

Commits(c) ==
    /\ Is(c, "commit")
    /\ IF \A i \in DOMAIN Todo(c) : Applies(Todo(c)[i][1], Todo(c)[i][2])
       THEN /\ files' = [f \in Path |-> IF f \notin Asked(Todo(c)) THEN files[f]
                         ELSE IF <<f, "delete">> \in Range(Todo(c)) THEN Nobody ELSE c]
            /\ wrote' = wrote \cup ({c} \X Asked(Todo(c)))
            /\ Answers(c, "ok")
       ELSE Answers(c, "error") /\ UNCHANGED Repository
    /\ UNCHANGED <<vars, Beyond>>

(* upsertFile reads the file to choose between POST and PUT.                *)
UpsertReads(c) ==
    /\ Is(c, "read")
    /\ Turns(c, IF Reachable /\ files[File(c)] # Nobody THEN "update" ELSE "create")
    /\ UNCHANGED <<vars, Beyond, Repository>>
UpsertCreates(c) == Is(c, "create") /\ Saves(c, "create")
UpsertUpdates(c) == Is(c, "update") /\ Saves(c, "update")
DeletesFile(c) == Is(c, "remove") /\ Saves(c, "delete")

-----------------------------------------------------------------------------
(* createGroupHierarchy.  The first segment is searched among all groups,   *)
(* the others under the group found before.  Every group here has the       *)
(* segment it was made for as its name and as the end of its path, so that  *)
(* findGroup's match of either is one match; a search answers one page, on  *)
(* which a group that exists may be missing.                                *)
Parent(c) == call[c].at
Named(c) == {g \in groups : /\ g[Len(g)] = Head(Todo(c))
                            /\ Parent(c) = <<>> \/ Parent(c) = SubSeq(g, 1, Len(g) - 1)}
Descends(c, g) ==
    IF Len(Todo(c)) = 1
    THEN call' = [call EXCEPT ![c].pc = "done", ![c].end = "ok", ![c].at = g]
    ELSE call' = [call EXCEPT ![c].pc = "group", ![c].at = g, ![c].todo = Tail(@)]
Stays(c, g) ==
    IF Len(Todo(c)) = 1
    THEN call' = [call EXCEPT ![c].pc = "done", ![c].end = "ok", ![c].at = g]
    ELSE call' = [call EXCEPT ![c].pc = "group", ![c].todo = Tail(@)]
Found(c, g) == Descends(c, g)

FindsGroup(c) ==
    /\ Is(c, "group")
    /\ Turns(c, "make") \/ \E g \in Named(c) : Found(c, g)
    /\ UNCHANGED <<vars, Beyond, Repository>>

CreatesGroup(c) ==
    /\ Is(c, "make")
    /\ LET g == Append(Parent(c), Head(Todo(c))) IN
         IF g \in groups THEN Answers(c, "error") /\ UNCHANGED groups
         ELSE groups' = groups \cup {g} /\ Descends(c, g)
    /\ UNCHANGED <<project, vars, Registry, Repository>>

-----------------------------------------------------------------------------
(* tryDeleteProject.  With force, images and packages are purged first: an *)
(* item whose deletion fails is passed over, and an error of a listing ends *)
(* the purge, not the call.                                                 *)
PurgesImages(c) ==
    /\ Is(c, "images")
    /\ \/ Turns(c, "packages") /\ image' \in {image, FALSE}
       \/ Turns(c, "delete") /\ UNCHANGED image
    /\ UNCHANGED <<project, vars, packages, groups, Repository>>

(* The packages on a page of the listing, in its order.                     *)
RankOf(p) == Cardinality({q \in packages : q <= p})
OnPage(n) == {p \in packages : RankOf(p) > (n - 1) * PerPage /\ RankOf(p) <= n * PerPage}
PageOf(n) == SetToSortSeq(OnPage(n), <)
SamePage(n) == 1
PageAfter(n) == n + 1

ListsPackages(c) ==
    /\ Is(c, "packages")
    /\ LET n == PageAfter(call[c].page)
           page == PageOf(n) IN
         \/ /\ page # <<>>
            /\ call' = [call EXCEPT ![c].pc = "package", ![c].page = n,
                                    ![c].list = page, ![c].todo = page]
         \/ Turns(c, "delete")
    /\ UNCHANGED <<vars, Beyond, Repository>>

(* After a full page the next one is read, whatever was deleted meanwhile.  *)
DeletesPackage(c) ==
    /\ Is(c, "package")
    /\ packages' \in {packages, packages \ {Head(Todo(c))}}
    /\ IF Len(Todo(c)) > 1 THEN call' = [call EXCEPT ![c].todo = Tail(@)]
       ELSE Turns(c, IF Len(call[c].list) < PerPage THEN "delete" ELSE "packages")
    /\ UNCHANGED <<project, vars, image, groups, Repository>>

(* GitLab refuses to delete a project whose registry is in use, and may     *)
(* only schedule the deletion.                                              *)
DeletesProject(c) ==
    /\ Is(c, "delete")
    /\ IF Reachable /\ ~image
       THEN /\ project' \in {"pending", "gone"} /\ (project = "pending" => project' = "gone")
            /\ call' = [d \in Caller |-> IF d = c THEN [call[d] EXCEPT !.pc = "verify"]
                                         ELSE [call[d] EXCEPT !.hurt = TRUE]]
       ELSE Answers(c, "refused") /\ UNCHANGED project
    /\ UNCHANGED <<vars, Registry, groups, Repository>>

(* Only a 404 after the deletion counts as deleted.                         *)
Believes(c) == Answers(c, "ok")
VerifiesGone(c) == Answers(c, IF Reachable THEN "refused" ELSE "ok")
ChecksGone(c) == /\ Is(c, "verify") /\ VerifiesGone(c)
                 /\ UNCHANGED <<vars, Beyond, Repository>>

-----------------------------------------------------------------------------
Acts == {<<f, a>> : f \in Path, a \in {"create", "update", "delete"}}
ActLists == {<<x>> : x \in Acts} \cup {<<x, y>> : x \in Acts, y \in Acts}

CallStarts(c) ==
    \/ \E k, l \in CiKey : Begins(c, "set", "look", IF k = l THEN <<k>> ELSE <<k, l>>)
    \/ \E k \in CiKey : Begins(c, "drop", "drop", <<k>>)
    \/ \E todo \in ActLists : /\ Len(todo) = 2 => todo[1][1] # todo[2][1]
                              /\ Begins(c, "commit", Routed(todo), todo)
    \/ \E a, b \in Name : Begins(c, "groups", "group", <<a, b>>)
    \/ \E pc \in {"images", "delete"} : Begins(c, "delete", pc, <<>>)

CallStep(c) ==
    \/ SetLooks(c) \/ SetPuts(c) \/ SetPosts(c) \/ DropsVariable(c)
    \/ Commits(c) \/ UpsertReads(c) \/ UpsertCreates(c) \/ UpsertUpdates(c) \/ DeletesFile(c)
    \/ FindsGroup(c) \/ CreatesGroup(c)
    \/ PurgesImages(c) \/ ListsPackages(c) \/ DeletesPackage(c) \/ DeletesProject(c) \/ ChecksGone(c)

GitLabInit ==
    /\ project = "live" /\ packages = Kept /\ image \in BOOLEAN /\ groups = {}
    /\ vars \in [CiKey -> {Nobody}] /\ files \in [Path -> {Nobody}]
    /\ call = [c \in Caller |-> IdleCall] /\ wrote = {}

GitLabNext == \E c \in Caller : CallStarts(c) \/ CallStep(c) \/ Breaks(c)

(* GitLab answers every request, or its connection breaks.                  *)
GitLabFairness == \A c \in Caller : WF_gitlabVars(CallStep(c))
GitLabSpec == GitLabInit /\ [][GitLabNext]_gitlabVars /\ GitLabFairness

-----------------------------------------------------------------------------
GitLabTypeOK ==
    /\ project \in {"live", "pending", "gone"} /\ image \in BOOLEAN /\ packages \subseteq Kept
    /\ vars \in [CiKey -> Caller \cup {Nobody}] /\ files \in [Path -> Caller \cup {Nobody}]
    /\ groups \subseteq Seq(Name) \ {<<>>}
    /\ wrote \subseteq Caller \X Path
    /\ \A c \in Caller : /\ call[c].page \in Nat /\ call[c].hurt \in BOOLEAN
                         /\ call[c].end \in {"open", "ok", "error", "refused"}
                         /\ Is(c, "done") <=> call[c].end # "open"

(* Callers that set the same variables never make each other fail, although *)
(* each decides between POST and PUT from a listing that is stale, and one  *)
(* page long: only a failed request or a deletion does.                     *)
SetNeverRefused ==
    \A c \in Caller : call[c].op = "set" /\ call[c].end = "error" => call[c].hurt

(* A list of changes is committed whole or not at all: no pipeline sees a   *)
(* root file without the fragments it includes, whoever commits meanwhile.  *)
CommitsWhole ==
    \A c \in Caller : call[c].op = "commit" =>
        {f \in Path : <<c, f>> \in wrote} \in {{}, Asked(call[c].list)}

(* A deletion that answers ok has freed the project's path, although GitLab *)
(* may only schedule what it was asked to delete.                           *)
DeletedIsGone ==
    \A c \in Caller : call[c].op = "delete" /\ call[c].end = "ok" => project = "gone"

(* A created hierarchy ends in a group that exists and whose path ends with *)
(* the segments asked for.                                                  *)
LeafUnderPath ==
    \A c \in Caller : call[c].op = "groups" /\ call[c].end = "ok" =>
        call[c].at \in groups /\ IsSuffix(call[c].list, call[c].at)

(* A forced deletion ends, even when GitLab refuses to delete any package.  *)
PurgeEnds == \A c \in Caller : call[c].op = "delete" ~> Is(c, "done")

=============================================================================
