------------------------- MODULE GitLabClientProofs -------------------------
(***************************************************************************)
(* What holds of the GitLab client for any number of concurrent calls,     *)
(* however its requests fail: a deletion that answers ok has freed the     *)
(* path, setters of the same variables never make each other fail, commits *)
(* are whole, and a group hierarchy ends where it was asked to.            *)
(***************************************************************************)
EXTENDS GitLabClient, SequenceTheorems, TLAPS
LOCAL INSTANCE SequencesExt

(* Calls are records of a fixed shape.                                      *)
Field == {"op", "pc", "list", "todo", "at", "page", "end", "hurt"}
CallsAre == /\ DOMAIN call = Caller /\ call = [c \in Caller |-> call[c]]
            /\ \A c \in Caller : /\ DOMAIN call[c] = Field
                                 /\ call[c] = [f \in Field |-> call[c][f]]

(* What one call carries: a setter that nothing hurt works on a project     *)
(* that is there, and on a variable that exists once it has chosen PUT; a   *)
(* deletion answers ok of a project that is gone.                           *)
SetPlaces == {"look", "put", "post", "done"}
DeletePlaces == {"images", "packages", "package", "delete", "verify", "done"}
SetterFits(x, pr, vs) ==
    x.op = "set" => /\ x.pc \in SetPlaces
                    /\ x.pc # "done" => x.todo \in Seq(CiKey) /\ x.todo # <<>>
                    /\ ~x.hurt => /\ pr # "gone" /\ x.end # "error"
                                  /\ x.pc = "put" => vs[Head(x.todo)] # Nobody
DeleterFits(x, pr) ==
    x.op = "delete" => x.pc \in DeletePlaces /\ (x.end = "ok" => pr = "gone")
Fits(x, pr, vs) == SetterFits(x, pr, vs) /\ DeleterFits(x, pr)

GitLabInv ==
    /\ CallsAre
    /\ vars \in [CiKey -> Caller \cup {Nobody}]
    /\ \A c \in Caller : Fits(call[c], project, vars)

(* A step that leaves a call alone, the project as reachable as it was and  *)
(* every variable in existence keeps what the call carries.                 *)
LEMMA FitsOn ==
    ASSUME NEW x, NEW pr, NEW qr, NEW vs, NEW ws, Fits(x, pr, vs), qr = "gone" <=> pr = "gone",
           \A k \in CiKey : vs[k] # Nobody => ws[k] # Nobody
    PROVE  Fits(x, qr, ws)
<1>1. DeleterFits(x, qr)
  BY DEF Fits, DeleterFits
<1>2. SetterFits(x, qr, ws)
  <2>. SUFFICES ASSUME x.op = "set" PROVE SetterFits(x, qr, ws)
    BY DEF SetterFits
  <2>1. x.pc = "put" => Head(x.todo) \in CiKey
    BY DEF Fits, SetterFits
  <2>. QED  BY <2>1 DEF Fits, SetterFits
<1>. QED  BY <1>1, <1>2 DEF Fits

(* The moves of a call.                                                     *)
LEMMA TurnsTo ==
    ASSUME CallsAre, NEW c \in Caller, NEW pc, Turns(c, pc)
    PROVE  /\ CallsAre' /\ \A d \in Caller \ {c} : call'[d] = call[d]
           /\ call'[c].pc = pc /\ call'[c].op = call[c].op /\ call'[c].todo = call[c].todo
           /\ call'[c].hurt = call[c].hurt /\ call'[c].end = call[c].end
           /\ call'[c].list = call[c].list /\ call'[c].at = call[c].at
BY DEF CallsAre, Turns, Field

LEMMA AnswersWith ==
    ASSUME CallsAre, NEW c \in Caller, NEW end, Answers(c, end)
    PROVE  /\ CallsAre' /\ \A d \in Caller \ {c} : call'[d] = call[d]
           /\ call'[c].pc = "done" /\ call'[c].op = call[c].op
           /\ call'[c].hurt = call[c].hurt /\ call'[c].end = end
           /\ call'[c].list = call[c].list /\ call'[c].at = call[c].at
BY DEF CallsAre, Answers, Field

LEMMA MovesOn ==
    ASSUME CallsAre, NEW c \in Caller, NextKey(c)
    PROVE  /\ CallsAre' /\ \A d \in Caller \ {c} : call'[d] = call[d]
           /\ call'[c].op = call[c].op /\ call'[c].hurt = call[c].hurt
           /\ \/ call'[c].pc = "done" /\ call'[c].end = "ok"
              \/ /\ call'[c].pc = "look" /\ call'[c].todo = Tail(call[c].todo)
                 /\ Len(call[c].todo) # 1 /\ call'[c].end = call[c].end
<1>1. CASE Len(Todo(c)) = 1
  BY <1>1, AnswersWith DEF NextKey
<1>2. CASE Len(Todo(c)) # 1
  <2>1. call' = [call EXCEPT ![c].pc = "look", ![c].todo = Tail(@)]
    BY <1>2 DEF NextKey
  <2>. QED  BY <1>2, <2>1 DEF CallsAre, Field, Todo
<1>. QED  BY <1>1, <1>2

LEMMA BeginsWith ==
    ASSUME CallsAre, NEW c \in Caller, NEW op, NEW pc, NEW todo, Begins(c, op, pc, todo)
    PROVE  /\ CallsAre' /\ \A d \in Caller \ {c} : call'[d] = call[d]
           /\ call'[c].op = op /\ call'[c].pc = pc /\ call'[c].todo = todo
           /\ call'[c].hurt = ~Reachable /\ call'[c].end = "open"
           /\ UNCHANGED <<project, vars>>
BY DEF CallsAre, Begins, IdleCall, Field, Beyond

LEMMA InitGitLabInv == GitLabInit => GitLabInv
BY DEF GitLabInit, GitLabInv, CallsAre, IdleCall, Field, Fits, SetterFits, DeleterFits

(* A call moves by itself: the project stays and no variable goes.          *)
LEMMA OneMoves ==
    ASSUME GitLabInv, NEW c \in Caller, CallsAre', \A d \in Caller \ {c} : call'[d] = call[d],
           project' = project, vars' \in [CiKey -> Caller \cup {Nobody}],
           \A k \in CiKey : vars[k] # Nobody => vars'[k] # Nobody,
           Fits(call'[c], project', vars')
    PROVE  GitLabInv'
<1>1. ASSUME NEW d \in Caller \ {c} PROVE Fits(call'[d], project', vars')
  BY <1>1, FitsOn DEF GitLabInv
<1>. QED  BY <1>1 DEF GitLabInv

(* A call that is neither a setter nor a deletion moves in any way.         *)
LEMMA OtherMoves ==
    ASSUME GitLabInv, NEW c \in Caller, CallsAre', \A d \in Caller \ {c} : call'[d] = call[d],
           project' = project, vars' = vars, call'[c].op = call[c].op,
           call[c].pc \notin SetPlaces \cup DeletePlaces
    PROVE  GitLabInv'
<1>1. call'[c].op \notin {"set", "delete"}
  BY DEF GitLabInv, Fits, SetterFits, DeleterFits
<1>2. Fits(call'[c], project', vars')
  BY <1>1 DEF Fits, SetterFits, DeleterFits
<1>. QED  BY <1>2, OneMoves DEF GitLabInv

LEMMA StartsKeep == ASSUME GitLabInv, NEW c \in Caller, CallStarts(c) PROVE GitLabInv'
<1>1. ASSUME NEW op, NEW pc, NEW todo, Begins(c, op, pc, todo),
             op = "set" => pc = "look" /\ todo \in Seq(CiKey) /\ todo # <<>>,
             op = "delete" => pc \in DeletePlaces
      PROVE  GitLabInv'
  <2>1. /\ CallsAre' /\ \A d \in Caller \ {c} : call'[d] = call[d]
        /\ call'[c].op = op /\ call'[c].pc = pc /\ call'[c].todo = todo
        /\ call'[c].hurt = ~Reachable /\ call'[c].end = "open"
        /\ UNCHANGED <<project, vars>>
    BY <1>1, BeginsWith DEF GitLabInv
  <2>2. SetterFits(call'[c], project', vars')
    BY <1>1, <2>1 DEF SetterFits, SetPlaces, Reachable
  <2>3. DeleterFits(call'[c], project')
    BY <1>1, <2>1 DEF DeleterFits
  <2>. QED  BY <2>1, <2>2, <2>3, OneMoves DEF GitLabInv, Fits
<1>2. ASSUME NEW k \in CiKey, NEW l \in CiKey
      PROVE  (IF k = l THEN <<k>> ELSE <<k, l>>) \in Seq(CiKey)
             /\ (IF k = l THEN <<k>> ELSE <<k, l>>) # <<>>
  OBVIOUS
<1>3. ASSUME NEW k \in CiKey, NEW l \in CiKey,
             Begins(c, "set", "look", IF k = l THEN <<k>> ELSE <<k, l>>)
      PROVE  GitLabInv'
  BY <1>1, <1>2, <1>3
<1>4. ASSUME NEW k \in CiKey, Begins(c, "drop", "drop", <<k>>) PROVE GitLabInv'
  BY <1>1, <1>4
<1>5. ASSUME NEW todo \in ActLists, Begins(c, "commit", Routed(todo), todo) PROVE GitLabInv'
  BY <1>1, <1>5
<1>6. ASSUME NEW a \in Name, NEW b \in Name, Begins(c, "groups", "group", <<a, b>>)
      PROVE  GitLabInv'
  BY <1>1, <1>6
<1>7. ASSUME NEW pc \in {"images", "delete"}, Begins(c, "delete", pc, <<>>) PROVE GitLabInv'
  BY <1>1, <1>7 DEF DeletePlaces
<1>. QED  BY <1>3, <1>4, <1>5, <1>6, <1>7 DEF CallStarts

LEMMA BreaksKeep == ASSUME GitLabInv, NEW c \in Caller, Breaks(c) PROVE GitLabInv'
<1>1. /\ CallsAre' /\ \A d \in Caller \ {c} : call'[d] = call[d]
      /\ call'[c].op = call[c].op /\ call'[c].pc = "done" /\ call'[c].hurt
      /\ call'[c].end \in {"error", "refused"} /\ UNCHANGED <<project, vars>>
  BY DEF GitLabInv, CallsAre, Breaks, Failure, Field, Beyond
<1>2. Fits(call'[c], project', vars')
  BY <1>1 DEF Fits, SetterFits, DeleterFits, SetPlaces, DeletePlaces
<1>. QED  BY <1>1, <1>2, OneMoves DEF GitLabInv

(* The setter's three requests.                                             *)
LEMMA SetterAt ==
    ASSUME GitLabInv, NEW c \in Caller, call[c].pc \in {"look", "put", "post"}
    PROVE  /\ call[c].op # "delete" /\ call[c].pc \notin DeletePlaces
BY DEF GitLabInv, Fits, DeleterFits, DeletePlaces

LEMMA LooksKeep == ASSUME GitLabInv, NEW c \in Caller, SetLooks(c) PROVE GitLabInv'
<1>1. PICK seen \in {FALSE, Reachable /\ vars[Key(c)] # Nobody} :
         Turns(c, IF seen THEN "put" ELSE "post")
  BY DEF SetLooks
<1>2. UNCHANGED <<project, vars>> /\ call[c].pc = "look"
  BY DEF SetLooks, Beyond, Is
<1>3. call[c].op # "delete"
  BY <1>2, SetterAt
<1>. DEFINE pc == IF seen THEN "put" ELSE "post"
<1>4. /\ CallsAre' /\ \A d \in Caller \ {c} : call'[d] = call[d]
      /\ call'[c].pc = pc /\ call'[c].op = call[c].op /\ call'[c].todo = call[c].todo
      /\ call'[c].hurt = call[c].hurt /\ call'[c].end = call[c].end
  BY <1>1, TurnsTo DEF GitLabInv
<1>5. pc = "put" => vars[Head(call[c].todo)] # Nobody
  BY <1>1 DEF Key, Todo
<1>6. Fits(call'[c], project', vars')
  BY <1>2, <1>3, <1>4, <1>5 DEF GitLabInv, Fits, SetterFits, DeleterFits, SetPlaces
<1>. QED  BY <1>2, <1>4, <1>6, OneMoves DEF GitLabInv

(* A variable is written and the setter goes to its next key.               *)
LEMMA WritesKeep ==
    ASSUME GitLabInv, NEW c \in Caller, call[c].pc \in {"put", "post"}, NextKey(c),
           vars' = [vars EXCEPT ![Key(c)] = c], project' = project
    PROVE  GitLabInv'
<1>1. call[c].op # "delete"
  BY SetterAt
<1>2. vars' \in [CiKey -> Caller \cup {Nobody}]
      /\ \A k \in CiKey : vars[k] # Nobody => vars'[k] # Nobody
  BY GitLabAssumption DEF GitLabInv, GitLabAssumption
<1>3. /\ CallsAre' /\ \A d \in Caller \ {c} : call'[d] = call[d]
      /\ call'[c].op = call[c].op /\ call'[c].hurt = call[c].hurt
      /\ \/ call'[c].pc = "done" /\ call'[c].end = "ok"
         \/ /\ call'[c].pc = "look" /\ call'[c].todo = Tail(call[c].todo)
            /\ Len(call[c].todo) # 1 /\ call'[c].end = call[c].end
  BY MovesOn DEF GitLabInv
<1>4. call[c].op = "set" => call[c].todo \in Seq(CiKey) /\ call[c].todo # <<>>
  BY DEF GitLabInv, Fits, SetterFits
<1>5. call[c].op = "set" /\ Len(call[c].todo) # 1
      => Tail(call[c].todo) \in Seq(CiKey) /\ Tail(call[c].todo) # <<>>
  <2>. SUFFICES ASSUME call[c].op = "set", Len(call[c].todo) # 1
                PROVE  Tail(call[c].todo) \in Seq(CiKey) /\ Tail(call[c].todo) # <<>>
    OBVIOUS
  <2>1. ASSUME NEW s \in Seq(CiKey), s # <<>>, Len(s) # 1
        PROVE  Tail(s) \in Seq(CiKey) /\ Tail(s) # <<>>
    <3>1. Tail(s) \in Seq(CiKey) /\ Len(Tail(s)) = Len(s) - 1
      BY <2>1, HeadTailProperties
    <3>2. Len(s) - 1 # 0
      BY <2>1
    <3>. QED  BY <3>1, <3>2
  <2>. QED  BY <1>4, <2>1
<1>6. Fits(call'[c], project', vars')
  BY <1>1, <1>3, <1>5 DEF GitLabInv, Fits, SetterFits, DeleterFits, SetPlaces
<1>. QED  BY <1>2, <1>3, <1>6, OneMoves

(* A setter is refused only when something hurt it.                         *)
LEMMA RefusedKeep ==
    ASSUME GitLabInv, NEW c \in Caller, call[c].pc \in {"put", "post"}, Answers(c, "error"),
           UNCHANGED <<project, vars>>,
           call[c].op = "set" => call[c].hurt
    PROVE  GitLabInv'
<1>1. call[c].op # "delete"
  BY SetterAt
<1>2. /\ CallsAre' /\ \A d \in Caller \ {c} : call'[d] = call[d]
      /\ call'[c].pc = "done" /\ call'[c].op = call[c].op
      /\ call'[c].hurt = call[c].hurt /\ call'[c].end = "error"
  BY AnswersWith DEF GitLabInv
<1>3. Fits(call'[c], project', vars')
  BY <1>1, <1>2 DEF Fits, SetterFits, DeleterFits, SetPlaces
<1>. QED  BY <1>2, <1>3, OneMoves DEF GitLabInv

LEMMA PutsKeep == ASSUME GitLabInv, NEW c \in Caller, SetPuts(c) PROVE GitLabInv'
<1>1. call[c].pc = "put" /\ project' = project
  BY DEF SetPuts, Is, Beyond
<1>2. CASE Reachable /\ vars[Key(c)] # Nobody
  BY <1>1, <1>2, WritesKeep DEF SetPuts
<1>3. CASE ~(Reachable /\ vars[Key(c)] # Nobody)
  <2>1. call[c].op = "set" => call[c].hurt
    BY <1>1, <1>3 DEF GitLabInv, Fits, SetterFits, Reachable, Key, Todo
  <2>. QED  BY <1>1, <1>3, <2>1, RefusedKeep DEF SetPuts
<1>. QED  BY <1>2, <1>3

LEMMA PostsKeep == ASSUME GitLabInv, NEW c \in Caller, SetPosts(c) PROVE GitLabInv'
<1>1. call[c].pc = "post" /\ project' = project
  BY DEF SetPosts, Is, Beyond
<1>2. CASE ~Reachable
  <2>1. call[c].op = "set" => call[c].hurt
    BY <1>1, <1>2 DEF GitLabInv, Fits, SetterFits, Reachable
  <2>. QED  BY <1>1, <1>2, <2>1, RefusedKeep DEF SetPosts
<1>3. CASE Reachable /\ vars[Key(c)] # Nobody
  <2>1. Turns(c, "put") /\ UNCHANGED vars
    BY <1>3 DEF SetPosts, Again
  <2>2. /\ CallsAre' /\ \A d \in Caller \ {c} : call'[d] = call[d]
        /\ call'[c].pc = "put" /\ call'[c].op = call[c].op /\ call'[c].todo = call[c].todo
        /\ call'[c].hurt = call[c].hurt /\ call'[c].end = call[c].end
    BY <2>1, TurnsTo DEF GitLabInv
  <2>3. Fits(call'[c], project', vars')
    BY <1>1, <1>3, <2>1, <2>2, SetterAt
       DEF GitLabInv, Fits, SetterFits, DeleterFits, SetPlaces, Key, Todo
  <2>. QED  BY <1>1, <2>1, <2>2, <2>3, OneMoves DEF GitLabInv
<1>4. CASE Reachable /\ vars[Key(c)] = Nobody
  BY <1>1, <1>4, WritesKeep DEF SetPosts
<1>. QED  BY <1>2, <1>3, <1>4

(* A deleted variable hurts the setters under way.                          *)
LEMMA DropsKeep == ASSUME GitLabInv, NEW c \in Caller, DropsVariable(c) PROVE GitLabInv'
<1>1. call[c].op \notin {"set", "delete"} /\ project' = project
  BY DEF GitLabInv, Fits, SetterFits, DeleterFits, SetPlaces, DeletePlaces, DropsVariable, Is, Beyond
<1>2. vars' \in [CiKey -> Caller \cup {Nobody}]
  BY DEF GitLabInv, DropsVariable
<1>3. CallsAre' /\ \A d \in Caller :
         /\ call'[d].op = call[d].op
         /\ d # c => /\ call'[d].pc = call[d].pc /\ call'[d].todo = call[d].todo
                     /\ call'[d].end = call[d].end
                     /\ call[d].op = "set" => call'[d].hurt
  BY DEF GitLabInv, CallsAre, Field, DropsVariable
<1>4. ASSUME NEW d \in Caller PROVE Fits(call'[d], project', vars')
  BY <1>1, <1>3 DEF GitLabInv, Fits, SetterFits, DeleterFits
<1>. QED  BY <1>2, <1>3, <1>4 DEF GitLabInv

(* Requests about files and groups.                                         *)
LEMMA FilesKeep ==
    ASSUME GitLabInv, NEW c \in Caller,
           \/ Commits(c) \/ UpsertReads(c) \/ UpsertCreates(c) \/ UpsertUpdates(c) \/ DeletesFile(c)
    PROVE  GitLabInv'
<1>1. call[c].pc \notin SetPlaces \cup DeletePlaces
  BY DEF Commits, UpsertReads, UpsertCreates, UpsertUpdates, DeletesFile, Is, SetPlaces, DeletePlaces
<1>2. UNCHANGED <<project, vars>>
  BY DEF Commits, UpsertReads, UpsertCreates, UpsertUpdates, DeletesFile, Saves, Beyond
<1>3. \/ Answers(c, "ok") \/ Answers(c, "error")
      \/ Turns(c, IF Reachable /\ files[File(c)] # Nobody THEN "update" ELSE "create")
  BY DEF Commits, UpsertReads, UpsertCreates, UpsertUpdates, DeletesFile, Saves
<1>4. CallsAre' /\ (\A d \in Caller \ {c} : call'[d] = call[d]) /\ call'[c].op = call[c].op
  BY <1>3, TurnsTo, AnswersWith DEF GitLabInv
<1>. QED  BY <1>1, <1>2, <1>4, OtherMoves

LEMMA DescendsTo ==
    ASSUME CallsAre, NEW c \in Caller, NEW g, Descends(c, g)
    PROVE  CallsAre' /\ (\A d \in Caller \ {c} : call'[d] = call[d]) /\ call'[c].op = call[c].op
BY DEF CallsAre, Descends, Todo, Field

LEMMA GroupsKeep ==
    ASSUME GitLabInv, NEW c \in Caller, FindsGroup(c) \/ CreatesGroup(c) PROVE GitLabInv'
<1>1. call[c].pc \notin SetPlaces \cup DeletePlaces
  BY DEF FindsGroup, CreatesGroup, Is, SetPlaces, DeletePlaces
<1>2. UNCHANGED <<project, vars>>
  BY DEF FindsGroup, CreatesGroup, Beyond
<1>3. Turns(c, "make") \/ Answers(c, "error") \/ \E g : Descends(c, g)
  BY DEF FindsGroup, CreatesGroup, Found
<1>4. CallsAre' /\ (\A d \in Caller \ {c} : call'[d] = call[d]) /\ call'[c].op = call[c].op
  BY <1>3, TurnsTo, AnswersWith, DescendsTo DEF GitLabInv
<1>. QED  BY <1>1, <1>2, <1>4, OtherMoves

(* The purge before a deletion answers nothing.                             *)
LEMMA PurgeKeeps ==
    ASSUME GitLabInv, NEW c \in Caller, PurgesImages(c) \/ ListsPackages(c) \/ DeletesPackage(c)
    PROVE  GitLabInv'
<1>1. call[c].op # "set" /\ UNCHANGED <<project, vars>>
  BY DEF GitLabInv, Fits, SetterFits, SetPlaces, PurgesImages, ListsPackages, DeletesPackage, Is,
     Beyond
<1>2. /\ CallsAre' /\ \A d \in Caller \ {c} : call'[d] = call[d]
      /\ call'[c].op = call[c].op /\ call'[c].end = call[c].end
      /\ call'[c].pc \in {"images", "packages", "package", "delete"}
  <2>1. CASE PurgesImages(c)
    BY <2>1, TurnsTo DEF PurgesImages, GitLabInv
  <2>2. CASE ListsPackages(c)
    <3>1. CASE Turns(c, "delete")
      BY <3>1, TurnsTo DEF GitLabInv
    <3>. DEFINE n == PageAfter(call[c].page)
                page == PageOf(n)
                Lists(m, s) == call' = [call EXCEPT ![c].pc = "package", ![c].page = m,
                                                    ![c].list = s, ![c].todo = s]
    <3>2. CASE Lists(n, page)
      <4>. HIDE DEF n, page
      <4>. QED  BY <3>2 DEF GitLabInv, CallsAre, Field
    <3>3. Lists(n, page) \/ Turns(c, "delete")
      BY <2>2 DEF ListsPackages
    <3>. QED  BY <3>1, <3>2, <3>3
  <2>3. CASE DeletesPackage(c)
    <3>1. CASE Turns(c, IF Len(call[c].list) < PerPage THEN "delete" ELSE "packages")
      BY <3>1, TurnsTo DEF GitLabInv
    <3>2. CASE call' = [call EXCEPT ![c].todo = Tail(@)]
      BY <2>3, <3>2 DEF GitLabInv, CallsAre, Field, DeletesPackage, Is
    <3>. QED  BY <2>3, <3>1, <3>2 DEF DeletesPackage
  <2>. QED  BY <2>1, <2>2, <2>3
<1>3. Fits(call'[c], project', vars')
  BY <1>1, <1>2 DEF GitLabInv, Fits, SetterFits, DeleterFits, DeletePlaces
<1>. QED  BY <1>1, <1>2, <1>3, OneMoves DEF GitLabInv

(* A deletion hurts the calls under way, and takes a project away for good. *)
LEMMA DeletesKeep == ASSUME GitLabInv, NEW c \in Caller, DeletesProject(c) PROVE GitLabInv'
<1>1. call[c].op # "set" /\ UNCHANGED vars /\ call[c].pc = "delete"
  BY DEF GitLabInv, Fits, SetterFits, SetPlaces, DeletesProject, Is
<1>2. CASE Reachable /\ ~image
  <2>1. CallsAre' /\ \A d \in Caller :
           /\ call'[d].op = call[d].op /\ call'[d].end = call[d].end
           /\ d = c => call'[d].pc = "verify"
           /\ d # c => /\ call'[d].pc = call[d].pc /\ call'[d].todo = call[d].todo
                       /\ call'[d].hurt
    BY <1>2 DEF GitLabInv, CallsAre, Field, DeletesProject
  <2>2. ASSUME NEW d \in Caller PROVE Fits(call'[d], project', vars')
    BY <1>1, <1>2, <2>1 DEF GitLabInv, Fits, SetterFits, DeleterFits, DeletePlaces, Reachable
  <2>. QED  BY <1>1, <2>1, <2>2 DEF GitLabInv
<1>3. CASE ~(Reachable /\ ~image)
  <2>1. Answers(c, "refused") /\ UNCHANGED project
    BY <1>3 DEF DeletesProject
  <2>2. /\ CallsAre' /\ \A d \in Caller \ {c} : call'[d] = call[d]
        /\ call'[c].pc = "done" /\ call'[c].op = call[c].op /\ call'[c].end = "refused"
    BY <2>1, AnswersWith DEF GitLabInv
  <2>3. Fits(call'[c], project', vars')
    BY <1>1, <2>2 DEF Fits, SetterFits, DeleterFits, DeletePlaces
  <2>. QED  BY <1>1, <2>1, <2>2, <2>3, OneMoves DEF GitLabInv
<1>. QED  BY <1>2, <1>3

LEMMA ChecksKeep == ASSUME GitLabInv, NEW c \in Caller, ChecksGone(c) PROVE GitLabInv'
<1>1. call[c].op # "set" /\ UNCHANGED <<project, vars>>
  BY DEF GitLabInv, Fits, SetterFits, SetPlaces, ChecksGone, Is, Beyond
<1>. DEFINE end == IF Reachable THEN "refused" ELSE "ok"
<1>2. /\ CallsAre' /\ \A d \in Caller \ {c} : call'[d] = call[d]
      /\ call'[c].pc = "done" /\ call'[c].op = call[c].op /\ call'[c].end = end
  BY AnswersWith DEF GitLabInv, ChecksGone, VerifiesGone
<1>3. Fits(call'[c], project', vars')
  BY <1>1, <1>2 DEF Fits, SetterFits, DeleterFits, DeletePlaces, Reachable
<1>. QED  BY <1>1, <1>2, <1>3, OneMoves DEF GitLabInv

LEMMA StepKeepsGitLab == GitLabInv /\ [GitLabNext]_gitlabVars => GitLabInv'
<1>1. CASE UNCHANGED gitlabVars
  BY <1>1 DEF gitlabVars, GitLabInv, CallsAre
<1>2. ASSUME GitLabInv, NEW c \in Caller, CallStep(c) PROVE GitLabInv'
  BY <1>2, LooksKeep, PutsKeep, PostsKeep, DropsKeep, FilesKeep, GroupsKeep, PurgeKeeps,
     DeletesKeep, ChecksKeep DEF CallStep
<1>. QED  BY <1>1, <1>2, StartsKeep, BreaksKeep DEF GitLabNext

-----------------------------------------------------------------------------
(* What the calls write.  A commit writes once, as its last step: all the   *)
(* files it was asked for, or the only one.                                 *)
CommitPlaces == {"commit", "read", "create", "update", "remove", "done"}
Written(c) == {f \in Path : <<c, f>> \in wrote}
CommitterFits(x, mine) ==
    /\ x.pc # "done" => mine = {}
    /\ x.op = "commit" =>
          /\ x.list \in ActLists /\ x.pc \in CommitPlaces
          /\ mine \in {{}, Asked(x.list)}
          /\ x.pc # "done" => x.todo = x.list
          /\ x.pc \in {"read", "create", "update", "remove"} => Len(x.list) = 1

(* A call that makes groups goes down from one that exists to its child of  *)
(* the next name.                                                           *)
EndsIn(g, a, b) == Len(g) > 1 /\ g[Len(g)] = b /\ g[Len(g) - 1] = a
GrouperFits(x, gs) ==
    /\ x.pc # "done" => x.end = "open"
    /\ x.pc \in {"group", "make"} => x.op = "groups"
    /\ x.op = "groups" =>
          /\ x.pc \in {"group", "make", "done"}
          /\ \E a, b \in Name :
                /\ x.list = <<a, b>>
                /\ \/ x.pc = "done"
                   \/ x.todo = <<a, b>> /\ x.at = <<>>
                   \/ x.todo = <<b>> /\ x.at \in gs /\ x.at[Len(x.at)] = a
                /\ x.end = "ok" => x.at \in gs /\ EndsIn(x.at, a, b)

ContentInv ==
    /\ groups \subseteq Seq(Name) \ {<<>>}
    /\ \A c \in Caller : CommitterFits(call[c], Written(c)) /\ GrouperFits(call[c], groups)

(* The fields that what a call writes depends on.                           *)
SameCourse(x, y) ==
    /\ x.op = y.op /\ x.pc = y.pc /\ x.list = y.list /\ x.todo = y.todo
    /\ x.at = y.at /\ x.end = y.end

LEMMA InitContentInv == GitLabInit => ContentInv
BY DEF GitLabInit, ContentInv, IdleCall, CommitterFits, GrouperFits, Written

(* One call moves; what the others wrote, and the groups, are still there.  *)
LEMMA OneWrites ==
    ASSUME ContentInv, NEW c \in Caller,
           \A d \in Caller \ {c} : SameCourse(call'[d], call[d]) /\ Written(d)' = Written(d),
           groups \subseteq groups', groups' \subseteq Seq(Name) \ {<<>>},
           CommitterFits(call'[c], Written(c)'), GrouperFits(call'[c], groups')
    PROVE  ContentInv'
<1>1. ASSUME NEW d \in Caller \ {c}
      PROVE  CommitterFits(call'[d], Written(d)') /\ GrouperFits(call'[d], groups')
  <2>1. CommitterFits(call'[d], Written(d)')
    BY DEF ContentInv, CommitterFits, SameCourse
  <2>2. GrouperFits(call'[d], groups')
    BY DEF ContentInv, GrouperFits, SameCourse
  <2>. QED  BY <2>1, <2>2
<1>. QED  BY <1>1 DEF ContentInv

(* A call that is no commit and makes no groups writes nothing of this.     *)
LEMMA PlainMoves ==
    ASSUME ContentInv, NEW c \in Caller, UNCHANGED <<groups, wrote>>,
           \A d \in Caller \ {c} : SameCourse(call'[d], call[d]),
           call[c].pc \notin CommitPlaces \cup {"group", "make"},
           call'[c].op = call[c].op, call'[c].pc \notin {"group", "make"},
           call'[c].pc # "done" => call'[c].end = call[c].end
    PROVE  ContentInv'
<1>1. CommitterFits(call[c], Written(c)) /\ GrouperFits(call[c], groups)
  BY DEF ContentInv
<1>2. call[c].op \notin {"commit", "groups"} /\ Written(c) = {} /\ call[c].end = "open"
  BY <1>1 DEF CommitterFits, GrouperFits, CommitPlaces
<1>3. CommitterFits(call'[c], Written(c)')
  BY <1>2 DEF CommitterFits, Written
<1>4. GrouperFits(call'[c], groups')
  BY <1>2 DEF GrouperFits
<1>. QED  BY <1>3, <1>4, OneWrites DEF ContentInv, Written

LEMMA SettersWriteNoFile ==
    ASSUME GitLabInv, ContentInv, NEW c \in Caller,
           SetLooks(c) \/ SetPuts(c) \/ SetPosts(c) \/ DropsVariable(c)
    PROVE  ContentInv'
<1>1. /\ call[c].pc \in {"look", "put", "post", "drop"} /\ UNCHANGED <<groups, wrote>>
  BY DEF SetLooks, SetPuts, SetPosts, DropsVariable, Is, Beyond, Repository
<1>2. /\ \A d \in Caller \ {c} : SameCourse(call'[d], call[d])
      /\ call'[c].op = call[c].op /\ call'[c].pc \notin {"group", "make"}
      /\ call'[c].pc # "done" => call'[c].end = call[c].end
  <2>1. CASE DropsVariable(c)
    <3>1. /\ DOMAIN call = Caller /\ \A d \in Caller : DOMAIN call[d] = Field
          /\ call' = [d \in Caller |->
                        IF d = c THEN [call[d] EXCEPT !.pc = "done", !.end = "ok"]
                        ELSE [call[d] EXCEPT !.hurt = @ \/ call[d].op = "set"]]
      BY <2>1 DEF GitLabInv, CallsAre, DropsVariable
    <3>2. ASSUME NEW d \in Caller \ {c} PROVE SameCourse(call'[d], call[d])
      BY <3>1 DEF SameCourse, Field
    <3>3. call'[c].op = call[c].op /\ call'[c].pc = "done"
      BY <3>1 DEF Field
    <3>. QED  BY <3>2, <3>3
  <2>2. ASSUME NEW pc \in {"put", "post"}, Turns(c, pc)
        PROVE  /\ \A d \in Caller \ {c} : SameCourse(call'[d], call[d])
               /\ call'[c].op = call[c].op /\ call'[c].pc = pc /\ call'[c].end = call[c].end
    BY <2>2, TurnsTo DEF GitLabInv, SameCourse
  <2>3. CASE NextKey(c) \/ Answers(c, "error")
    BY <2>3, MovesOn, AnswersWith DEF GitLabInv, SameCourse
  <2>4. \/ DropsVariable(c) \/ Turns(c, "put") \/ Turns(c, "post")
        \/ NextKey(c) \/ Answers(c, "error")
    BY DEF SetLooks, SetPuts, SetPosts, Again
  <2>. QED  BY <2>1, <2>2, <2>3, <2>4
<1>. QED  BY <1>1, <1>2, PlainMoves DEF CommitPlaces

LEMMA DeletersWriteNoFile ==
    ASSUME GitLabInv, ContentInv, NEW c \in Caller,
           \/ PurgesImages(c) \/ ListsPackages(c) \/ DeletesPackage(c)
           \/ DeletesProject(c) \/ ChecksGone(c)
    PROVE  ContentInv'
<1>1. /\ call[c].pc \in {"images", "packages", "package", "delete", "verify"}
      /\ UNCHANGED <<groups, wrote>>
  BY DEF PurgesImages, ListsPackages, DeletesPackage, DeletesProject, ChecksGone, Is, Beyond,
     Repository
<1>2. /\ \A d \in Caller \ {c} : SameCourse(call'[d], call[d])
      /\ call'[c].op = call[c].op /\ call'[c].pc \notin {"group", "make"}
      /\ call'[c].pc # "done" => call'[c].end = call[c].end
  <2>1. ASSUME NEW pc \in {"packages", "delete"}, Turns(c, pc)
        PROVE  /\ \A d \in Caller \ {c} : SameCourse(call'[d], call[d])
               /\ call'[c].op = call[c].op /\ call'[c].pc = pc /\ call'[c].end = call[c].end
    BY <2>1, TurnsTo DEF GitLabInv, SameCourse
  <2>2. ASSUME NEW n, NEW s, call' = [call EXCEPT ![c].pc = "package", ![c].page = n,
                                                 ![c].list = s, ![c].todo = s]
        PROVE  /\ \A d \in Caller \ {c} : SameCourse(call'[d], call[d])
               /\ call'[c].op = call[c].op /\ call'[c].pc = "package" /\ call'[c].end = call[c].end
    BY <2>2 DEF GitLabInv, CallsAre, Field, SameCourse
  <2>3. CASE ListsPackages(c)
    <3>1. Turns(c, "delete") \/ \E n, s : call' = [call EXCEPT ![c].pc = "package", ![c].page = n,
                                                               ![c].list = s, ![c].todo = s]
      BY <2>3 DEF ListsPackages
    <3>. QED  BY <3>1, <2>1, <2>2
  <2>4. CASE PurgesImages(c)
    BY <2>1, <2>4 DEF PurgesImages
  <2>5. CASE DeletesPackage(c)
    <3>1. CASE call' = [call EXCEPT ![c].todo = Tail(@)]
      BY <1>1, <3>1 DEF GitLabInv, CallsAre, Field, SameCourse
    <3>. QED  BY <2>1, <2>5, <3>1 DEF DeletesPackage
  <2>6. CASE DeletesProject(c) \/ ChecksGone(c)
    <3>1. ASSUME NEW end, Answers(c, end)
          PROVE  /\ \A d \in Caller \ {c} : SameCourse(call'[d], call[d])
                 /\ call'[c].op = call[c].op /\ call'[c].pc = "done"
      BY <3>1, AnswersWith DEF GitLabInv, SameCourse
    <3>2. CASE call' = [d \in Caller |-> IF d = c THEN [call[d] EXCEPT !.pc = "verify"]
                                         ELSE [call[d] EXCEPT !.hurt = TRUE]]
      BY <3>2 DEF GitLabInv, CallsAre, Field, SameCourse
    <3>. QED  BY <2>6, <3>1, <3>2 DEF DeletesProject, ChecksGone, VerifiesGone
  <2>. QED  BY <2>3, <2>4, <2>5, <2>6
<1>. QED  BY <1>1, <1>2, PlainMoves DEF CommitPlaces

LEMMA StartsWriteNothing ==
    ASSUME GitLabInv, ContentInv, NEW c \in Caller, CallStarts(c) PROVE ContentInv'
<1>1. ASSUME NEW op, NEW pc, NEW todo, Begins(c, op, pc, todo), pc # "done",
             op = "commit" => todo \in ActLists /\ pc = Routed(todo),
             op = "groups" => pc = "group" /\ \E a, b \in Name : todo = <<a, b>>,
             pc \in {"group", "make"} => op = "groups"
      PROVE  ContentInv'
  <2>1. /\ call'[c].op = op /\ call'[c].pc = pc /\ call'[c].todo = todo /\ call'[c].list = todo
        /\ call'[c].at = <<>> /\ call'[c].end = "open" /\ call[c].pc = "idle"
        /\ UNCHANGED <<groups, wrote>> /\ \A d \in Caller \ {c} : call'[d] = call[d]
    BY <1>1 DEF GitLabInv, CallsAre, Begins, IdleCall, Field, Beyond, Repository, Is
  <2>2. Written(c) = {} /\ Written(c)' = {} /\ \A d \in Caller \ {c} : Written(d)' = Written(d)
    BY <2>1 DEF ContentInv, CommitterFits, Written
  <2>3. op = "commit" => pc \in CommitPlaces
                         /\ (pc \in {"read", "create", "update", "remove"} => Len(todo) = 1)
    <3>. SUFFICES ASSUME op = "commit" PROVE pc \in CommitPlaces
                         /\ (pc \in {"read", "create", "update", "remove"} => Len(todo) = 1)
      OBVIOUS
    <3>1. Len(todo) \in {1, 2}
      BY <1>1 DEF ActLists
    <3>. QED  BY <1>1, <3>1 DEF Routed, CommitPlaces
  <2>4. CommitterFits(call'[c], Written(c)')
    BY <1>1, <2>1, <2>2, <2>3 DEF CommitterFits
  <2>5. GrouperFits(call'[c], groups')
    BY <1>1, <2>1 DEF GrouperFits
  <2>. QED  BY <2>1, <2>2, <2>4, <2>5, OneWrites DEF ContentInv, SameCourse
<1>2. ASSUME NEW k \in CiKey, NEW l \in CiKey,
             Begins(c, "set", "look", IF k = l THEN <<k>> ELSE <<k, l>>)
      PROVE  ContentInv'
  BY <1>1, <1>2
<1>3. ASSUME NEW k \in CiKey, Begins(c, "drop", "drop", <<k>>) PROVE ContentInv'
  BY <1>1, <1>3
<1>4. ASSUME NEW todo \in ActLists, Begins(c, "commit", Routed(todo), todo) PROVE ContentInv'
  <2>1. Routed(todo) \in {"commit", "remove", "read"}
    BY DEF Routed
  <2>. QED  BY <1>1, <1>4, <2>1
<1>5. ASSUME NEW a \in Name, NEW b \in Name, Begins(c, "groups", "group", <<a, b>>)
      PROVE  ContentInv'
  BY <1>1, <1>5
<1>6. ASSUME NEW pc \in {"images", "delete"}, Begins(c, "delete", pc, <<>>) PROVE ContentInv'
  BY <1>1, <1>6
<1>. QED  BY <1>2, <1>3, <1>4, <1>5, <1>6 DEF CallStarts

LEMMA BreaksWriteNothing ==
    ASSUME GitLabInv, ContentInv, NEW c \in Caller, Breaks(c) PROVE ContentInv'
<1>1. /\ call'[c].op = call[c].op /\ call'[c].pc = "done" /\ call'[c].list = call[c].list
      /\ call'[c].at = call[c].at /\ call'[c].end \in {"error", "refused"}
      /\ UNCHANGED <<groups, wrote>> /\ \A d \in Caller \ {c} : call'[d] = call[d]
  BY DEF GitLabInv, CallsAre, Breaks, Failure, Field, Beyond, Repository
<1>2. \A d \in Caller : Written(d)' = Written(d)
  BY <1>1 DEF Written
<1>3. CommitterFits(call'[c], Written(c)')
  BY <1>1, <1>2 DEF ContentInv, CommitterFits, CommitPlaces
<1>4. GrouperFits(call'[c], groups')
  BY <1>1 DEF ContentInv, GrouperFits
<1>. QED  BY <1>1, <1>2, <1>3, <1>4, OneWrites DEF ContentInv, SameCourse

(* What is asked for are files of the repository.                           *)
LEMMA AskedFiles ==
    ASSUME NEW todo \in ActLists
    PROVE  /\ Asked(todo) \subseteq Path
           /\ Len(todo) = 1 => Asked(todo) = {todo[1][1]}
<1>1. \A x \in Acts : x[1] \in Path
  BY DEF Acts
<1>2. (\E x \in Acts : todo = <<x>>) \/ (\E x, y \in Acts : todo = <<x, y>>)
  BY DEF ActLists
<1>3. CASE \E x \in Acts : todo = <<x>>
  <2>1. PICK x \in Acts : todo = <<x>>
    BY <1>3
  <2>2. DOMAIN todo = {1} /\ todo[1] = x /\ Asked(todo) = {x[1]}
    BY <2>1 DEF Asked
  <2>. QED  BY <1>1, <2>2
<1>4. CASE \E x, y \in Acts : todo = <<x, y>>
  <2>1. PICK x \in Acts, y \in Acts : todo = <<x, y>>
    BY <1>4
  <2>2. DOMAIN todo = {1, 2} /\ todo[1] = x /\ todo[2] = y /\ Len(todo) = 2
    BY <2>1
  <2>3. Asked(todo) = {x[1], y[1]}
    BY <2>2 DEF Asked
  <2>. QED  BY <1>1, <2>2, <2>3
<1>. QED  BY <1>2, <1>3, <1>4

(* A commit that answers has written all or nothing of what it was asked.   *)
LEMMA WritesAllOrNothing ==
    ASSUME GitLabInv, ContentInv, NEW c \in Caller, UNCHANGED groups,
           call[c].pc \in CommitPlaces \ {"done"}, Answers(c, "ok") \/ Answers(c, "error"),
           \/ wrote' = wrote
           \/ call[c].op = "commit" /\ wrote' = wrote \cup ({c} \X Asked(call[c].list))
           \/ call[c].op # "commit" /\ \E S : wrote' = wrote \cup ({c} \X S)
    PROVE  ContentInv'
<1>1. /\ CommitterFits(call[c], Written(c)) /\ GrouperFits(call[c], groups) /\ Written(c) = {}
  BY DEF ContentInv, CommitterFits
<1>2. /\ call'[c].pc = "done" /\ call'[c].op = call[c].op /\ call'[c].list = call[c].list
      /\ \A d \in Caller \ {c} : call'[d] = call[d]
  BY AnswersWith DEF GitLabInv
<1>3. \A d \in Caller \ {c} : Written(d)' = Written(d)
  BY DEF Written
<1>4. call[c].op = "commit" => Written(c)' \in {{}, Asked(call[c].list)}
  <2>1. CASE wrote' = wrote
    BY <1>1, <2>1 DEF Written
  <2>2. CASE call[c].op = "commit" /\ wrote' = wrote \cup ({c} \X Asked(call[c].list))
    <3>1. Asked(call[c].list) \subseteq Path
      BY <1>1, <2>2, AskedFiles DEF CommitterFits
    <3>2. Written(c)' = Asked(call[c].list)
      BY <1>1, <2>2, <3>1 DEF Written
    <3>. QED  BY <3>2
  <2>. QED  BY <2>1, <2>2
<1>5. CommitterFits(call'[c], Written(c)')
  BY <1>1, <1>2, <1>4 DEF CommitterFits, CommitPlaces
<1>6. call[c].op # "groups"
  BY <1>1 DEF GrouperFits, CommitPlaces
<1>7. GrouperFits(call'[c], groups')
  BY <1>2, <1>6 DEF GrouperFits
<1>. QED  BY <1>2, <1>3, <1>5, <1>7, OneWrites DEF ContentInv, SameCourse

LEMMA CommittersWriteWhole ==
    ASSUME GitLabInv, ContentInv, NEW c \in Caller,
           \/ Commits(c) \/ UpsertReads(c) \/ UpsertCreates(c) \/ UpsertUpdates(c) \/ DeletesFile(c)
    PROVE  ContentInv'
<1>1. CommitterFits(call[c], Written(c)) /\ GrouperFits(call[c], groups)
  BY DEF ContentInv
<1>2. CASE Commits(c)
  <2>1. /\ call[c].pc = "commit" /\ UNCHANGED groups /\ (Answers(c, "ok") \/ Answers(c, "error"))
        /\ wrote' = wrote \/ wrote' = wrote \cup ({c} \X Asked(Todo(c)))
    BY <1>2 DEF Commits, Is, Beyond, Repository
  <2>2. call[c].op = "commit" => Todo(c) = call[c].list
    BY <1>1, <2>1 DEF CommitterFits, Todo
  <2>. QED  BY <2>1, <2>2, WritesAllOrNothing DEF CommitPlaces
<1>3. ASSUME NEW action, Saves(c, action), call[c].pc \in {"create", "update", "remove"}
      PROVE  ContentInv'
  <2>1. /\ UNCHANGED groups /\ (Answers(c, "ok") \/ Answers(c, "error"))
        /\ wrote' = wrote \/ wrote' = wrote \cup {<<c, File(c)>>}
    BY <1>3 DEF Saves, Beyond, Repository
  <2>2. call[c].op = "commit" => Asked(call[c].list) = {File(c)}
    BY <1>1, <1>3, AskedFiles DEF CommitterFits, File, Todo
  <2>3. {<<c, File(c)>>} = {c} \X {File(c)}
    OBVIOUS
  <2>. QED  BY <1>3, <2>1, <2>2, <2>3, WritesAllOrNothing DEF CommitPlaces
<1>4. CASE UpsertReads(c)
  <2>1. PICK pc \in {"update", "create"} : Turns(c, pc)
    BY <1>4 DEF UpsertReads
  <2>2. call[c].pc = "read" /\ UNCHANGED <<groups, wrote>>
    BY <1>4 DEF UpsertReads, Is, Beyond, Repository
  <2>3. /\ \A d \in Caller \ {c} : call'[d] = call[d]
        /\ call'[c].pc = pc /\ call'[c].op = call[c].op /\ call'[c].todo = call[c].todo
        /\ call'[c].end = call[c].end /\ call'[c].list = call[c].list
    BY <2>1, TurnsTo DEF GitLabInv
  <2>4. \A d \in Caller : Written(d)' = Written(d)
    BY <2>2 DEF Written
  <2>5. CommitterFits(call'[c], Written(c)')
    BY <1>1, <2>2, <2>3, <2>4 DEF CommitterFits, CommitPlaces
  <2>6. GrouperFits(call'[c], groups')
    BY <1>1, <2>2, <2>3 DEF GrouperFits
  <2>. QED  BY <2>2, <2>3, <2>4, <2>5, <2>6, OneWrites DEF ContentInv, SameCourse
<1>. QED  BY <1>2, <1>3, <1>4 DEF UpsertCreates, UpsertUpdates, DeletesFile, Is

(* A call that has found or made the group of its next name goes down to it.*)
LEMMA GoesDown ==
    ASSUME GitLabInv, ContentInv, NEW c \in Caller, NEW g, Descends(c, g),
           call[c].pc \in {"group", "make"},
           groups \subseteq groups', groups' \subseteq Seq(Name) \ {<<>>}, UNCHANGED wrote,
           g \in groups', g[Len(g)] = Head(Todo(c)),
           Parent(c) # <<>> => Len(g) > 1 /\ Parent(c) = SubSeq(g, 1, Len(g) - 1)
    PROVE  ContentInv'
<1>1. /\ CommitterFits(call[c], Written(c)) /\ GrouperFits(call[c], groups) /\ call[c].op = "groups"
  BY DEF ContentInv, GrouperFits
<1>2. PICK a \in Name, b \in Name :
         /\ call[c].list = <<a, b>>
         /\ \/ call[c].todo = <<a, b>> /\ call[c].at = <<>>
            \/ call[c].todo = <<b>> /\ call[c].at \in groups /\ call[c].at[Len(call[c].at)] = a
  BY <1>1 DEF GrouperFits
<1>3. /\ \A d \in Caller \ {c} : call'[d] = call[d]
      /\ call'[c].op = "groups" /\ call'[c].list = <<a, b>> /\ call'[c].at = g
  <2>1. CASE call' = [call EXCEPT ![c].pc = "done", ![c].end = "ok", ![c].at = g]
    BY <1>1, <1>2, <2>1 DEF GitLabInv, CallsAre, Field
  <2>2. CASE call' = [call EXCEPT ![c].pc = "group", ![c].at = g, ![c].todo = Tail(@)]
    BY <1>1, <1>2, <2>2 DEF GitLabInv, CallsAre, Field
  <2>. QED  BY <2>1, <2>2 DEF Descends
<1>4. \A d \in Caller : Written(d)' = Written(d)
  BY DEF Written
<1>5. CASE call[c].todo = <<a, b>> /\ call[c].at = <<>>
  <2>1. call' = [call EXCEPT ![c].pc = "group", ![c].at = g, ![c].todo = Tail(@)]
    BY <1>5 DEF Descends, Todo
  <2>2. call'[c].pc = "group" /\ call'[c].todo = <<b>> /\ call'[c].end = call[c].end
    BY <1>5, <2>1 DEF GitLabInv, CallsAre, Field
  <2>3. g[Len(g)] = a
    BY <1>5 DEF Todo
  <2>4. GrouperFits(call'[c], groups')
    BY <1>1, <1>3, <2>2, <2>3 DEF GrouperFits
  <2>5. CommitterFits(call'[c], Written(c)')
    BY <1>1, <1>3, <1>4 DEF CommitterFits
  <2>. QED  BY <1>3, <1>4, <2>4, <2>5, OneWrites DEF SameCourse
<1>6. CASE call[c].todo = <<b>> /\ call[c].at \in groups /\ call[c].at[Len(call[c].at)] = a
  <2>1. call' = [call EXCEPT ![c].pc = "done", ![c].end = "ok", ![c].at = g]
    BY <1>6 DEF Descends, Todo
  <2>2. call'[c].pc = "done" /\ call'[c].end = "ok"
    BY <2>1 DEF GitLabInv, CallsAre, Field
  <2>3. EndsIn(g, a, b)
    <3>1. g \in Seq(Name) /\ g # <<>> /\ Parent(c) # <<>> /\ call[c].at \in Seq(Name)
      BY <1>6 DEF ContentInv, Parent
    <3>2. Len(g) > 1 /\ call[c].at = SubSeq(g, 1, Len(g) - 1)
      BY <3>1 DEF Parent
    <3>3. Len(call[c].at) = Len(g) - 1 /\ call[c].at[Len(g) - 1] = g[Len(g) - 1]
      BY <3>1, <3>2
    <3>. QED  BY <1>6, <3>2, <3>3 DEF EndsIn, Todo
  <2>4. GrouperFits(call'[c], groups')
    BY <1>1, <1>3, <2>2, <2>3 DEF GrouperFits
  <2>5. CommitterFits(call'[c], Written(c)')
    BY <1>1, <1>3, <1>4 DEF CommitterFits
  <2>. QED  BY <1>3, <1>4, <2>4, <2>5, OneWrites DEF SameCourse
<1>. QED  BY <1>2, <1>5, <1>6

LEMMA GroupersGoDown ==
    ASSUME GitLabInv, ContentInv, NEW c \in Caller, FindsGroup(c) \/ CreatesGroup(c)
    PROVE  ContentInv'
<1>1. /\ call[c].pc \in {"group", "make"} /\ wrote' = wrote
      /\ CommitterFits(call[c], Written(c)) /\ GrouperFits(call[c], groups)
      /\ call[c].op = "groups" /\ groups \subseteq Seq(Name) \ {<<>>}
  BY DEF FindsGroup, CreatesGroup, Is, Repository, ContentInv, GrouperFits
<1>2. PICK a \in Name, b \in Name :
         \/ call[c].todo = <<a, b>> /\ call[c].at = <<>>
         \/ call[c].todo = <<b>> /\ call[c].at \in groups
  BY <1>1 DEF GrouperFits
<1>3. Head(Todo(c)) \in Name /\ (Parent(c) = <<>> \/ Parent(c) \in groups)
  BY <1>2 DEF Todo, Parent
<1>4. CASE UNCHANGED groups /\ (Turns(c, "make") \/ Answers(c, "error"))
  <2>1. /\ \A d \in Caller \ {c} : call'[d] = call[d]
        /\ call'[c].op = call[c].op /\ call'[c].list = call[c].list /\ call'[c].at = call[c].at
        /\ \/ call'[c].pc = "make" /\ call'[c].todo = call[c].todo /\ call'[c].end = call[c].end
           \/ call'[c].pc = "done" /\ call'[c].end = "error"
    BY <1>4, TurnsTo, AnswersWith DEF GitLabInv
  <2>2. \A d \in Caller : Written(d)' = Written(d)
    BY <1>1 DEF Written
  <2>3. CommitterFits(call'[c], Written(c)')
    BY <1>1, <2>1, <2>2 DEF CommitterFits
  <2>4. GrouperFits(call'[c], groups')
    BY <1>1, <1>4, <2>1 DEF GrouperFits
  <2>. QED  BY <1>1, <1>4, <2>1, <2>2, <2>3, <2>4, OneWrites DEF SameCourse
<1>5. ASSUME NEW g \in Named(c), Descends(c, g), UNCHANGED groups PROVE ContentInv'
  <2>1. g \in Seq(Name) /\ g # <<>> /\ g[Len(g)] = Head(Todo(c))
        /\ (Parent(c) = <<>> \/ Parent(c) = SubSeq(g, 1, Len(g) - 1))
    BY <1>1, <1>5 DEF Named
  <2>2. Parent(c) # <<>> => Len(g) > 1
    BY <1>1, <1>3, <2>1
  <2>. QED  BY <1>1, <1>5, <2>1, <2>2, GoesDown DEF Named
<1>6. ASSUME NEW g, g = Append(Parent(c), Head(Todo(c))), Descends(c, g),
             groups' = groups \cup {g}
      PROVE  ContentInv'
  <2>1. Parent(c) \in Seq(Name)
    <3>1. <<>> \in Seq(Name)
      OBVIOUS
    <3>. QED  BY <1>1, <1>3, <3>1
  <2>2. /\ g \in Seq(Name) /\ Len(g) = Len(Parent(c)) + 1 /\ g[Len(g)] = Head(Todo(c))
        /\ Parent(c) = SubSeq(g, 1, Len(g) - 1)
    BY <1>3, <1>6, <2>1
  <2>3. g # <<>> /\ (Parent(c) # <<>> => Len(g) > 1)
    BY <2>1, <2>2
  <2>. QED  BY <1>1, <1>6, <2>2, <2>3, GoesDown
<1>7. CASE FindsGroup(c)
  BY <1>4, <1>5, <1>7 DEF FindsGroup, Found, Beyond
<1>8. CASE CreatesGroup(c)
  BY <1>4, <1>6, <1>8 DEF CreatesGroup
<1>. QED  BY <1>7, <1>8

LEMMA StepKeepsContent == GitLabInv /\ ContentInv /\ [GitLabNext]_gitlabVars => ContentInv'
<1>1. CASE UNCHANGED gitlabVars
  BY <1>1 DEF gitlabVars, ContentInv, Written
<1>2. ASSUME GitLabInv, ContentInv, NEW c \in Caller, CallStep(c) PROVE ContentInv'
  BY <1>2, SettersWriteNoFile, DeletersWriteNoFile, CommittersWriteWhole, GroupersGoDown
     DEF CallStep
<1>. QED  BY <1>1, <1>2, StartsWriteNothing, BreaksWriteNothing DEF GitLabNext

(* The invariants from which the theorems below follow.                     *)
THEOREM GitLabInvariant == GitLabSpec => []GitLabInv
BY InitGitLabInv, StepKeepsGitLab, PTL DEF GitLabSpec

(* Setters of the same variables never make each other fail.                *)
THEOREM SettersDoNotClash == GitLabSpec => []SetNeverRefused
<1>1. GitLabInv => SetNeverRefused
  BY DEF GitLabInv, Fits, SetterFits, SetNeverRefused
<1>. QED  BY GitLabInvariant, <1>1, PTL

(* A deletion that was answered ok has freed the path for good.             *)
THEOREM DeletionFreesPath == GitLabSpec => []DeletedIsGone
<1>1. GitLabInv => DeletedIsGone
  BY DEF GitLabInv, Fits, DeleterFits, DeletedIsGone
<1>. QED  BY GitLabInvariant, <1>1, PTL


THEOREM ContentInvariant == GitLabSpec => []ContentInv
BY InitContentInv, StepKeepsContent, GitLabInvariant, PTL DEF GitLabSpec

(* A commit changes every file it was asked for or none, whatever fails and *)
(* whoever commits meanwhile.                                               *)
THEOREM CommitsAreWhole == GitLabSpec => []CommitsWhole
<1>1. ContentInv => CommitsWhole
  BY DEF ContentInv, CommitterFits, Written, CommitsWhole
<1>. QED  BY ContentInvariant, <1>1, PTL

(* A hierarchy that was answered ok ends in a group of the names asked for. *)
THEOREM HierarchyIsAsAsked == GitLabSpec => []LeafUnderPath
<1>1. ASSUME NEW a, NEW b, NEW g \in Seq(Name), EndsIn(g, a, b) PROVE IsSuffix(<<a, b>>, g)
  BY <1>1 DEF EndsIn, IsSuffix, IsPrefix, Reverse
<1>2. ContentInv => LeafUnderPath
  <2>. SUFFICES ASSUME ContentInv, NEW c \in Caller, call[c].op = "groups", call[c].end = "ok"
                PROVE  call[c].at \in groups /\ IsSuffix(call[c].list, call[c].at)
    BY DEF LeafUnderPath
  <2>1. PICK a \in Name, b \in Name : /\ call[c].list = <<a, b>> /\ call[c].at \in groups
                                      /\ EndsIn(call[c].at, a, b)
    BY DEF ContentInv, GrouperFits
  <2>. QED  BY <1>1, <2>1 DEF ContentInv
<1>. QED  BY ContentInvariant, <1>2, PTL

-----------------------------------------------------------------------------
(* The types of what the calls work on, and of the calls.                   *)
WriterPlaces == {"commit", "read", "create", "update", "remove"}
CallShape(x) ==
    /\ x.page \in Nat /\ x.hurt \in BOOLEAN /\ x.end \in {"open", "ok", "error", "refused"}
    /\ x.pc = "done" <=> x.end # "open"
    /\ x.pc \in WriterPlaces => x.op = "commit"
CallsShaped == \A c \in Caller : CallShape(call[c])
Shape ==
    /\ project \in {"live", "pending", "gone"} /\ image \in BOOLEAN /\ packages \subseteq Kept
    /\ files \in [Path -> Caller \cup {Nobody}] /\ wrote \subseteq Caller \X Path
    /\ CallsShaped

LEMMA OneShaped ==
    ASSUME CallsShaped, NEW c \in Caller, \A d \in Caller \ {c} : call'[d] = call[d],
           CallShape(call'[c])
    PROVE  CallsShaped'
<1>1. \A d \in Caller : CallShape(call'[d])
  BY DEF CallsShaped
<1>. QED  BY <1>1 DEF CallsShaped

LEMMA TurnShaped ==
    ASSUME CallsAre, CallsShaped, NEW c \in Caller, call[c].pc # "done", NEW pc, pc # "done",
           pc \in WriterPlaces => call[c].op = "commit", Turns(c, pc)
    PROVE  CallsShaped'
<1>1. /\ \A d \in Caller \ {c} : call'[d] = call[d]
      /\ call'[c].pc = pc /\ call'[c].op = call[c].op
      /\ call'[c].hurt = call[c].hurt /\ call'[c].end = call[c].end
  BY TurnsTo
<1>2. call'[c].page = call[c].page
  BY DEF CallsAre, Turns, Field
<1>3. CallShape(call'[c])
  BY <1>1, <1>2 DEF CallsShaped, CallShape
<1>. QED  BY <1>1, <1>3, OneShaped

LEMMA AnswerShaped ==
    ASSUME CallsAre, CallsShaped, NEW c \in Caller, NEW end \in {"ok", "error", "refused"}, Answers(c, end)
    PROVE  CallsShaped'
<1>1. /\ \A d \in Caller \ {c} : call'[d] = call[d]
      /\ call'[c].pc = "done" /\ call'[c].hurt = call[c].hurt /\ call'[c].end = end
  BY AnswersWith
<1>2. call'[c].page = call[c].page
  BY DEF CallsAre, Answers, Field
<1>3. CallShape(call'[c])
  BY <1>1, <1>2 DEF CallsShaped, CallShape, WriterPlaces
<1>. QED  BY <1>1, <1>3, OneShaped

LEMMA NextShaped ==
    ASSUME CallsAre, CallsShaped, NEW c \in Caller, call[c].pc # "done", NextKey(c)
    PROVE  CallsShaped'
<1>1. CASE Len(Todo(c)) = 1
  BY <1>1, AnswerShaped DEF NextKey
<1>2. CASE Len(Todo(c)) # 1
  <2>1. call' = [call EXCEPT ![c].pc = "look", ![c].todo = Tail(@)]
    BY <1>2 DEF NextKey
  <2>2. /\ \A d \in Caller \ {c} : call'[d] = call[d]
        /\ call'[c].pc = "look" /\ call'[c].page = call[c].page
        /\ call'[c].hurt = call[c].hurt /\ call'[c].end = call[c].end
    BY <2>1 DEF CallsAre, Field
  <2>3. CallShape(call'[c])
    BY <2>2 DEF CallsShaped, CallShape, WriterPlaces
  <2>. QED  BY <2>2, <2>3, OneShaped
<1>. QED  BY <1>1, <1>2

LEMMA DescentShaped ==
    ASSUME CallsAre, CallsShaped, NEW c \in Caller, call[c].pc # "done", NEW g, Descends(c, g)
    PROVE  CallsShaped'
<1>1. /\ \A d \in Caller \ {c} : call'[d] = call[d]
      /\ call'[c].page = call[c].page /\ call'[c].hurt = call[c].hurt
  BY DEF Descends, CallsAre, Field
<1>2. \/ call'[c].pc = "done" /\ call'[c].end = "ok"
      \/ call'[c].pc = "group" /\ call'[c].end = call[c].end
  <2>1. CASE Len(Todo(c)) = 1
    <3>1. call' = [call EXCEPT ![c].pc = "done", ![c].end = "ok", ![c].at = g]
      BY <2>1 DEF Descends
    <3>. QED  BY <3>1 DEF CallsAre, Field
  <2>2. CASE Len(Todo(c)) # 1
    <3>1. call' = [call EXCEPT ![c].pc = "group", ![c].at = g, ![c].todo = Tail(call[c].todo)]
      BY <2>2 DEF Descends
    <3>. QED  BY <3>1 DEF CallsAre, Field
  <2>. QED  BY <2>1, <2>2
<1>3. CallShape(call'[c])
  BY <1>1, <1>2 DEF CallsShaped, CallShape, WriterPlaces
<1>. QED  BY <1>1, <1>3, OneShaped

(* The files that a list of changes names.                                  *)
LEMMA CommitNames ==
    ASSUME ContentInv, NEW c \in Caller, call[c].pc \in {"commit", "read", "create", "update", "remove"},
           call[c].op = "commit"
    PROVE  Asked(Todo(c)) \subseteq Path /\ File(c) \in Path
<1>1. Todo(c) \in ActLists
  BY DEF ContentInv, CommitterFits, Todo
<1>2. \A x \in Acts : x[1] \in Path
  BY DEF Acts
<1>3. CASE \E x \in Acts : Todo(c) = <<x>>
  <2>1. PICK x \in Acts : Todo(c) = <<x>>
    BY <1>3
  <2>2. DOMAIN Todo(c) = {1} /\ Todo(c)[1] = x
    BY <2>1
  <2>. QED  BY <1>2, <2>2 DEF Asked, File
<1>4. CASE \E x, y \in Acts : Todo(c) = <<x, y>>
  <2>1. PICK x \in Acts, y \in Acts : Todo(c) = <<x, y>>
    BY <1>4
  <2>2. DOMAIN Todo(c) = {1, 2} /\ Todo(c)[1] = x /\ Todo(c)[2] = y
    BY <2>1
  <2>. QED  BY <1>2, <2>2 DEF Asked, File
<1>. QED  BY <1>1, <1>3, <1>4 DEF ActLists

LEMMA SaveShaped ==
    ASSUME CallsAre, Shape, NEW c \in Caller, NEW action, File(c) \in Path, Saves(c, action)
    PROVE  Shape'
<1>1. CallsShaped'
  BY AnswerShaped DEF Saves, Shape
<1>2. files' \in [Path -> Caller \cup {Nobody}] /\ wrote' \subseteq Caller \X Path
  BY DEF Saves, Changed, Shape, Repository
<1>. QED  BY <1>1, <1>2 DEF Saves, Shape, Beyond, Registry

LEMMA StartsShaped == ASSUME GitLabInv, Shape, NEW c \in Caller, CallStarts(c) PROVE Shape'
<1>1. ASSUME NEW op, NEW pc, NEW todo, Begins(c, op, pc, todo), pc # "done",
             pc \in WriterPlaces => op = "commit"
      PROVE  Shape'
  <2>1. /\ \A d \in Caller \ {c} : call'[d] = call[d]
        /\ call'[c].op = op /\ call'[c].pc = pc
        /\ call'[c].hurt = ~Reachable /\ call'[c].end = "open"
    BY <1>1, BeginsWith DEF GitLabInv
  <2>2. call'[c].page = 0
    BY <1>1 DEF Begins, GitLabInv, CallsAre, IdleCall, Field
  <2>3. call'[c].hurt \in BOOLEAN
    BY <2>1 DEF Reachable
  <2>4. CallShape(call'[c])
    BY <1>1, <2>1, <2>2, <2>3 DEF CallShape
  <2>5. CallsShaped'
    BY <2>1, <2>4, OneShaped DEF Shape
  <2>. QED  BY <1>1, <2>5 DEF Begins, Shape, Beyond, Registry, Repository
<1>2. ASSUME NEW todo PROVE Routed(todo) # "done"
  BY DEF Routed
<1>. QED  BY <1>1, <1>2 DEF CallStarts, WriterPlaces

LEMMA BreaksShaped == ASSUME GitLabInv, Shape, NEW c \in Caller, Breaks(c) PROVE Shape'
<1>1. /\ \A d \in Caller \ {c} : call'[d] = call[d]
      /\ call'[c].page = call[c].page /\ call'[c].hurt
      /\ call'[c].pc = "done" /\ call'[c].end \in {"error", "refused"}
  BY DEF Breaks, Failure, GitLabInv, CallsAre, Field
<1>2. call'[c].hurt = TRUE
  BY DEF Breaks, Failure, GitLabInv, CallsAre, Field
<1>3. CallShape(call'[c])
  BY <1>1, <1>2 DEF Shape, CallsShaped, CallShape, WriterPlaces
<1>4. CallsShaped'
  BY <1>1, <1>3, OneShaped DEF Shape
<1>. QED  BY <1>4 DEF Breaks, Shape, Beyond, Registry, Repository

LEMMA DropShaped ==
    ASSUME GitLabInv, Shape, NEW c \in Caller, DropsVariable(c)
    PROVE  CallsShaped'
<1>1. call' = [d \in Caller |-> IF d = c THEN [call[d] EXCEPT !.pc = "done", !.end = "ok"]
                                ELSE [call[d] EXCEPT !.hurt = @ \/ call[d].op = "set"]]
  BY Zenon DEF DropsVariable
<1>2. \A d \in Caller : DOMAIN call[d] = Field
  BY DEF GitLabInv, CallsAre
<1>3. CallsShaped
  BY DEF Shape
<1>4. CallShape(call'[c])
  <2>1. call'[c] = [call[c] EXCEPT !.pc = "done", !.end = "ok"]
    BY <1>1, Zenon
  <2>2. /\ call'[c].pc = "done" /\ call'[c].end = "ok"
        /\ call'[c].page = call[c].page /\ call'[c].hurt = call[c].hurt
    BY <1>2, <2>1 DEF Field
  <2>. QED  BY <1>3, <2>2 DEF CallsShaped, CallShape, WriterPlaces
<1>5. ASSUME NEW d \in Caller \ {c} PROVE CallShape(call'[d])
  <2>1. call'[d] = [call[d] EXCEPT !.hurt = call[d].hurt \/ call[d].op = "set"]
    BY <1>1, <1>5, Zenon
  <2>2. DOMAIN call[d] = Field /\ \A f \in {"op", "pc", "page", "end"} : f \in Field /\ f # "hurt"
    BY <1>2, <1>5 DEF Field
  <2>3. call'[d].hurt = (call[d].hurt \/ call[d].op = "set")
    BY <2>1, <2>2, Zenon DEF Field
  <2>4. call'[d].hurt \in BOOLEAN
    BY <2>3, Zenon
  <2>5. \A f \in {"op", "pc", "page", "end"} : call'[d][f] = call[d][f]
    BY <2>1, <2>2, Zenon
  <2>6. /\ call'[d].op = call[d].op /\ call'[d].pc = call[d].pc
        /\ call'[d].page = call[d].page /\ call'[d].end = call[d].end
    BY <2>5
  <2>. QED  BY <1>3, <1>5, <2>4, <2>6 DEF CallsShaped, CallShape
<1>. QED  BY <1>4, <1>5 DEF CallsShaped

LEMMA StepShaped ==
    ASSUME GitLabInv, ContentInv, Shape, NEW c \in Caller, CallStep(c)
    PROVE  Shape'
<1>. USE DEF Beyond, Registry, Repository
<1>1. CallsAre /\ CallsShaped
  BY DEF GitLabInv, Shape
<1>2. CASE SetLooks(c)
  <2>1. CallsShaped'
    BY <1>1, <1>2, TurnShaped DEF SetLooks, Is, WriterPlaces
  <2>. QED  BY <1>2, <2>1 DEF SetLooks, Shape
<1>3. CASE SetPuts(c)
  <2>1. CallsShaped'
    BY <1>1, <1>3, NextShaped, AnswerShaped DEF SetPuts, Is
  <2>. QED  BY <1>3, <2>1 DEF SetPuts, Shape
<1>4. CASE SetPosts(c)
  <2>1. CallsShaped'
    BY <1>1, <1>4, NextShaped, AnswerShaped, TurnShaped DEF SetPosts, Again, Is, WriterPlaces
  <2>. QED  BY <1>4, <2>1 DEF SetPosts, Shape
<1>5. CASE DropsVariable(c)
  <2>1. CallsShaped'
    BY <1>5, DropShaped
  <2>2. UNCHANGED <<project, image, packages, files, wrote>>
    BY <1>5, Zenon DEF DropsVariable
  <2>. QED  BY <2>1, <2>2 DEF Shape
<1>6. CASE Commits(c) \/ UpsertReads(c) \/ UpsertCreates(c) \/ UpsertUpdates(c) \/ DeletesFile(c)
  <2>1. /\ call[c].pc \in {"commit", "read", "create", "update", "remove"}
    BY <1>6 DEF Commits, UpsertReads, UpsertCreates, UpsertUpdates, DeletesFile, Is
  <2>2. call[c].op = "commit"
    BY <1>1, <2>1 DEF CallsShaped, CallShape, WriterPlaces
  <2>3. CASE UpsertReads(c)
    <3>1. CallsShaped'
      BY <1>1, <2>2, <2>3, TurnShaped DEF UpsertReads, Is
    <3>. QED  BY <2>3, <3>1 DEF UpsertReads, Shape
  <2>4. Asked(Todo(c)) \subseteq Path /\ File(c) \in Path
    BY <2>1, <2>2, CommitNames
  <2>5. CASE Commits(c)
    <3>1. CallsShaped'
      BY <1>1, <2>5, AnswerShaped DEF Commits
    <3>2. files' \in [Path -> Caller \cup {Nobody}]
      BY <2>5 DEF Commits, Shape
    <3>3. wrote' \subseteq Caller \X Path
      BY <2>4, <2>5 DEF Commits, Shape
    <3>. QED  BY <2>5, <3>1, <3>2, <3>3 DEF Commits, Shape
  <2>6. CASE UpsertCreates(c) \/ UpsertUpdates(c) \/ DeletesFile(c)
    BY <1>1, <2>4, <2>6, SaveShaped DEF UpsertCreates, UpsertUpdates, DeletesFile
  <2>. QED  BY <1>6, <2>3, <2>5, <2>6
<1>7. CASE FindsGroup(c)
  <2>1. CallsShaped'
    BY <1>1, <1>7, TurnShaped, DescentShaped DEF FindsGroup, Found, Is, WriterPlaces
  <2>. QED  BY <1>7, <2>1 DEF FindsGroup, Shape
<1>8. CASE CreatesGroup(c)
  <2>1. CallsShaped'
    BY <1>1, <1>8, AnswerShaped, DescentShaped DEF CreatesGroup, Is
  <2>. QED  BY <1>8, <2>1 DEF CreatesGroup, Shape
<1>9. CASE PurgesImages(c)
  <2>1. CallsShaped'
    BY <1>1, <1>9, TurnShaped DEF PurgesImages, Is, WriterPlaces
  <2>. QED  BY <1>9, <2>1 DEF PurgesImages, Shape
<1>10. CASE ListsPackages(c)
  <2>1. CallsShaped'
    <3>1. CASE Turns(c, "delete")
      BY <1>1, <1>10, <3>1, TurnShaped DEF ListsPackages, Is, WriterPlaces
    <3>2. CASE ~Turns(c, "delete")
      <4>. DEFINE n == PageAfter(call[c].page)
                  page == PageOf(n)
      <4>1. call' = [call EXCEPT ![c].pc = "package", ![c].page = n, ![c].list = page, ![c].todo = page]
        BY <1>10, <3>2 DEF ListsPackages
      <4>2. n \in Nat
        BY <1>1 DEF PageAfter, CallsShaped, CallShape
      <4>3. call[c].pc = "packages"
        BY <1>10 DEF ListsPackages, Is
      <4>. HIDE DEF n, page
      <4>4. /\ \A d \in Caller \ {c} : call'[d] = call[d]
            /\ call'[c].pc = "package" /\ call'[c].page = n
            /\ call'[c].hurt = call[c].hurt /\ call'[c].end = call[c].end
        BY <1>1, <4>1 DEF CallsAre, Field
      <4>5. CallShape(call'[c])
        BY <1>1, <4>2, <4>3, <4>4 DEF CallsShaped, CallShape, WriterPlaces
      <4>. QED  BY <1>1, <4>4, <4>5, OneShaped
    <3>. QED  BY <3>1, <3>2
  <2>. QED  BY <1>10, <2>1 DEF ListsPackages, Shape
<1>11. CASE DeletesPackage(c)
  <2>1. CallsShaped'
    <3>1. CASE Len(Todo(c)) > 1
      <4>1. /\ \A d \in Caller \ {c} : call'[d] = call[d]
            /\ call'[c].pc = call[c].pc /\ call'[c].op = call[c].op /\ call'[c].page = call[c].page
            /\ call'[c].hurt = call[c].hurt /\ call'[c].end = call[c].end
        BY <1>1, <1>11, <3>1 DEF DeletesPackage, CallsAre, Field
      <4>2. CallShape(call'[c])
        BY <1>1, <4>1 DEF CallsShaped, CallShape
      <4>. QED  BY <1>1, <4>1, <4>2, OneShaped
    <3>2. CASE ~(Len(Todo(c)) > 1)
      BY <1>1, <1>11, <3>2, TurnShaped DEF DeletesPackage, Is, WriterPlaces
    <3>. QED  BY <3>1, <3>2
  <2>. QED  BY <1>11, <2>1 DEF DeletesPackage, Shape
<1>12. CASE DeletesProject(c)
  <2>1. CallsShaped'
    <3>1. CASE Reachable /\ ~image
      <4>1. call' = [d \in Caller |-> IF d = c THEN [call[d] EXCEPT !.pc = "verify"]
                                      ELSE [call[d] EXCEPT !.hurt = TRUE]]
        BY <1>12, <3>1 DEF DeletesProject
      <4>2. call[c].pc = "delete"
        BY <1>12 DEF DeletesProject, Is
      <4>3. /\ call'[c].pc = "verify" /\ call'[c].page = call[c].page
            /\ call'[c].hurt = call[c].hurt /\ call'[c].end = call[c].end
        BY <1>1, <4>1 DEF CallsAre, Field
      <4>4. ASSUME NEW d \in Caller \ {c}
            PROVE  /\ call'[d].pc = call[d].pc /\ call'[d].page = call[d].page
                   /\ call'[d].op = call[d].op /\ call'[d].end = call[d].end
        BY <1>1, <4>1, <4>4 DEF CallsAre, Field
      <4>5. ASSUME NEW d \in Caller \ {c} PROVE call'[d].hurt = TRUE
        BY <1>1, <4>1, <4>5 DEF CallsAre, Field
      <4>6. CallShape(call'[c])
        BY <1>1, <4>2, <4>3 DEF CallsShaped, CallShape, WriterPlaces
      <4>7. ASSUME NEW d \in Caller \ {c} PROVE CallShape(call'[d])
        BY <1>1, <4>4, <4>5, <4>7 DEF CallsShaped, CallShape
      <4>. QED  BY <4>6, <4>7 DEF CallsShaped
    <3>2. CASE ~(Reachable /\ ~image)
      BY <1>1, <1>12, <3>2, AnswerShaped DEF DeletesProject
    <3>. QED  BY <3>1, <3>2
  <2>. QED  BY <1>12, <2>1 DEF DeletesProject, Shape
<1>13. CASE ChecksGone(c)
  <2>1. CallsShaped'
    BY <1>1, <1>13, AnswerShaped DEF ChecksGone, VerifiesGone
  <2>. QED  BY <1>13, <2>1 DEF ChecksGone, Shape
<1>. QED  BY <1>2, <1>3, <1>4, <1>5, <1>6, <1>7, <1>8, <1>9, <1>10, <1>11, <1>12, <1>13 DEF CallStep

LEMMA StepKeepsShape == GitLabInv /\ ContentInv /\ Shape /\ [GitLabNext]_gitlabVars => Shape'
<1>1. CASE UNCHANGED gitlabVars
  BY <1>1 DEF gitlabVars, Shape, CallsShaped
<1>. QED  BY <1>1, StartsShaped, StepShaped, BreaksShaped DEF GitLabNext

LEMMA InitShape == GitLabInit => Shape
<1>. SUFFICES ASSUME GitLabInit PROVE Shape
  OBVIOUS
<1>1. \A c \in Caller : call[c] = IdleCall
  BY DEF GitLabInit
<1>2. CallShape(IdleCall)
  BY DEF CallShape, IdleCall, WriterPlaces
<1>3. CallsShaped
  BY <1>1, <1>2 DEF CallsShaped
<1>4. files \in [Path -> Caller \cup {Nobody}]
  BY DEF GitLabInit
<1>. QED  BY <1>3, <1>4 DEF GitLabInit, Shape

LEMMA ShapeTyped == GitLabInv /\ ContentInv /\ Shape => GitLabTypeOK
<1>. SUFFICES ASSUME GitLabInv, ContentInv, Shape PROVE GitLabTypeOK
  OBVIOUS
<1>1. groups \subseteq Seq(Name) \ {<<>>}
  BY DEF ContentInv
<1>2. vars \in [CiKey -> Caller \cup {Nobody}]
  BY DEF GitLabInv
<1>3. \A c \in Caller : /\ call[c].page \in Nat /\ call[c].hurt \in BOOLEAN
                        /\ call[c].end \in {"open", "ok", "error", "refused"}
                        /\ Is(c, "done") <=> call[c].end # "open"
  BY DEF Shape, CallsShaped, CallShape, Is
<1>4. project \in {"live", "pending", "gone"} /\ image \in BOOLEAN /\ packages \subseteq Kept
  BY DEF Shape
<1>5. files \in [Path -> Caller \cup {Nobody}] /\ wrote \subseteq Caller \X Path
  BY DEF Shape
<1>. QED  BY <1>1, <1>2, <1>3, <1>4, <1>5 DEF GitLabTypeOK

(* GitLab's state and the calls keep their types, for any number of calls:  *)
(* a call is answered exactly when it is done.                              *)
THEOREM GitLabTyped == GitLabSpec => []GitLabTypeOK
<1>. QED  BY InitShape, ShapeTyped, StepKeepsShape, GitLabInvariant, ContentInvariant, PTL DEF GitLabSpec

=============================================================================
