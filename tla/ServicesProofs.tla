--------------------------- MODULE ServicesProofs ----------------------------
(***************************************************************************)
(* What holds of the two surfaces of the platform for any requests and any *)
(* clicks: the audit log names the caller of every entry, and what stands  *)
(* on a console page, in a form or in a save belongs to what the page says *)
(* it belongs to.  At the end, what holds of the parts holds of all of     *)
(* them side by side.                                                      *)
(***************************************************************************)
EXTENDS MCServices, McpAccessProofs, WatchdogProofs, GitLabClientProofs, KubeClientProofs,
        SequenceTheorems, TLAPS

-----------------------------------------------------------------------------
(* The API: what a handler has still to do.                                 *)
Words(op) == {"reads", "changes", "answers"} \cup MayWrite(op)
Plan(op, s) == s \in Seq(Words(op)) /\ s # <<>> /\ s[Len(s)] = "answers"
EntryOf(r) == [event |-> "env.profile.revealed", actor |-> ActorOf(sent[r])]

(* What is left to do of revealing a profile.                               *)
ToReveal == <<"reads", "env.profile.revealed", "answers">>
ToRecord == <<"env.profile.revealed", "answers">>
ToAnswer == <<"answers">>

InHandler(r) ==
    /\ store[r] = ActorOf(sent[r])
    /\ IF rest[r] = <<>> THEN sent[r].op = "reconcileGitLabProjects" ELSE Plan(sent[r].op, rest[r])
    /\ sent[r].op = "envProfileContent" =>
          \/ rest[r] \in {ToReveal, ToRecord}
          \/ rest[r] = ToAnswer /\ EntryOf(r) \in audit

RequestFits(r) ==
    /\ at[r] # "none" => sent[r] \in Header
    /\ at[r] \in {"handler", "answered", "failed"} => sent[r].via = "mcp" \/ Admitted(sent[r])
    /\ at[r] = "handler" => InHandler(r)
    /\ at[r] = "answered" /\ sent[r].op = "envProfileContent" => EntryOf(r) \in audit

Caused(e) ==
    \E r \in Http : /\ at[r] \in {"handler", "answered", "failed"}
                    /\ e.event \in MayWrite(sent[r].op) /\ e.actor = ActorOf(sent[r])

ApiInv ==
    /\ setup \in [apiKey : BOOLEAN, oidc : BOOLEAN, group : BOOLEAN]
    /\ sent \in [Http -> Header \cup {Unsent}]
    /\ at \in [Http -> {"none", "guard", "handler", "answered", "failed", "refused"}]
    /\ rest = [r \in Http |-> rest[r]] /\ store = [r \in Http |-> store[r]]
    /\ running \in Http \cup {Alone}
    /\ \A r \in Http : RequestFits(r)
    /\ \A e \in audit : Caused(e)

(* Every plan of a handler is words of its operation that end in an answer. *)
LEMMA WordsInPlan ==
    ASSUME NEW op, NEW s \in Handler(op), NEW i \in DOMAIN s
    PROVE  s[i] \in Words(op)
<1>1. CASE s[i] \in {"reads", "changes", "answers"}
  BY <1>1 DEF Words
<1>2. CASE s[i] \notin {"reads", "changes", "answers"}
  <2>1. i \in Events(s)
    BY <1>2 DEF Events
  <2>. QED  BY <2>1 DEF Words, MayWrite
<1>. QED  BY <1>1, <1>2

LEMMA EveryPlan ==
    ASSUME NEW op, NEW s \in Handler(op)
    PROVE  /\ Plan(op, s)
           /\ op = "envProfileContent" => s = ToReveal
<1>1. /\ DOMAIN s \in {1 .. 2, 1 .. 3, 1 .. 4, 1 .. 5}
      /\ s = [i \in DOMAIN s |-> s[i]]
      /\ \A n \in {2, 3, 4, 5} : DOMAIN s = 1 .. n => s[n] = "answers"
      /\ op = "envProfileContent" => s = ToReveal
  <2>1. PICK g \in Handlers : g[1] = op /\ g[2] = s
    BY DEF Handler
  <2>2. CASE g \in (Queries \cup MayFindDone) \X {<<"reads", "answers">>}
    BY <2>1, <2>2 DEF Queries, MayFindDone
  <2>3. CASE g \in Unaudited \X {<<"changes", "answers">>}
    BY <2>1, <2>3 DEF Unaudited
  <2>4. CASE g \in {<<e[1], <<"changes", e[2], "answers">>>> : e \in AuditedAfter}
    <3>1. PICK e \in AuditedAfter : op = e[1] /\ s = <<"changes", e[2], "answers">>
      BY <2>1, <2>4
    <3>2. e[1] # "envProfileContent"
      BY DEF AuditedAfter, NewProjectEvents, ProjectEvents, TargetEvents, SonarEvents,
             ProfileEvents, KeyEvents
    <3>. QED  BY <3>1, <3>2
  <2>9. CASE g \in {<<e[1], WithSonar(e[2])>> : e \in NewProjectEvents}
    <3>1. PICK e \in NewProjectEvents : op = e[1] /\ s = WithSonar(e[2])
      BY <2>1, <2>9
    <3>2. e[1] # "envProfileContent"
      BY DEF NewProjectEvents
    <3>. QED  BY <3>1, <3>2 DEF WithSonar
  <2>5. CASE g \in {"envProfileContent"} \X Reveal
    BY <2>1, <2>5 DEF Reveal, ToReveal
  <2>6. CASE g \in {"appContainerLogs"} \X ReadLogs
    BY <2>1, <2>6 DEF ReadLogs
  <2>7. CASE g \in {"deleteProject"} \X Delete
    BY <2>1, <2>7 DEF Delete
  <2>8. CASE g \in {"reconcileGitLabProjects"} \X Reconcile
    BY <2>1, <2>8 DEF Reconcile
  <2>. QED  BY <2>2, <2>3, <2>4, <2>5, <2>6, <2>7, <2>8, <2>9 DEF Handlers
<1>2. PICK n \in {2, 3, 4, 5} : DOMAIN s = 1 .. n
  BY <1>1
<1>3. \A i \in 1 .. n : s[i] \in Words(op)
  BY <1>2, WordsInPlan
<1>4. s \in Seq(Words(op)) /\ Len(s) = n
  BY <1>1, <1>2, <1>3
<1>. QED  BY <1>1, <1>2, <1>4 DEF Plan

(* What is left of a plan once its first word is done.                      *)
LEMMA RestOfPlan ==
    ASSUME NEW op, NEW s, Plan(op, s)
    PROVE  /\ Head(s) \in Words(op)
           /\ Head(s) # "answers" => Plan(op, Tail(s))
<1>1. s \in Seq(Words(op)) /\ Len(s) \in Nat \ {0} /\ Head(s) = s[1] /\ s[Len(s)] = "answers"
  BY DEF Plan
<1>2. Head(s) \in Words(op)
  BY <1>1
<1>3. ASSUME Head(s) # "answers" PROVE Plan(op, Tail(s))
  <2>1. Len(s) # 1
    BY <1>1, <1>3
  <2>2. /\ Tail(s) \in Seq(Words(op)) /\ Len(Tail(s)) = Len(s) - 1
        /\ \A i \in 1 .. Len(s) - 1 : Tail(s)[i] = s[i + 1]
    BY <1>1
  <2>3. Len(s) - 1 \in 1 .. Len(s) - 1 /\ Len(s) - 1 + 1 = Len(s)
    BY <1>1, <2>1
  <2>4. Tail(s)[Len(Tail(s))] = "answers" /\ Len(Tail(s)) # 0
    BY <1>1, <2>2, <2>3
  <2>5. Tail(s) # <<>>
    <3>1. \A t \in Seq(Words(op)) : Len(t) # 0 => t # <<>>
      OBVIOUS
    <3>. QED  BY <2>2, <2>4, <3>1
  <2>. QED  BY <2>2, <2>4, <2>5 DEF Plan
<1>. QED  BY <1>2, <1>3

LEMMA InitApi == ApiInit => ApiInv
<1>. SUFFICES ASSUME ApiInit PROVE ApiInv
  OBVIOUS
<1>1. setup \in [apiKey : BOOLEAN, oidc : BOOLEAN, group : BOOLEAN]
  BY AccessAssumption DEF ApiInit, AccessAssumption
<1>. QED  BY <1>1 DEF ApiInit, ApiInv, RequestFits

(* Who a request comes from, and whether it is let in, is settled by what   *)
(* it brought.                                                              *)
Settled(r) == sent'[r] = sent[r] /\ setup' = setup

LEMMA SameCaller ==
    ASSUME NEW r \in Http, Settled(r)
    PROVE  /\ ActorOf(sent[r])' = ActorOf(sent[r])
           /\ Admitted(sent[r])' = Admitted(sent[r])
           /\ EntryOf(r)' = EntryOf(r)
<1>1. ActorOf(sent[r])' = ActorOf(sent[r])
  BY DEF ActorOf, Settled
<1>2. Admitted(sent[r])' = Admitted(sent[r])
  BY DEF Admitted, TokenAccepted, Settled
<1>. QED  BY <1>1, <1>2 DEF EntryOf

(* A request that stays where it is keeps what holds of it.                 *)
LEMMA RequestRests ==
    ASSUME NEW r \in Http, RequestFits(r), Settled(r), at'[r] = at[r], rest'[r] = rest[r],
           store'[r] = store[r], audit \subseteq audit'
    PROVE  RequestFits(r)'
<1>1. /\ ActorOf(sent[r])' = ActorOf(sent[r]) /\ Admitted(sent[r])' = Admitted(sent[r])
      /\ EntryOf(r)' = EntryOf(r) /\ sent'[r] = sent[r]
  BY SameCaller DEF Settled
<1>. QED  BY <1>1 DEF RequestFits, InHandler

(* An entry remains that of its caller.                                     *)
LEMMA EntriesRest ==
    ASSUME NEW e, Caused(e), setup' = setup,
           \A r \in Http : at[r] \in {"handler", "answered", "failed"} =>
               sent'[r] = sent[r] /\ at'[r] \in {"handler", "answered", "failed"}
    PROVE  Caused(e)'
<1>1. PICK r \in Http : /\ at[r] \in {"handler", "answered", "failed"}
                        /\ e.event \in MayWrite(sent[r].op) /\ e.actor = ActorOf(sent[r])
  BY DEF Caused
<1>2. Settled(r)
  BY <1>1 DEF Settled
<1>3. ActorOf(sent[r])' = ActorOf(sent[r]) /\ sent'[r] = sent[r]
  BY <1>2, SameCaller DEF Settled
<1>. QED  BY <1>1, <1>3 DEF Caused

LEMMA RevealSteps ==
    /\ Head(ToReveal) = "reads" /\ Tail(ToReveal) = ToRecord
    /\ Head(ToRecord) = "env.profile.revealed" /\ Tail(ToRecord) = ToAnswer
    /\ Head(ToAnswer) = "answers"
BY DEF ToReveal, ToRecord, ToAnswer

(* The invariant after a step: what does not move is as it was.             *)
LEMMA ApiStepFits ==
    ASSUME ApiInv, NEW moved \in SUBSET Http, setup' = setup, audit \subseteq audit',
           sent' \in [Http -> Header \cup {Unsent}],
           at' \in [Http -> {"none", "guard", "handler", "answered", "failed", "refused"}],
           rest' = [r \in Http |-> rest'[r]], store' = [r \in Http |-> store'[r]],
           running' \in Http \cup {Alone},
           \A r \in Http \ moved : /\ sent'[r] = sent[r] /\ at'[r] = at[r]
                                   /\ rest'[r] = rest[r] /\ store'[r] = store[r],
           \A r \in moved : RequestFits(r)',
           \A r \in moved : at[r] \in {"handler", "answered", "failed"} =>
               sent'[r] = sent[r] /\ at'[r] \in {"handler", "answered", "failed"},
           \A e \in audit' \ audit : Caused(e)'
    PROVE  ApiInv'
<1>1. ASSUME NEW r \in Http PROVE RequestFits(r)'
  <2>1. CASE r \in moved
    BY <2>1
  <2>2. CASE r \notin moved
    BY <2>2, RequestRests DEF ApiInv, Settled
  <2>. QED  BY <2>1, <2>2
<1>2. ASSUME NEW e \in audit' PROVE Caused(e)'
  <2>1. CASE e \in audit
    <3>1. Caused(e)
      BY <2>1 DEF ApiInv
    <3>. QED  BY <3>1, EntriesRest
  <2>. QED  BY <2>1
<1>. QED  BY <1>1, <1>2 DEF ApiInv

LEMMA ReceivesKeep ==
    ASSUME ApiInv, NEW r \in Http, NEW h \in Header, Receives(r, h) PROVE ApiInv'
<1>1. RequestFits(r)'
  BY DEF ApiInv, Receives, RequestFits
<1>. QED  BY <1>1, ApiStepFits, {r} \in SUBSET Http DEF ApiInv, Receives

LEMMA RefusesKeep == ASSUME ApiInv, NEW r \in Http, Refuses(r) PROVE ApiInv'
<1>1. RequestFits(r)'
  BY DEF ApiInv, Refuses, RequestFits
<1>. QED  BY <1>1, ApiStepFits, {r} \in SUBSET Http DEF ApiInv, Refuses

LEMMA AdmitsKeep == ASSUME ApiInv, NEW r \in Http, Admits(r) PROVE ApiInv'
<1>1. /\ at[r] = "guard" /\ sent[r] \in Header /\ Settled(r) /\ sent'[r] = sent[r]
      /\ sent[r].via = "mcp" \/ Admitted(sent[r])
      /\ at'[r] = "handler" /\ store'[r] = ActorOf(sent[r])
  BY DEF ApiInv, Admits, Enters, RequestFits, Settled
<1>2. /\ rest' = [q \in Http |-> rest'[q]] /\ \A q \in Http \ {r} : rest'[q] = rest[q]
      /\ running' \in Http \cup {Alone}
      /\ \/ rest'[r] = <<>> /\ sent[r].op = "reconcileGitLabProjects"
         \/ rest'[r] \in Handler(sent[r].op)
  BY DEF ApiInv, Admits, Joins
<1>3. IF rest'[r] = <<>> THEN sent[r].op = "reconcileGitLabProjects"
      ELSE Plan(sent[r].op, rest'[r])
  BY <1>2, EveryPlan DEF Plan
<1>4. sent[r].op = "envProfileContent" => rest'[r] = ToReveal
  BY <1>2, EveryPlan
<1>5. RequestFits(r)'
  <2>1. ActorOf(sent[r])' = ActorOf(sent[r]) /\ Admitted(sent[r])' = Admitted(sent[r])
    BY <1>1, SameCaller
  <2>. QED  BY <1>1, <1>3, <1>4, <2>1 DEF RequestFits, InHandler
<1>. QED  BY <1>1, <1>2, <1>5, ApiStepFits, {r} \in SUBSET Http DEF ApiInv, Admits, Enters

(* A handler under way.                                                     *)
LEMMA HandlerUnderWay ==
    ASSUME ApiInv, NEW r \in Http, HasNext(r)
    PROVE  /\ at[r] = "handler" /\ rest[r] # <<>> /\ sent[r] \in Header
           /\ RequestFits(r) /\ InHandler(r) /\ Plan(sent[r].op, rest[r])
           /\ sent[r].via = "mcp" \/ Admitted(sent[r])
BY DEF ApiInv, HasNext, RequestFits, InHandler

LEMMA AwaitsKeep == ASSUME ApiInv, NEW r \in Http, Awaits(r) PROVE ApiInv'
<1>1. /\ at[r] = "handler" /\ rest[r] # <<>> /\ sent[r] \in Header
      /\ RequestFits(r) /\ InHandler(r) /\ Plan(sent[r].op, rest[r])
  BY HandlerUnderWay DEF Awaits
<1>2. /\ Settled(r) /\ rest'[r] = Tail(rest[r]) /\ at'[r] = at[r] /\ store'[r] = store[r]
      /\ audit' = audit /\ sent'[r] = sent[r] /\ Head(rest[r]) \in {"reads", "changes"}
  BY DEF Awaits, Steps, ApiInv, Settled
<1>3. Plan(sent[r].op, Tail(rest[r])) /\ Tail(rest[r]) # <<>>
  BY <1>1, <1>2, RestOfPlan DEF Plan
<1>4. sent[r].op = "envProfileContent" => rest'[r] = ToRecord
  BY <1>1, <1>2, RevealSteps DEF InHandler
<1>5. RequestFits(r)'
  <2>1. /\ ActorOf(sent[r])' = ActorOf(sent[r]) /\ Admitted(sent[r])' = Admitted(sent[r])
    BY <1>2, SameCaller
  <2>. QED  BY <1>1, <1>2, <1>3, <1>4, <2>1 DEF RequestFits, InHandler
<1>. QED  BY <1>1, <1>2, <1>5, ApiStepFits, {r} \in SUBSET Http DEF ApiInv, Awaits, Steps

LEMMA EntryKeeps == ASSUME ApiInv, NEW r \in Http, WritesEntry(r) PROVE ApiInv'
<1>. DEFINE e == [event |-> Head(rest[r]), actor |-> store[r]]
<1>1. /\ at[r] = "handler" /\ rest[r] # <<>> /\ sent[r] \in Header
      /\ RequestFits(r) /\ InHandler(r) /\ Plan(sent[r].op, rest[r])
  BY HandlerUnderWay DEF WritesEntry
<1>2. /\ Settled(r) /\ rest'[r] = Tail(rest[r]) /\ at'[r] = at[r] /\ store'[r] = store[r]
      /\ audit' = audit \cup {e} /\ sent'[r] = sent[r]
      /\ Head(rest[r]) \notin {"reads", "changes", "answers"}
  BY DEF WritesEntry, Steps, ApiInv, Settled
<1>3. /\ Plan(sent[r].op, Tail(rest[r])) /\ Tail(rest[r]) # <<>>
      /\ e.event \in MayWrite(sent[r].op) /\ e.actor = ActorOf(sent[r])
  BY <1>1, <1>2, RestOfPlan DEF Plan, Words, InHandler
<1>4. /\ ActorOf(sent[r])' = ActorOf(sent[r]) /\ Admitted(sent[r])' = Admitted(sent[r])
      /\ EntryOf(r)' = EntryOf(r)
  BY <1>2, SameCaller
<1>5. sent[r].op = "envProfileContent" => rest'[r] = ToAnswer /\ EntryOf(r) = e
  <2>1. ASSUME sent[r].op = "envProfileContent"
        PROVE  rest[r] = ToRecord
    BY <1>1, <1>2, <2>1, RevealSteps DEF InHandler
  <2>. QED  BY <1>1, <1>2, <2>1, RevealSteps DEF InHandler, EntryOf
<1>. HIDE DEF e
<1>6. RequestFits(r)'
  BY <1>1, <1>2, <1>3, <1>4, <1>5 DEF RequestFits, InHandler
<1>7. \A d \in audit' \ audit : Caused(d)'
  <2>. SUFFICES ASSUME NEW d, d = e PROVE Caused(d)'
    BY <1>2
  <2>. QED  BY <1>1, <1>2, <1>3, <1>4 DEF Caused
<1>. QED  BY <1>1, <1>2, <1>6, <1>7, ApiStepFits, {r} \in SUBSET Http DEF ApiInv, WritesEntry, Steps

(* A handler answers, or throws, for itself and those that joined it.       *)
LEMMA EndsKeepApi ==
    ASSUME ApiInv, NEW r \in Http, HasNext(r), NEW how \in {"answered", "failed"},
           EndsWith(r, how), how = "answered" => Head(rest[r]) = "answers"
    PROVE  ApiInv'
<1>1. Answered(r) \subseteq Http
  BY DEF Answered
<1>2. /\ setup' = setup /\ sent' = sent /\ store' = store /\ audit' = audit
      /\ \A q \in Http : at'[q] = IF q \in Answered(r) THEN how ELSE at[q]
      /\ \A q \in Http \ {r} : rest'[q] = rest[q]
      /\ rest' = [q \in Http |-> rest'[q]] /\ running' \in Http \cup {Alone}
  BY DEF EndsWith, ApiInv
<1>3. at' \in [Http -> {"none", "guard", "handler", "answered", "failed", "refused"}]
  BY DEF EndsWith, ApiInv
<1>4. ASSUME NEW q \in Answered(r)
      PROVE  RequestFits(q)' /\ at[q] = "handler" /\ at'[q] = how
  <2>1. /\ q \in Http /\ at[q] = "handler" /\ RequestFits(q)
        /\ q = r \/ rest[q] = <<>>
    BY HandlerUnderWay DEF Answered, ApiInv, HasNext
  <2>2. at'[q] = how /\ Settled(q) /\ sent'[q] = sent[q]
    BY <1>2, <2>1 DEF Settled
  <2>3. how = "answered" /\ sent[q].op = "envProfileContent" => EntryOf(q) \in audit
    BY <2>1, RevealSteps DEF RequestFits, InHandler
  <2>4. /\ Admitted(sent[q])' = Admitted(sent[q]) /\ EntryOf(q)' = EntryOf(q)
    BY <2>1, <2>2, SameCaller
  <2>. QED  BY <1>2, <2>1, <2>2, <2>3, <2>4 DEF RequestFits
<1>5. \A q \in Http \ Answered(r) : /\ sent'[q] = sent[q] /\ at'[q] = at[q]
                                    /\ rest'[q] = rest[q] /\ store'[q] = store[q]
  BY <1>2 DEF Answered
<1>. QED  BY <1>1, <1>2, <1>3, <1>4, <1>5, ApiStepFits DEF ApiInv

LEMMA StepKeepsApi == ApiInv /\ [ApiNext]_apiState => ApiInv'
<1>. SUFFICES ASSUME ApiInv, [ApiNext]_apiState PROVE ApiInv'
  OBVIOUS
<1>1. ASSUME NEW r \in Http, AnswersRequest(r) \/ HandlerThrows(r) PROVE ApiInv'
  BY <1>1, EndsKeepApi DEF AnswersRequest, HandlerThrows
<1>2. CASE UNCHANGED apiState
  BY <1>2, ApiStepFits, {} \in SUBSET Http DEF apiState, ApiInv
<1>. QED  BY <1>1, <1>2, ReceivesKeep, RefusesKeep, AdmitsKeep, AwaitsKeep, EntryKeeps DEF ApiNext

(* The invariant behind the audit log: a handler's context holds its own    *)
(* caller, and what it has still to do is the rest of its operation's plan. *)
THEOREM ApiInvariant == ApiSpec => []ApiInv
<1>. QED  BY InitApi, StepKeepsApi, PTL DEF ApiSpec

(* The audit log names the caller of every entry, and a profile's content   *)
(* is not answered before the entry about it.                               *)
THEOREM AuditIsTrue == ApiSpec => []AuditNamesCaller
<1>1. ApiInv => AuditNamesCaller
  <2>. SUFFICES ASSUME ApiInv PROVE AuditNamesCaller
    OBVIOUS
  <2>1. ASSUME NEW e \in audit, e.actor = "unknown" PROVE ~setup.apiKey /\ ~setup.oidc
    <3>1. PICK r \in Http : /\ at[r] \in {"handler", "answered", "failed"}
                            /\ e.actor = ActorOf(sent[r])
      BY DEF ApiInv, Caused
    <3>2. sent[r].via # "mcp" /\ Admitted(sent[r])
      BY <2>1, <3>1 DEF ApiInv, RequestFits, ActorOf
    <3>. QED  BY <2>1, <3>1, <3>2 DEF Admitted, ActorOf, ApiInv
  <2>. QED  BY <2>1 DEF ApiInv, AuditNamesCaller, Caused, RequestFits, EntryOf
<1>. QED  BY <1>1, ApiInvariant, PTL

LEMMA ApiTypes == ApiInv => ApiTypeOK
<1>1. \A r : ActorOf(sent[r]) \in {"mcp:prefix", "oidc:user", "api-key", "unknown"}
  BY DEF ActorOf
<1>. QED  BY <1>1 DEF ApiInv, ApiTypeOK, Caused

(* The state of the API is always well formed.                              *)
THEOREM ApiTyped == ApiSpec => []ApiTypeOK
BY ApiTypes, ApiInvariant, PTL

-----------------------------------------------------------------------------
(* The log view: loads are numbered apart, and the latest is for the choice *)
(* on the form.                                                             *)
LogFits ==
    /\ LogTypeOK
    /\ \A r \in loads : r.seq <= seq
    /\ \A r, q \in loads : r.seq = q.seq => r = q
    /\ asks # NoChoice => \A r \in loads : Latest(r) => r.asks = asks
    /\ LogsMatchChoice

LEMMA LogAppears == (Appears => LogFits') /\ (LogInit => LogFits)
<1>1. ASSUME Appears PROVE LogFits'
  BY <1>1, LogPanelAssumption
     DEF Appears, Unopened, LogFits, LogTypeOK, LogsMatchChoice, LogPanelAssumption
<1>2. ASSUME LogInit PROVE LogFits
  BY <1>2, LogPanelAssumption
     DEF LogInit, Unopened, LogFits, LogTypeOK, LogsMatchChoice, LogPanelAssumption
<1>. QED  BY <1>1, <1>2

(* A load begins: for the choice the form has from now on.                  *)
LEMMA LoadBegins ==
    ASSUME LogFits, NEW c \in Choice, NEW silent \in BOOLEAN, Asks(c, silent),
           asks' = c, silent => ~loading /\ asks = c
    PROVE  LogFits'
<1>. DEFINE new == [seq |-> seq + 1, silent |-> silent, asks |-> c]
<1>1. /\ seq \in 0 .. MaxLoads /\ seq < MaxLoads /\ seq' = seq + 1
      /\ loads' = loads \cup {new} /\ loading' = (loading \/ ~silent) /\ logs' = logs
      /\ loads \subseteq Load /\ MaxLoads \in Nat
      /\ logError' \in BOOLEAN /\ loading' \in BOOLEAN
  BY LogPanelAssumption DEF LogFits, LogTypeOK, Asks, LogPanelAssumption
<1>2. new \in Load /\ new.seq = seq + 1 /\ new.silent = silent /\ new.asks = c
  BY <1>1 DEF Load
<1>3. \A r \in loads : r.seq \in Nat /\ r.seq <= seq /\ r.seq # seq + 1
  BY <1>1 DEF Load, LogFits
<1>. HIDE DEF new
<1>4. LogTypeOK'
  BY <1>1, <1>2 DEF LogFits, LogTypeOK
<1>5. /\ \A r \in loads' : r.seq <= seq'
      /\ \A r, q \in loads' : r.seq = q.seq => r = q
      /\ \A r \in loads' : r.seq = seq' => r = new
  BY <1>1, <1>2, <1>3 DEF LogFits
<1>6. LogsMatchChoice'
  <2>1. CASE silent
    BY <1>1, <2>1 DEF LogFits, LogsMatchChoice
  <2>2. CASE ~silent
    BY <1>1, <1>2, <2>2 DEF LogsMatchChoice, Latest
  <2>. QED  BY <2>1, <2>2
<1>. QED  BY <1>2, <1>4, <1>5, <1>6 DEF LogFits, Latest

(* A load ends: it leaves the screen alone unless it is the latest.         *)
LEMMA LoadEnds ==
    ASSUME LogFits, NEW r \in loads, Loaded(r) \/ LoadFails(r)
    PROVE  LogFits'
<1>1. /\ loads' = loads \ {r} /\ asks' = asks /\ seq' = seq
      /\ \/ ~Latest(r) /\ UNCHANGED <<logs, loading, logError>>
         \/ /\ Latest(r) /\ loading' = (loading /\ r.silent)
            /\ logError' \in BOOLEAN
            /\ logs' = r.asks \/ logs' = NoChoice \/ (r.silent /\ logs' = logs)
  BY DEF Loaded, LoadFails, LogFits, LogTypeOK
<1>2. r \in Load /\ r.silent \in BOOLEAN /\ r.asks \in Choice
  BY DEF LogFits, LogTypeOK, Load
<1>3. LogTypeOK'
  BY <1>1, <1>2 DEF LogFits, LogTypeOK
<1>4. loading' => loading /\ \E q \in loads' : q.seq = seq' /\ ~q.silent
  <2>1. loading => \E q \in loads : q.seq = seq /\ ~q.silent
    BY DEF LogFits, LogsMatchChoice, Latest
  <2>2. loading' => loading /\ (r.seq = seq => r.silent)
    BY <1>1, <1>2 DEF Latest
  <2>. QED  BY <1>1, <2>1, <2>2
<1>5. asks' # NoChoice /\ ~loading' /\ logs' # NoChoice => logs' = asks'
  <2>1. CASE Latest(r) /\ loading
    <3>1. \E q \in loads : q.seq = seq /\ ~q.silent
      BY <2>1 DEF LogFits, LogsMatchChoice, Latest
    <3>2. ~r.silent
      BY <2>1, <3>1 DEF LogFits, Latest
    <3>. QED  BY <1>1, <2>1, <3>2 DEF LogFits
  <2>2. CASE ~(Latest(r) /\ loading)
    BY <1>1, <2>2 DEF LogFits, LogsMatchChoice
  <2>. QED  BY <2>1, <2>2
<1>. QED  BY <1>1, <1>3, <1>4, <1>5 DEF LogFits, LogsMatchChoice, Latest

LEMMA LogStepFits == ASSUME LogFits, LogNext PROVE LogFits'
<1>1. ASSUME NEW c \in Choice, Chooses(c) PROVE LogFits'
  <2>1. asks' = c /\ Asks(c, FALSE)
    BY <1>1, LogPanelAssumption DEF Chooses, LogPanelAssumption
  <2>. QED  BY <2>1, LoadBegins
<1>2. CASE Chooses(NoChoice)
  BY <1>2 DEF Chooses, LogFits, LogTypeOK, LogsMatchChoice, Latest
<1>3. CASE Refreshes \/ Polls
  <2>1. asks \in Choice /\ asks' = asks
    BY <1>3 DEF Refreshes, Polls, LogFits, LogTypeOK
  <2>2. CASE Refreshes
    BY <2>1, <2>2, LoadBegins DEF Refreshes
  <2>3. CASE Polls
    BY <2>1, <2>3, LoadBegins DEF Polls, MayPoll
  <2>. QED  BY <1>3, <2>2, <2>3
<1>. QED  BY <1>1, <1>2, <1>3, LoadEnds DEF LogNext

-----------------------------------------------------------------------------
(* The console page: the audit requests that still count are for the        *)
(* project of the open audit tab, and one of them is awaited while the pane *)
(* says it is loading.                                                      *)
AuditFits ==
    /\ \A r \in audits : r.live => selected # NoProject /\ tab = "audit" /\ r.id = selected.id
    /\ selected # NoProject /\ tab = "audit" /\ ~auditing => auditOf \in {selected.id, NoProject}
    /\ selected # NoProject /\ tab = "audit" /\ auditing =>
          \E r \in audits : r.live /\ r.id = selected.id

(* The log view is there with its tab; it is for the project of the pane    *)
(* unless an archived one was opened over it.                               *)
PanelFits ==
    selected # NoProject /\ tab = "app-logs" =>
        panelOf = selected.id \/ selected.status = "archived"

PaneFits ==
    /\ selected \in Row \cup {NoProject} /\ tab \in Tabs
    /\ audits \subseteq [id : Shown, live : BOOLEAN]
    /\ auditOf \in Shown \cup {NoProject} /\ auditing \in BOOLEAN
    /\ panelOf \in Shown \cup {NoProject}
    /\ AuditFits /\ LogFits /\ PanelFits

PageFits ==
    /\ registry \in [Shown -> [status : Status \cup {"gone"}, at : 0 .. MaxSaves]]
    /\ preferred \in Shown \cup {NoProject} /\ category \in Status
    /\ rows \subseteq Row /\ lists \subseteq Status
    /\ mutation \in [id : Shown, op : {"save", "delete"}] \cup {NoProject}
    /\ mutation # NoProject /\ mutation.op = "save" => registry[mutation.id].at < MaxSaves
    /\ clicks \in 0 .. MaxClicks

ConsoleInv == PaneFits /\ PageFits

LEMMA ListedAreRows ==
    ASSUME PageFits, NEW cat \in Status PROVE Listed(cat) \subseteq Row
BY DEF PageFits, Listed, RowOf, Row

(* Whatever the pane is given, it asks for what it then shows.              *)
LEMMA ShowsFits ==
    ASSUME PaneFits, NEW s \in Row \cup {NoProject}, NEW t \in Tabs, Shows(s, t)
    PROVE  PaneFits'
<1>. DEFINE moved == s # NoProject /\ (selected = NoProject
                        \/ <<selected.id, selected.status>> # <<s.id, s.status>>)
            now == IF s = NoProject THEN "settings" ELSE IF moved THEN HomeTab(s) ELSE t
            asked == s # NoProject /\ now = "audit"
                     /\ (moved \/ tab # "audit" \/ selected.at # s.at)
            ask1 == [id |-> s.id, live |-> TRUE]
<1>1. /\ selected' = s /\ tab' = now
      /\ audits' = (IF asked \/ now # "audit" THEN Forgets(audits) ELSE audits)
                   \cup (IF asked THEN {ask1} ELSE {})
      /\ auditing' = (s # NoProject /\ (auditing \/ asked))
      /\ auditOf' = IF s = NoProject THEN NoProject ELSE auditOf
      /\ \/ panelOf' = NoProject /\ Appears
         \/ UNCHANGED <<panelOf, logVars>>
         \/ s # NoProject /\ panelOf' = s.id /\ Appears
  BY DEF Shows, LeavesLogs
<1>2. /\ now \in Tabs
      /\ s = NoProject => now # "audit"
      /\ moved => now # "audit"
  BY DEF Tabs, HomeTab
<1>3. s # NoProject => s.id \in Shown
  BY DEF Row
<1>4. /\ Forgets(audits) \subseteq [id : Shown, live : BOOLEAN]
      /\ \A r \in Forgets(audits) : ~r.live
  BY DEF PaneFits, Forgets
<1>5. asked => ask1 \in [id : Shown, live : BOOLEAN] /\ ask1.live /\ ask1.id = s.id
  BY <1>3
<1>6. now = "audit" => s # NoProject /\ selected # NoProject /\ selected.id = s.id
  BY <1>2
<1>7. ~asked /\ now = "audit" => tab = "audit"
  BY <1>2
<1>. HIDE DEF moved, now, ask1
<1>8. audits' \subseteq [id : Shown, live : BOOLEAN]
  BY <1>1, <1>4, <1>5 DEF PaneFits
<1>9. AuditFits'
  <2>1. CASE now # "audit"
    <3>1. ~asked /\ audits' = Forgets(audits) /\ tab' # "audit"
      BY <1>1, <2>1
    <3>. QED  BY <1>4, <3>1 DEF AuditFits
  <2>2. CASE now = "audit" /\ asked
    <3>1. audits' = Forgets(audits) \cup {ask1} /\ auditing' /\ selected' = s /\ tab' = "audit"
          /\ s # NoProject
      BY <1>1, <1>6, <2>2
    <3>. QED  BY <1>4, <1>5, <2>2, <3>1 DEF AuditFits
  <2>3. CASE now = "audit" /\ ~asked
    <3>1. audits' = audits /\ auditing' = auditing /\ auditOf' = auditOf
      BY <1>1, <1>6, <2>3 DEF PaneFits
    <3>2. tab' = "audit" /\ tab = "audit" /\ selected # NoProject /\ selected' # NoProject
          /\ selected'.id = selected.id
      BY <1>1, <1>6, <1>7, <2>3
    <3>. QED  BY <3>1, <3>2 DEF PaneFits, AuditFits
  <2>. QED  BY <2>1, <2>2, <2>3
<1>10. LogFits'
  <2>1. CASE Appears
    BY <2>1, LogAppears
  <2>2. CASE UNCHANGED logVars
    BY <2>2 DEF PaneFits, LogFits, LogTypeOK, LogsMatchChoice, Latest, logVars
  <2>. QED  BY <1>1, <2>1, <2>2
<1>11. auditOf' \in Shown \cup {NoProject} /\ auditing' \in BOOLEAN
       /\ panelOf' \in Shown \cup {NoProject}
  BY <1>1, <1>3 DEF PaneFits
<1>12. PanelFits'
  <2>. SUFFICES ASSUME s # NoProject, now = "app-logs", s.status # "archived"
                PROVE  panelOf' = s.id
    BY <1>1 DEF PanelFits
  <2>1. ~moved
    BY DEF moved, now, HomeTab
  <2>2. selected # NoProject /\ selected.id = s.id /\ selected.status = s.status
    BY <2>1 DEF moved
  <2>3. CASE tab = "app-logs"
    <3>1. panelOf' = panelOf
      BY <2>2, <2>3, <2>1 DEF Shows, moved, now
    <3>. QED  BY <2>2, <2>3, <3>1 DEF PaneFits, PanelFits
  <2>4. CASE tab # "app-logs"
    BY <2>1, <2>2, <2>4 DEF Shows, moved, now
  <2>. QED  BY <2>3, <2>4
<1>. QED  BY <1>1, <1>2, <1>8, <1>9, <1>10, <1>11, <1>12 DEF PaneFits

LEMMA PaneRests ==
    ASSUME PaneFits,
           UNCHANGED <<selected, tab, audits, auditing, auditOf, panelOf, logVars>>
    PROVE  PaneFits'
BY DEF PaneFits, AuditFits, PanelFits, LogFits, LogTypeOK, LogsMatchChoice, Latest, logVars

LEMMA InitConsole == ConsoleInit => ConsoleInv
<1>. SUFFICES ASSUME ConsoleInit PROVE ConsoleInv
  OBVIOUS
<1>1. PageFits
  BY ConsoleAssumption DEF ConsoleInit, PageFits, Status, ConsoleAssumption
<1>2. PaneFits
  BY LogAppears DEF ConsoleInit, PaneFits, AuditFits, PanelFits, Tabs
<1>. QED  BY <1>1, <1>2 DEF ConsoleInv

LEMMA ClickCounted ==
    ASSUME PageFits, Clicks PROVE clicks' \in 0 .. MaxClicks
BY ConsoleAssumption DEF PageFits, Clicks, ConsoleAssumption

LEMMA SelectionKeeps ==
    ASSUME ConsoleInv,
           \/ \E s \in rows : Selects(s)
           \/ \E t \in Tabs : SelectsTab(t)
           \/ \E cat \in Status : ChangesCategory(cat)
    PROVE  ConsoleInv'
<1>1. ASSUME NEW s \in rows, Selects(s) PROVE ConsoleInv'
  <2>1. s \in Row /\ Shows(s, tab) /\ tab \in Tabs
    BY <1>1 DEF ConsoleInv, PageFits, PaneFits, Selects
  <2>2. PageFits'
    BY <1>1, <2>1, ClickCounted DEF Selects, ConsoleInv, PageFits, Row
  <2>. QED  BY <2>1, <2>2, ShowsFits DEF ConsoleInv
<1>2. ASSUME NEW t \in Tabs, SelectsTab(t) PROVE ConsoleInv'
  <2>1. selected \in Row \cup {NoProject} /\ Shows(selected, t)
    BY <1>2 DEF ConsoleInv, PaneFits, SelectsTab
  <2>2. PageFits'
    BY <1>2, ClickCounted DEF SelectsTab, ConsoleInv, PageFits
  <2>. QED  BY <2>1, <2>2, ShowsFits DEF ConsoleInv
<1>3. ASSUME NEW cat \in Status, ChangesCategory(cat) PROVE ConsoleInv'
  <2>1. Shows(NoProject, "settings") /\ "settings" \in Tabs
    BY <1>3 DEF ChangesCategory, Tabs
  <2>2. PageFits'
    BY <1>3, ClickCounted DEF ChangesCategory, Relists, ConsoleInv, PageFits
  <2>. QED  BY <2>1, <2>2, ShowsFits DEF ConsoleInv
<1>. QED  BY <1>1, <1>2, <1>3

LEMMA ListKeeps ==
    ASSUME ConsoleInv, NEW cat \in Status, ListArrives(cat) \/ ListFails(cat)
    PROVE  ConsoleInv'
<1>1. CASE ListArrives(cat)
  <2>1. Listed(cat) \subseteq Row
    BY ListedAreRows DEF ConsoleInv
  <2>2. PageFits'
    BY <1>1, <2>1 DEF ListArrives, ConsoleInv, PageFits
  <2>3. \/ \E s \in Listed(cat) : Shows(s, "settings")
        \/ UNCHANGED <<selected, tab, audits, auditing, auditOf, panelOf, logVars>>
    BY <1>1 DEF ListArrives
  <2>4. "settings" \in Tabs
    BY DEF Tabs
  <2>. QED  BY <2>1, <2>2, <2>3, <2>4, ShowsFits, PaneRests DEF ConsoleInv
<1>2. CASE ListFails(cat)
  <2>1. UNCHANGED <<selected, tab, audits, auditing, auditOf, panelOf, logVars>>
    BY <1>2 DEF ListFails
  <2>2. PageFits'
    BY <1>2 DEF ListFails, ConsoleInv, PageFits
  <2>. QED  BY <2>1, <2>2, PaneRests DEF ConsoleInv
<1>. QED  BY <1>1, <1>2

LEMMA MutationKeeps ==
    ASSUME ConsoleInv,
           \/ \E op \in {"save", "delete"} : Sends(op)
           \/ Saved \/ Archived \/ Deleted \/ Refused
    PROVE  ConsoleInv'
<1>1. ASSUME NEW op \in {"save", "delete"}, Sends(op) PROVE ConsoleInv'
  <2>1. selected \in Row
    BY <1>1 DEF ConsoleInv, PaneFits, Sends
  <2>2. PageFits'
    BY <1>1, <2>1, ClickCounted DEF Sends, ConsoleInv, PageFits, Row
  <2>3. UNCHANGED <<selected, tab, audits, auditing, auditOf, panelOf, logVars>>
    BY <1>1 DEF Sends
  <2>. QED  BY <2>2, <2>3, PaneRests DEF ConsoleInv
<1>2. CASE Saved
  <2>. DEFINE id == mutation.id
              next == registry[id].at + 1
  <2>1. id \in Shown /\ registry[id].at \in 0 .. MaxSaves /\ registry[id].at < MaxSaves
        /\ registry[id].status = "active" /\ MaxSaves \in Nat
    BY <1>2, ConsoleAssumption DEF Saved, ConsoleInv, PageFits, ConsoleAssumption
  <2>2. next \in 0 .. MaxSaves
    BY <2>1
  <2>3. /\ Shows([id |-> id, status |-> "active", at |-> next], tab) /\ tab \in Tabs
        /\ [id |-> id, status |-> "active", at |-> next] \in Row
    BY <1>2, <2>1, <2>2 DEF Saved, ConsoleInv, PaneFits, Row, Status
  <2>4. PageFits'
    <3>1. registry' = [registry EXCEPT ![id].at = next] /\ mutation' = NoProject
      BY <1>2 DEF Saved
    <3>. HIDE DEF next
    <3>2. registry' \in [Shown -> [status : Status \cup {"gone"}, at : 0 .. MaxSaves]]
      BY <2>1, <2>2, <3>1 DEF ConsoleInv, PageFits
    <3>. QED  BY <1>2, <3>1, <3>2 DEF Saved, Relists, ConsoleInv, PageFits
  <2>. QED  BY <2>3, <2>4, ShowsFits DEF ConsoleInv
<1>3. CASE Archived
  <2>. DEFINE id == mutation.id
  <2>1. id \in Shown /\ registry[id].at \in 0 .. MaxSaves
    BY <1>3 DEF Archived, ConsoleInv, PageFits
  <2>2. /\ Shows([id |-> id, status |-> "archived", at |-> registry[id].at], tab) /\ tab \in Tabs
        /\ [id |-> id, status |-> "archived", at |-> registry[id].at] \in Row
    BY <1>3, <2>1 DEF Archived, ConsoleInv, PaneFits, Row, Status
  <2>3. PageFits'
    BY <1>3, <2>1 DEF Archived, Relists, ConsoleInv, PageFits, Status
  <2>. QED  BY <2>2, <2>3, ShowsFits DEF ConsoleInv
<1>4. CASE Deleted
  <2>1. Shows(NoProject, "settings") /\ "settings" \in Tabs
    BY <1>4 DEF Deleted, Tabs
  <2>2. PageFits'
    BY <1>4 DEF Deleted, Relists, ConsoleInv, PageFits
  <2>. QED  BY <2>1, <2>2, ShowsFits DEF ConsoleInv
<1>5. CASE Refused
  <2>1. UNCHANGED <<selected, tab, audits, auditing, auditOf, panelOf, logVars>>
    BY <1>5 DEF Refused
  <2>2. PageFits'
    BY <1>5 DEF Refused, ConsoleInv, PageFits
  <2>. QED  BY <2>1, <2>2, PaneRests DEF ConsoleInv
<1>. QED  BY <1>1, <1>2, <1>3, <1>4, <1>5

LEMMA AuditAnswerKeeps ==
    ASSUME ConsoleInv, NEW r \in audits, AuditArrives(r) \/ AuditFails(r)
    PROVE  ConsoleInv'
<1>1. /\ r \in [id : Shown, live : BOOLEAN] /\ audits' = audits \ {r}
      /\ UNCHANGED <<selected, tab, panelOf, logVars>>
      /\ \/ r.live /\ auditOf' \in {r.id, NoProject} /\ auditing' = FALSE
         \/ ~r.live /\ UNCHANGED <<auditOf, auditing>>
  BY DEF ConsoleInv, PaneFits, AuditArrives, AuditFails, AuditAnswered, Counts
<1>2. AuditFits'
  BY <1>1 DEF ConsoleInv, PaneFits, AuditFits
<1>3. LogFits'
  BY <1>1 DEF ConsoleInv, PaneFits, LogFits, LogTypeOK, LogsMatchChoice, Latest, logVars
<1>4. PaneFits'
  BY <1>1, <1>2, <1>3 DEF ConsoleInv, PaneFits, PanelFits
<1>5. PageFits'
  BY DEF ConsoleInv, PageFits, AuditArrives, AuditFails, AuditAnswered
<1>. QED  BY <1>4, <1>5 DEF ConsoleInv

LEMMA StepKeepsConsole == ConsoleInv /\ [ConsoleNext]_consoleVars => ConsoleInv'
<1>. SUFFICES ASSUME ConsoleInv, [ConsoleNext]_consoleVars PROVE ConsoleInv'
  OBVIOUS
<1>1. CASE Follows
  <2>1. LogFits'
    BY <1>1, LogStepFits DEF Follows, ConsoleInv, PaneFits
  <2>. QED  BY <1>1, <2>1 DEF Follows, pageVars, ConsoleInv, PaneFits, PageFits, AuditFits, PanelFits
<1>2. CASE UNCHANGED consoleVars
  BY <1>2, PaneRests DEF consoleVars, pageVars, ConsoleInv, PageFits
<1>. QED  BY <1>1, <1>2, SelectionKeeps, ListKeeps, MutationKeeps, AuditAnswerKeeps DEF ConsoleNext

(* The console page: whose requests still count, and what they will tell.   *)
THEOREM ConsoleInvariant == ConsoleSpec => []ConsoleInv
<1>. QED  BY InitConsole, StepKeepsConsole, PTL DEF ConsoleSpec

(* What has arrived on the page is what the page shows: the audit rows are  *)
(* the selected project's, the log lines those of their form, and the form  *)
(* is for the selected project when that is active.                         *)
THEOREM ScreenIsTrue == ConsoleSpec => []AnswersMatchScreen
<1>1. ConsoleInv => AnswersMatchScreen
  <2>. SUFFICES ASSUME ConsoleInv PROVE AnswersMatchScreen
    OBVIOUS
  <2>1. selected # NoProject /\ tab = "app-logs" /\ selected.status = "active"
        => panelOf = selected.id
    BY DEF ConsoleInv, PaneFits, PanelFits
  <2>. QED  BY <2>1 DEF ConsoleInv, PaneFits, AuditFits, LogFits, AnswersMatchScreen
<1>. QED  BY <1>1, ConsoleInvariant, PTL

LEMMA ConsoleTypes == ConsoleInv => ConsoleTypeOK
BY DEF ConsoleInv, PaneFits, PageFits, LogFits, ConsoleTypeOK

(* The state of the page is always well formed.                             *)
THEOREM ConsoleTyped == ConsoleSpec => []ConsoleTypeOK
BY ConsoleTypes, ConsoleInvariant, PTL

-----------------------------------------------------------------------------
(* The profile forms: rows are typed only where they may be, and a dialog   *)
(* that is not loading shows its own profile unless the load failed.        *)
EditorFits ==
    /\ mode = "per_key" => PerKeyAllowed(phase, delivery)
    /\ dialog # NoneOpen /\ ~fetching => content = dialog \/ failed
    /\ upload = "sent" => uploaded < MaxUploads

EditorInv == EditorTypeOK /\ EditorFits

LEMMA InitEditor == EditorInit => EditorInv
<1>1. Empty \in Text /\ {} \in SUBSET EnvKey
  BY DEF Empty, Text
<1>2. 0 \in 0 .. MaxUploads
  BY EditorAssumption DEF EditorAssumption
<1>. QED  BY <1>1, <1>2 DEF EditorInit, EditorInv, EditorTypeOK, EditorFits

LEMMA FormKeepsEditor ==
    ASSUME EditorInv, UNCHANGED dialogVars,
           \/ \E t \in Text : Types(t) \/ Picks(t)
           \/ \E t \in reading : FileRead(t)
           \/ \E m \in {"file", "paste", "per_key"} : SwitchesMode(m)
           \/ \E ph \in {"build", "runtime"} : SwitchesPhase(ph)
           \/ \E del \in {"raw", "dotenv"} : SwitchesDelivery(del)
           \/ Uploads \/ Uploaded \/ UploadFails \/ UploadDone
    PROVE  EditorInv'
<1>1. ASSUME NEW t \in Text, Types(t) \/ Picks(t) PROVE EditorInv'
  <2>1. t.keys \in SUBSET EnvKey
    BY DEF Text
  <2>. QED  BY <1>1, <2>1 DEF Types, Picks, EditorInv, EditorTypeOK, EditorFits, dialogVars
<1>2. ASSUME NEW t \in reading, FileRead(t) PROVE EditorInv'
  BY <1>2 DEF FileRead, EditorInv, EditorTypeOK, EditorFits, dialogVars
<1>3. Serialized(keyRows) \in Text /\ Parsed(text) \in SUBSET EnvKey
  BY DEF EditorInv, EditorTypeOK, Serialized, Parsed, Text
<1>4. ASSUME NEW m \in {"file", "paste", "per_key"}, SwitchesMode(m) PROVE EditorInv'
  BY <1>3, <1>4 DEF SwitchesMode, EditorInv, EditorTypeOK, EditorFits, dialogVars
<1>5. ASSUME NEW ph \in {"build", "runtime"}, NEW del \in {"raw", "dotenv"}, SwitchesTo(ph, del)
      PROVE  EditorInv'
  BY <1>3, <1>5
     DEF SwitchesTo, LeavesRows, EditorInv, EditorTypeOK, EditorFits, PerKeyAllowed, dialogVars
<1>6. \A ph : SwitchesPhase(ph) => SwitchesTo(ph, delivery)
  BY DEF SwitchesPhase
<1>7. \A del : SwitchesDelivery(del) => SwitchesTo(phase, del)
  BY DEF SwitchesDelivery
<1>8. CASE Uploads \/ Uploaded \/ UploadFails \/ UploadDone
  <2>1. Empty \in Text
    BY DEF Empty, Text
  <2>2. Uploaded => uploaded' \in 0 .. MaxUploads
    BY EditorAssumption DEF Uploaded, EditorInv, EditorFits, EditorTypeOK, EditorAssumption
  <2>3. CASE Uploaded
    BY <2>2, <2>3 DEF Uploaded, EditorInv, EditorTypeOK, EditorFits, dialogVars
  <2>4. CASE Uploads \/ UploadFails
    BY <2>4 DEF Uploads, UploadFails, EditorInv, EditorTypeOK, EditorFits, dialogVars
  <2>5. CASE UploadDone
    BY <2>1, <2>5 DEF UploadDone, EditorInv, EditorTypeOK, EditorFits, dialogVars
  <2>. QED  BY <1>8, <2>3, <2>4, <2>5
<1>9. phase \in {"build", "runtime"} /\ delivery \in {"raw", "dotenv"}
  BY DEF EditorInv, EditorTypeOK
<1>. QED  BY <1>1, <1>2, <1>4, <1>5, <1>6, <1>7, <1>8, <1>9

LEMMA DialogKeepsEditor ==
    ASSUME EditorInv, UNCHANGED formVars,
           \/ \E p \in Stored : Manages(p)
           \/ Fetched \/ FetchFails \/ Closes
           \/ \E what \in {"content", "metadata"} : SavesProfile(what)
           \/ \E ok \in BOOLEAN : SaveEnds(ok)
    PROVE  EditorInv'
<1>1. ASSUME NEW p \in Stored, Manages(p) PROVE EditorInv'
  BY <1>1 DEF Manages, EditorInv, EditorTypeOK, EditorFits, formVars
<1>2. CASE Fetched \/ FetchFails \/ Closes
  BY <1>2 DEF Fetched, FetchFails, Closes, EditorInv, EditorTypeOK, EditorFits, formVars
<1>3. ASSUME NEW what \in {"content", "metadata"}, SavesProfile(what) PROVE EditorInv'
  BY <1>3 DEF SavesProfile, Enabled, EditorInv, EditorTypeOK, EditorFits, formVars
<1>4. ASSUME NEW ok \in BOOLEAN, SaveEnds(ok) PROVE EditorInv'
  BY <1>4 DEF SaveEnds, EditorInv, EditorTypeOK, EditorFits, formVars
<1>. QED  BY <1>1, <1>2, <1>3, <1>4

LEMMA StepKeepsEditor == EditorInv /\ [EditorNext]_editorVars => EditorInv'
<1>. SUFFICES ASSUME EditorInv, [EditorNext]_editorVars PROVE EditorInv'
  OBVIOUS
<1>1. CASE UNCHANGED editorVars
  BY <1>1 DEF editorVars, EditorInv, EditorTypeOK, EditorFits
<1>2. CASE \/ \E t \in Text : Types(t) \/ Picks(t)
           \/ \E t \in reading : FileRead(t)
           \/ \E m \in {"file", "paste", "per_key"} : SwitchesMode(m)
           \/ \E ph \in {"build", "runtime"} : SwitchesPhase(ph)
           \/ \E del \in {"raw", "dotenv"} : SwitchesDelivery(del)
           \/ Uploads \/ Uploaded \/ UploadFails \/ UploadDone
  <2>1. UNCHANGED dialogVars
    BY <1>2 DEF Types, Picks, FileRead, SwitchesMode, SwitchesPhase, SwitchesDelivery,
                SwitchesTo, Uploads, Uploaded, UploadFails, UploadDone
  <2>. QED  BY <1>2, <2>1, FormKeepsEditor
<1>3. CASE \/ \E p \in Stored : Manages(p)
           \/ Fetched \/ FetchFails \/ Closes
           \/ \E what \in {"content", "metadata"} : SavesProfile(what)
           \/ \E ok \in BOOLEAN : SaveEnds(ok)
  <2>1. UNCHANGED formVars
    BY <1>3 DEF Manages, Fetched, FetchFails, Closes, SavesProfile, SaveEnds
  <2>. QED  BY <1>3, <2>1, DialogKeepsEditor
<1>. QED  BY <1>1, <1>2, <1>3 DEF EditorNext

(* No switch of the form changes what it would send.                        *)
LEMMA SwitchesKeepKeys ==
    ASSUME EditorInv, EditorNext, Switched PROVE Resolved'.keys = Resolved.keys
<1>1. \/ \E m \in {"file", "paste", "per_key"} : SwitchesMode(m)
      \/ \E ph, del : SwitchesTo(ph, del)
  BY DEF EditorNext, Switched, Types, Picks, FileRead, SwitchesPhase, SwitchesDelivery,
         Uploads, Uploaded, UploadFails, UploadDone, Manages, Fetched, FetchFails, Closes,
         SavesProfile, SaveEnds, formVars
<1>2. ASSUME NEW m, SwitchesMode(m) PROVE Resolved'.keys = Resolved.keys
  BY <1>2 DEF SwitchesMode, EditorInv, EditorFits, Resolved, Serialized, Parsed
<1>3. ASSUME NEW ph, NEW del, SwitchesTo(ph, del) PROVE Resolved'.keys = Resolved.keys
  BY <1>3 DEF SwitchesTo, LeavesRows, EditorInv, EditorFits, Resolved, Serialized
<1>. QED  BY <1>1, <1>2, <1>3

(* A save of secrets starts from those of the profile on screen.            *)
LEMMA SavesItsOwn ==
    ASSUME EditorInv, EditorNext, saving' \notin {saving, NoneOpen}, saving'.what = "content"
    PROVE  saving'.from = saving'.profile \/ failed
<1>1. \E what \in {"content", "metadata"} : SavesProfile(what)
  BY DEF EditorNext, Types, Picks, FileRead, SwitchesMode, SwitchesPhase, SwitchesDelivery,
         SwitchesTo, Uploads, Uploaded, UploadFails, UploadDone, Manages, Fetched, FetchFails,
         Closes, SaveEnds, dialogVars
<1>. QED  BY <1>1 DEF SavesProfile, Enabled, EditorInv, EditorFits

(* The profile forms: no secret goes astray.                                *)
THEOREM SecretsStay == EditorSpec => SecretsStayInPlace
<1>1. EditorSpec => []EditorInv
  BY InitEditor, StepKeepsEditor, PTL DEF EditorSpec
<1>2. EditorInv /\ [EditorNext]_editorVars =>
        [/\ Switched => Resolved'.keys = Resolved.keys
         /\ saving' \notin {saving, NoneOpen} /\ saving'.what = "content"
            => saving'.from = saving'.profile \/ failed]_editorVars
  BY SwitchesKeepKeys, SavesItsOwn
<1>. QED  BY <1>1, <1>2, PTL DEF EditorSpec, SecretsStayInPlace

(* The state of the profile forms is always well formed.                    *)
THEOREM EditorTyped == EditorSpec => []EditorTypeOK
<1>1. EditorInv => EditorTypeOK
  BY DEF EditorInv
<1>. QED  BY <1>1, InitEditor, StepKeepsEditor, PTL DEF EditorSpec

-----------------------------------------------------------------------------
(* The deployment target form: a row that was opened on an app is           *)
(* overridden, and one that follows its name has the image of that name.    *)
FitRow ==
    {row \in [name : AppName \cup {Blank}, image : AppName \cup {Blank},
              host : HostOf \cup {Blank}, over : BOOLEAN, auto : BOOLEAN,
              was : AppRec \cup {Blank}] :
        (row.was # Blank => row.over) /\ (row.auto => row.image = row.name)}
FormRec ==
    [key : TargetKey \cup {Blank}, on : BOOLEAN, ref : Ref \cup {Blank}, rows : Seq(FitRow),
     opened : StoredTarget \cup {Blank}, home : Proj]
SaveRec ==
    [op : {"save"}, id : Proj, key : TargetKey, on : BOOLEAN, ref : Ref \cup {Blank},
     form : FormRec, apps : Seq(AppRec)]
RemoveRec == [op : {"remove"}, id : Proj, key : TargetKey]
Submitted(c) ==
    /\ c.on = c.form.on /\ c.ref = c.form.ref
    /\ c.apps = [i \in DOMAIN c.form.rows |-> SentApp(c.form.rows[i], c.key)]
OffHasNoRef(t) == t # Blank /\ ~t.on => t.ref = NoneRef

FormInv ==
    /\ stored \in [Proj -> [TargetKey -> StoredTarget \cup {Blank}]]
    /\ \A p \in Proj, k \in TargetKey : OffHasNoRef(stored[p][k])
    /\ pane \in Proj /\ edits \in 0 .. MaxEdits
    /\ form \in FormRec \cup {Blank}
    /\ removeKey \in TargetKey \cup {Blank}
    /\ request \in SaveRec \cup RemoveRec \cup {Blank}
    /\ Busy /\ request.op = "save" => Submitted(request)

LEMMA InitForm == TargetFormInit => FormInv
BY TargetFormAssumption, StartsAssumption
   DEF TargetFormInit, FormInv, OffHasNoRef, Busy, TargetFormAssumption, StartsAssumption

LEMMA EditCounted == ASSUME FormInv, Edits PROVE edits' \in 0 .. MaxEdits
BY TargetFormAssumption DEF FormInv, Edits, TargetFormAssumption

(* A step of the form alone.                                                *)
LEMMA FormMoves ==
    ASSUME FormInv, UNCHANGED <<stored, removeKey, request>>, pane' \in Proj,
           edits' \in 0 .. MaxEdits, form' \in FormRec \cup {Blank}
    PROVE  FormInv'
BY DEF FormInv, Busy, Submitted, SentApp

LEMMA FreshRowFits ==
    ASSUME NEW n \in AppName \cup {Blank} PROVE FreshRow(n) \in FitRow
BY DEF FreshRow, FitRow

LEMMA StoredRowFits == ASSUME NEW app \in AppRec PROVE StoredRow(app) \in FitRow
BY DEF StoredRow, RowOverridden, FitRow, AppRec

LEMMA OpeningKeeps ==
    ASSUME FormInv, OpensNew \/ \E k \in TargetKey : Opens(k) PROVE FormInv'
<1>1. CASE OpensNew
  <2>1. NewForm \in FormRec
    <3>1. <<FreshRow(Slug)>> \in Seq(FitRow)
      BY FreshRowFits, TargetFormAssumption DEF TargetFormAssumption
    <3>. QED  BY <3>1 DEF NewForm, FormRec, FormInv
  <2>. QED  BY <1>1, <2>1, EditCounted, FormMoves DEF OpensNew, FormInv
<1>2. ASSUME NEW k \in TargetKey, Opens(k) PROVE FormInv'
  <2>. DEFINE t == stored[pane][k]
              list == [i \in DOMAIN t.apps |-> StoredRow(t.apps[i])]
  <2>1. t \in StoredTarget /\ pane \in Proj
    BY <1>2 DEF Opens, FormInv
  <2>. HIDE DEF t
  <2>2. t.apps \in Seq(AppRec) /\ t.on \in BOOLEAN /\ t.ref \in Ref \cup {NoneRef}
    BY <2>1 DEF StoredTarget
  <2>3. list \in Seq(FitRow)
    <3>1. \A i \in DOMAIN t.apps : StoredRow(t.apps[i]) \in FitRow
      BY <2>2, StoredRowFits
    <3>2. DOMAIN t.apps = 1 .. Len(t.apps) /\ Len(t.apps) \in Nat
      BY <2>2
    <3>. QED  BY <3>1, <3>2
  <2>. HIDE DEF list
  <2>4. FormOf(k, t) = [key |-> k, on |-> t.on, ref |-> IF t.ref = NoneRef THEN Blank ELSE t.ref,
                        rows |-> list, opened |-> t, home |-> pane]
    BY DEF FormOf, list
  <2>5. FormOf(k, t) \in FormRec
    BY <2>1, <2>2, <2>3, <2>4 DEF FormRec
  <2>6. form' = FormOf(k, t)
    BY <1>2 DEF Opens, t
  <2>. QED  BY <1>2, <2>5, <2>6, EditCounted, FormMoves DEF Opens, FormInv
<1>. QED  BY <1>1, <1>2

(* What is typed is a form again.                                           *)
LEMMA TypedKeeps == ASSUME FormInv, NEW new \in FormRec, Typed(new) PROVE FormInv'
BY EditCounted, FormMoves DEF Typed, FormInv

LEMMA RowsTyped ==
    ASSUME NEW f \in FormRec, NEW list \in Seq(FitRow) PROVE [f EXCEPT !.rows = list] \in FormRec
BY DEF FormRec

LEMMA RowTyped ==
    ASSUME NEW f \in FormRec, NEW i \in DOMAIN f.rows, NEW row \in FitRow
    PROVE  [f EXCEPT !.rows[i] = row] \in FormRec
<1>1. f.rows \in Seq(FitRow)
  BY DEF FormRec
<1>2. [f.rows EXCEPT ![i] = row] \in Seq(FitRow)
  BY <1>1
<1>. QED  BY <1>2, RowsTyped

LEMMA TypingKeeps ==
    ASSUME FormInv,
           \/ \E k \in TargetKey : TypesKey(k)
           \/ \E r \in Ref \cup {Blank} : TypesRef(r)
           \/ Toggles \/ AddsApp
    PROVE  FormInv'
<1>1. form \in FormRec
  BY DEF FormInv, TypesKey, TypesRef, Toggles, AddsApp, Typed, IsOpen
<1>2. ASSUME NEW k \in TargetKey, TypesKey(k) PROVE FormInv'
  <2>. DEFINE list == [i \in DOMAIN form.rows |-> IF form.rows[i].over THEN form.rows[i]
                                                  ELSE [form.rows[i] EXCEPT !.host = Blank]]
              f == [form EXCEPT !.key = k]
  <2>1. \A row \in FitRow : [row EXCEPT !.host = Blank] \in FitRow
    BY DEF FitRow
  <2>2. form.rows \in Seq(FitRow)
    BY <1>1 DEF FormRec
  <2>3. list \in Seq(FitRow)
    <3>1. \A i \in DOMAIN form.rows : form.rows[i] \in FitRow
      BY <2>2
    <3>2. DOMAIN form.rows = 1 .. Len(form.rows) /\ Len(form.rows) \in Nat
      BY <2>2
    <3>. QED  BY <2>1, <3>1, <3>2
  <2>4. f \in FormRec
    BY <1>1 DEF FormRec
  <2>5. Typed([f EXCEPT !.rows = list])
    BY <1>2 DEF TypesKey
  <2>. HIDE DEF f, list
  <2>. QED  BY <2>3, <2>4, <2>5, RowsTyped, TypedKeeps
<1>3. ASSUME NEW r \in Ref \cup {Blank}, TypesRef(r) PROVE FormInv'
  <2>1. [form EXCEPT !.ref = r] \in FormRec
    BY <1>1 DEF FormRec
  <2>. QED  BY <1>3, <2>1, TypedKeeps DEF TypesRef
<1>4. CASE Toggles
  <2>1. form.on \in BOOLEAN
    BY <1>1 DEF FormRec
  <2>2. [form EXCEPT !.on = ~@] \in FormRec
    BY <1>1, <2>1 DEF FormRec
  <2>. QED  BY <1>4, <2>2, TypedKeeps DEF Toggles
<1>5. CASE AddsApp
  <2>1. Append(form.rows, FreshRow(Blank)) \in Seq(FitRow)
    BY <1>1, FreshRowFits DEF FormRec
  <2>. QED  BY <1>1, <1>5, <2>1, RowsTyped, TypedKeeps DEF AddsApp
<1>. QED  BY <1>2, <1>3, <1>4, <1>5

LEMMA RowTypingKeeps ==
    ASSUME FormInv, NEW i,
           \/ \E n \in AppName : RenamesApp(i, n) \/ TypesImage(i, n)
           \/ \E h \in TypedHost \cup {Blank} : TypesHost(i, h)
           \/ RemovesApp(i)
    PROVE  FormInv'
<1>1. form \in FormRec /\ i \in DOMAIN form.rows /\ form.rows \in Seq(FitRow)
  BY DEF FormInv, RenamesApp, TypesImage, TypesHost, RemovesApp, Typed, IsOpen, FormRec
<1>. DEFINE row == form.rows[i]
<1>2. row \in FitRow
  BY <1>1
<1>3. ASSUME NEW n \in AppName, RenamesApp(i, n) PROVE FormInv'
  <2>1. Renamed(row, n) \in FitRow
    <3>. HIDE DEF row
    <3>. QED  BY <1>2 DEF Renamed, FitRow
  <2>2. Typed([form EXCEPT !.rows[i] = Renamed(row, n)])
    BY <1>3 DEF RenamesApp
  <2>. QED  BY <1>1, <2>1, <2>2, RowTyped, TypedKeeps
<1>4. ASSUME NEW n \in AppName, TypesImage(i, n) PROVE FormInv'
  <2>1. [row EXCEPT !.image = n, !.auto = FALSE] \in FitRow
    <3>. HIDE DEF row
    <3>. QED  BY <1>2 DEF FitRow
  <2>2. Typed([form EXCEPT !.rows[i] = [row EXCEPT !.image = n, !.auto = FALSE]])
    BY <1>4 DEF TypesImage
  <2>. QED  BY <1>1, <2>1, <2>2, RowTyped, TypedKeeps
<1>5. ASSUME NEW h \in TypedHost \cup {Blank}, TypesHost(i, h) PROVE FormInv'
  <2>1. [row EXCEPT !.host = h, !.over = TRUE] \in FitRow
    <3>. HIDE DEF row
    <3>. QED  BY <1>2 DEF FitRow, HostOf
  <2>2. Typed([form EXCEPT !.rows[i] = [row EXCEPT !.host = h, !.over = TRUE]])
    BY <1>5 DEF TypesHost
  <2>. QED  BY <1>1, <2>1, <2>2, RowTyped, TypedKeeps
<1>6. CASE RemovesApp(i)
  <2>. DEFINE before == SubSeq(form.rows, 1, i - 1)
              after == SubSeq(form.rows, i + 1, Len(form.rows))
  <2>1. before \in Seq(FitRow) /\ after \in Seq(FitRow)
    BY <1>1, SubSeqProperties
  <2>2. before \o after \in Seq(FitRow)
    BY <2>1
  <2>3. Typed([form EXCEPT !.rows = before \o after])
    BY <1>6 DEF RemovesApp
  <2>. QED  BY <1>1, <2>2, <2>3, RowsTyped, TypedKeeps
<1>. QED  BY <1>3, <1>4, <1>5, <1>6

(* Every app of a submitted form can be sent.                               *)
LEMMA RowSent ==
    ASSUME NEW row \in FitRow, NEW k \in TargetKey, row.name # Blank, row.image # Blank
    PROVE  SentApp(row, k) \in AppRec
BY DEF SentApp, FitRow, AppRec, HostOf, DerivedFor

LEMMA SubmitKeeps == ASSUME FormInv, Submits PROVE FormInv'
<1>. DEFINE apps == [i \in DOMAIN form.rows |-> SentApp(form.rows[i], form.key)]
            r == [op |-> "save", id |-> pane, key |-> form.key, on |-> form.on,
                  ref |-> form.ref, form |-> form, apps |-> apps]
<1>1. request' = r /\ UNCHANGED <<stored, pane, form, removeKey, edits>>
  BY DEF Submits
<1>2. form \in FormRec /\ form.key \in TargetKey /\ pane \in Proj
  BY DEF Submits, IsOpen, FormInv, FormRec
<1>3. form.rows \in Seq(FitRow) /\ form.on \in BOOLEAN /\ form.ref \in Ref \cup {Blank}
  BY <1>2 DEF FormRec
<1>4. \A i \in DOMAIN form.rows : SentApp(form.rows[i], form.key) \in AppRec
  <2>1. \A i \in DOMAIN form.rows : form.rows[i] \in FitRow
    BY <1>3
  <2>2. \A i \in DOMAIN form.rows : form.rows[i].name # Blank /\ form.rows[i].image # Blank
    BY DEF Submits
  <2>. QED  BY <1>2, <2>1, <2>2, RowSent
<1>5. apps \in Seq(AppRec)
  <2>1. DOMAIN form.rows = 1 .. Len(form.rows) /\ Len(form.rows) \in Nat
    BY <1>3
  <2>. QED  BY <1>4, <2>1
<1>6. Submitted(r)
  BY DEF Submitted
<1>. HIDE DEF apps
<1>7. r \in SaveRec
  BY <1>2, <1>3, <1>5 DEF SaveRec
<1>. HIDE DEF r
<1>8. Submitted(request)'
  BY <1>1, <1>6 DEF Submitted, SentApp
<1>. QED  BY <1>1, <1>7, <1>8 DEF FormInv

LEMMA ClickKeeps ==
    ASSUME FormInv,
           \/ Cancels \/ DropsRemoval \/ ConfirmsRemoval
           \/ \E k \in TargetKey : AsksRemoval(k)
           \/ \E p \in Proj : PaneJumps(p)
    PROVE  FormInv'
<1>1. CASE Cancels
  BY <1>1, FormMoves DEF Cancels, FormInv
<1>2. CASE DropsRemoval
  BY <1>2 DEF DropsRemoval, FormInv, Busy, Submitted, SentApp
<1>3. CASE ConfirmsRemoval
  <2>1. [op |-> "remove", id |-> pane, key |-> removeKey] \in RemoveRec
    BY <1>3 DEF ConfirmsRemoval, RemoveRec, FormInv
  <2>2. request' \in RemoveRec /\ request'.op = "remove"
    BY <1>3, <2>1 DEF ConfirmsRemoval
  <2>. QED  BY <1>3, <2>2 DEF ConfirmsRemoval, FormInv
<1>4. ASSUME NEW k \in TargetKey, AsksRemoval(k) PROVE FormInv'
  <2>1. edits' \in 0 .. MaxEdits
    BY <1>4, EditCounted DEF AsksRemoval
  <2>. QED  BY <1>4, <2>1 DEF AsksRemoval, FormInv, Busy, Submitted, SentApp
<1>5. ASSUME NEW p \in Proj, PaneJumps(p) PROVE FormInv'
  BY <1>5, FormMoves DEF PaneJumps, FormInv
<1>. QED  BY <1>1, <1>2, <1>3, <1>4, <1>5

(* What a save that was accepted stores.                                    *)
LEMMA SavedFits ==
    ASSUME FormInv, Busy, request.op = "save", Accepted(request)
    PROVE  /\ request \in SaveRec
           /\ SavedTarget(request) \in StoredTarget
           /\ OffHasNoRef(SavedTarget(request))
<1>1. request \in SaveRec
  BY DEF FormInv, Busy, RemoveRec
<1>. DEFINE old == stored[request.id][request.key]
            ref == RefOnSave(request.key, request.on, request.ref, old)
<1>2. /\ request.id \in Proj /\ request.key \in TargetKey /\ request.on \in BOOLEAN
      /\ request.ref \in Ref \cup {Blank} /\ request.apps \in Seq(AppRec)
  BY <1>1 DEF SaveRec
<1>3. old \in StoredTarget \cup {Blank} /\ (old # Blank => old.ref \in Ref \cup {NoneRef})
  <2>1. old \in StoredTarget \cup {Blank}
    BY <1>2 DEF FormInv
  <2>. HIDE DEF old
  <2>. QED  BY <2>1 DEF StoredTarget
<1>4. ref # Blank
  BY DEF Accepted
<1>5. SavedTarget(request) = [on |-> request.on, ref |-> ref, apps |-> request.apps]
  BY DEF SavedTarget
<1>6. DefaultRefOf[request.key] \in Ref \cup {Blank}
  BY <1>2, TargetFormAssumption DEF TargetFormAssumption
<1>7. /\ ~request.on => ref = NoneRef
      /\ request.on /\ request.ref # Blank => ref = request.ref
      /\ request.on /\ request.ref = Blank /\ old # Blank => ref = old.ref
      /\ request.on /\ request.ref = Blank /\ old = Blank => ref = DefaultRefOf[request.key]
  BY DEF RefOnSave
<1>. HIDE DEF ref
<1>8. ref \in Ref \cup {NoneRef}
  <2>. HIDE DEF old
  <2>. QED  BY <1>2, <1>3, <1>4, <1>6, <1>7
<1>9. SavedTarget(request) \in StoredTarget
  BY <1>2, <1>5, <1>8 DEF StoredTarget
<1>10. OffHasNoRef(SavedTarget(request))
  BY <1>5, <1>7 DEF OffHasNoRef
<1>. QED  BY <1>1, <1>9, <1>10

(* The stored targets after one of them was saved or removed.               *)
LEMMA StoreKeeps ==
    ASSUME FormInv, NEW p \in Proj, NEW k \in TargetKey, NEW t \in StoredTarget \cup {Blank},
           OffHasNoRef(t), stored' = [stored EXCEPT ![p][k] = t]
    PROVE  /\ stored' \in [Proj -> [TargetKey -> StoredTarget \cup {Blank}]]
           /\ \A q \in Proj, j \in TargetKey : OffHasNoRef(stored'[q][j])
<1>1. \A q \in Proj, j \in TargetKey :
         stored'[q][j] = IF q = p /\ j = k THEN t ELSE stored[q][j]
  BY DEF FormInv
<1>2. \A q \in Proj, j \in TargetKey : OffHasNoRef(stored[q][j])
  BY DEF FormInv
<1>3. stored' \in [Proj -> [TargetKey -> StoredTarget \cup {Blank}]]
  BY DEF FormInv
<1>. QED  BY <1>1, <1>2, <1>3

LEMMA AnswerKeeps ==
    ASSUME FormInv, SaveAnswered \/ RemovalAnswered \/ AnswerLost PROVE FormInv'
<1>. DEFINE StoredFits == /\ stored' \in [Proj -> [TargetKey -> StoredTarget \cup {Blank}]]
                          /\ \A q \in Proj, j \in TargetKey : OffHasNoRef(stored'[q][j])
<1>1. Busy /\ request.id \in Proj /\ request.key \in TargetKey
  BY DEF FormInv, SaveAnswered, RemovalAnswered, AnswerLost, Busy, SaveRec, RemoveRec
<1>2. ASSUME UNCHANGED stored PROVE StoredFits
  BY <1>2 DEF FormInv
<1>3. ASSUME request.op = "save", Accepted(request),
             stored' = [stored EXCEPT ![request.id][request.key] = SavedTarget(request)]
      PROVE  StoredFits
  BY <1>1, <1>3, SavedFits, StoreKeeps
<1>4. ASSUME stored' = [stored EXCEPT ![request.id][request.key] = Blank] PROVE StoredFits
  BY <1>1, <1>4, StoreKeeps DEF OffHasNoRef
<1>5. StoredFits
  BY <1>2, <1>3, <1>4 DEF SaveAnswered, RemovalAnswered, AnswerLost
<1>6. /\ request' = Blank /\ pane' \in Proj /\ UNCHANGED <<removeKey, edits>>
      /\ form' \in {form, Blank}
  BY <1>1 DEF SaveAnswered, RemovalAnswered, AnswerLost, FormInv
<1>7. \A q \in Proj, j \in TargetKey : OffHasNoRef(stored[q][j])'
  BY <1>5 DEF OffHasNoRef
<1>. HIDE DEF StoredFits
<1>8. stored' \in [Proj -> [TargetKey -> StoredTarget \cup {Blank}]]
  BY <1>5 DEF StoredFits
<1>. QED  BY <1>6, <1>7, <1>8 DEF FormInv, Busy

LEMMA StepKeepsForm == FormInv /\ [TargetFormNext]_formPanel => FormInv'
<1>. SUFFICES ASSUME FormInv, [TargetFormNext]_formPanel PROVE FormInv'
  OBVIOUS
<1>1. CASE UNCHANGED formPanel
  BY <1>1, FormMoves DEF formPanel, FormInv
<1>2. CASE TargetFormNext
  BY <1>2, OpeningKeeps, TypingKeeps, RowTypingKeeps, SubmitKeeps, ClickKeeps, AnswerKeeps
     DEF TargetFormNext
<1>. QED  BY <1>1, <1>2

(* A row sent as the form has it: an app left alone is the app it was, an   *)
(* empty host is derived, and an image that follows the name is the name.   *)
LEMMA RowSentAsWas ==
    ASSUME NEW row \in FitRow, NEW k \in TargetKey
    PROVE  /\ LeftAlone(row) => SentApp(row, k) = row.was
           /\ row.host = Blank => SentApp(row, k).host = <<k, SentApp(row, k).name>>
           /\ row.auto => SentApp(row, k).image = SentApp(row, k).name
<1>1. ASSUME LeftAlone(row) PROVE SentApp(row, k) = row.was
  <2>1. row.was \in AppRec /\ row.over
    BY <1>1 DEF LeftAlone, FitRow
  <2>2. row.was = [name |-> row.name, image |-> row.image, host |-> row.host]
    BY <1>1, <2>1 DEF LeftAlone, AppRec
  <2>3. row.host # Blank
    BY <1>1, <2>1, TargetFormAssumption DEF LeftAlone, AppRec, HostOf, TargetFormAssumption
  <2>. QED  BY <2>1, <2>2, <2>3 DEF SentApp
<1>2. row.host = Blank => SentApp(row, k).host = <<k, SentApp(row, k).name>>
  BY DEF SentApp, DerivedFor
<1>3. row.auto => SentApp(row, k).image = SentApp(row, k).name
  BY DEF SentApp, FitRow
<1>. QED  BY <1>1, <1>2, <1>3

LEMMA SaveKeepsTheRest ==
    ASSUME FormInv, SaveAnswered
    PROVE  LET f == request.form
               t == stored'[request.id][request.key]
           IN  /\ Len(t.apps) = Len(f.rows)
               /\ \A i \in DOMAIN f.rows :
                     /\ LeftAlone(f.rows[i]) => t.apps[i] = f.rows[i].was
                     /\ f.rows[i].host = Blank => t.apps[i].host = <<request.key, t.apps[i].name>>
                     /\ f.rows[i].auto => t.apps[i].image = t.apps[i].name
               /\ f.opened # Blank /\ f.on = f.opened.on
                  /\ f.ref \in {f.opened.ref, Blank} /\ stored[request.id][request.key] = f.opened
                  => t.ref = f.opened.ref
<1>. DEFINE f == request.form
            old == stored[request.id][request.key]
            t == stored'[request.id][request.key]
<1>1. request \in SaveRec /\ Submitted(request)
  BY SavedFits DEF SaveAnswered, FormInv
<1>2. request.id \in Proj /\ request.key \in TargetKey /\ f \in FormRec /\ request.apps \in Seq(AppRec)
  BY <1>1 DEF SaveRec
<1>3. t = SavedTarget(request)
  BY <1>2 DEF SaveAnswered, FormInv
<1>4. t.apps = request.apps /\ t.ref = RefOnSave(request.key, request.on, request.ref, old)
  BY <1>3 DEF SavedTarget
<1>5. f.rows \in Seq(FitRow) /\ f.on \in BOOLEAN
  BY <1>2 DEF FormRec
<1>6. /\ request.on = f.on /\ request.ref = f.ref
      /\ request.apps = [i \in DOMAIN f.rows |-> SentApp(f.rows[i], request.key)]
  BY <1>1 DEF Submitted
<1>7. OffHasNoRef(old)
  BY <1>2 DEF FormInv
<1>. HIDE DEF f, old, t
<1>8. Len(t.apps) = Len(f.rows)
  <2>1. DOMAIN f.rows = 1 .. Len(f.rows) /\ Len(f.rows) \in Nat
    BY <1>5
  <2>2. DOMAIN request.apps = 1 .. Len(request.apps) /\ Len(request.apps) \in Nat
    BY <1>2
  <2>3. DOMAIN request.apps = DOMAIN f.rows
    BY <1>6
  <2>. QED  BY <1>4, <2>1, <2>2, <2>3
<1>9. ASSUME NEW i \in DOMAIN f.rows
      PROVE  /\ LeftAlone(f.rows[i]) => t.apps[i] = f.rows[i].was
             /\ f.rows[i].host = Blank => t.apps[i].host = <<request.key, t.apps[i].name>>
             /\ f.rows[i].auto => t.apps[i].image = t.apps[i].name
  <2>1. t.apps[i] = SentApp(f.rows[i], request.key)
    BY <1>4, <1>6
  <2>2. f.rows[i] \in FitRow
    BY <1>5
  <2>. QED  BY <1>2, <2>1, <2>2, RowSentAsWas
<1>10. ASSUME f.opened # Blank, f.on = f.opened.on, f.ref \in {f.opened.ref, Blank},
              old = f.opened
       PROVE  t.ref = f.opened.ref
  <2>1. CASE f.on
    BY <1>4, <1>5, <1>6, <1>10, <2>1 DEF RefOnSave
  <2>2. CASE ~f.on
    <3>1. f.opened.ref = NoneRef
      BY <1>7, <1>10, <2>2 DEF OffHasNoRef
    <3>. QED  BY <1>4, <1>6, <2>2, <3>1 DEF RefOnSave
  <2>. QED  BY <2>1, <2>2
<1>. QED  BY <1>8, <1>9, <1>10 DEF f, old, t

(* A saved target differs from the one the form was opened on only where    *)
(* the operator edited it, whatever else was typed, added, removed or       *)
(* selected while the form was open (lib/deployment-target-form.ts and the  *)
(* API's upsertDeploymentTarget).                                           *)
THEOREM EditsKeepTheRest == TargetFormSpec => EditKeepsTheRest
<1>1. FormInv /\ [TargetFormNext]_formPanel =>
        [ SaveAnswered /\ request.form.home = request.id =>
          LET f == request.form
              t == stored'[request.id][request.key]
          IN  /\ Len(t.apps) = Len(f.rows)
              /\ \A i \in DOMAIN f.rows :
                    /\ LeftAlone(f.rows[i]) => t.apps[i] = f.rows[i].was
                    /\ f.rows[i].host = Blank => t.apps[i].host = <<request.key, t.apps[i].name>>
                    /\ f.rows[i].auto => t.apps[i].image = t.apps[i].name
              /\ f.opened # Blank /\ f.on = f.opened.on
                 /\ f.ref \in {f.opened.ref, Blank} /\ stored[request.id][request.key] = f.opened
                 => t.ref = f.opened.ref ]_formPanel
  BY SaveKeepsTheRest
<1>. QED  BY <1>1, InitForm, StepKeepsForm, PTL DEF TargetFormSpec, EditKeepsTheRest

LEMMA FormTypes == FormInv => TargetFormTypeOK
BY DEF FormInv, TargetFormTypeOK, FormRec, IsOpen, Busy, SaveRec, RemoveRec

(* The state of the deployment target form is always well formed.           *)
THEOREM FormTyped == TargetFormSpec => []TargetFormTypeOK
BY FormTypes, InitForm, StepKeepsForm, PTL DEF TargetFormSpec

-----------------------------------------------------------------------------
(***************************************************************************)
(* The parts side by side.  They share no state, so each keeps what it     *)
(* keeps alone.                                                            *)
(***************************************************************************)
LEMMA PartsBegin ==
    ServicesInit => /\ McpInit /\ WatchdogInit /\ GitLabInit /\ KubeInit
                    /\ ConsoleInit /\ EditorInit /\ TargetFormInit /\ ApiInit
BY DEF ServicesInit

LEMMA PartsMove ==
    [ServicesNext]_services =>
        /\ [McpNext]_mcpVars /\ [WatchdogNext]_watchdogVars /\ [GitLabNext]_gitlabVars
        /\ [KubeNext]_kubeVars /\ [ConsoleNext]_consoleVars /\ [EditorNext]_editorVars
        /\ [TargetFormNext]_formPanel /\ [ApiNext]_apiState
BY DEF ServicesNext, services

(* The invariants of all the parts.                                         *)
ServicesInv ==
    /\ McpInv /\ WatchdogInv /\ (GitLabInv /\ ContentInv /\ Shape) /\ KubeInv
    /\ ConsoleInv /\ EditorInv /\ FormInv /\ ApiInv

(* Each part keeps its own invariant whatever the others do: no part        *)
(* assigns a variable of another.                                           *)
THEOREM ServicesInvariant == ServicesSpec => []ServicesInv
<1>1. ServicesInit => ServicesInv
  BY PartsBegin, McpInitInv, InitEstablishesWatchdog, InitGitLabInv, InitContentInv, InitShape,
     InitKube, InitConsole, InitEditor, InitForm, InitApi DEF ServicesInv
<1>2. ServicesInv /\ [ServicesNext]_services => ServicesInv'
  BY PartsMove, McpStepInv, StepKeepsWatchdog, StepKeepsGitLab, StepKeepsContent, StepKeepsShape,
     StepKeepsKube, StepKeepsConsole, StepKeepsEditor, StepKeepsForm, StepKeepsApi DEF ServicesInv
<1>. QED  BY <1>1, <1>2, PTL DEF ServicesSpec

(* The MCP keys and requests, the ticks and the groups, the calls of both   *)
(* clients, the API's requests and the console's panels keep their types.   *)
THEOREM ServicesTyped == ServicesSpec => []ServicesTypeOK
<1>1. ServicesInv => ServicesTypeOK
  <2>. SUFFICES ASSUME ServicesInv PROVE ServicesTypeOK
    OBVIOUS
  <2>1. McpTypeOK /\ WatchdogTypeOK /\ EditorTypeOK
    BY DEF ServicesInv, McpInv, WatchdogInv, EditorInv
  <2>2. GitLabTypeOK
    BY ShapeTyped DEF ServicesInv
  <2>3. KubeTypeOK /\ ConsoleTypeOK /\ TargetFormTypeOK /\ ApiTypeOK
    BY KubeTypes, ConsoleTypes, FormTypes, ApiTypes DEF ServicesInv
  <2>. QED  BY <2>1, <2>2, <2>3 DEF ServicesTypeOK
<1>. QED  BY <1>1, ServicesInvariant, PTL

=============================================================================
