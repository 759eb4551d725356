--------------------------- MODULE McpAccessProofs ---------------------------
(***************************************************************************)
(* What holds of the MCP keys for any number of keys, operators and        *)
(* clients: a revocation that was answered is obeyed and never undone, a   *)
(* tool runs only in its scope, and the limit is passed by little.         *)
(***************************************************************************)
EXTENDS McpAccess, FiniteSetTheorems, TLAPS

(* Whoever works on a key works on a key that exists; an answered key is    *)
(* revoked; a late request has not got past the look-up.                    *)
OperatorsHold ==
    \A o \in Operator : operators[o].st = "found" =>
        operators[o].key \in KeyId /\ keys[operators[o].key] # NoKey
ClientsHold ==
    \A c \in Client : clients[c].st # "idle" =>
        clients[c].key \in KeyId /\ keys[clients[c].key] # NoKey
AnsweredRevoked == \A k \in answered : keys[k] # NoKey /\ keys[k].revoked
LateRefused ==
    \A c \in Client : clients[c].late =>
        clients[c].st \in {"arrived", "401"} /\ clients[c].key \in answered
McpInv == /\ McpTypeOK /\ OperatorsHold /\ ClientsHold
          /\ AnsweredRevoked /\ LateRefused /\ RevocationObeyed

(* A row is never the mark of a key that does not exist.                    *)
LEMMA RowIsKey == ASSUME NEW row \in KeyRow PROVE row # NoKey
BY NoKeyAssumption DEF NoKeyAssumption

(* The initial states satisfy the invariant: no request, nothing answered.  *)
LEMMA McpInitInv == McpInit => McpInv
<1>1. <<>> \in Seq(Item)
  OBVIOUS
<1>2. "read" \in Scope /\ Legacy \in KeyRow
  BY DEF Scope, Legacy, KeyRow
<1>. QED
  BY <1>1, <1>2 DEF McpInit, McpInv, McpTypeOK, OperatorsHold, ClientsHold, AnsweredRevoked,
     LateRefused, RevocationObeyed, IdleOperator, IdleClient, Nothing

(* A key with its scope filled in is a key; so is a revoked one.            *)
LEMMA RowWrites ==
    ASSUME NEW key \in KeyRow
    PROVE  /\ WithScope(key) \in KeyRow /\ WithScope(key) # NoKey
           /\ WithScope(key).revoked = key.revoked
           /\ Revokes(key) \in KeyRow /\ Revokes(key) # NoKey /\ Revokes(key).revoked
           /\ ScopeOf(WithScope(key)) = ScopeOf(key)
           /\ ScopeOf(Revokes(key)) = ScopeOf(key)
<1>1. key.revoked \in BOOLEAN /\ key.scope \in Scope \cup {"unset"}
  BY DEF KeyRow
<1>2. ScopeOf(key) \in Scope /\ ScopeOf(key) # "unset"
  BY <1>1 DEF ScopeOf, Scope
<1>3. WithScope(key) \in KeyRow /\ Revokes(key) \in KeyRow
  BY <1>1, <1>2 DEF KeyRow, WithScope, Revokes
<1>4. WithScope(key) # NoKey /\ Revokes(key) # NoKey
  BY <1>3, RowIsKey
<1>. QED
  BY <1>2, <1>3, <1>4 DEF WithScope, Revokes, ScopeOf

(* A look-up gives a scope that exists.                                     *)
LEMMA ScopeTyped == ASSUME NEW key \in KeyRow PROVE ScopeOf(key) \in Scope
BY DEF ScopeOf, KeyRow, Scope

(* One step of the console preserves the invariant.                         *)
LEMMA CountsInv == ASSUME McpInv, NEW o \in Operator, CountsKeys(o) PROVE McpInv'
BY DEF McpInv, McpTypeOK, OperatorsHold, ClientsHold, AnsweredRevoked, LateRefused,
   RevocationObeyed, CountsKeys, Nothing

LEMMA InsertsInv ==
    ASSUME McpInv, NEW o \in Operator, NEW k \in KeyId, NEW s \in Scope, InsertsKey(o, k, s)
    PROVE  McpInv'
<1>. DEFINE row == [scope |-> s, revoked |-> FALSE]
<1>1. row \in KeyRow
  BY DEF KeyRow
<1>2. row # NoKey
  BY <1>1, RowIsKey
<1>. QED
  BY <1>1, <1>2 DEF McpInv, McpTypeOK, OperatorsHold, ClientsHold, AnsweredRevoked, LateRefused,
     RevocationObeyed, InsertsKey, IdleOperator, Nothing

LEMMA FindsInv ==
    ASSUME McpInv, NEW o \in Operator, NEW k \in KeyId, FindsKey(o, k) PROVE McpInv'
<1>1. CASE keys[k].revoked
  BY <1>1 DEF McpInv, McpTypeOK, OperatorsHold, ClientsHold, AnsweredRevoked, LateRefused,
     RevocationObeyed, FindsKey, Nothing
<1>2. CASE ~keys[k].revoked
  <2>. DEFINE row == [st |-> "found", key |-> k]
  <2>1. operators' = [operators EXCEPT ![o] = row] /\ UNCHANGED <<keys, clients, answered>>
        /\ served' = Nothing /\ keys[k] # NoKey
    BY <1>2 DEF FindsKey
  <2>2. McpTypeOK'
    BY <2>1 DEF McpInv, McpTypeOK
  <2>3. OperatorsHold' /\ ClientsHold' /\ AnsweredRevoked' /\ LateRefused' /\ RevocationObeyed'
    BY <2>1 DEF McpInv, McpTypeOK, OperatorsHold, ClientsHold, AnsweredRevoked, LateRefused,
       RevocationObeyed, Nothing
  <2>. QED  BY <2>2, <2>3 DEF McpInv
<1>. QED  BY <1>1, <1>2

LEMMA RevokesInv == ASSUME McpInv, NEW o \in Operator, RevokesKey(o) PROVE McpInv'
<1>. DEFINE k == operators[o].key
<1>1. k \in KeyId /\ keys[k] \in KeyRow
  BY DEF McpInv, McpTypeOK, OperatorsHold, RevokesKey
<1>2. Revokes(keys[k]) \in KeyRow /\ Revokes(keys[k]) # NoKey /\ Revokes(keys[k]).revoked
  BY <1>1, RowWrites
<1>. QED
  BY <1>1, <1>2 DEF McpInv, McpTypeOK, OperatorsHold, ClientsHold, AnsweredRevoked,
     LateRefused, RevocationObeyed, RevokesKey, IdleOperator, Nothing

(* One step of the listener preserves the invariant.                        *)
LEMMA ArrivesInv ==
    ASSUME McpInv, NEW c \in Client, NEW k \in KeyId, NEW b \in Bodies, Arrives(c, k, b)
    PROVE  McpInv'
<1>. DEFINE row == [st |-> "arrived", key |-> k, scope |-> "read",
                    late |-> k \in answered, body |-> b]
<1>1. clients' = [clients EXCEPT ![c] = row] /\ UNCHANGED <<keys, operators, answered>>
      /\ served' = Nothing /\ keys[k] # NoKey
  BY DEF Arrives
<1>2. row \in [st : {"idle", "arrived", "known", "401", "serving", "stream"},
               key : KeyId \cup {NoKey}, scope : Scope, late : BOOLEAN, body : Seq(Item)]
  BY BodiesAssumption DEF BodiesAssumption, Scope
<1>3. McpTypeOK'
  BY <1>1, <1>2 DEF McpInv, McpTypeOK
<1>4. OperatorsHold' /\ ClientsHold' /\ AnsweredRevoked' /\ LateRefused' /\ RevocationObeyed'
  BY <1>1 DEF McpInv, McpTypeOK, OperatorsHold, ClientsHold, AnsweredRevoked, LateRefused,
     RevocationObeyed, Nothing
<1>. QED  BY <1>3, <1>4 DEF McpInv

LEMMA LooksUpInv == ASSUME McpInv, NEW c \in Client, LooksUp(c) PROVE McpInv'
<1>. DEFINE k == clients[c].key
<1>1. k \in KeyId /\ keys[k] \in KeyRow /\ ScopeOf(keys[k]) \in Scope
  BY ScopeTyped DEF McpInv, McpTypeOK, ClientsHold, LooksUp
<1>2. UNCHANGED <<keys, operators, answered>> /\ served' = Nothing
  BY DEF LooksUp
<1>3. UsableKey(k) => ~clients[c].late
  BY DEF UsableKey, McpInv, AnsweredRevoked, LateRefused
<1>. DEFINE ClientRow == [st : {"idle", "arrived", "known", "401", "serving", "stream"},
                         key : KeyId \cup {NoKey}, scope : Scope, late : BOOLEAN,
                         body : Seq(Item)]
<1>4. clients \in [Client -> ClientRow] /\ clients[c] \in ClientRow
  BY DEF McpInv, McpTypeOK
<1>5. clients' \in [Client -> ClientRow]
  <2>1. CASE UsableKey(k)
    BY <1>1, <1>4, <2>1 DEF LooksUp
  <2>2. CASE ~UsableKey(k)
    BY <1>4, <2>2 DEF LooksUp
  <2>. QED  BY <2>1, <2>2
<1>6. /\ \A d \in Client \ {c} : clients'[d] = clients[d]
      /\ clients'[c].key = k /\ clients'[c].late = clients[c].late
      /\ clients'[c].st = IF UsableKey(k) THEN "known" ELSE "401"
  <2>1. CASE UsableKey(k)
    BY <1>4, <2>1 DEF LooksUp
  <2>2. CASE ~UsableKey(k)
    BY <1>4, <2>2 DEF LooksUp
  <2>. QED  BY <2>1, <2>2
<1>7. McpTypeOK'
  BY <1>2, <1>5 DEF McpInv, McpTypeOK
<1>8. LateRefused'
  BY <1>2, <1>3, <1>6 DEF McpInv, LateRefused, LooksUp
<1>9. OperatorsHold' /\ ClientsHold' /\ AnsweredRevoked' /\ RevocationObeyed'
  BY <1>2, <1>6, LooksUp(c) DEF McpInv, OperatorsHold, ClientsHold, AnsweredRevoked,
     RevocationObeyed, Nothing, LooksUp
<1>. QED  BY <1>7, <1>8, <1>9 DEF McpInv

LEMMA SavesInv == ASSUME McpInv, NEW c \in Client, SavesLastUsed(c) PROVE McpInv'
<1>. DEFINE k == clients[c].key
<1>1. k \in KeyId /\ keys[k] \in KeyRow
  BY DEF McpInv, McpTypeOK, ClientsHold, SavesLastUsed
<1>2. WithScope(keys[k]) \in KeyRow /\ WithScope(keys[k]) # NoKey
      /\ WithScope(keys[k]).revoked = keys[k].revoked
  BY <1>1, RowWrites
<1>. QED
  <2>1. McpTypeOK'
    <3>1. keys' \in [KeyId -> {NoKey} \cup KeyRow]
      BY <1>1, <1>2 DEF McpInv, McpTypeOK, SavesLastUsed, Touched
    <3>. DEFINE States == {"idle", "arrived", "known", "401", "serving", "stream"}
                Body == Seq(Item)
                ClientRow == [st : States, key : KeyId \cup {NoKey}, scope : Scope,
                              late : BOOLEAN, body : Body]
                next == IF clients[c].body = <<>> THEN "stream" ELSE "serving"
    <3>2. clients \in [Client -> ClientRow] /\ next \in States
      BY DEF McpInv, McpTypeOK
    <3>3. clients' = [clients EXCEPT ![c].st = next]
      BY DEF SavesLastUsed
    <3>4. clients' \in [Client -> ClientRow]
      <4>. HIDE DEF next, Body, States
      <4>. QED  BY <3>2, <3>3
    <3>. QED  BY <3>1, <3>4 DEF McpInv, McpTypeOK, SavesLastUsed
  <2>2. OperatorsHold' /\ ClientsHold' /\ AnsweredRevoked' /\ LateRefused' /\ RevocationObeyed'
    BY <1>1, <1>2 DEF McpInv, McpTypeOK, OperatorsHold, ClientsHold, AnsweredRevoked,
       LateRefused, RevocationObeyed, SavesLastUsed, Touched, Nothing
  <2>. QED  BY <2>1, <2>2 DEF McpInv

LEMMA ServesInv == ASSUME McpInv, NEW c \in Client, Serves(c) PROVE McpInv'
<1>1. Tail(clients[c].body) \in Seq(Item)
  BY DEF McpInv, McpTypeOK, Serves
<1>2. ~clients[c].late
  BY DEF McpInv, LateRefused, Serves
<1>. DEFINE Body == Seq(Item)
            ClientRow == [st : {"idle", "arrived", "known", "401", "serving", "stream"},
                          key : KeyId \cup {NoKey}, scope : Scope, late : BOOLEAN, body : Body]
            rest == Tail(clients[c].body)
<1>3. clients \in [Client -> ClientRow] /\ rest \in Body
  BY <1>1 DEF McpInv, McpTypeOK
<1>4. clients' = [clients EXCEPT ![c].body = rest] /\ UNCHANGED <<keys, operators, answered>>
  BY DEF Serves
<1>5. served'.late = FALSE
  BY <1>2, <1>3 DEF Serves
<1>6. /\ clients' \in [Client -> ClientRow]
      /\ \A d \in Client : /\ clients'[d].st = clients[d].st
                          /\ clients'[d].key = clients[d].key
                          /\ clients'[d].late = clients[d].late
  <2>. HIDE DEF rest, Body
  <2>. QED  BY <1>3, <1>4
<1>7. McpTypeOK'
  BY <1>4, <1>6 DEF McpInv, McpTypeOK
<1>8. OperatorsHold' /\ ClientsHold' /\ AnsweredRevoked' /\ LateRefused'
  BY <1>4, <1>6 DEF McpInv, OperatorsHold, ClientsHold, AnsweredRevoked, LateRefused
<1>9. RevocationObeyed'
  BY <1>5 DEF RevocationObeyed
<1>. QED  BY <1>7, <1>8, <1>9 DEF McpInv

LEMMA LeavesInv == ASSUME McpInv, NEW c \in Client, Leaves(c) PROVE McpInv'
BY DEF McpInv, McpTypeOK, OperatorsHold, ClientsHold, AnsweredRevoked, LateRefused,
   RevocationObeyed, Leaves, IdleClient, Nothing, Scope

LEMMA McpStepInv == McpInv /\ [McpNext]_mcpVars => McpInv'
<1>1. CASE UNCHANGED mcpVars
  BY <1>1 DEF mcpVars, McpInv, McpTypeOK, OperatorsHold, ClientsHold, AnsweredRevoked,
     LateRefused, RevocationObeyed
<1>2. CASE McpNext
  BY <1>2, CountsInv, InsertsInv, FindsInv, RevokesInv, ArrivesInv, LooksUpInv, SavesInv,
     ServesInv, LeavesInv DEF McpNext
<1>. QED  BY <1>1, <1>2

(* The inductive invariant holds of every behaviour.                        *)
THEOREM McpInvariant == McpSpec => []McpInv
BY McpInitInv, McpStepInv, PTL DEF McpSpec

(* The types of the rows and of the requests under way.                     *)
THEOREM McpTypes == McpSpec => []McpTypeOK
<1>1. McpInv => McpTypeOK
  BY DEF McpInv
<1>. QED  BY McpInvariant, <1>1, PTL

(* No request that arrives after a revocation was answered runs a tool.     *)
THEOREM RevocationIsObeyed == McpSpec => []RevocationObeyed
<1>1. McpInv => RevocationObeyed
  BY DEF McpInv
<1>. QED  BY McpInvariant, <1>1, PTL

(* No step takes a revocation back or changes the scope of a revoked key.   *)
LEMMA StaysRevokedStep ==
    ASSUME McpInv, McpNext, NEW k \in KeyId, keys[k] # NoKey, keys[k].revoked
    PROVE  keys'[k] # NoKey /\ keys'[k].revoked /\ ScopeOf(keys'[k]) = ScopeOf(keys[k])
<1>1. keys[k] \in KeyRow
  BY DEF McpInv, McpTypeOK
<1>2. CASE keys' = keys
  BY <1>2
<1>3. ASSUME NEW o \in Operator, NEW j \in KeyId, NEW s \in Scope, InsertsKey(o, j, s)
      PROVE  keys'[k] = keys[k]
  BY <1>3 DEF InsertsKey, McpInv, McpTypeOK
<1>4. ASSUME NEW o \in Operator, RevokesKey(o)
      PROVE  keys'[k] = keys[k] \/ keys'[k] = Revokes(keys[k])
  BY <1>4 DEF RevokesKey, McpInv, McpTypeOK
<1>5. ASSUME NEW c \in Client, SavesLastUsed(c)
      PROVE  keys'[k] = keys[k] \/ keys'[k] = WithScope(keys[k])
  BY <1>5 DEF SavesLastUsed, Touched, McpInv, McpTypeOK
<1>6. \/ keys' = keys \/ keys'[k] = keys[k]
      \/ keys'[k] = Revokes(keys[k]) \/ keys'[k] = WithScope(keys[k])
  BY <1>3, <1>4, <1>5 DEF McpNext, CountsKeys, FindsKey, Arrives, LooksUp, Serves, Leaves
<1>. QED  BY <1>1, <1>6, RowWrites

(* Whatever the clients and operators do meanwhile, a revoked key stays so. *)
THEOREM RevocationIsFinal == McpSpec => RevokedStaysRevoked
<1>. DEFINE Keeps == \A k \in KeyId : (keys[k] # NoKey /\ keys[k].revoked) =>
                        (keys'[k] # NoKey /\ keys'[k].revoked
                         /\ ScopeOf(keys'[k]) = ScopeOf(keys[k]))
<1>1. McpInv /\ [McpNext]_mcpVars => [Keeps]_mcpVars
  BY StaysRevokedStep
<1>. QED  BY McpInvariant, <1>1, PTL DEF McpSpec, RevokedStaysRevoked

(* The creations that have counted the keys and not inserted theirs.        *)
Counted == {o \in Operator : operators[o].st = "counted"}

(* Both sets that the limit is about are finite, now and after a step.      *)
LEMMA SetsFinite ==
    /\ IsFiniteSet(ActiveKeys) /\ Cardinality(ActiveKeys) \in Nat
    /\ IsFiniteSet(Counted) /\ Cardinality(Counted) \in Nat
    /\ Cardinality(Counted) <= Cardinality(Operator) /\ Cardinality(Operator) \in Nat \ {0}
<1>1. ActiveKeys \subseteq KeyId /\ Counted \subseteq Operator
  BY DEF ActiveKeys, Counted
<1>2. IsFiniteSet(ActiveKeys) /\ IsFiniteSet(Counted) /\ IsFiniteSet(Operator)
      /\ Cardinality(Counted) <= Cardinality(Operator)
  BY <1>1, FS_Subset, RequestsAssumption DEF RequestsAssumption
<1>3. Cardinality(Operator) # 0
  BY FS_EmptySet, RequestsAssumption DEF RequestsAssumption
<1>. QED  BY <1>2, <1>3, FS_CardinalityType

LEMMA CountsBounded ==
    ASSUME McpInv, ActiveKeysBounded, NEW o \in Operator, CountsKeys(o)
    PROVE  ActiveKeysBounded'
<1>1. ActiveKeys' = ActiveKeys
  BY DEF CountsKeys, ActiveKeys
<1>2. Counted' = Counted \cup {o} /\ o \notin Counted
  BY DEF CountsKeys, Counted, McpInv, McpTypeOK
<1>3. Cardinality(Counted') = Cardinality(Counted) + 1 /\ Cardinality(Counted) < Cardinality(Operator)
  <2>1. Cardinality(Counted') = Cardinality(Counted) + 1 /\ IsFiniteSet(Counted')
    BY <1>2, SetsFinite, FS_AddElement
  <2>2. Counted' \subseteq Operator
    BY <1>2 DEF Counted
  <2>3. Cardinality(Counted') <= Cardinality(Operator)
    BY <2>2, FS_Subset, RequestsAssumption DEF RequestsAssumption
  <2>. QED  BY <2>1, <2>3, SetsFinite
<1>4. Cardinality(ActiveKeys) < MaxActive
  BY DEF CountsKeys, HasRoom
<1>. QED
  BY <1>1, <1>3, <1>4, SetsFinite, MaxAssumption DEF ActiveKeysBounded, Counted, MaxAssumption

LEMMA InsertsBounded ==
    ASSUME McpInv, ActiveKeysBounded,
           NEW o \in Operator, NEW k \in KeyId, NEW s \in Scope, InsertsKey(o, k, s)
    PROVE  ActiveKeysBounded'
<1>. DEFINE row == [scope |-> s, revoked |-> FALSE]
<1>1. row \in KeyRow /\ row # NoKey
  BY RowIsKey DEF KeyRow
<1>2. ActiveKeys' = ActiveKeys \cup {k}
  BY <1>1 DEF InsertsKey, ActiveKeys, McpInv, McpTypeOK
<1>3. Counted' = Counted \ {o} /\ o \in Counted
  BY DEF InsertsKey, Counted, McpInv, McpTypeOK, IdleOperator
<1>4. Cardinality(ActiveKeys') <= Cardinality(ActiveKeys) + 1
  <2>1. Cardinality(ActiveKeys \cup {k})
          = IF k \in ActiveKeys THEN Cardinality(ActiveKeys) ELSE Cardinality(ActiveKeys) + 1
    BY SetsFinite, FS_AddElement
  <2>2. Cardinality(ActiveKeys \cup {k}) <= Cardinality(ActiveKeys) + 1
    BY <2>1, SetsFinite
  <2>. QED  BY <1>2, <2>2
<1>5. Cardinality(Counted') = Cardinality(Counted) - 1
  BY <1>3, SetsFinite, FS_RemoveElement
<1>6. Cardinality(ActiveKeys') \in Nat /\ Cardinality(Counted') \in Nat
  BY <1>2, <1>3, SetsFinite, FS_AddElement, FS_RemoveElement, FS_CardinalityType
<1>. QED
  BY <1>4, <1>5, <1>6, SetsFinite, MaxAssumption DEF ActiveKeysBounded, Counted, MaxAssumption

(* Every other step makes no key active and counts nothing.                 *)
LEMMA OthersBounded ==
    ASSUME McpInv, ActiveKeysBounded, ActiveKeys' \subseteq ActiveKeys, Counted' = Counted
    PROVE  ActiveKeysBounded'
<1>1. Cardinality(ActiveKeys') <= Cardinality(ActiveKeys) /\ IsFiniteSet(ActiveKeys')
  BY SetsFinite, FS_Subset
<1>2. Cardinality(ActiveKeys') \in Nat
  BY <1>1, FS_CardinalityType
<1>3. Cardinality(ActiveKeys) + Cardinality(Counted) < MaxActive + Cardinality(Operator)
  BY DEF ActiveKeysBounded, Counted
<1>4. Cardinality(ActiveKeys') + Cardinality(Counted') < MaxActive + Cardinality(Operator)
  BY <1>1, <1>2, <1>3, SetsFinite, MaxAssumption DEF MaxAssumption
<1>. QED
  BY <1>4 DEF ActiveKeysBounded, Counted

LEMMA FindsOrRevokesQuiet ==
    ASSUME McpInv, NEW o \in Operator, NEW k \in KeyId, FindsKey(o, k) \/ RevokesKey(o)
    PROVE  ActiveKeys' \subseteq ActiveKeys /\ Counted' = Counted
<1>1. CASE FindsKey(o, k)
  <2>1. ActiveKeys' = ActiveKeys
    <3>1. keys' = keys
      BY <1>1 DEF FindsKey
    <3>. QED  BY <3>1 DEF ActiveKeys
  <2>2. Counted' = Counted
    <3>1. CASE operators' = operators
      BY <3>1 DEF Counted
    <3>2. CASE operators' = [operators EXCEPT ![o] = [st |-> "found", key |-> k]]
      BY <1>1, <3>2 DEF FindsKey, Counted, McpInv, McpTypeOK
    <3>3. keys[k].revoked \/ ~keys[k].revoked
      OBVIOUS
    <3>. QED  BY <1>1, <3>1, <3>2, <3>3 DEF FindsKey
  <2>. QED  BY <2>1, <2>2
<1>2. CASE RevokesKey(o)
  <2>. DEFINE j == operators[o].key
  <2>1. j \in KeyId /\ keys[j] \in KeyRow /\ Revokes(keys[j]).revoked
    BY <1>2, RowWrites DEF McpInv, McpTypeOK, OperatorsHold, RevokesKey
  <2>2. ActiveKeys' \subseteq ActiveKeys
    BY <1>2, <2>1 DEF RevokesKey, ActiveKeys, McpInv, McpTypeOK
  <2>3. Counted' = Counted
    BY <1>2 DEF RevokesKey, Counted, McpInv, McpTypeOK, IdleOperator
  <2>. QED  BY <2>2, <2>3
<1>. QED  BY <1>1, <1>2

LEMMA ClientsQuiet ==
    ASSUME McpInv, NEW c \in Client,
           \/ \E k \in KeyId, b \in Bodies : Arrives(c, k, b)
           \/ LooksUp(c) \/ SavesLastUsed(c) \/ Serves(c) \/ Leaves(c)
    PROVE  ActiveKeys' \subseteq ActiveKeys /\ Counted' = Counted
<1>1. UNCHANGED operators
  BY DEF Arrives, LooksUp, SavesLastUsed, Serves, Leaves
<1>2. Counted' = Counted
  BY <1>1 DEF Counted
<1>3. CASE keys' = keys
  BY <1>2, <1>3 DEF ActiveKeys
<1>4. CASE SavesLastUsed(c)
  <2>. DEFINE j == clients[c].key
  <2>1. j \in KeyId /\ keys[j] \in KeyRow /\ keys[j] # NoKey
        /\ WithScope(keys[j]).revoked = keys[j].revoked
    BY <1>4, RowWrites DEF McpInv, McpTypeOK, ClientsHold, SavesLastUsed
  <2>2. ActiveKeys' \subseteq ActiveKeys
    BY <1>4, <2>1 DEF SavesLastUsed, Touched, ActiveKeys, McpInv, McpTypeOK
  <2>. QED  BY <1>2, <2>2
<1>. QED  BY <1>3, <1>4 DEF Arrives, LooksUp, Serves, Leaves

(* Concurrent creations pass the limit together by fewer keys than there    *)
(* are operators: each counted while there was room.                        *)
THEOREM LimitNearlyKept == McpSpec => []ActiveKeysBounded
<1>1. McpInit => ActiveKeysBounded
  <2>. SUFFICES ASSUME McpInit PROVE ActiveKeysBounded
    OBVIOUS
  <2>1. Counted = {} /\ Cardinality(ActiveKeys) <= MaxActive
    BY DEF McpInit, Counted, IdleOperator
  <2>2. Cardinality(Counted) = 0
    BY <2>1, FS_EmptySet
  <2>. QED
    BY <2>1, <2>2, SetsFinite, MaxAssumption DEF ActiveKeysBounded, Counted, MaxAssumption
<1>2. McpInv /\ ActiveKeysBounded /\ [McpNext]_mcpVars => ActiveKeysBounded'
  <2>. SUFFICES ASSUME McpInv, ActiveKeysBounded, [McpNext]_mcpVars PROVE ActiveKeysBounded'
    OBVIOUS
  <2>1. CASE UNCHANGED mcpVars
    BY <2>1, OthersBounded DEF mcpVars, ActiveKeys, Counted
  <2>2. ASSUME NEW o \in Operator, NEW k \in KeyId, FindsKey(o, k) \/ RevokesKey(o)
        PROVE  ActiveKeysBounded'
    BY <2>2, FindsOrRevokesQuiet, OthersBounded
  <2>3. ASSUME NEW o \in Operator, RevokesKey(o) PROVE ActiveKeysBounded'
    BY <2>2, <2>3 DEF RevokesKey, McpInv, OperatorsHold
  <2>4. ASSUME NEW c \in Client,
               \/ \E k \in KeyId, b \in Bodies : Arrives(c, k, b)
               \/ LooksUp(c) \/ SavesLastUsed(c) \/ Serves(c) \/ Leaves(c)
        PROVE  ActiveKeysBounded'
    BY <2>4, ClientsQuiet, OthersBounded
  <2>5. CASE McpNext
    BY <2>2, <2>3, <2>4, <2>5, CountsBounded, InsertsBounded DEF McpNext
  <2>. QED  BY <2>1, <2>5
<1>. QED  BY McpInvariant, <1>1, <1>2, PTL DEF McpSpec

(* A request that was let in serves with the scope its key has by then.     *)
ScopesFit ==
    \A c \in Client : clients[c].st \in {"known", "serving", "stream"} =>
        clients[c].scope = ScopeOf(keys[clients[c].key])

(* No step changes the scope that a key counts as.                          *)
LEMMA ScopeStays ==
    ASSUME McpInv, McpNext, NEW k \in KeyId, keys[k] # NoKey
    PROVE  ScopeOf(keys'[k]) = ScopeOf(keys[k])
<1>1. keys[k] \in KeyRow
  BY DEF McpInv, McpTypeOK
<1>2. ASSUME NEW o \in Operator, NEW j \in KeyId, NEW s \in Scope, InsertsKey(o, j, s)
      PROVE  keys'[k] = keys[k]
  BY <1>2 DEF InsertsKey, McpInv, McpTypeOK
<1>3. ASSUME NEW o \in Operator, RevokesKey(o)
      PROVE  keys'[k] = keys[k] \/ keys'[k] = Revokes(keys[k])
  BY <1>3 DEF RevokesKey, McpInv, McpTypeOK
<1>4. ASSUME NEW c \in Client, SavesLastUsed(c)
      PROVE  keys'[k] = keys[k] \/ keys'[k] = WithScope(keys[k])
  BY <1>4 DEF SavesLastUsed, Touched, McpInv, McpTypeOK
<1>5. \/ keys' = keys \/ keys'[k] = keys[k]
      \/ keys'[k] = Revokes(keys[k]) \/ keys'[k] = WithScope(keys[k])
  BY <1>2, <1>3, <1>4 DEF McpNext, CountsKeys, FindsKey, Arrives, LooksUp, Serves, Leaves
<1>. QED  BY <1>1, <1>5, RowWrites

(* Where a request that is let in comes from: the look-up, or itself.       *)
LEMMA LetIn ==
    ASSUME McpInv, McpNext, NEW c \in Client,
           clients'[c].st \in {"known", "serving", "stream"}
    PROVE  /\ clients'[c].key = clients[c].key
           /\ clients[c].st # "idle"
           /\ \/ clients[c].st \in {"known", "serving", "stream"}
                 /\ clients'[c].scope = clients[c].scope
              \/ clients'[c].scope = ScopeOf(keys[clients[c].key])
<1>1. CASE UNCHANGED clients
  BY <1>1
<1>2. ASSUME NEW d \in Client, NEW k \in KeyId, NEW b \in Bodies, Arrives(d, k, b)
      PROVE  clients'[c] = clients[c]
  BY <1>2 DEF Arrives, McpInv, McpTypeOK
<1>3. ASSUME NEW d \in Client, Leaves(d) PROVE clients'[c] = clients[c]
  BY <1>3 DEF Leaves, IdleClient, McpInv, McpTypeOK
<1>4. ASSUME NEW d \in Client, LooksUp(d)
      PROVE  \/ clients'[c] = clients[c]
             \/ /\ clients'[c].key = clients[c].key /\ clients[c].st = "arrived"
                /\ clients'[c].scope = ScopeOf(keys[clients[c].key])
  <2>1. CASE UsableKey(clients[d].key)
    BY <1>4, <2>1 DEF LooksUp, McpInv, McpTypeOK
  <2>2. CASE ~UsableKey(clients[d].key)
    BY <1>4, <2>2 DEF LooksUp, McpInv, McpTypeOK
  <2>. QED  BY <2>1, <2>2
<1>5. ASSUME NEW d \in Client, SavesLastUsed(d) \/ Serves(d)
      PROVE  /\ clients'[c].key = clients[c].key /\ clients'[c].scope = clients[c].scope
             /\ clients'[c].st = clients[c].st \/ clients[c].st = "known"
  <2>1. CASE SavesLastUsed(d)
    BY <2>1 DEF SavesLastUsed, McpInv, McpTypeOK
  <2>2. CASE Serves(d)
    <3>1. clients' = [clients EXCEPT ![d].body = Tail(@)]
      BY <2>2 DEF Serves
    <3>. QED  BY <3>1 DEF McpInv, McpTypeOK
  <2>. QED  BY <1>5, <2>1, <2>2
<1>. QED
  BY <1>1, <1>2, <1>3, <1>4, <1>5 DEF McpNext, CountsKeys, InsertsKey, FindsKey, RevokesKey

LEMMA ScopesFitStep == McpInv /\ ScopesFit /\ [McpNext]_mcpVars => ScopesFit'
<1>1. CASE UNCHANGED mcpVars
  BY <1>1 DEF mcpVars, ScopesFit
<1>2. ASSUME McpInv, ScopesFit, McpNext PROVE ScopesFit'
  <2>. SUFFICES ASSUME NEW c \in Client, clients'[c].st \in {"known", "serving", "stream"}
                PROVE  clients'[c].scope = ScopeOf(keys'[clients'[c].key])
    BY DEF ScopesFit
  <2>1. clients'[c].key = clients[c].key /\ clients[c].key \in KeyId
        /\ keys[clients[c].key] # NoKey
    BY <1>2, LetIn DEF McpInv, ClientsHold
  <2>2. clients'[c].scope = ScopeOf(keys[clients[c].key])
    BY <1>2, LetIn DEF ScopesFit
  <2>. QED  BY <1>2, <2>1, <2>2, ScopeStays
<1>. QED  BY <1>1, <1>2

(* What the scope table says of the tools that delete, change or reveal.    *)
LEMMA ToolTiers ==
    ASSUME NEW t \in ToolNames
    PROVE  /\ t \in Deletes => ToolScope(t) = "full"
           /\ t \in Changes => ToolScope(t) \in {"operate", "full"}
           /\ t \in Reveals => ToolScope(t) = "read_secret"
<1>1. PICK e \in McpTools : e[1] = t
  BY DEF ToolNames
<1>2. \A x \in McpTools : x[1] \in Deletes => x[2] = "full"
  BY DEF McpTools, Tier, QueryTools, SecretTools, SettingTools, RemovalTools, CatalogTools,
     ProvisionTools, PipelineTools, TeardownTools, RemovalNames, Deletes
<1>3. \A x \in McpTools : x[1] \in Changes => x[2] \in {"operate", "full"}
  BY DEF McpTools, Tier, QueryTools, SecretTools, SettingTools, RemovalTools, CatalogTools,
     ProvisionTools, PipelineTools, TeardownTools, RemovalNames, Changes
<1>4. \A x \in McpTools : x[1] \in Reveals => x[2] = "read_secret"
  BY DEF McpTools, Tier, QueryTools, SecretTools, SettingTools, RemovalTools, CatalogTools,
     ProvisionTools, PipelineTools, TeardownTools, RemovalNames, Reveals
<1>5. \E x \in McpTools : x[1] = t /\ ToolScope(t) = x[2]
  BY <1>1 DEF ToolScope
<1>. QED  BY <1>2, <1>3, <1>4, <1>5

(* A tool that deletes runs only for a full key, one that changes anything  *)
(* (the upsert that tears a target down is one) only from operate on, a     *)
(* secret is never handed to a read key.                                    *)
THEOREM ScopesAreHonoured == McpSpec => []ScopesHonoured
<1>1. McpInit => ScopesFit /\ ScopesHonoured
  BY DEF McpInit, ScopesFit, ScopesHonoured, IdleClient, Nothing
<1>2. McpInv /\ ScopesFit /\ ScopesHonoured /\ [McpNext]_mcpVars => ScopesHonoured'
  <2>. SUFFICES ASSUME McpInv, ScopesFit, ScopesHonoured, [McpNext]_mcpVars
                PROVE  ScopesHonoured'
    OBVIOUS
  <2>1. CASE UNCHANGED mcpVars
    BY <2>1 DEF mcpVars, ScopesHonoured
  <2>2. CASE served' = Nothing
    BY <2>2 DEF ScopesHonoured, Nothing
  <2>3. ASSUME NEW c \in Client, Serves(c) PROVE ScopesHonoured'
    <3>. DEFINE t == served'.tool
                s == ScopeOf(keys'[served'.key])
    <3>1. s = clients[c].scope /\ s \in Scope
      BY <2>3 DEF Serves, ScopesFit, McpInv, McpTypeOK
    <3>2. served'.ran => t \in ToolNames /\ ScopeAllows(s, ToolScope(t))
      BY <2>3, <3>1 DEF Serves, ToolRuns
    <3>3. served'.ran /\ ToolScope(t) = "full" => s = "full"
      BY <3>1, <3>2 DEF ScopeAllows, Rank, Scope
    <3>4. served'.ran /\ ToolScope(t) = "operate" => s \in {"operate", "full"}
      BY <3>1, <3>2 DEF ScopeAllows, Rank, Scope
    <3>5. served'.ran /\ ToolScope(t) = "read_secret" => s # "read"
      BY <3>1, <3>2 DEF ScopeAllows, Rank, Scope
    <3>6. served'.down => t \in Changes
      BY <2>3 DEF Serves, TearsDown, Changes
    <3>. QED  BY <3>2, <3>3, <3>4, <3>5, <3>6, ToolTiers DEF ScopesHonoured
  <2>. QED
    BY <2>1, <2>2, <2>3 DEF McpNext, CountsKeys, InsertsKey, FindsKey, RevokesKey, Arrives,
       LooksUp, SavesLastUsed, Leaves
<1>. QED  BY McpInvariant, ScopesFitStep, <1>1, <1>2, PTL DEF McpSpec
=============================================================================
