------------------------------ MODULE LogPanel ------------------------------
(***************************************************************************)
(* The container log view of the console                                   *)
(* (console/src/components/AppContainerLogPanel.tsx).  Whatever the effect *)
(* that loads depends on (project, target, app, tail, previous) is one     *)
(* choice.  The container filter is no part of it: typing it loads         *)
(* nothing, the next load sends what it says by then.  A choice is loaded  *)
(* at once; while it is on screen a timer polls it again silently.         *)
(* Answers come back in any order.  A load that began before the latest    *)
(* one is out of date: requestSeq tells them apart, and loadingRef keeps   *)
(* the timer off while a visible load is under way.                        *)
(***************************************************************************)
EXTENDS Naturals

CONSTANTS
    Choice,     \* what can be asked of the API: project, target, app, tail...
    NoChoice,   \* no project yet, or one without deployment targets
    MaxLoads    \* bound: loads begun while the view stays on screen

ASSUME LogPanelAssumption == NoChoice \notin Choice /\ MaxLoads \in Nat \ {0}

VARIABLES
    asks,       \* the choice on the form, NoChoice before there is one
    seq,        \* requestSeq: the number of the latest load
    loads,      \* loads whose answer has not arrived
    logs,       \* the choice whose lines are on screen
    loading,    \* loading and loadingRef: a visible load is under way
    logError    \* the error on screen

logVars == <<asks, seq, loads, logs, loading, logError>>

Load == [seq : 1..MaxLoads, silent : BOOLEAN, asks : Choice]

Unopened ==
    [asks |-> NoChoice, seq |-> 0, loads |-> {}, logs |-> NoChoice,
     loading |-> FALSE, error |-> FALSE]

\* The view appears: the state of the component before its first effect.
Appears ==
    /\ asks' = Unopened.asks /\ seq' = Unopened.seq /\ loads' = Unopened.loads
    /\ logs' = Unopened.logs /\ loading' = Unopened.loading /\ logError' = Unopened.error

\* load: an answer will be matched with the number the request takes here.
Asks(c, silent) ==
    /\ seq < MaxLoads
    /\ seq' = seq + 1
    /\ loads' = loads \cup {[seq |-> seq + 1, silent |-> silent, asks |-> c]}
    /\ loading' = (loading \/ ~silent)
    /\ logError' = (logError /\ silent)
    /\ UNCHANGED logs

\* A new choice reruns the effect that loads it; without a target load returns.
Chooses(c) ==
    /\ c # asks
    /\ asks' = c
    /\ IF c = NoChoice THEN UNCHANGED <<seq, loads, logs, loading, logError>>
       ELSE Asks(c, FALSE)

\* The Refresh button, disabled while a visible load is under way.
Refreshes ==
    /\ asks # NoChoice /\ ~loading
    /\ Asks(asks, FALSE)
    /\ UNCHANGED asks

\* The timer of the Follow switch.
MayPoll == ~loading
Polls ==
    /\ asks # NoChoice /\ MayPoll
    /\ Asks(asks, TRUE)
    /\ UNCHANGED asks

AnyLoad(r) == r.seq <= seq
Latest(r) == r.seq = seq

\* An answer, or an error, arrives; one of an earlier load is dropped.
Loaded(r) ==
    /\ r \in loads
    /\ loads' = loads \ {r}
    /\ IF Latest(r)
       THEN /\ logs' = r.asks
            /\ loading' = (loading /\ r.silent)
            /\ logError' = (logError /\ ~r.silent)
       ELSE UNCHANGED <<logs, loading, logError>>
    /\ UNCHANGED <<asks, seq>>

LoadFails(r) ==
    /\ r \in loads
    /\ loads' = loads \ {r}
    /\ IF Latest(r)
       THEN /\ logs' = IF r.silent THEN logs ELSE NoChoice
            /\ loading' = (loading /\ r.silent)
            /\ logError' = TRUE
       ELSE UNCHANGED <<logs, loading, logError>>
    /\ UNCHANGED <<asks, seq>>

LogInit ==
    /\ asks = Unopened.asks /\ seq = Unopened.seq /\ loads = Unopened.loads
    /\ logs = Unopened.logs /\ loading = Unopened.loading /\ logError = Unopened.error

LogNext ==
    \/ \E c \in Choice \cup {NoChoice} : Chooses(c)
    \/ Refreshes
    \/ Polls
    \/ \E r \in loads : Loaded(r) \/ LoadFails(r)

LogTypeOK ==
    /\ asks \in Choice \cup {NoChoice}
    /\ seq \in 0..MaxLoads
    /\ loads \subseteq Load
    /\ logs \in Choice \cup {NoChoice}
    /\ loading \in BOOLEAN /\ logError \in BOOLEAN

(* What an operator reads is what the form says, but for its container      *)
(* filter: once the view is not loading, the lines on screen are those of   *)
(* the present choice, whatever the order the answers of earlier choices,   *)
(* refreshes and polls came in; and a view that says it is loading has a    *)
(* load whose answer will end it.                                           *)
LogsMatchChoice ==
    /\ asks # NoChoice /\ ~loading /\ logs # NoChoice => logs = asks
    /\ loading => \E r \in loads : Latest(r) /\ ~r.silent
=============================================================================
