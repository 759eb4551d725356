---------------------------- MODULE WatchdogProofs ----------------------------
(***************************************************************************)
(* What holds of the disk failsafe for any number of ticks that overlap,   *)
(* are killed or are crossed by an operator, whatever stops fail.          *)
(***************************************************************************)
EXTENDS Watchdog, TLAPS

(* What a tick has passed in the stop order is down or excused, and so is   *)
(* everything once a tick is about to record, or has recorded, "stopped".   *)
Passed == \A t \in Tick : \A n, m \in 1 .. 8 :
    (m < n /\ tick[t].pc = StopOrder[n] /\ StopOrder[m] \in up) => StopOrder[m] \in excused
Finishing == \A t \in Tick : tick[t].pc = "finish" => up \subseteq excused

WatchdogInv == /\ WatchdogTypeOK /\ Passed /\ Finishing
               /\ StoppedMeansStopped /\ DataOutlivesGitLab

(* The stop order has eight groups, all different, none a step of a tick.   *)
LEMMA OrderLength == Len(StopOrder) = 8
BY DEF StopOrder

LEMMA OrderRange == \A n \in 1 .. 8 : StopOrder[n] \in Group
BY DEF StopOrder, Group

LEMMA OrderCovers == \A g \in Group : \E n \in 1 .. 8 : StopOrder[n] = g
<1>1. /\ StopOrder[1] = "runner" /\ StopOrder[2] = "gitlab" /\ StopOrder[3] = "apps"
      /\ StopOrder[4] = "minio" /\ StopOrder[5] = "databases" /\ StopOrder[6] = "identity"
      /\ StopOrder[7] = "tunnel" /\ StopOrder[8] = "traefik"
  BY DEF StopOrder
<1> QED BY <1>1 DEF Group

LEMMA OrderInjective == \A n, m \in 1 .. 8 : StopOrder[n] = StopOrder[m] => n = m
BY DEF StopOrder

LEMMA OrderApart == Group \cap {"idle", "read", "warn", "reset", "init", "quiesce", "drain",
                                "finish"} = {}
BY DEF Group

(* A tick that moves along changes its own place only.                      *)
LEMMA Moving ==
    ASSUME WatchdogTypeOK, NEW t \in Tick, NEW pc \in TickPc, Goes(t, pc)
    PROVE  /\ tick' \in [Tick -> [pc : TickPc, mode : Mode \cup {"real"}]]
           /\ tick'[t].pc = pc /\ tick'[t].mode = tick[t].mode
           /\ \A s \in Tick \ {t} : tick'[s] = tick[s]
BY DEF WatchdogTypeOK, Goes

LEMMA Ending ==
    ASSUME WatchdogTypeOK, NEW t \in Tick, Ends(t)
    PROVE  /\ tick' \in [Tick -> [pc : TickPc, mode : Mode \cup {"real"}]]
           /\ tick'[t].pc = "idle"
           /\ \A s \in Tick \ {t} : tick'[s] = tick[s]
BY DEF WatchdogTypeOK, Ends, IdleTick, TickPc

(* The next place in the stop order.                                        *)
LEMMA NextStopPlaces ==
    ASSUME NEW n \in 1 .. 8
    PROVE  /\ NextStop(n) \in TickPc
           /\ n < 8 => NextStop(n) = StopOrder[n + 1]
           /\ n = 8 => NextStop(n) = "finish"
BY OrderLength, OrderRange DEF NextStop, TickPc

-----------------------------------------------------------------------------
(* A step that takes no group's excuse, starts no group unexcused and puts  *)
(* no tick into the stop order keeps what the order guarantees.             *)
LEMMA QuietStep ==
    ASSUME Passed, Finishing, up' \subseteq up \cup excused', excused \subseteq excused',
           \A t \in Tick : tick'[t].pc = tick[t].pc \/ tick'[t].pc = StopOrder[1]
                           \/ tick'[t].pc \notin Group \cup {"finish"}
    PROVE  Passed' /\ Finishing'
<1>1. Passed'
  <2> SUFFICES ASSUME NEW t \in Tick, NEW n \in 1 .. 8, NEW m \in 1 .. 8, m < n,
                      tick'[t].pc = StopOrder[n], StopOrder[m] \in up'
               PROVE  StopOrder[m] \in excused'
    BY DEF Passed
  <2>1. tick[t].pc = StopOrder[n]
    BY OrderRange, OrderInjective
  <2> QED BY <2>1 DEF Passed
<1>2. Finishing'
  <2>1. \A t \in Tick : tick'[t].pc = "finish" => tick[t].pc = "finish"
    BY OrderRange, OrderApart
  <2> QED BY <2>1 DEF Finishing
<1> QED BY <1>1, <1>2

(* One group of the order is stopped, or its stop fails, or is a dry run's: *)
(* the tick has passed that group too.                                      *)
LEMMA StopStep ==
    ASSUME WatchdogTypeOK, Passed, Finishing, NEW t \in Tick, NEW n \in 1 .. 8,
           At(t, StopOrder[n]), Goes(t, NextStop(n)),
           \/ up' = up \ {StopOrder[n]} /\ excused' = excused \ {StopOrder[n]}
           \/ up' = up /\ excused' = excused \cup {StopOrder[n]}
    PROVE  Passed' /\ Finishing'
<1>1. /\ tick'[t].pc = NextStop(n)
      /\ \A s \in Tick \ {t} : tick'[s] = tick[s]
  BY Moving, NextStopPlaces
<1>2. \A g \in up' : g \in up /\ g \in excused => g \in excused'
  OBVIOUS
<1>3. \A m \in 1 .. 8 : m <= n /\ StopOrder[m] \in up' => StopOrder[m] \in excused'
  <2> TAKE m \in 1 .. 8
  <2>1. CASE m = n BY <2>1
  <2>2. CASE m < n BY <2>2, <1>2 DEF Passed, At
  <2>3. CASE m > n BY <2>3
  <2> QED BY <2>1, <2>2, <2>3
<1>4. Passed'
  <2> SUFFICES ASSUME NEW s \in Tick, NEW k \in 1 .. 8, NEW m \in 1 .. 8, m < k,
                      tick'[s].pc = StopOrder[k], StopOrder[m] \in up'
               PROVE  StopOrder[m] \in excused'
    BY DEF Passed
  <2>1. CASE s = t
    <3>1. n < 8
      BY <2>1, <1>1, NextStopPlaces, OrderRange, OrderApart
    <3>2. k = n + 1
      BY <2>1, <3>1, <1>1, NextStopPlaces, OrderInjective
    <3> QED BY <3>2, <1>3
  <2>2. CASE s # t
    BY <2>2, <1>1, <1>2 DEF Passed
  <2> QED BY <2>1, <2>2
<1>5. Finishing'
  <2> SUFFICES ASSUME NEW s \in Tick, tick'[s].pc = "finish"
               PROVE  up' \subseteq excused'
    BY DEF Finishing
  <2>1. CASE s = t
    <3>1. n = 8
      BY <2>1, <1>1, NextStopPlaces, OrderRange, OrderApart
    <3>2. \A g \in up' : \E m \in 1 .. 8 : g = StopOrder[m]
      BY OrderCovers DEF WatchdogTypeOK
    <3> QED BY <3>1, <3>2, <1>3
  <2>2. CASE s # t
    BY <2>2, <1>1, <1>2 DEF Finishing
  <2> QED BY <2>1, <2>2
<1> QED BY <1>4, <1>5

-----------------------------------------------------------------------------
LEMMA InitEstablishesWatchdog == WatchdogInit => WatchdogInv
<1> SUFFICES ASSUME WatchdogInit PROVE WatchdogInv OBVIOUS
<1>1. WatchdogTypeOK
  <2>1. IdleTick \in [pc : TickPc, mode : Mode \cup {"real"}]
    BY DEF IdleTick, TickPc
  <2>2. tick \in [Tick -> [pc : TickPc, mode : Mode \cup {"real"}]]
    BY <2>1 DEF WatchdogInit
  <2>3. kills \in 0 .. MaxKills /\ fills \in 0 .. MaxFills
    BY BoundsAssumption DEF BoundsAssumption, WatchdogInit
  <2> QED BY <2>2, <2>3 DEF WatchdogInit, WatchdogTypeOK
<1>2. Passed /\ Finishing
  BY OrderRange, OrderApart DEF WatchdogInit, Passed, Finishing, IdleTick
<1>3. StoppedMeansStopped /\ DataOutlivesGitLab
  BY DEF WatchdogInit, StoppedMeansStopped, DataOutlivesGitLab, Group
<1> QED BY <1>1, <1>2, <1>3 DEF WatchdogInv

(* Every step of a tick keeps the invariant.                                *)
LEMMA TickKeepsWatchdog ==
    ASSUME WatchdogInv, NEW t \in Tick,
           (\E m \in Mode : TickStarts(t, m)) \/ TickStep(t) \/ Killed(t)
    PROVE  WatchdogInv'
<1> USE DEF WatchdogInv
<1>1. CASE \E m \in Mode : TickStarts(t, m)
  <2> PICK m \in Mode : TickStarts(t, m) BY <1>1
  <2>1. WatchdogTypeOK'
    <3>1. [pc |-> "read", mode |-> m] \in [pc : TickPc, mode : Mode \cup {"real"}]
      BY DEF TickPc
    <3>2. tick' \in [Tick -> [pc : TickPc, mode : Mode \cup {"real"}]]
      BY <3>1 DEF TickStarts, WatchdogTypeOK
    <3> QED BY <3>2 DEF TickStarts, WatchdogTypeOK, Outside
  <2>2. \A s \in Tick : tick'[s].pc = tick[s].pc \/ tick'[s].pc = "read"
    BY DEF TickStarts, WatchdogTypeOK
  <2>3. Passed' /\ Finishing'
    BY <2>2, QuietStep, OrderApart DEF TickStarts
  <2> QED BY <2>1, <2>3 DEF TickStarts, StoppedMeansStopped, DataOutlivesGitLab
<1>2. CASE TickReads(t) \/ Warns(t) \/ Resets(t) \/ Killed(t)
  <2>1. Ends(t) \/ (\E pc \in {"init", "warn", "reset"} : Goes(t, pc))
    BY <1>2 DEF TickReads, Warns, Resets, Killed
  <2>2. \A s \in Tick : tick'[s].pc = tick[s].pc \/ tick'[s].pc \in {"idle", "init", "warn", "reset"}
    BY <2>1, Ending, Moving DEF TickPc
  <2>3. tick' \in [Tick -> [pc : TickPc, mode : Mode \cup {"real"}]]
    BY <2>1, Ending, Moving DEF TickPc
  <2>4. /\ file' \in {file, "warned", "ok"} /\ up' = up /\ excused' = excused /\ free' = free
        /\ lock' = lock /\ push' = push /\ fills' = fills /\ kills' \in 0 .. MaxKills
    BY <1>2, BoundsAssumption
    DEF BoundsAssumption, TickReads, Warns, Resets, Killed, Outside, WatchdogTypeOK
  <2>5. WatchdogTypeOK'
    BY <2>3, <2>4 DEF WatchdogTypeOK
  <2>6. Passed' /\ Finishing'
    BY <2>2, <2>4, QuietStep, OrderApart
  <2> QED BY <2>4, <2>5, <2>6 DEF StoppedMeansStopped, DataOutlivesGitLab
<1>3. CASE Records(t) \/ Quiesces(t) \/ Waits(t)
  <2>1. \E pc \in {"quiesce", "drain", StopOrder[1]} : Goes(t, pc)
    BY <1>3 DEF Records, Quiesces, Waits
  <2>2. {"quiesce", "drain", StopOrder[1]} \subseteq TickPc
    BY OrderRange DEF TickPc
  <2>3. \A s \in Tick : tick'[s].pc = tick[s].pc \/ tick'[s].pc \in {"quiesce", "drain", StopOrder[1]}
    BY <2>1, <2>2, Moving
  <2>4. tick' \in [Tick -> [pc : TickPc, mode : Mode \cup {"real"}]]
    BY <2>1, <2>2, Moving
  <2>5. /\ file' \in {file, "draining"} /\ up' \in {up, up \ {"runner"}} /\ excused' = excused
        /\ free' = free /\ lock' \in {lock, TRUE} /\ push' = push /\ fills' = fills /\ kills' = kills
    BY <1>3 DEF Records, Quiesces, Waits, Outside
  <2>6. WatchdogTypeOK'
    BY <2>4, <2>5 DEF WatchdogTypeOK
  <2>7. Passed' /\ Finishing'
    BY <2>3, <2>5, QuietStep, OrderApart
  <2> QED BY <2>5, <2>6, <2>7 DEF StoppedMeansStopped, DataOutlivesGitLab
<1>4. ASSUME NEW n \in 1 .. 8, StopsGroup(t, n) \/ StopFails(t, n) \/ DryStop(t, n)
      PROVE  WatchdogInv'
  <2>1. /\ At(t, StopOrder[n]) /\ Goes(t, NextStop(n))
        /\ \/ up' = up \ {StopOrder[n]} /\ excused' = excused \ {StopOrder[n]}
           \/ up' = up /\ excused' = excused \cup {StopOrder[n]}
        /\ file' = file /\ lock' = lock /\ free' = free /\ kills' = kills /\ fills' = fills
    BY <1>4 DEF StopsGroup, StopFails, DryStop, Outside
  <2>2. push' \in [Push -> {"none", "in", "left", "settled", "lost"}]
    BY <1>4 DEF StopsGroup, StopFails, DryStop, Cut, WatchdogTypeOK
  <2>3. tick' \in [Tick -> [pc : TickPc, mode : Mode \cup {"real"}]]
    BY <2>1, Moving, NextStopPlaces
  <2>4. WatchdogTypeOK'
    BY <2>1, <2>2, <2>3, OrderRange DEF WatchdogTypeOK
  <2>5. Passed' /\ Finishing'
    BY <2>1, StopStep
  <2>6. StoppedMeansStopped'
    BY <2>1 DEF StoppedMeansStopped
  <2>7. DataOutlivesGitLab'
    <3>1. StopOrder[2] = "gitlab" /\ StopOrder[4] = "minio" /\ StopOrder[5] = "databases"
      BY DEF StopOrder
    <3>2. CASE n \in {4, 5}
      <4>1. "gitlab" \in up => "gitlab" \in excused
        BY <3>1, <3>2, <2>1 DEF Passed, At
      <4>2. StopOrder[n] # "gitlab"
        BY <3>1, <3>2, OrderInjective
      <4> QED BY <4>1, <4>2, <2>1 DEF DataOutlivesGitLab
    <3>3. CASE n \notin {4, 5}
      <4>1. StopOrder[n] \notin {"minio", "databases"}
        BY <3>1, <3>3, OrderInjective
      <4> QED BY <4>1, <2>1 DEF DataOutlivesGitLab
    <3> QED BY <3>2, <3>3
  <2> QED BY <2>4, <2>5, <2>6, <2>7
<1>5. CASE Finishes(t)
  <2>1. up \subseteq excused
    BY <1>5 DEF Finishes, At, Finishing
  <2>2. Ends(t) /\ file' = "stopped" /\ up' = up /\ lock' = lock /\ push' = push
        /\ excused' = excused /\ free' = free /\ kills' = kills /\ fills' = fills
    BY <1>5 DEF Finishes, Outside
  <2>3. \A s \in Tick : tick'[s].pc = tick[s].pc \/ tick'[s].pc = "idle"
    BY <2>2, Ending
  <2>4. WatchdogTypeOK'
    BY <2>2, Ending DEF WatchdogTypeOK
  <2>5. Passed' /\ Finishing'
    BY <2>2, <2>3, QuietStep, OrderApart
  <2> QED BY <2>1, <2>2, <2>4, <2>5 DEF StoppedMeansStopped, DataOutlivesGitLab
<1> QED BY <1>1, <1>2, <1>3, <1>4, <1>5, OrderLength DEF TickStep

(* The disk, the pushes and the operator keep it as well.                   *)
LEMMA HostKeepsWatchdog ==
    ASSUME WatchdogInv,
           \/ \E band \in {"ok", "warn", "low"} : DiskChanges(band)
           \/ \E p \in Push : PushArrives(p) \/ PushLands(p)
           \/ Clears \/ StackStarts
    PROVE  WatchdogInv'
<1> USE DEF WatchdogInv
<1>1. CASE \E band \in {"ok", "warn", "low"} : DiskChanges(band)
  BY <1>1, BoundsAssumption
  DEF BoundsAssumption, DiskChanges, WatchdogTypeOK, Passed, Finishing, StoppedMeansStopped, DataOutlivesGitLab
<1>2. CASE \E p \in Push : PushArrives(p) \/ PushLands(p)
  BY <1>2 DEF PushArrives, PushLands, Outside, WatchdogTypeOK, Passed, Finishing,
              StoppedMeansStopped, DataOutlivesGitLab
<1>3. CASE Clears
  BY <1>3, BoundsAssumption
  DEF BoundsAssumption, Clears, Disturbs, WatchdogTypeOK, Passed, Finishing, StoppedMeansStopped,
      DataOutlivesGitLab
<1>4. CASE StackStarts
  <2>1. /\ up' = Group /\ excused' = excused \cup (Group \ up)
        /\ tick' = tick /\ file' = file /\ lock' = lock /\ push' = push /\ free' = free
        /\ fills' = fills /\ kills' \in 0 .. MaxKills
    BY <1>4, BoundsAssumption
    DEF BoundsAssumption, StackStarts, Disturbs, WatchdogTypeOK
  <2>2. WatchdogTypeOK'
    BY <2>1 DEF WatchdogTypeOK
  <2>3. Passed' /\ Finishing'
    BY <2>1, QuietStep
  <2> QED BY <2>1, <2>2, <2>3 DEF StoppedMeansStopped, DataOutlivesGitLab, Group
<1> QED BY <1>1, <1>2, <1>3, <1>4

LEMMA StutterKeepsWatchdog == WatchdogInv /\ UNCHANGED watchdogVars => WatchdogInv'
BY DEF WatchdogInv, watchdogVars, WatchdogTypeOK, Passed, Finishing, StoppedMeansStopped,
       DataOutlivesGitLab

LEMMA StepKeepsWatchdog == WatchdogInv /\ [WatchdogNext]_watchdogVars => WatchdogInv'
BY TickKeepsWatchdog, HostKeepsWatchdog, StutterKeepsWatchdog DEF WatchdogNext

(* The invariant of the failsafe, from which the theorems below follow.     *)
THEOREM WatchdogInvariant == WatchdogSpec => []WatchdogInv
BY InitEstablishesWatchdog, StepKeepsWatchdog, PTL DEF WatchdogSpec

(* The failsafe's state keeps its types.                                    *)
THEOREM WatchdogTypes == WatchdogSpec => []WatchdogTypeOK
BY WatchdogInvariant, PTL DEF WatchdogInv

(* The state file says "stopped" only when every group is down, but for the *)
(* failed, dry and since restarted ones: for any number of ticks at once.   *)
THEOREM StoppedIsTrue == WatchdogSpec => []StoppedMeansStopped
BY WatchdogInvariant, PTL DEF WatchdogInv

(* The databases and the object store never go before GitLab, for any       *)
(* number of ticks at once.                                                 *)
THEOREM GitLabGoesFirst == WatchdogSpec => []DataOutlivesGitLab
BY WatchdogInvariant, PTL DEF WatchdogInv

=============================================================================
