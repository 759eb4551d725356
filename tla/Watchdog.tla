------------------------------- MODULE Watchdog -------------------------------
(***************************************************************************)
(* The host's disk failsafe, bootstrap/watchdog.sh, with the recovery of   *)
(* quarantined pushes it runs on every tick.  A tick is a process of its   *)
(* own: the scheduler starts one every two minutes, an operator may start  *)
(* another by hand, and either may be killed between any two steps.  Only  *)
(* the state file and the containers survive a tick.                       *)
(***************************************************************************)
EXTENDS Naturals, Sequences, FiniteSets

CONSTANTS
    Tick,       \* ticks that may run at the same time
    Push,       \* pushes that GitLab receives
    Mode,       \* how ticks are started: "real", "force", "dry"
    Flaky,      \* bound: groups whose stop may fail
    MaxKills,   \* bound: ticks killed half-way, or crossed by an operator
    MaxFills    \* bound: changes of the free space

ASSUME BoundsAssumption == MaxKills \in Nat /\ MaxFills \in Nat

VARIABLES
    free,       \* the band the free space is in: "ok", "warn" or "low"
    file,       \* .vols/watchdog.state; absent is "ok"
    up,         \* the service groups that run
    lock,       \* zz-watchdog-lock.yml in the Traefik container
    push,       \* what became of each push
    tick,       \* the ticks under way
    excused,    \* groups whose stop failed or was a dry run's, or that were
                \* started since
    kills, fills
watchdogVars == <<free, file, up, lock, push, tick, excused, kills, fills>>

-----------------------------------------------------------------------------
(* The groups of ordered_stop, in the order they are stopped.               *)
Swapped == <<"runner", "databases", "apps", "minio", "gitlab", "identity", "tunnel", "traefik">>
StopOrder == <<"runner", "gitlab", "apps", "minio", "databases", "identity", "tunnel", "traefik">>
Group == {"runner", "gitlab", "apps", "minio", "databases", "identity", "tunnel", "traefik"}

IdleTick == [pc |-> "idle", mode |-> "real"]
At(t, pc) == tick[t].pc = pc
Goes(t, pc) == tick' = [tick EXCEPT ![t].pc = pc]
Ends(t) == tick' = [tick EXCEPT ![t] = IdleTick]
Dry(t) == tick[t].mode = "dry"
Outside == <<free, kills, fills>>

(* gitaly-promote-incoming.sh, first thing in every tick, while GitLab      *)
(* runs: the loose objects of every quarantine are moved into the           *)
(* repository, packs are passed over, and the quarantine is removed, be the *)
(* push over or still under way.                                            *)
Promoted(s) == IF s = "left" THEN {"settled", "lost"}
               ELSE IF s = "in" THEN {"in", "settled"} ELSE {s}

TickStarts(t, m) ==
    /\ At(t, "idle")
    /\ tick' = [tick EXCEPT ![t] = [pc |-> "read", mode |-> m]]
    /\ push' \in [Push -> {"none", "in", "left", "settled", "lost"}]
    /\ \A p \in Push : push'[p] \in IF "gitlab" \in up THEN Promoted(push[p]) ELSE {push[p]}
    /\ UNCHANGED <<file, up, lock, excused, Outside>>

(* The state file and the free space are read, and tick() decides.  A df    *)
(* whose output is not a number counts as a full disk.                      *)
Pressed(t, seen) == tick[t].mode = "force" \/ seen = "low"
UnlessWarned(t, seen) == file = "draining" \/ (file = "ok" /\ Pressed(t, seen))
ResumesUnderPressure(t, seen) == file # "stopped" /\ Pressed(t, seen)
ShutsDown(t, seen) == file # "stopped" /\ (file = "draining" \/ Pressed(t, seen))
WarnsOnly(t, seen) == file \in {"ok", "warned"} /\ ~Pressed(t, seen) /\ seen = "warn"
NothingToDo(t, seen) ==
    /\ ~ShutsDown(t, seen)
    /\ ~(WarnsOnly(t, seen) /\ file = "ok") /\ ~(file = "warned" /\ seen = "ok")

TickReads(t) ==
    /\ At(t, "read")
    /\ \E seen \in {free, "low"} :
         \/ ShutsDown(t, seen) /\ Goes(t, "init")
         \/ WarnsOnly(t, seen) /\ file = "ok" /\ Goes(t, "warn")
         \/ ~ShutsDown(t, seen) /\ seen = "ok" /\ file = "warned" /\ Goes(t, "reset")
         \/ NothingToDo(t, seen) /\ Ends(t)
    /\ UNCHANGED <<file, up, lock, push, excused, Outside>>

(* The warning state is recorded before its mail goes out.                  *)
Warns(t) == /\ At(t, "warn") /\ file' = "warned" /\ Ends(t)
            /\ UNCHANGED <<up, lock, push, excused, Outside>>
Resets(t) == /\ At(t, "reset") /\ file' = "ok" /\ Ends(t)
             /\ UNCHANGED <<up, lock, push, excused, Outside>>

-----------------------------------------------------------------------------
(* run_shutdown: draining is recorded, new work is blocked, work under way  *)
(* is waited for until a deadline, the groups are stopped one by one.       *)
RecordsTypo(t) == /\ At(t, "init") /\ file' = "drain" /\ Goes(t, "quiesce")
                  /\ UNCHANGED <<up, lock, push, excused, Outside>>
RecordsEnd(t) == /\ At(t, "init") /\ file' = "stopped" /\ Goes(t, "quiesce")
                 /\ UNCHANGED <<up, lock, push, excused, Outside>>
Records(t) == /\ At(t, "init") /\ file' = "draining" /\ Goes(t, "quiesce")
              /\ UNCHANGED <<up, lock, push, excused, Outside>>

Quiesces(t) ==
    /\ At(t, "quiesce") /\ Goes(t, "drain")
    /\ lock' \in IF Dry(t) \/ "traefik" \notin up THEN {lock} ELSE {lock, TRUE}
    /\ up' \in IF Dry(t) THEN {up} ELSE {up, up \ {"runner"}}
    /\ UNCHANGED <<file, push, excused, Outside>>

Waits(t) == /\ At(t, "drain") /\ Goes(t, StopOrder[1])
            /\ UNCHANGED <<file, up, lock, push, excused, Outside>>

(* docker compose stop of one group.  Stopping GitLab cuts the pushes still *)
(* under way; what they brought stays in quarantine.                        *)
Cut(s) == IF s = "in" THEN "left" ELSE s
NextStop(n) == IF n < Len(StopOrder) THEN StopOrder[n + 1] ELSE "finish"

StopsGroup(t, n) ==
    /\ At(t, StopOrder[n]) /\ ~Dry(t) /\ Goes(t, NextStop(n))
    /\ up' = up \ {StopOrder[n]} /\ excused' = excused \ {StopOrder[n]}
    /\ push' = IF StopOrder[n] = "gitlab" THEN [p \in Push |-> Cut(push[p])] ELSE push
    /\ UNCHANGED <<file, lock, Outside>>

StopFails(t, n) ==
    /\ At(t, StopOrder[n]) /\ ~Dry(t) /\ StopOrder[n] \in Flaky /\ Goes(t, NextStop(n))
    /\ excused' = excused \cup {StopOrder[n]}
    /\ UNCHANGED <<file, up, lock, push, Outside>>

(* --dry-run passes over every group, and records its progress all the same. *)
DryStop(t, n) ==
    /\ At(t, StopOrder[n]) /\ Dry(t) /\ Goes(t, NextStop(n))
    /\ excused' = excused \cup {StopOrder[n]}
    /\ UNCHANGED <<file, up, lock, push, Outside>>

Finishes(t) == /\ At(t, "finish") /\ file' = "stopped" /\ Ends(t)
               /\ UNCHANGED <<up, lock, push, excused, Outside>>

TickStep(t) == \/ TickReads(t) \/ Warns(t) \/ Resets(t) \/ Records(t) \/ Quiesces(t)
               \/ Waits(t) \/ Finishes(t)
               \/ \E n \in 1 .. Len(StopOrder) :
                     StopsGroup(t, n) \/ StopFails(t, n) \/ DryStop(t, n)

-----------------------------------------------------------------------------
(* The host: the disk fills or is reclaimed, the scheduler kills a tick,    *)
(* pushes come and go, the operator clears the trip and starts the stack.   *)
DiskChanges(band) ==
    /\ fills < MaxFills /\ band # free
    /\ free' = band /\ fills' = fills + 1
    /\ UNCHANGED <<file, up, lock, push, tick, excused, kills>>

Killed(t) ==
    /\ ~At(t, "idle") /\ kills < MaxKills
    /\ Ends(t) /\ kills' = kills + 1
    /\ UNCHANGED <<free, file, up, lock, push, excused, fills>>

PushArrives(p) ==
    /\ push[p] = "none" /\ "gitlab" \in up
    /\ push' = [push EXCEPT ![p] = "in"]
    /\ UNCHANGED <<file, up, lock, tick, excused, Outside>>

PushLands(p) ==
    /\ push[p] = "in" /\ push' = [push EXCEPT ![p] = "settled"]
    /\ UNCHANGED <<file, up, lock, tick, excused, Outside>>

(* An operator who acts while a tick runs counts as a disturbance.          *)
Disturbs == IF \A t \in Tick : At(t, "idle") THEN UNCHANGED kills
            ELSE kills < MaxKills /\ kills' = kills + 1

(* --clear, at any time: docker exec reaches a running Traefik only.        *)
Clears ==
    /\ file # "ok" \/ lock
    /\ file' = "ok"
    /\ lock' = (lock /\ "traefik" \notin up)
    /\ Disturbs
    /\ UNCHANGED <<up, push, tick, excused, free, fills>>

(* docker compose up -d starts the containers that were stopped: what was   *)
(* written into them is still there.                                        *)
StackStarts ==
    /\ up # Group
    /\ up' = Group /\ excused' = excused \cup (Group \ up)
    /\ Disturbs
    /\ UNCHANGED <<file, lock, push, tick, free, fills>>

WatchdogInit ==
    /\ free = "ok" /\ file = "ok" /\ up = Group /\ lock = FALSE
    /\ push = [p \in Push |-> "none"]
    /\ tick = [t \in Tick |-> IdleTick] /\ excused = {}
    /\ kills = 0 /\ fills = 0

WatchdogNext ==
    \/ \E t \in Tick : (\E m \in Mode : TickStarts(t, m)) \/ TickStep(t) \/ Killed(t)
    \/ \E band \in {"ok", "warn", "low"} : DiskChanges(band)
    \/ \E p \in Push : PushArrives(p) \/ PushLands(p)
    \/ Clears \/ StackStarts

(* The scheduler starts ticks for ever, and a tick that is not killed goes  *)
(* on: every wait of the script has a deadline.                             *)
WatchdogFairness ==
    \A t \in Tick : /\ WF_watchdogVars(TickStarts(t, "real"))
                    /\ WF_watchdogVars(TickStep(t))

WatchdogSpec == WatchdogInit /\ [][WatchdogNext]_watchdogVars /\ WatchdogFairness

-----------------------------------------------------------------------------
TickPc == {"idle", "read", "warn", "reset", "init", "quiesce", "drain", "finish"} \cup Group
WatchdogTypeOK ==
    /\ free \in {"ok", "warn", "low"} /\ file \in {"ok", "warned", "draining", "stopped"}
    /\ up \subseteq Group /\ excused \subseteq Group /\ lock \in BOOLEAN
    /\ push \in [Push -> {"none", "in", "left", "settled", "lost"}]
    /\ tick \in [Tick -> [pc : TickPc, mode : Mode \cup {"real"}]]
    /\ kills \in 0 .. MaxKills /\ fills \in 0 .. MaxFills

(* A state file that says stopped disarms the watchdog.  It says so only    *)
(* when every group is down, save the ones whose failed stop was mailed,    *)
(* the ones a dry run passed over and the ones an operator started since,   *)
(* however ticks overlap or are killed.                                     *)
StoppedMeansStopped == file = "stopped" => up \subseteq excused

(* GitLab never runs on while its databases and object store are taken from *)
(* under it, unless its own stop failed or it was started again meanwhile.  *)
DataOutlivesGitLab ==
    ("gitlab" \in up /\ ~({"databases", "minio"} \subseteq up)) => "gitlab" \in excused

(* A shutdown that began never stays half done: the tick that began it or,  *)
(* when that one was killed, a later one goes on, even if space was freed.  *)
DrainingEnds == file = "draining" ~> file # "draining"

(* A full disk is acted on, warned of before or not, unless space is freed. *)
PressureIsMet ==
    (free = "low" /\ file \in {"ok", "warned"}) ~> (file \in {"draining", "stopped"} \/ free # "low")

=============================================================================
