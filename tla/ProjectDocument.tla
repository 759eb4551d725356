--------------------------- MODULE ProjectDocument ---------------------------
(***************************************************************************)
(* What the API promises of one project's MongoDB document, without the    *)
(* loads, versions and saves it is made with: every change is the edit of  *)
(* one request, made of the document as it is stored at that moment.  The  *)
(* arrays are edited one request after the other; only the other fields of *)
(* a profile may go back to what they were, because an edit of one profile *)
(* is not seen by a request that saves the whole list (project.schema.ts,  *)
(* projects.service.ts, env-profile.service.ts).                           *)
(***************************************************************************)
EXTENDS ProfileRules

CONSTANT Ops        \* the requests

VARIABLES
    targets,        \* the deployment targets, by key
    profiles,       \* the env profiles, by id
    runtime,        \* whether the chart gets the runtime secrets
    legacy, pinned, \* the flags of the migration
    origin          \* the app and the flag that the project was made with

vars == <<targets, profiles, runtime, legacy, pinned, origin>>
flags == <<runtime, legacy, pinned, origin>>

(* What a request makes of the targets ts.                                  *)
Upserted(ts, o) ==
    [ts EXCEPT ![o.key] = [on |-> o.on, ref |-> SavedRef(o.key, o.on, o.ref, ts[o.key]),
                           host |-> HostsFor(o.key, o.apps, o.hosts)]]
Hosted(ts, o) == [ts EXCEPT ![o.key].host[First(AppsOf(ts[o.key]))] = o.host]
Migrated(ts, from, o) ==
    Overridden(IF KeysOf(ts) = {}
               THEN [k \in Key |-> DeriveStandard(k, from.app, from.deployable)] ELSE ts, o.opts)

(* What no edit of a profile changes.                                       *)
SameKind(p, q) ==
    /\ p = Nil <=> q = Nil
    /\ p # Nil => p.phase = q.phase
OthersStay(o, old, new) == \A p \in Profile \ {o.profile} : SameKind(old[p], new[p])

(* An upload is admitted beside the profiles it is stored with and names    *)
(* targets that are stored.                                                 *)
Admitted(o, ts, others) ==
    /\ o.branches # {}
    /\ o.phase = "build" \/ (NewProfile(o).targets # {} /\ NewProfile(o).targets \subseteq KeysOf(ts))
    /\ \A p \in Profile \ {o.profile} : others[p] # Nil => ~Overlaps(others[p], NewProfile(o))

EditedBy(o, old, new) ==
    /\ old # Nil /\ new # Nil /\ SameKind(old, new)
    /\ \/ o.op = "content" /\ new.names = o.names
       \/ /\ o.op = "metadata" /\ new.branches # {}
          /\ o.branches # Nil => new.branches = o.branches
          /\ o.job # {} => new.job = First(o.job)
          /\ old.phase = "build" /\ o.file # Nil => new.file = o.file

-----------------------------------------------------------------------------
Init ==
    /\ \A k \in Key : targets[k] # Nil => ~legacy /\ ValidRef(targets[k].ref, targets[k].on)
    /\ \A p, q \in Profile : p # q /\ profiles[p] # Nil /\ profiles[q] # Nil
                             => ~Overlaps(profiles[p], profiles[q])
    /\ runtime <=> (\A p \in Profile : profiles[p] = Nil) \/ RuntimeEnv(profiles)

UpsertTarget(o) ==
    /\ o.op = "upsert" /\ o.apps # {}
    /\ targets' = Upserted(targets, o)
    /\ ValidRef(targets'[o.key].ref, o.on)
    /\ UNCHANGED <<profiles, flags>>

RemoveTarget(o) ==
    /\ o.op = "remove" /\ targets[o.key] # Nil
    /\ targets' = [targets EXCEPT ![o.key] = Nil]
    /\ UNCHANGED <<profiles, flags>>

SetHostname(o) ==
    /\ o.op = "hostname" /\ targets[o.key] # Nil
    /\ targets' = Hosted(targets, o)
    /\ UNCHANGED <<profiles, flags>>

(* The flags only ever go down, apart from the pin that somebody sets.      *)
Migrate(o) ==
    /\ o.op = "migrate"
    /\ targets' \in {targets, Migrated(targets, origin, o)}
    /\ legacy' \in {legacy, FALSE}
    /\ \/ pinned' = pinned
       \/ o.unpin /\ pinned' = FALSE
    /\ UNCHANGED <<profiles, runtime, origin>>

SetPinned(o) ==
    /\ o.op = "pin"
    /\ pinned' = o.pinned
    /\ UNCHANGED <<targets, profiles, runtime, legacy, origin>>

Upload(o) ==
    /\ o.op = "upload" /\ profiles[o.profile] = Nil
    /\ profiles'[o.profile] = NewProfile(o)
    /\ OthersStay(o, profiles, profiles')
    /\ Admitted(o, targets, profiles')
    /\ runtime' = RuntimeEnv(profiles')
    /\ UNCHANGED <<targets, legacy, pinned, origin>>

DeleteProfile(o) ==
    /\ o.op = "drop" /\ profiles[o.profile] # Nil
    /\ profiles'[o.profile] = Nil
    /\ OthersStay(o, profiles, profiles')
    /\ runtime' = RuntimeEnv(profiles')
    /\ UNCHANGED <<targets, legacy, pinned, origin>>

EditProfile(o) ==
    /\ o.op \in {"content", "metadata"}
    /\ EditedBy(o, profiles[o.profile], profiles'[o.profile])
    /\ \A p \in Profile \ {o.profile} : profiles'[p] = profiles[p]
    /\ UNCHANGED <<targets, flags>>

Next ==
    \E o \in Ops :
        \/ UpsertTarget(o) \/ RemoveTarget(o) \/ SetHostname(o) \/ Migrate(o) \/ SetPinned(o)
        \/ Upload(o) \/ DeleteProfile(o) \/ EditProfile(o)

Spec == Init /\ [][Next]_vars

=============================================================================
