---------------------------- MODULE ProfileRules ----------------------------
(***************************************************************************)
(* The pure rules of api/src/projects/env: what an upload stores, when two *)
(* profiles select the same file or the same keys, and when the chart gets *)
(* the project's runtime secrets.                                          *)
(***************************************************************************)
EXTENDS DeployRules

CONSTANT Profile    \* ids of env profiles (fresh UUIDs: one upload each)

(* computeRuntimeEnvEnabled. *)
RuntimeEnv(profiles) == \E p \in Profile : profiles[p] # Nil /\ profiles[p].phase = "runtime"

NewProfile(o) == [phase |-> o.phase, branches |-> o.branches, job |-> o.job,
                  file |-> IF o.phase = "build" THEN o.file ELSE Nil,
                  targets |-> IF o.phase = "runtime" THEN o.targets ELSE {},
                  names |-> o.names]

(* assertNoProfileOverlap and buildProfilesConflict. *)
Overlaps(p, q) ==
    /\ p.branches \cap q.branches # {}
    /\ p.phase = q.phase /\ p.job = q.job
    /\ IF p.phase = "runtime" THEN p.targets \cap q.targets # {} ELSE p.file = q.file

=============================================================================
