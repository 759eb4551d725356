-------------------------- MODULE MCProjectRegistry --------------------------
(***************************************************************************)
(* Instances of ProjectRegistry for TLC, with the properties they check.   *)
(***************************************************************************)
EXTENDS ProjectRegistry, TLC

CONSTANTS App       \* the one leaf every path ends in: slugs collide

MCLeafOf == [p \in Path |-> App]
MCSymmetry == Permutations(Req) \cup Permutations(Doc) \cup
              Permutations(Gid) \cup Permutations(Path \ MetaPath)
=============================================================================
