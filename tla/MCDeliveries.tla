---------------------------- MODULE MCDeliveries ----------------------------
(***************************************************************************)
(* Two deliveries, two slots and the shortest times with the order of the  *)
(* real ones: a first retry that comes before a lock runs out, a second    *)
(* one that does not, and a streak longer than the retries of one event.   *)
(***************************************************************************)
EXTENDS Deliveries, TLC

CONSTANTS d1, d2, s1, s2

MCIds == {d1, d2}
MCOneId == {d1}
MCSlots == {s1, s2}
MCRetryDelay(n) == n
Symmetry == Permutations(MCIds) \cup Permutations(MCSlots)
=============================================================================
