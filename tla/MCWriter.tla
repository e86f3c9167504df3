------------------------------ MODULE MCWriter ------------------------------
(* The relay's writer of one Subgroup stream. *)
EXTENDS SubgroupWriter, TLC

CONSTANTS c1, c2

(* Object 1 belongs to another Subgroup, which Object 2 announces as a Prior   *)
(* Object ID Gap.                                                              *)
MCSources == {c1, c2}
MCPublished == {0, 2, 3}
(* The two sources are alike: the second starts no earlier than the first. *)
MCStarts == {from \in [MCSources -> MCPublished] : from[c1] <= from[c2]}
MCGap == [id \in MCPublished |-> IF id = 2 THEN 1 ELSE 0]

(* A later Start, a filtered Object, a range that ends before the Group. *)
NoFilter == [start |-> 0, inRange |-> TRUE, paused |-> FALSE, filtered |-> {}]
MCUpdates == {[NoFilter EXCEPT !.start = 3], [NoFilter EXCEPT !.filtered = {2}],
              [NoFilter EXCEPT !.inRange = FALSE]}
=============================================================================
