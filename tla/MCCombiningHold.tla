-------------------------- MODULE MCCombiningHold --------------------------
(***************************************************************************)
(* An instance of CombiningHold for TLC: keys whose probe sequences        *)
(* collide and wrap around the end of the table, two of them with the same *)
(* tag, and a table small enough to be rebuilt.                            *)
(***************************************************************************)
EXTENDS CombiningHold

CONSTANTS k1, k2, k3, a1, a2, b1, b2, c1

MCItems == {a1, a2, b1, b2, c1}
MCKeys == {k1, k2, k3}
MCKey == [x \in MCItems |-> CASE x \in {a1, a2} -> k1
                              [] x \in {b1, b2} -> k2
                              [] OTHER -> k3]
MCHash == [k \in MCKeys |-> IF k = k3 THEN 0 ELSE 7]
MCTag == [k \in MCKeys |-> IF k = k3 THEN 1 ELSE 0]
=============================================================================
