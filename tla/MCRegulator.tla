---------------------------- MODULE MCRegulator -----------------------------
(* Instances of Regulator: two regulators behind one supply, the second of *)
(* which shares its pin with one that is on from boot.  There is a         *)
(* consumer of each of the two, or both are of the first.                  *)
EXTENDS Regulator

RegsDef == {"s", "a", "b", "d"}
SupplyDef == [s |-> "none", a |-> "s", b |-> "s", d |-> "none"]
PinDef == [s |-> "none", a |-> "none", b |-> "pin", d |-> "pin"]
OneOfEach == [c1 |-> "a", c2 |-> "b"]
BothOfA == [c1 |-> "a", c2 |-> "a"]
=============================================================================
