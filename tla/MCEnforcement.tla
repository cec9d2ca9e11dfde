--------------------------- MODULE MCEnforcement ----------------------------
(* Instances of Enforcement for TLC. *)
EXTENDS Enforcement, TLC

CONSTANTS a, b

MCNoSubnet == [x \in {} |-> {}]

BlockOf(t) == [list |-> "black", op |-> "add", ip |-> t]
WhiteAdd(t) == [list |-> "white", op |-> "add", ip |-> t]

BlocksOfA == {{BlockOf(a)}}
CloudOfA == {{BlockOf(a)}, {WhiteAdd(a)}}

NoConfig == {{}}
=============================================================================
