--------------------------- MODULE MCIpsetManager ---------------------------
(* Instances of IpsetManager for TLC. *)
EXTENDS IpsetManager, TLC

CONSTANTS a, b, n

MCCoversA == [x \in {n} |-> {a}]
MCNoSubnet == [x \in {} |-> {}]

BlockOf(t) == [list |-> "black", op |-> "add", ip |-> t]
WhiteAdd(t) == [list |-> "white", op |-> "add", ip |-> t]
WhiteDel(t) == [list |-> "white", op |-> "del", ip |-> t]

OneAddress == {{BlockOf(a)}, {WhiteAdd(a)}, {WhiteDel(a)}}
TwoAddresses == {{BlockOf(a), BlockOf(b)}, {WhiteAdd(a), WhiteDel(b)}}

NoConfig == {{}}
MaybeA == {{}, {a}}
MaybeAOrNet == {{}, {a}, {n}}

Symmetry == Permutations(Goroutine)
=============================================================================
