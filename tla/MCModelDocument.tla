---------------------------- MODULE MCModelDocument ----------------------------
(* Model-checking ModelDocument on small documents: shallow ones with       *)
(* compounds and several curves, and ones with long derivations.           *)
EXTENDS ModelDocument, TLC

CONSTANT
    MaxCompounds,   \* bound: compounds live at once
    MaxShallow,     \* bound: identities issued in a document of any shape
    MaxDeep         \* bound: slots handed out where more are issued

Shallow ==
    /\ issued <= MaxShallow
    /\ Cardinality({i \in DOMAIN nodes : nodes[i].kind = "compound"}) <= MaxCompounds

Deep ==
    /\ slots <= MaxDeep /\ curve_slots <= 1 /\ litter = {}
    /\ \A i \in DOMAIN nodes : nodes[i].kind # "compound"

Small == Shallow \/ Deep
SmallSpec == Init /\ [][Next /\ Small']_vars

Symmetry == Permutations(Geometry)
=============================================================================
