----------------------------- MODULE Operations -----------------------------
(***************************************************************************)
(* Operations chained over the shapes of a model: what each tells its      *)
(* caller (History) beside what the model records of where entities came   *)
(* from (Provenance).  Copying a shape (place.rs), sewing faces (sew.rs)   *)
(* and sweeping edges (sweep.rs) do both, each for itself; a boolean joins *)
(* shapes and tells of it, its results recorded as nobody's.               *)
(***************************************************************************)
EXTENDS Provenance, History

CONSTANTS
    MaxMade,        \* bound: how many shapes are made from numbers
    MaxShapes,      \* bound: how many shapes in all
    MaxSteps,       \* bound: how many operations are chained before the last
    MaxTold         \* bound: how many things they tell in all

VARIABLES
    entity,     \* the identity of each shape
    steps,      \* the histories of the operations so far
    now,        \* the history of the one under way
    led         \* history: the shapes recorded all the way with what they came from

operations == <<entity, steps, now, led>>
allvars == <<vars, operations>>

Shapes == DOMAIN entity

OperationsInit == Init /\ entity = <<>> /\ steps = <<>> /\ now = identity /\ led = {}

(* A shape of its own, with an identity derived from some.                 *)
New(ids) ==
    /\ Len(entity) < MaxShapes
    /\ Record(ids)
    /\ entity' = Append(entity, NextId)

Fresh == Len(entity) + 1

Said(h) ==
    LET Images(f) == FoldFunction(LAMBDA images, n : n + Len(images), 0, f)
    IN  Cardinality(h.deleted) + Images(h.generated) + Images(h.modified)

Told == FoldLeft(LAMBDA n, h : n + Said(h), Said(now), steps)

Tell(h) == Told < MaxTold /\ now' = h /\ UNCHANGED steps

(* make_*: from numbers, in a model that is new.                           *)
Make ==
    /\ Len(entity) < MaxMade /\ is_empty(now)
    /\ entity = <<>> => issued = 0
    /\ New({}) /\ led' = led \cup {Fresh} /\ UNCHANGED <<steps, now>>

(* Mutant of IdsOf: derived from nothing.                                  *)
IdsOfNone(xs) == {}

(* What set_derived records shapes as.                                     *)
IdsOf(xs) == {entity[x] : x \in xs}

(* A shape whose every ancestor is recorded has one more recorded.         *)
Lead(x) == led' = IF x \in led THEN led \cup {Fresh} ELSE led

(* duplicate, and rebuild_face of a sewing, which may leave a copy.        *)
Rebuild(x) ==
    /\ New(IdsOf({x})) /\ Lead(x)
    /\ Tell(modify(now, x, Fresh)) \/ Tell(copy(now, x, Fresh))

(* A face that sewing leaves as it is stands for itself, derived from      *)
(* itself.                                                                 *)
Settle(x) ==
    /\ Record(IdsOf({x}))
    /\ entity' = [entity EXCEPT ![x] = NextId]
    /\ Tell(copy(now, x, x))
    /\ UNCHANGED led

(* A wall swept from an edge.                                              *)
Sweep(x) ==
    /\ New(IdsOf({x})) /\ Lead(x)
    /\ Tell(generate(now, x, Fresh))

(* unshare: a node of its own, with the identity of the one it copies.     *)
Unshare(x) ==
    /\ Len(entity) < MaxShapes
    /\ entity' = Append(entity, entity[x])
    /\ Lead(x)
    /\ Tell(copy(now, x, Fresh))
    /\ UNCHANGED vars

(* Shapes joined into one, recorded as a primitive.                        *)
Join(x, y) ==
    /\ x < y
    /\ New({}) /\ UNCHANGED led
    /\ Tell(modify(modify(now, x, Fresh), y, Fresh))

Lose(x) == Tell(delete(now, x)) /\ UNCHANGED <<vars, entity, led>>

EndOperation ==
    /\ Len(steps) < MaxSteps /\ ~is_empty(now)
    /\ steps' = Append(steps, now) /\ now' = identity
    /\ UNCHANGED <<vars, entity, led>>

(* The table by itself, in a model that has no shapes here; and a model    *)
(* trimmed of an entity between operations.                                *)
Table ==
    /\ is_empty(now)
    /\ \/ entity = <<>> /\ Next
       \/ steps # <<>> /\ dropped = {} /\ \E id \in 1..issued : Retain(1..issued \ {id})
    /\ UNCHANGED operations

OperationsNext ==
    \/ Table \/ Make \/ EndOperation
    \/ \E x \in Shapes :
        \/ Rebuild(x) \/ Settle(x) \/ Sweep(x) \/ Unshare(x) \/ Lose(x)
        \/ \E y \in Shapes : Join(x, y)

OperationsSpec == OperationsInit /\ [][OperationsNext]_allvars

-----------------------------------------------------------------------------
Chained == FoldLeft(followed_by, identity, Append(steps, now))

SameMembers(s, t) ==
    /\ Len(s) = Len(t)
    /\ \A y \in ToSet(s) \cup ToSet(t) :
        Cardinality({i \in DOMAIN s : s[i] = y}) = Cardinality({i \in DOMAIN t : t[i] = y})

(* Reworking only what the second step reaches answers every question as   *)
(* composing everything afresh does.                                       *)
FollowedByAnswersAsThen ==
    LET first == FoldLeft(then, identity, steps)
    IN  followed_by(first, now) = then(first, now)

(* However a chain of three operations is bracketed, each shape is told to *)
(* have become the same shapes, to be gone alike, and to have made the     *)
(* same ones.                                                              *)
ThenAssociates ==
    Len(steps) = 2 =>
        LET left == then(then(steps[1], steps[2]), now)
            right == then(steps[1], then(steps[2], now))
        IN  /\ left.modified = right.modified /\ left.deleted = right.deleted
            /\ \A x \in Shapes : SameMembers(generated(left, x), generated(right, x))

(* What a chain of operations says a shape became or made resolves to the  *)
(* shape's own originals, wherever every operation on the way recorded     *)
(* what it came from and nothing of it was dropped since.                  *)
ImagesKeepTheirOriginals ==
    \A x \in led : \A y \in ToSet(modified(Chained, x)) \cup ToSet(generated(Chained, x)) :
        (y \in led /\ Ancestry(entity[y]) \cap dropped = {})
            => Roots(entity[x]) \subseteq Roots(entity[y])
=============================================================================
