----------------------------- MODULE Locations -----------------------------
(***************************************************************************)
(* Placements (Location, ogeom-topo/src/location.rs): chains of datums and *)
(* powers, outermost first, composed by joining them end to end and never  *)
(* by multiplying matrices.  A datum is a transform, modelled as a         *)
(* rearrangement of Points: transforms compose, invert, and do not commute.*)
(* Powers are integers of a fixed width, MaxPower the greatest (i32::MAX). *)
(***************************************************************************)
EXTENDS Integers, Sequences, SequencesExt

CONSTANTS
    Points,         \* what a transform rearranges
    MaxPower        \* the greatest power a chain can hold

ASSUME LocationsAssumption == MaxPower \in Nat \ {0}

LowestPower == -MaxPower - 1
Powers == LowestPower..MaxPower

Transforms == Bijection(Points, Points)

IDENTITY == [x \in Points |-> x]
Times(t, u) == [x \in Points |-> t[u[x]]]
Opposite(t) == [x \in Points |-> CHOOSE y \in Points : t[y] = x]

Identity == <<>>
Of(datum) == <<[datum |-> datum, power |-> 1]>>

(* Adding a power: the sum, unless it does not fit.                        *)
Fits(p, q) == p + q \in Powers

(* Mutants of JoinedOn: a sum wraps round; a power of zero stays.          *)
JoinedWrapping(chain, entry) ==
    IF chain # <<>> /\ Last(chain).datum = entry.datum
    THEN LET sum == Last(chain).power + entry.power
             kept == IF sum > MaxPower THEN sum - 2 * (MaxPower + 1)
                     ELSE IF sum < LowestPower THEN sum + 2 * (MaxPower + 1) ELSE sum
         IN  IF kept = 0 THEN Front(chain)
             ELSE Append(Front(chain), [entry EXCEPT !.power = kept])
    ELSE Append(chain, entry)

JoinedKeepingZero(chain, entry) ==
    IF chain # <<>> /\ Last(chain).datum = entry.datum /\ Fits(Last(chain).power, entry.power)
    THEN Append(Front(chain), [entry EXCEPT !.power = @ + Last(chain).power])
    ELSE Append(chain, entry)

(* One entry joined on: merged with the last where both name a datum and   *)
(* the powers add up, dropped where they cancel, else beside it.           *)
JoinedOn(chain, entry) ==
    IF chain # <<>> /\ Last(chain).datum = entry.datum /\ Fits(Last(chain).power, entry.power)
    THEN IF Last(chain).power + entry.power = 0 THEN Front(chain)
         ELSE Append(Front(chain), [entry EXCEPT !.power = @ + Last(chain).power])
    ELSE Append(chain, entry)

(* outer.then(inner)                                                       *)
Then(outer, inner) ==
    IF outer = Identity THEN inner ELSE FoldLeft(JoinedOn, outer, inner)

(* The lowest power has no opposite of its width, and stays as it is.      *)
Negated(p) == IF p = LowestPower THEN p ELSE -p

Inverted(l) ==
    [i \in DOMAIN l |->
        [l[Len(l) + 1 - i] EXCEPT !.power = Negated(@)]]

HasInverse(l) == \A i \in DOMAIN l : l[i].power # LowestPower

(* raised: a power by squaring, halving what is left.                      *)
Raised(step, times) ==
    LET raised[n \in 0..times] ==
            IF n = 0 THEN IDENTITY
            ELSE LET half == raised[n \div 2]
                 IN  IF n % 2 = 1 THEN Times(step, Times(half, half)) ELSE Times(half, half)
    IN  raised[times]

Step(entry, datums) ==
    IF entry.power >= 0 THEN Raised(datums[entry.datum], entry.power)
    ELSE Raised(Opposite(datums[entry.datum]), -entry.power)

(* The transform a placement comes to, over the datums of its store.       *)
Composed(l, datums) ==
    FoldLeft(LAMBDA t, entry : Times(t, Step(entry, datums)), IDENTITY, l)
=============================================================================
