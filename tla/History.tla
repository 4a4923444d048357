------------------------------ MODULE History ------------------------------
(***************************************************************************)
(* What an operation did to the shapes it was given (History, ogeom-algo/  *)
(* src/history.rs): which it generated from each, what each became, which  *)
(* are gone, and which were only copied; and how the histories of chained  *)
(* operations compose.  Images are listed in the order recorded.           *)
(***************************************************************************)
EXTENDS Naturals, Sequences, FiniteSets, SequencesExt

identity == [generated |-> <<>>, modified |-> <<>>, deleted |-> {}, copied |-> {}]

Listed(f, x) == IF x \in DOMAIN f THEN f[x] ELSE <<>>
Listing(f, x, y) ==
    [z \in DOMAIN f \cup {x} |-> IF z = x THEN Append(Listed(f, x), y) ELSE f[z]]
Without(f, xs) == [z \in DOMAIN f \ xs |-> f[z]]

generate(h, x, y) == [h EXCEPT !.generated = Listing(@, x, y)]

modify(h, x, y) ==
    [h EXCEPT !.modified = Listing(@, x, y), !.deleted = @ \ {x}]

copy(h, x, y) == [modify(h, x, y) EXCEPT !.copied = @ \cup {x}]

delete(h, x) ==
    [h EXCEPT !.modified = Without(@, {x}), !.copied = @ \ {x}, !.deleted = @ \cup {x}]

-----------------------------------------------------------------------------
generated(h, x) == Listed(h.generated, x)
modified(h, x) == Listed(h.modified, x)
is_deleted(h, x) == x \in h.deleted
inputs(h) == DOMAIN h.generated \cup DOMAIN h.modified \cup h.deleted
is_affected(h, x) == x \in inputs(h)
is_empty(h) == inputs(h) = {}

copy_of(h, x) ==
    IF x \in h.copied /\ Len(modified(h, x)) = 1 THEN {modified(h, x)[1]} ELSE {}

trace(h, x) ==
    IF is_deleted(h, x) THEN <<>>
    ELSE IF modified(h, x) = <<>> THEN <<x>> ELSE modified(h, x)

Traced(h, xs) == FlattenSeq([i \in DOMAIN xs |-> trace(h, xs[i])])

-----------------------------------------------------------------------------
(* What an input is after both steps.                                      *)
Finally(h, later, x) == Traced(later, trace(h, x))

Changed(h, later, x) ==
    \/ modified(h, x) # <<>>
    \/ \E y \in ToSet(trace(h, x)) : is_deleted(later, y) \/ modified(later, y) # <<>>

(* A copy of a copy, or one the other step left alone.                     *)
Copied(h, later, x) ==
    /\ copy_of(h, x) # {} \/ modified(h, x) = <<>>
    /\ \A y \in ToSet(trace(h, x)) : copy_of(later, y) # {} \/ ~is_affected(later, y)
    /\ Len(Finally(h, later, x)) = 1

(* Mutant of Gone: deletions of its images are not deletions of it.        *)
GoneItself(h, later, x) == is_deleted(h, x) \/ is_deleted(later, x)

(* Nothing is left of it.                                                  *)
Gone(h, later, x) == Finally(h, later, x) = <<>>

(* What was made of it, consumed or not: as it is now, then what the       *)
(* second step made of its images.                                         *)
MadeOf(h, later, x) ==
    Traced(later, generated(h, x))
        \o FlattenSeq([i \in DOMAIN trace(h, x) |-> generated(later, trace(h, x)[i])])

(* then_for: the composed records of some inputs.                          *)
then_for(h, later, subjects) ==
    LET gone == {x \in subjects : Gone(h, later, x)}
        became == {x \in subjects \ gone : Changed(h, later, x)}
    IN  [generated |-> [x \in {s \in subjects : MadeOf(h, later, s) # <<>>} |->
                            MadeOf(h, later, x)],
         modified |-> [x \in became |-> Finally(h, later, x)],
         deleted |-> gone,
         copied |-> {x \in became : Copied(h, later, x)}]

then(h, later) ==
    IF is_empty(later) THEN h ELSE then_for(h, later, inputs(h) \cup inputs(later))

(* Mutant of Reached: what was generated from an input is not looked at.   *)
ReachedImages(h, later, x) == \E y \in ToSet(trace(h, x)) : is_affected(later, y)

(* Whether the second step knows of anything the first says of an input.   *)
Reached(h, later, x) ==
    \E y \in ToSet(trace(h, x)) \cup ToSet(generated(h, x)) : is_affected(later, y)

(* followed_by: then, reworking only the inputs the second step reaches.   *)
followed_by(h, later) ==
    LET subjects == {x \in inputs(h) : Reached(h, later, x)}
                        \cup (inputs(later) \ inputs(h))
        reworked == then_for(h, later, subjects)
        Extended(f, g) ==
            [x \in (DOMAIN f \ subjects) \cup DOMAIN g |-> IF x \in DOMAIN g THEN g[x] ELSE f[x]]
    IN  IF is_empty(later) THEN h
        ELSE [generated |-> Extended(h.generated, reworked.generated),
              modified |-> Extended(h.modified, reworked.modified),
              deleted |-> (h.deleted \ subjects) \cup reworked.deleted,
              copied |-> (h.copied \ subjects) \cup reworked.copied]
=============================================================================
