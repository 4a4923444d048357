------------------------ MODULE TentativeTolerances ------------------------
(***************************************************************************)
(* What the journal of widened tolerances promises the operations of a     *)
(* model: an attempt may be begun at any time, within another or not, and  *)
(* when it is undone every node it was begun with has the tolerance it had *)
(* then.  Otherwise a tolerance only grows.                                *)
(***************************************************************************)
EXTENDS Integers, Sequences

VARIABLES
    tol,        \* the tolerance of each node
    saved       \* for each attempt under way, the tolerances it began with

Init ==
    /\ tol = <<>>
    /\ saved = <<>>

(* Nodes are added and tolerances grow.                                    *)
Grow ==
    /\ DOMAIN tol \subseteq DOMAIN tol'
    /\ \A n \in DOMAIN tol : tol[n] <= tol'[n]
    /\ UNCHANGED saved

Begin ==
    /\ saved' = Append(saved, tol)
    /\ UNCHANGED tol

Keep ==
    /\ saved # <<>>
    /\ saved' = SubSeq(saved, 1, Len(saved) - 1)
    /\ UNCHANGED tol

(* What was added meanwhile stays, at some tolerance.                      *)
Undo ==
    /\ saved # <<>>
    /\ saved' = SubSeq(saved, 1, Len(saved) - 1)
    /\ DOMAIN tol' = DOMAIN tol
    /\ \A n \in DOMAIN saved[Len(saved)] : tol'[n] = saved[Len(saved)][n]

Next == Grow \/ Begin \/ Keep \/ Undo

Spec == Init /\ [][Next]_<<tol, saved>>
=============================================================================
