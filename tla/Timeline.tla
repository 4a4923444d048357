------------------------------ MODULE Timeline ------------------------------
(***************************************************************************)
(* What undo and redo promise of a document (ogeom-doc/src/structure.rs):  *)
(* a line of states, those behind the caller and those ahead.  Stepping    *)
(* back and forward moves along it and changes none; marking a state drops *)
(* what lies ahead; only the oldest behind are ever dropped for room.      *)
(***************************************************************************)
EXTENDS Naturals, Sequences, SequencesExt

CONSTANTS
    States,         \* the states a document can be in
    Limits          \* how many states may be kept behind

VARIABLES past, present, future, limit

line == <<past, present, future, limit>>

Newest(n, s) == IF Len(s) > n THEN SubSeq(s, Len(s) - n + 1, Len(s)) ELSE s

Init ==
    /\ past = <<>> /\ future = <<>>
    /\ present \in States /\ limit \in Limits

Edit ==
    /\ present' \in States
    /\ UNCHANGED <<past, future, limit>>

Mark ==
    /\ past' = Newest(limit, Append(past, present))
    /\ future' = <<>>
    /\ UNCHANGED <<present, limit>>

Back ==
    /\ past # <<>>
    /\ present' = Last(past)
    /\ past' = Front(past)
    /\ future' = <<present>> \o future
    /\ UNCHANGED limit

Forward ==
    /\ future # <<>>
    /\ present' = Head(future)
    /\ past' = Append(past, present)
    /\ future' = Tail(future)
    /\ UNCHANGED limit

SetLimit ==
    /\ limit' \in Limits
    /\ past' = Newest(limit', past)
    /\ UNCHANGED <<present, future>>

Next == Edit \/ Mark \/ Back \/ Forward \/ SetLimit

Spec == Init /\ [][Next]_line
=============================================================================
