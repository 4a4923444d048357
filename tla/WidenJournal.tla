---------------------------- MODULE WidenJournal ----------------------------
(***************************************************************************)
(* The tolerances of a model's nodes and the journal an attempt notes what *)
(* it widens in (Model::note_widened, undo_widened and keep_widened,       *)
(* ogeom-topo/src/model.rs).  The journal is one of the model: an attempt  *)
(* opens it where it is closed, and otherwise notes on in the journal of   *)
(* the attempt it is part of, from a mark on.                              *)
(*                                                                         *)
(* The entries one call of widen or node_mut pushes name distinct nodes;   *)
(* they are kept together, as one function from nodes to tolerances.       *)
(***************************************************************************)
EXTENDS Integers, Sequences

CONSTANTS
    MaxTol,     \* bound on tolerances
    MaxLog      \* bound: how many calls a journal notes

VARIABLES
    tol,        \* the tolerance of each node
    open,       \* whether the journal is open
    log         \* what was noted: tolerances before, call by call

journal == <<open, log>>

-----------------------------------------------------------------------------
(* The journal once a call has noted tolerances in it.                     *)
WithNoted(noted) ==
    IF open /\ DOMAIN noted # {} THEN Append(log, noted) ELSE log

MarkThatCloses == [from |-> Len(log), opened |-> TRUE]

(* Where an attempt begins: the mark note_widened hands out.               *)
Mark == [from |-> Len(log), opened |-> ~open]

(* An attempt begins: a closed journal is opened.                          *)
NoteWidened ==
    /\ open' = TRUE
    /\ UNCHANGED <<tol, log>>

(* The calls since a mark that noted node n.                               *)
NotedSince(from, n) == {i \in (from + 1)..Len(log) : n \in DOMAIN log[i]}

LatestOf(calls) == CHOOSE i \in calls : \A j \in calls : j <= i

(* Entries go back latest first, so the earliest of a node is what stays.  *)
EarliestOf(calls) == CHOOSE i \in calls : \A j \in calls : i <= j

(* The tolerances once everything noted since a mark is put back.          *)
PutBack(from) ==
    [n \in DOMAIN tol |->
        IF NotedSince(from, n) = {} THEN tol[n]
        ELSE log[EarliestOf(NotedSince(from, n))][n]]

(* Where the journal ends once it is cut at a mark.                        *)
CutAt(mark) == IF mark.from < Len(log) THEN mark.from ELSE Len(log)

(* Put back what was noted since the mark; the attempt that opened the     *)
(* journal closes it.                                                      *)
UndoWidened(mark) ==
    IF open
    THEN /\ tol' = PutBack(CutAt(mark))
         /\ open' = ~mark.opened
         /\ log' = IF mark.opened THEN <<>> ELSE SubSeq(log, 1, CutAt(mark))
    ELSE UNCHANGED <<tol, open, log>>

KeepAndClose(mark) == open' = FALSE /\ log' = <<>> /\ UNCHANGED tol

(* Keep them as they stand; what was noted stays for an enclosing attempt. *)
KeepWidened(mark) ==
    /\ IF mark.opened
       THEN open' = FALSE /\ log' = <<>>
       ELSE UNCHANGED <<open, log>>
    /\ UNCHANGED tol
=============================================================================
