----------------------------- MODULE HandleTable -----------------------------
(***************************************************************************)
(* What an arena promises to the code that holds its keys, and nothing of  *)
(* how it keeps the promise: a handle is given out once, answers with the  *)
(* value it was given out for until that value is replaced through it, and *)
(* once its value is dropped it answers nothing, for ever.                 *)
(*                                                                         *)
(* `Arena` implements this specification (ogeom-core/src/arena.rs).        *)
(***************************************************************************)
CONSTANTS
    Handles,    \* every handle anyone can hold, issued or forged
    Values,     \* what is stored
    Absent      \* the answer of a handle that resolves to nothing

VARIABLES
    answer,     \* what each handle resolves to
    issued      \* the handles given out so far

vars == <<answer, issued>>

TypeOK ==
    /\ answer \in [Handles -> Values \cup {Absent}]
    /\ issued \in SUBSET Handles

Init ==
    /\ answer = [h \in Handles |-> Absent]
    /\ issued = {}

-----------------------------------------------------------------------------
(* A value is stored under a handle nobody has been given before.          *)
Issue ==
    \E h \in Handles \ issued :
        /\ issued' = issued \cup {h}
        /\ \E v \in Values : answer' = [answer EXCEPT ![h] = v]

(* Values are replaced in place, through one handle or through many.       *)
Replace ==
    /\ answer' \in [Handles -> Values \cup {Absent}]
    /\ \A h \in Handles : answer'[h] = Absent <=> answer[h] = Absent
    /\ issued' = issued

(* Values are dropped; every handle to another value is left alone.        *)
Drop ==
    /\ answer' \in [Handles -> Values \cup {Absent}]
    /\ \A h \in Handles : answer'[h] \in {answer[h], Absent}
    /\ issued' = issued

Next == Issue \/ Replace \/ Drop

Spec == Init /\ [][Next]_vars
=============================================================================
