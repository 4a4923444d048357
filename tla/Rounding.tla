------------------------------ MODULE Rounding ------------------------------
(***************************************************************************)
(* Rounding edges of a solid (fillet_edges, ogeom-fillet/src/fillet.rs): a *)
(* ladder of attempts, each from the solid as it was given, over the       *)
(* journal of widened tolerances.                                          *)
(*                                                                         *)
(* with_fitted_rims rounds with exact rims and, where that refuses and the *)
(* request has a cone rim, again with fitted ones.  A round of edges that  *)
(* share ends (fillet_edges_meeting_with) is attempted with crossed        *)
(* junctions, with flush ones alone, and with none.  Within an attempt the *)
(* boolean makes seated cuts, which note and put back what they widen too. *)
(***************************************************************************)
EXTENDS WidenJournal

CONSTANTS
    Nodes,          \* the nodes of the solid, whose tolerances start at 1
    MaxWritten      \* bound: how often surfaces are written back

ASSUME RoundingAssumption ==
    MaxTol \in Nat \ {0} /\ MaxWritten \in Nat /\ MaxLog \in Nat

NoMark == [from |-> 0, opened |-> FALSE]
NoJunction == [any |-> FALSE, crossed |-> FALSE, surfaces |-> 0]

VARIABLES
    pc,         \* where the request stands; idle between requests
    rims,       \* whether cone rims are rounded exactly or fitted
    sharing,    \* whether two edges of the request share an end
    junctions,  \* which junctions the attempt may take
    taken,      \* what it took, and the surfaces as they stood then
    answer,     \* what the last attempt answered
    outer,      \* the mark of with_fitted_rims
    inner,      \* the mark of fillet_edges_meeting_with
    cut,        \* the mark of a seated cut
    surfaces,   \* how often the solid's surfaces have been written back
    given,      \* history: the tolerances and surfaces of the solid given
    before      \* history: the tolerances the seated cut began with

control == <<pc, rims, sharing, junctions, taken, answer>>
marks == <<outer, inner, cut>>
roundingVars == <<tol, journal, control, marks, surfaces, given, before>>

Mark0 == [from : 0..MaxLog, opened : BOOLEAN]
SolidTolerances == [Nodes -> 1..MaxTol]

RoundingTypeOK ==
    /\ tol \in SolidTolerances
    /\ open \in BOOLEAN
    /\ ~open => log = <<>>
    /\ log \in Seq(UNION {[S -> 1..MaxTol] : S \in SUBSET Nodes})
    /\ pc \in {"idle", "round", "attempt", "build", "cut", "answered", "rounded"}
    /\ rims \in {"exact", "fitted"}
    /\ sharing \in BOOLEAN
    /\ junctions \in {"crossed", "flush", "none"}
    /\ taken \in [any : BOOLEAN, crossed : BOOLEAN, surfaces : 0..MaxWritten]
    /\ answer \in {"built", "refused", "stopped"}
    /\ outer \in Mark0 /\ inner \in Mark0 /\ cut \in Mark0
    /\ surfaces \in 0..MaxWritten
    /\ given \in [tol : SolidTolerances, surfaces : 0..MaxWritten]
    /\ before \in SolidTolerances

RoundingInit ==
    /\ tol = [n \in Nodes |-> 1]
    /\ open = FALSE
    /\ log = <<>>
    /\ pc = "idle"
    /\ rims = "exact"
    /\ sharing = FALSE
    /\ junctions = "none"
    /\ taken = NoJunction
    /\ answer = "built"
    /\ outer = NoMark /\ inner = NoMark /\ cut = NoMark
    /\ surfaces = 0
    /\ given = [tol |-> tol, surfaces |-> 0]
    /\ before = tol

Go(from, to) == pc = from /\ pc' = to

-----------------------------------------------------------------------------
(* with_fitted_rims begins: the first round, its rims exact.               *)
Request(shares) ==
    /\ Go("idle", "round")
    /\ NoteWidened
    /\ outer' = Mark
    /\ rims' = "exact"
    /\ sharing' = shares
    /\ given' = [tol |-> tol, surfaces |-> surfaces]
    /\ UNCHANGED <<junctions, taken, answer, inner, cut, surfaces, before>>

(* Edges that share no end are rounded in one attempt ...                  *)
RoundAlone ==
    /\ Go("round", "attempt")
    /\ ~sharing
    /\ junctions' = "none"
    /\ taken' = NoJunction
    /\ UNCHANGED <<tol, journal, rims, sharing, answer, marks, surfaces, given, before>>

(* ... others in several, what each widens noted.                          *)
RoundMeeting ==
    /\ Go("round", "attempt")
    /\ sharing
    /\ NoteWidened
    /\ inner' = Mark
    /\ junctions' = "crossed"
    /\ taken' = NoJunction
    /\ UNCHANGED <<rims, sharing, answer, outer, cut, surfaces, given, before>>

-----------------------------------------------------------------------------
(* An attempt: fillet_edges_own.                                           *)

(* It finds the junctions it may take, and notes the solid's surfaces      *)
(* before it builds where it takes any.                                    *)
Take(any, crossed) ==
    /\ Go("attempt", "build")
    /\ any => junctions # "none"
    /\ crossed => any /\ junctions = "crossed"
    /\ taken' = [any |-> any, crossed |-> crossed,
                 surfaces |-> IF any THEN surfaces ELSE 0]
    /\ UNCHANGED <<tol, journal, rims, sharing, junctions, answer, marks, surfaces, given, before>>

(* Building widens nodes of the solid where they stand ...                 *)
Build(S, to) ==
    /\ pc \in {"build", "cut"}
    /\ open => Len(log) < MaxLog
    /\ S # {} /\ \A n \in S : tol[n] < to
    /\ tol' = [n \in Nodes |-> IF n \in S THEN to ELSE tol[n]]
    /\ log' = WithNoted([n \in S |-> tol[n]])
    /\ UNCHANGED <<open, control, marks, surfaces, given, before>>

(* ... and writes a marched seat's surface back as the face's own.         *)
WriteBack ==
    /\ pc = "build"
    /\ surfaces < MaxWritten
    /\ surfaces' = surfaces + 1
    /\ UNCHANGED <<tol, journal, control, marks, given, before>>

(* A seated cut, kept where it is made and put back where it is not.       *)
BeginCut ==
    /\ Go("build", "cut")
    /\ NoteWidened
    /\ cut' = Mark
    /\ before' = tol
    /\ UNCHANGED <<rims, sharing, junctions, taken, answer, outer, inner, surfaces, given>>

KeepCut ==
    /\ Go("cut", "build")
    /\ KeepWidened(cut)
    /\ UNCHANGED <<rims, sharing, junctions, taken, answer, marks, surfaces, given, before>>

UndoCut ==
    /\ Go("cut", "build")
    /\ UndoWidened(cut)
    /\ UNCHANGED <<rims, sharing, junctions, taken, answer, marks, surfaces, given, before>>

Answer(what) ==
    /\ Go("build", IF junctions = "none" THEN "rounded" ELSE "answered")
    /\ answer' = what
    /\ UNCHANGED <<tol, journal, rims, sharing, junctions, taken, marks, surfaces, given, before>>

-----------------------------------------------------------------------------
(* The attempt answers its ladder: fillet_edges_meeting_with.              *)

(* A rounding made, stopped, or refused without a junction is the answer.  *)
Settled == answer # "refused" \/ ~taken.any

KeepMeeting ==
    /\ Go("answered", "rounded")
    /\ Settled
    /\ KeepWidened(inner)
    /\ UNCHANGED <<rims, sharing, junctions, taken, answer, marks, surfaces, given, before>>

AlwaysTheFirst == junctions

(* The junctions of the next attempt: flush ones alone after crossed ones  *)
(* were taken, otherwise none.                                             *)
NextJunctions ==
    IF junctions = "crossed" /\ taken.crossed THEN "flush" ELSE "none"

(* Refused with a junction: the solid is put back and rounded again.       *)
UndoMeeting ==
    /\ Go("answered", "attempt")
    /\ ~Settled
    /\ UndoWidened(inner)
    /\ surfaces' = taken.surfaces
    /\ junctions' = NextJunctions
    /\ taken' = NoJunction
    /\ UNCHANGED <<rims, sharing, answer, marks, given, before>>

-----------------------------------------------------------------------------
(* The round answers with_fitted_rims.                                     *)

Refused == rims = "exact" /\ answer = "refused"

(* Built, stopped, or refused with no cone rim in the request.             *)
KeepExact ==
    /\ Go("rounded", "idle")
    /\ rims = "exact"
    /\ KeepWidened(outer)
    /\ UNCHANGED <<rims, sharing, junctions, taken, answer, marks, surfaces, given, before>>

(* Refused with a cone rim: put back, and rounded again with fitted rims.  *)
UndoExact ==
    /\ Go("rounded", "round")
    /\ Refused
    /\ UndoWidened(outer)
    /\ rims' = "fitted"
    /\ UNCHANGED <<sharing, junctions, taken, answer, marks, surfaces, given, before>>

(* Refused, and asking for cone rims fails in turn, as it does on an edge  *)
(* that has no curve: the error returns at once.                           *)
RimsUnknown ==
    /\ Go("rounded", "idle")
    /\ Refused
    /\ UNCHANGED <<tol, journal, rims, sharing, junctions, taken, answer, marks, surfaces, given, before>>

FittedAnswer ==
    /\ Go("rounded", "idle")
    /\ rims = "fitted"
    /\ UNCHANGED <<tol, journal, rims, sharing, junctions, taken, answer, marks, surfaces, given, before>>

-----------------------------------------------------------------------------
Widening == \E S \in SUBSET Nodes, to \in 1..MaxTol : Build(S, to)

Step ==
    \/ RoundAlone \/ RoundMeeting
    \/ \E any, crossed \in BOOLEAN : Take(any, crossed)
    \/ WriteBack \/ BeginCut \/ KeepCut \/ UndoCut
    \/ \E what \in {"built", "refused", "stopped"} : Answer(what)
    \/ KeepMeeting \/ UndoMeeting
    \/ KeepExact \/ UndoExact \/ RimsUnknown \/ FittedAnswer

RoundingNext == Step \/ Widening \/ \E shares \in BOOLEAN : Request(shares)

(* An attempt goes on and answers in the end: it is a finite construction. *)
Answers == \E what \in {"built", "refused", "stopped"} : Answer(what)
RoundingSpec == RoundingInit /\ [][RoundingNext]_roundingVars /\ WF_roundingVars(Step) /\ SF_roundingVars(Answers)

-----------------------------------------------------------------------------
AsGiven == tol = given.tol /\ surfaces = given.surfaces

(* Every attempt starts from the solid with its tolerances as they were    *)
(* given, whatever the attempts before it widened or cut before they       *)
(* refused.                                                                *)
TolerancesPutBack == pc = "attempt" => tol = given.tol

(* While rims are exact, under the journal of with_fitted_rims, so it does,*)
(* and with its surfaces as they were given.                               *)
ExactStartsAsGiven == pc = "attempt" /\ rims = "exact" => AsGiven

(* A seated cut that is not made leaves the tolerances as it found them,   *)
(* in a journal of its own or in the one of the attempt it is part of.     *)
CutPutsBack == [][UndoCut => tol' = before]_roundingVars

(* Between operations no journal is open: what an operation notes is kept  *)
(* or put back before it returns, and the model can be packed.             *)
JournalClosedBetweenOperations == pc = "idle" => ~open

(* The ladder ends: a request is answered after finitely many attempts.    *)
RequestAnswered == pc # "idle" ~> pc = "idle"
=============================================================================
