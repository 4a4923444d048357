---------------------------- MODULE MCTessellate ----------------------------
(* A face held twice, and one that shares its edge and has another of its  *)
(* own.  In the model the second place of the first is elsewhere; in the   *)
(* build beside it the two lie on each other, so that they have one        *)
(* content, on a surface other than the model's first face has.            *)
EXTENDS Tessellate, TLC

MCEdgesOf == <<<<1>>, <<1, 2>>, <<1>>>>
MCNodeOf == <<1, 2, 1>>
MCSurfaceOf == [c \in Contents |-> IF c = "moved" THEN "a" ELSE c]
MCModel == <<"a", "b", "moved">>
MCBuilds == {MCModel, <<"c", "b", "c">>}

DeflectionSymmetry == Permutations(Deflections)

(* A tessellation goes through no cache and a caller's meshes are stored   *)
(* nowhere: two calls of one kind follow each other, not one of each, but  *)
(* for the model's own shape meshed once it is stored, where one thing at  *)
(* most was out of the ordinary.  Jobs that go through no cache share      *)
(* nothing, and are taken one at a time.                                   *)
Bounds ==
    /\ (\E e \in Edges : line[e] # NoLine) /\ cached =>
           onEdges # Bare /\ Trouble(geometry) <= 1
    /\ storing # "none" => held = NoAnswers
    /\ cached \/ Cardinality({f \in Faces : job[f] = "missed"}) <= 1
=============================================================================
