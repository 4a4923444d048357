--------------------------- MODULE MCParallelMap ---------------------------
(* Three stages on two threads: two called by the threads, one from inside  *)
(* the first item of another.                                               *)
EXTENDS ParallelMap

CONSTANTS outer, other, nested, t1, t2, w1

MCStages == {outer, other, nested}
MCThreads == {t1, t2}
MCCaller == [s \in MCStages |-> IF s = other THEN t2 ELSE t1]
MCWithin == [s \in MCStages |-> IF s = nested THEN outer ELSE NoStage]
MCWatch == [s \in MCStages |-> IF s = outer THEN w1 ELSE NoWatch]
MCFaulty == {<<outer, 2>>, <<nested, 1>>}
=============================================================================
