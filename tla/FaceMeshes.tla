----------------------------- MODULE FaceMeshes -----------------------------
(***************************************************************************)
(* Meshing the faces of a shape (face_meshes, ogeom-mesh/src/              *)
(* triangulate.rs).  Each face is drawn to chords its edges are held to;   *)
(* a face whose boundary crosses itself asks for finer ones, and every     *)
(* face across a changed edge is drawn again, for at most Rounds rounds.   *)
(* Draws and asks run side by side and may go through a cache              *)
(* (FaceMeshCache) that outlives the call.                                 *)
(*                                                                         *)
(* A chord is its level of refinement: 0 the caller's own, a greater one   *)
(* finer.  A mesh is what it was drawn from and how it came out.  What     *)
(* the geometry answers, an error included, is settled the first time it   *)
(* is asked and the same ever after.  A watch cancelled fails every job    *)
(* not taken yet.                                                          *)
(*                                                                         *)
(* Drawing a face also reads the surfaces across its edges (rim_holds),    *)
(* which the cache's key does not name: a mesh kept under the key of a     *)
(* face may have been drawn beside other neighbours than the face has now. *)
(***************************************************************************)
EXTENDS Naturals, Sequences, FiniteSets

CONSTANTS
    Faces,          \* the faces below the shape, by their place in it
    Edges,          \* their edges, likewise
    EdgesOf,        \* the edges of each face, as its wires walk them
    NodeOf,         \* the node of each face: one placed twice shares it
    Contents,       \* what a face's geometry can be, its placement with it
    SurfaceOf,      \* the surface each content lies on
    Builds,         \* the shapes meshed: a content for every face
    Deflections,    \* the chords a caller asks for
    Finest,         \* bound: the finest chord the geometry asks for
    Rounds,         \* SETTLING_ROUNDS
    Threads,        \* how many threads take the jobs of a stage
    MaxTrouble,     \* bound: how many faces are narrow, not drawn whole or cancelled
    MaxCalls        \* bound: how many calls share the cache

ASSUME FaceMeshesAssumption ==
    /\ Faces \subseteq Nat /\ Edges \subseteq Nat
    /\ EdgesOf \in [Faces -> Seq(Edges)]
    /\ Builds \subseteq [Faces -> Contents]
    /\ \A f, g \in Faces : NodeOf[f] = NodeOf[g] =>
        /\ EdgesOf[f] = EdgesOf[g]
        /\ \A b \in Builds : SurfaceOf[b[f]] = SurfaceOf[b[g]]
    /\ {Finest, Rounds, Threads, MaxTrouble, MaxCalls} \subseteq Nat

VARIABLES
    shape,      \* the content of every face in this call
    deflection, \* the chord this call was asked for
    cached,     \* whether this call goes through the cache
    onEdges,    \* the polylines the edges of each face carry, or Unread
    stage,      \* where the call stands
    round,      \* how many rounds it has settled
    job,        \* the job of each face in a parallel stage
    result,     \* what the job answered
    finer,      \* the chords the faces agree on
    drawn,      \* the chords the meshes were drawn to
    changed,    \* edges whose chord changed since
    still,      \* the faces that came up short when last drawn
    short,      \* those of them to be asked for finer chords
    computed,   \* the mesh of each face, or Failed
    held,       \* cache: meshes by key
    chords,     \* cache: asks by key
    geometry,   \* what geometry has answered so far
    calls,      \* how many calls were made
    cancelled   \* whether this call's watch was cancelled

call == <<shape, deflection, cached, onEdges, calls, cancelled>>
cache == <<held, chords>>
meshing == <<call, stage, round, job, result, finer, drawn, changed, still,
             short, computed, cache, geometry>>

-----------------------------------------------------------------------------
Levels == 0..Finest
Passes == {"agreeing", "last"}

(* How a draw comes out: empty is short with no triangle, failed an error. *)
Verdicts == {"whole", "short", "empty", "failed"}
Refuses == Finest + 1       \* an ask that is an error

Failed == [failed |-> TRUE]
NoMesh == [failed |-> FALSE]

(* What an edge carries of an earlier tessellation.                        *)
NoLine == [deflection |-> "none", at |-> 0]
Lines == [deflection : Deflections, at : Levels] \cup {NoLine}

(* face_content of a face an edge of which carries a path through a mesh.  *)
Unread == <<[deflection |-> "unread", at |-> 0]>>

Bare == [f \in Faces |-> [i \in DOMAIN EdgesOf[f] |-> NoLine]]

(* The chords of a face's edges, in the order of its walk.                 *)
Along(f, m) == [i \in DOMAIN EdgesOf[f] |-> m[EdgesOf[f][i]]]

EdgeSet(f) == {EdgesOf[f][i] : i \in DOMAIN EdgesOf[f]}

(* rim_holds: the surfaces of other faces that lie across each edge of a   *)
(* face, which say how the face is drawn between its rims.                 *)
Surfaces == {SurfaceOf[c] : c \in Contents}

Across(f) ==
    [i \in DOMAIN EdgesOf[f] |->
        {SurfaceOf[shape[g]] : g \in
            {h \in Faces : NodeOf[h] # NodeOf[f] /\ EdgesOf[f][i] \in EdgeSet(h)}}]

(* Everything drawing a face to the chords m reads.                        *)
Reads(f, m, pass) ==
    [of |-> shape[f], deflection |-> deflection, at |-> Along(f, m), pass |-> pass,
     across |-> Across(f)]

Readings ==
    [of : Contents, deflection : Deflections, at : Seq(Levels), pass : Passes,
     across : Seq(SUBSET Surfaces)]

(* Mutant of MeshKey: the deflection asked for is no part of the key.      *)
KeyAtAnyDeflection(f, m, pass) ==
    [of |-> shape[f], at |-> Along(f, m), pass |-> pass, on |-> onEdges[f]]

(* mesh_key: what its mesh and its asks are kept under.  The content of a  *)
(* face holds whether another surface lies across an edge, never which,    *)
(* and whatever its edges carry.                                           *)
MeshKey(f, m, pass) ==
    [of |-> shape[f], deflection |-> deflection, at |-> Along(f, m), pass |-> pass,
     on |-> onEdges[f]]

Keys ==
    [of : Contents, deflection : Deflections, at : Seq(Levels), pass : Passes,
     on : Seq(Lines) \cup {Unread}]

(* A mesh: what it was drawn from, and the verdict of the pass.            *)
Drawn(reads, verdict) == [drawn |-> reads, verdict |-> verdict]

IsMesh(r) == "drawn" \in DOMAIN r
IsAsk(r) == "ask" \in DOMAIN r

Finer(a, b) == IF a > b THEN a ELSE b
Put(f, k, v) == [x \in DOMAIN f \cup {k} |-> IF x = k THEN v ELSE f[x]]

NoJobs == [f \in Faces |-> "none"]
Jobs(fs) == [f \in Faces |-> IF f \in fs THEN "todo" ELSE "none"]
NoResults == [f \in Faces |-> NoMesh]
JobsDone == \A f \in Faces : job[f] \in {"none", "done"}

DrawStages == {"first", "settle", "last"}

TypeOK ==
    /\ shape \in Builds /\ deflection \in Deflections /\ cached \in BOOLEAN
    /\ onEdges \in [Faces -> Seq(Lines) \cup {Unread}]
    /\ stage \in {"idle", "ask", "done", "refused"} \cup DrawStages
    /\ round \in 0..Rounds
    /\ job \in [Faces -> {"none", "todo", "missed", "done"}]
    /\ finer \in [Edges -> Levels] /\ drawn \in [Edges -> Levels]
    /\ changed \subseteq Edges /\ short \subseteq still /\ still \subseteq Faces
    /\ \A f \in Faces : IsMesh(computed[f]) => computed[f].drawn \in Readings
    /\ DOMAIN held \subseteq Keys /\ DOMAIN chords \subseteq Keys
    /\ calls \in 0..MaxCalls /\ cancelled \in BOOLEAN

-----------------------------------------------------------------------------
NoAnswers == [k \in {} |-> NoMesh]

Init ==
    /\ shape \in Builds /\ deflection \in Deflections /\ cached = FALSE
    /\ onEdges = Bare
    /\ stage = "idle" /\ round = 0 /\ calls = 0 /\ cancelled = FALSE
    /\ job = NoJobs /\ result = NoResults
    /\ finer = [e \in Edges |-> 0] /\ drawn = [e \in Edges |-> 0]
    /\ changed = {} /\ still = {} /\ short = {}
    /\ computed = NoResults
    /\ held = NoAnswers /\ chords = NoAnswers
    /\ geometry = [verdict |-> NoAnswers, ask |-> NoAnswers, narrow |-> NoAnswers]

(* Of what geometry answers, how much is out of the ordinary.              *)
Trouble(g) ==
    Cardinality({k \in DOMAIN g.verdict : g.verdict[k] # "whole"})
        + Cardinality({k \in DOMAIN g.narrow : g.narrow[k] # 0})

Bounded(g) == Trouble(g) <= MaxTrouble

(* walk_for_chords: a face narrower than a few chords asks for its width   *)
(* over a few; an edge is held to the finest any of its faces asks.        *)
Agreed(narrow) ==
    [e \in Edges |->
        LET asks == {narrow[f] : f \in {g \in Faces : e \in EdgeSet(g)}} \cup {0}
        IN  CHOOSE c \in asks : \A d \in asks : d <= c]

NarrowKey(b, d, f) == [of |-> b[f], deflection |-> d]

(* A call: the shape b, its edges carrying on, drawn to d.  Its faces'     *)
(* rings are walked first; then every face has a job of the first pass.    *)
Call(b, d, kept, on) ==
    /\ stage \in {"idle", "done", "refused"} /\ calls < MaxCalls
    /\ calls' = calls + 1 /\ cancelled' = FALSE
    /\ shape' = b /\ deflection' = d /\ cached' = kept /\ onEdges' = on
    /\ \E narrow \in [Faces -> Levels] :
        /\ \A f, g \in Faces :
            NarrowKey(b, d, f) = NarrowKey(b, d, g) => narrow[f] = narrow[g]
        /\ \A f \in Faces : NarrowKey(b, d, f) \in DOMAIN geometry.narrow
                => narrow[f] = geometry.narrow[NarrowKey(b, d, f)]
        /\ geometry' = [geometry EXCEPT !.narrow =
            [k \in DOMAIN @ \cup {NarrowKey(b, d, f) : f \in Faces} |->
                IF k \in DOMAIN @ THEN @[k]
                ELSE narrow[CHOOSE f \in Faces : NarrowKey(b, d, f) = k]]]
        /\ Bounded(geometry')
        /\ finer' = Agreed(narrow)
    /\ drawn' = [e \in Edges |-> 0]
    /\ stage' = "first" /\ round' = 0
    /\ job' = Jobs(Faces) /\ result' = NoResults /\ computed' = NoResults
    /\ changed' = {} /\ still' = {} /\ short' = {}
    /\ UNCHANGED cache

-----------------------------------------------------------------------------
(* The jobs of a stage.                                                    *)
Pass == IF stage = "last" THEN "last" ELSE "agreeing"

(* The chords a job draws or asks from: the agreed ones, but a last pass   *)
(* keeps to those its face was drawn to.                                   *)
Held == IF stage = "last" THEN drawn ELSE finer

JobKey(f) == MeshKey(f, Held, Pass)

(* The rings of the walk are drawn again only where the face's edges stay  *)
(* at the caller's chord: they are those of every edge at level 0.         *)
Touched(f) == \E e \in EdgeSet(f) : finer[e] # 0
Prepared(f) == stage = "first" /\ ~Touched(f)

DrawnFrom(f) ==
    IF Prepared(f) THEN Reads(f, [e \in Edges |-> 0], Pass) ELSE Reads(f, Held, Pass)

(* A face whose content cannot be read is drawn and not kept.              *)
Keeps(f) == cached /\ onEdges[f] # Unread

Kept(f) ==
    IF stage = "ask"
    THEN IF JobKey(f) \in DOMAIN chords THEN [ask |-> chords[JobKey(f)]] ELSE NoMesh
    ELSE IF JobKey(f) \in DOMAIN held THEN held[JobKey(f)] ELSE NoMesh

Answer(f, r) ==
    /\ job' = [job EXCEPT ![f] = "done"]
    /\ result' = [result EXCEPT ![f] = r]
    /\ UNCHANGED <<call, stage, round, finer, drawn, changed, still, short, computed>>

(* A thread takes the next job, the threads in any order (map_ordered).    *)
(* The cache is read under its lock, which is let go before drawing.       *)
Look(f) ==
    /\ job[f] = "todo" /\ \A g \in Faces : job[g] = "todo" => f <= g
    /\ Cardinality({g \in Faces : job[g] = "missed"}) < Threads
    /\ \/ /\ cancelled
          /\ Answer(f, Failed)
       \/ /\ ~cancelled /\ Keeps(f) /\ Kept(f) # NoMesh
          /\ Answer(f, Kept(f))
       \/ /\ ~cancelled /\ ~(Keeps(f) /\ Kept(f) # NoMesh)
          /\ job' = [job EXCEPT ![f] = "missed"]
          /\ UNCHANGED <<call, stage, round, result, finer, drawn, changed, still,
                         short, computed>>
    /\ UNCHANGED <<cache, geometry>>

(* triangulate_reporting_from; nothing is kept of a face that fails.       *)
Draw(f) ==
    /\ job[f] = "missed" /\ stage \in DrawStages
    /\ \E v \in Verdicts :
        /\ DrawnFrom(f) \in DOMAIN geometry.verdict => v = geometry.verdict[DrawnFrom(f)]
        /\ geometry' = [geometry EXCEPT !.verdict = Put(@, DrawnFrom(f), v)]
        /\ Bounded(geometry')
        /\ IF v = "failed"
           THEN Answer(f, Failed) /\ UNCHANGED held
           ELSE /\ Answer(f, Drawn(DrawnFrom(f), v))
                /\ held' = IF Keeps(f) THEN Put(held, JobKey(f), Drawn(DrawnFrom(f), v))
                                     ELSE held
    /\ UNCHANGED chords

(* face_chords: the chord all of the face's edges are lowered to, from     *)
(* those they are held to; 0 lowers none.  Kept edge by edge in the walk.  *)
Lowered(at, c) == [i \in DOMAIN at |-> Finer(at[i], c)]

Ask(f) ==
    /\ job[f] = "missed" /\ stage = "ask"
    /\ \E c \in Levels \cup {Refuses} :
        /\ Reads(f, finer, "agreeing") \in DOMAIN geometry.ask
                => c = geometry.ask[Reads(f, finer, "agreeing")]
        /\ geometry' = [geometry EXCEPT !.ask = Put(@, Reads(f, finer, "agreeing"), c)]
        /\ IF c = Refuses
           THEN Answer(f, Failed) /\ UNCHANGED chords
           ELSE /\ Answer(f, [ask |-> Lowered(Along(f, finer), c)])
                /\ chords' = IF Keeps(f) THEN Put(chords, JobKey(f), Lowered(Along(f, finer), c))
                                       ELSE chords
    /\ UNCHANGED held

-----------------------------------------------------------------------------
(* The stages, joined in face order by the caller.                         *)
ShortFaces(rs) == {f \in Faces : IsMesh(rs[f]) /\ rs[f].verdict # "whole"}

Begin(s, fs) ==
    /\ stage' = s
    /\ job' = Jobs(fs) /\ result' = NoResults

(* first_pass: a face that drew nothing is kept, and asked all the same.   *)
EndFirst ==
    /\ stage = "first" /\ JobsDone
    /\ computed' = result
    /\ still' = ShortFaces(result) /\ short' = ShortFaces(result)
    /\ drawn' = finer
    /\ Begin("ask", ShortFaces(result))
    /\ UNCHANGED <<call, round, finer, changed, cache, geometry>>

(* What the asks of its faces want of an edge.                             *)
Wanted(e) ==
    UNION {{result[f].ask[i] : i \in {j \in DOMAIN EdgesOf[f] : EdgesOf[f][j] = e}} :
            f \in short}

Merged == [e \in Edges |->
    LET asks == Wanted(e) \cup {finer[e]}
    IN  CHOOSE c \in asks : \A d \in asks : d <= c]

(* Mutant of Changed: an edge held finer already is never named.           *)
FirstChanged == {e \in Edges : finer[e] = 0 /\ Merged[e] # 0}

Changed == {e \in Edges : Merged[e] # finer[e]}

(* Mutant of Again: only the faces that asked are drawn again.             *)
AskersOnly(es) == {f \in short : EdgeSet(f) \cap es # {}}

(* The faces across a changed edge.                                        *)
Again(es) == {f \in Faces : EdgeSet(f) \cap es # {}}

(* refine_short: one ask that failed refuses the call.  Otherwise finer    *)
(* chords are merged, and where an edge's changed and a round is left its  *)
(* faces are drawn again; else those still short have their last pass.     *)
EndAsk ==
    /\ stage = "ask" /\ JobsDone
    /\ IF \E f \in short : result[f] = Failed
       THEN /\ Begin("refused", {})
            /\ UNCHANGED <<round, finer, changed>>
       ELSE /\ finer' = Merged /\ changed' = Changed
            /\ IF Changed # {} /\ round < Rounds
               THEN Begin("settle", Again(Changed)) /\ round' = round + 1
               ELSE Begin("last", still) /\ UNCHANGED round
    /\ UNCHANGED <<call, drawn, still, short, computed, cache, geometry>>

Redrawn(f) ==
    IF IsMesh(result[f]) /\ result[f].verdict = "empty" THEN Failed ELSE result[f]

EndSettle ==
    /\ stage = "settle" /\ JobsDone
    /\ LET again == {f \in Faces : job[f] = "done"}
       IN  /\ still' = (still \ again) \cup ShortFaces(result)
           /\ computed' = [f \in Faces |-> IF f \in again THEN Redrawn(f) ELSE computed[f]]
           /\ short' = {f \in ShortFaces(result) : result[f].verdict = "short"}
           /\ Begin("ask", {f \in ShortFaces(result) : result[f].verdict = "short"})
    /\ drawn' = finer
    /\ UNCHANGED <<call, round, finer, changed, cache, geometry>>

EndLast ==
    /\ stage = "last" /\ JobsDone
    /\ computed' = [f \in Faces |->
            IF IsMesh(result[f]) /\ result[f].verdict = "whole"
            THEN result[f] ELSE computed[f]]
    /\ Begin("done", {})
    /\ UNCHANGED <<call, round, finer, drawn, changed, still, short, cache, geometry>>

Cancel ==
    /\ stage \in DrawStages \cup {"ask"} /\ ~cancelled
    /\ Trouble(geometry) < MaxTrouble
    /\ cancelled' = TRUE
    /\ UNCHANGED <<shape, deflection, cached, onEdges, calls, stage, round, job, result,
                   finer, drawn, changed, still, short, computed, cache, geometry>>

Step ==
    \/ Cancel
    \/ \E f \in Faces : Look(f) \/ Draw(f) \/ Ask(f)
    \/ EndFirst \/ EndAsk \/ EndSettle \/ EndLast

Next ==
    Step \/ \E b \in Builds, d \in Deflections, k \in BOOLEAN : Call(b, d, k, Bare)

Spec == Init /\ [][Next]_meshing

-----------------------------------------------------------------------------
(* Two faces that share an edge draw it to one chord: no mesh assembled    *)
(* from them cracks along it, whatever the rounds did and even where they  *)
(* ran out.                                                                *)
MeshesMeetAlongEdges ==
    stage = "done" =>
        \A f, g \in {h \in Faces : IsMesh(computed[h])} :
            \A i \in DOMAIN EdgesOf[f], j \in DOMAIN EdgesOf[g] :
                EdgesOf[f][i] = EdgesOf[g][j] =>
                    computed[f].drawn.at[i] = computed[g].drawn.at[j]

(* Every mesh handed out, taken from the cache or not, was drawn of its    *)
(* own face's content at the deflection asked for, and came out as drawing *)
(* that does: what another face, another deflection or another pass left   *)
(* in the cache never answers.  Only a face taken from the cache may have  *)
(* been drawn beside other surfaces than lie across its edges now: its key *)
(* does not name them.                                                     *)
MeshesAreTheirFaces ==
    \A f \in {h \in Faces : IsMesh(computed[h])} :
        LET from == computed[f].drawn
        IN  /\ from.of = shape[f] /\ from.deflection = deflection
            /\ from.pass = "last" => computed[f].verdict = "whole"
            /\ computed[f].verdict = geometry.verdict[from]
            /\ from.across # Across(f) => Keeps(f)

(* Where the rounds settled, the chords a call answers are those its       *)
(* meshes were drawn to: a polyline drawn to them follows every mesh.      *)
SettledChordsAreDrawn ==
    stage = "done" /\ changed = {} =>
        \A f \in {h \in Faces : IsMesh(computed[h])} :
            computed[f].drawn.at = Along(f, finer)
=============================================================================
