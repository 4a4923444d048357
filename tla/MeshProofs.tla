------------------------------ MODULE MeshProofs ------------------------------
(***************************************************************************)
(* Proofs about the modules FaceMeshes and Tessellate: for any faces and   *)
(* edges, any geometry, any number of rounds, threads and calls, the       *)
(* meshes of a shape meet along its edges, are drawn of their own faces,   *)
(* and are stored with polylines and paths that fit them.                  *)
(***************************************************************************)
EXTENDS Tessellate, WellFoundedInduction, TLAPS

-----------------------------------------------------------------------------
(* The inductive invariant of the meshing.                                 *)

Meshes == [drawn : Readings, verdict : Verdicts \ {"failed"}]

(* A mesh that came out as drawing what it was drawn from does.            *)
TrueTo(answers, m) ==
    /\ m \in Meshes
    /\ m.drawn \in DOMAIN answers /\ answers[m.drawn] = m.verdict

(* What geometry has answered it answers ever after.                       *)
Grows(answers, later) ==
    \A k \in DOMAIN answers : k \in DOMAIN later /\ later[k] = answers[k]

Drawing == stage \in DrawStages \cup {"ask"}

IsGeometry ==
    geometry = [verdict |-> geometry.verdict, ask |-> geometry.ask,
                narrow |-> geometry.narrow]

ByFace ==
    /\ result = [f \in Faces |-> result[f]]
    /\ computed = [f \in Faces |-> computed[f]]

(* Which faces have a job in a stage.                                      *)
JobsStand ==
    \A f \in Faces :
        /\ ~Drawing => job[f] = "none"
        /\ stage = "first" => job[f] # "none"
        /\ stage = "ask" => (job[f] # "none" <=> f \in short)
        /\ stage = "settle" => (job[f] # "none" <=> f \in Again(changed))

(* What a key says of what was drawn: all but the surfaces across.         *)
Fits(from, key) ==
    /\ from.of = key.of /\ from.deflection = key.deflection
    /\ from.at = key.at /\ from.pass = key.pass

(* A job that is done answered a mesh that fits its key, drawn beside the  *)
(* surfaces across its face unless it may be of the cache, or chords for   *)
(* every edge of its face's walk, or an error.                             *)
DrawAnswer(answers, key, beside, kept, r) ==
    \/ r = Failed
    \/ TrueTo(answers, r) /\ Fits(r.drawn, key) /\ (r.drawn.across # beside => kept)

AskAnswer(f, r) == r = Failed \/ r \in [ask : [DOMAIN EdgesOf[f] -> Levels]]

ResultsStand ==
    \A f \in Faces :
        /\ job[f] # "done" => result[f] = NoMesh
        /\ stage \in DrawStages /\ job[f] = "done" =>
               DrawAnswer(geometry.verdict, JobKey(f), Across(f), Keeps(f), result[f])
        /\ stage = "ask" /\ job[f] = "done" => AskAnswer(f, result[f])

(* The mesh of a face is its own, drawn to the chords the call records.    *)
OwnMesh(answers, of, d, at, beside, kept, m) ==
    /\ TrueTo(answers, m)
    /\ m.drawn.across # beside => kept
    /\ m.drawn.of = of /\ m.drawn.deflection = d /\ m.drawn.at = at
    /\ m.drawn.pass = "last" => m.verdict = "whole"

ComputedStand ==
    \A f \in Faces :
        /\ stage \in {"idle", "first"} => computed[f] = NoMesh
        /\ stage \notin {"idle", "first"} =>
               \/ computed[f] = Failed
               \/ OwnMesh(geometry.verdict, shape[f], deflection, Along(f, drawn),
                          Across(f), Keeps(f), computed[f])

(* The agreed chords part from those drawn to at the changed edges alone.  *)
ChordsStand ==
    /\ stage \in {"ask", "refused"} => finer = drawn
    /\ stage \in {"settle", "last", "done"} =>
           \A e \in Edges \ changed : finer[e] = drawn[e]

(* What the cache keeps under a key was drawn of what the key says, beside *)
(* whatever lay across then, and asks of every edge it walks.              *)
CacheStands ==
    /\ \A k \in DOMAIN held : TrueTo(geometry.verdict, held[k]) /\ Fits(held[k].drawn, k)
    /\ \A k \in DOMAIN chords : chords[k] \in [DOMAIN k.at -> Levels]

MeshingInv ==
    /\ TypeOK /\ IsGeometry /\ ByFace /\ JobsStand /\ ResultsStand
    /\ ComputedStand /\ ChordsStand /\ CacheStands

-----------------------------------------------------------------------------
(* The inductive invariant of the storing.                                 *)

(* The edge's polyline is the one this call's meshes were to follow.       *)
LineDrawn(e) == line[e] = [deflection |-> deflection, at |-> finer[e]]

(* While a tessellation is stored no other call is under way; the lines    *)
(* come first and clear the paths, and every path is of a face before      *)
(* those not stored yet.                                                   *)
StoringStands ==
    /\ storing # "none" => calls \in 1..MaxCalls
    /\ storing \in {"edges", "faces"} => stage = "done" /\ ~whole
    /\ storing = "edges" => \A e \in Edges \ left : LineDrawn(e) /\ path[e] = {}
    /\ storing = "faces" =>
           \A e \in Edges :
               LineDrawn(e) /\ \A p \in path[e] : p[2] = calls /\ \A g \in left : p[1] < g

(* A mesh is dated by the call it was stored from: one of the last call    *)
(* is the one that call computed for one of the places of its node.        *)
Dated(n) ==
    /\ mesh[n] \in [id : Faces \X (1..calls), mesh : Meshes]
    /\ NodeOf[mesh[n].id[1]] = n
    /\ mesh[n].id[2] = calls =>
        /\ stage = "done" /\ storing \in {"none", "faces"}
        /\ mesh[n].mesh = computed[mesh[n].id[1]]
        /\ storing = "none" /\ whole => \A e \in Edges : LineDrawn(e)

MeshesDated ==
    /\ mesh = [n \in Nodes |-> mesh[n]]
    /\ \A n \in Nodes : mesh[n] = NoMesh \/ Dated(n)

StoredInv ==
    /\ MeshingInv /\ StoredTypeOK /\ StoringStands /\ MeshesDated
    /\ PathsWalkTheirMesh

-----------------------------------------------------------------------------
(* Levels.                                                                 *)

(* A set of naturals that is not empty has a least element.                *)
LEMMA HasLeast ==
    ASSUME NEW S \in SUBSET Nat, S # {}
    PROVE  \E x \in S : \A y \in S : x <= y
<1> DEFINE below == {ss \in Nat \X Nat : ss[1] < ss[2]}
<1>1. OpToRel(<, Nat) = below
  BY Zenon DEF OpToRel
<1>2. IsWellFoundedOn(below, Nat)
  BY <1>1, NatLessThanWellFounded
<1> HIDE DEF below
<1>3. PICK x \in S : \A y \in S : ~ (<<y, x>> \in below)
  BY <1>2, WFMin
<1>4. ASSUME NEW y \in S PROVE x <= y
  <2>1. x \in Nat /\ y \in Nat
    OBVIOUS
  <2>2. ~(y < x)
    BY <1>3, <2>1 DEF below
  <2> QED BY <2>1, <2>2
<1> QED BY <1>4

(* Of some levels, one is the finest: the least that bounds them.          *)
LEMMA HasFinest ==
    ASSUME NEW S \in SUBSET Levels, S # {}
    PROVE  \E c \in S : \A d \in S : d <= c
<1>1. Finest \in Nat /\ Levels = 0..Finest
  BY FaceMeshesAssumption DEF Levels
<1>2. \A d \in S : d \in Nat /\ d <= Finest
  BY <1>1
<1> DEFINE bounds == {n \in Nat : \A d \in S : d <= n}
<1>3. bounds \in SUBSET Nat /\ bounds # {}
  BY <1>1, <1>2
<1>4. PICK n \in bounds : \A m \in bounds : n <= m
  BY <1>3, HasLeast
<1>5. n \in Nat /\ \A d \in S : d <= n
  BY <1>4
<1>6. n \in S
  <2> SUFFICES ASSUME n \notin S PROVE FALSE
    OBVIOUS
  <2>1. PICK d \in S : TRUE
    OBVIOUS
  <2>2. \A c \in S : c < n
    BY <1>2, <1>5
  <2>3. n - 1 \in Nat
    BY <1>2, <1>5, <2>1, <2>2
  <2>4. \A c \in S : c <= n - 1
    BY <1>2, <1>5, <2>2
  <2>5. n - 1 \in bounds
    BY <2>3, <2>4
  <2> QED BY <1>4, <1>5, <2>5
<1> QED BY <1>5, <1>6

LEMMA FinestChosen ==
    ASSUME NEW S \in SUBSET Levels, S # {}
    PROVE  (CHOOSE c \in S : \A d \in S : d <= c) \in Levels
BY HasFinest

(* Chords lowered to a level are chords of the same edges.                 *)
LEMMA LoweredChords ==
    ASSUME NEW D, NEW at \in [D -> Levels], NEW c \in Levels
    PROVE  Lowered(at, c) \in [D -> Levels]
BY DEF Lowered, Finer

-----------------------------------------------------------------------------
(* Meshes and keys.                                                        *)

LEMMA MeshOrNot ==
    /\ ~IsMesh(Failed) /\ ~IsMesh(NoMesh) /\ Failed # NoMesh
    /\ \A m \in Meshes : IsMesh(m) /\ m # Failed /\ m # NoMesh
BY DEF Meshes, IsMesh, Failed, NoMesh

LEMMA AskOrNot ==
    ASSUME NEW D, NEW r \in [ask : [D -> Levels]]
    PROVE  ~IsMesh(r) /\ r # Failed /\ r # NoMesh
BY DEF IsMesh, Failed, NoMesh

LEMMA StillTrue ==
    ASSUME NEW answers, NEW later, Grows(answers, later), NEW m, TrueTo(answers, m)
    PROVE  TrueTo(later, m)
BY DEF Grows, TrueTo, Meshes

LEMMA PutGrows ==
    ASSUME NEW answers, NEW k, NEW v, k \in DOMAIN answers => v = answers[k]
    PROVE  /\ Grows(answers, Put(answers, k, v))
           /\ k \in DOMAIN Put(answers, k, v) /\ Put(answers, k, v)[k] = v
BY DEF Grows, Put

LEMMA AlongChords ==
    ASSUME NEW f \in Faces, NEW m \in [Edges -> Levels]
    PROVE  /\ Along(f, m) \in Seq(Levels)
           /\ Along(f, m) \in [DOMAIN EdgesOf[f] -> Levels]
           /\ DOMAIN Along(f, m) = DOMAIN EdgesOf[f]
           /\ \A i \in DOMAIN EdgesOf[f] :
                EdgesOf[f][i] \in Edges /\ Along(f, m)[i] = m[EdgesOf[f][i]]
<1>1. EdgesOf[f] \in Seq(Edges)
  BY FaceMeshesAssumption
<1>2. \A i \in DOMAIN EdgesOf[f] : EdgesOf[f][i] \in Edges
  BY <1>1
<1>3. PICK n \in Nat : DOMAIN EdgesOf[f] = 1..n
  BY <1>1
<1>4. Along(f, m) \in [1..n -> Levels]
  BY <1>2, <1>3 DEF Along
<1>5. Along(f, m) \in Seq(Levels)
  BY <1>4
<1> QED BY <1>2, <1>3, <1>4, <1>5 DEF Along

(* Chords that agree on the face's edges are one walk.                     *)
LEMMA SameWalk ==
    ASSUME NEW f \in Faces, NEW m, NEW n, \A e \in EdgeSet(f) : m[e] = n[e]
    PROVE  Along(f, m) = Along(f, n)
BY DEF Along, EdgeSet

LEMMA AcrossMade ==
    ASSUME TypeOK, NEW f \in Faces PROVE Across(f) \in Seq(SUBSET Surfaces)
<1>1. EdgesOf[f] \in Seq(Edges)
  BY FaceMeshesAssumption
<1>2. PICK n \in Nat : DOMAIN EdgesOf[f] = 1..n
  BY <1>1
<1>3. \A g \in Faces : shape[g] \in Contents
  BY FaceMeshesAssumption DEF TypeOK
<1>4. \A g \in Faces : SurfaceOf[shape[g]] \in Surfaces
  BY <1>3 DEF Surfaces
<1>5. Across(f) \in [1..n -> SUBSET Surfaces]
  BY <1>2, <1>4 DEF Across
<1> QED BY <1>5

LEMMA ReadMade ==
    ASSUME TypeOK, NEW f \in Faces, NEW m \in [Edges -> Levels], NEW p \in Passes
    PROVE  Reads(f, m, p) \in Readings /\ MeshKey(f, m, p) \in Keys
<1>1. shape[f] \in Contents /\ deflection \in Deflections
  BY FaceMeshesAssumption DEF TypeOK
<1>2. Along(f, m) \in Seq(Levels) /\ Across(f) \in Seq(SUBSET Surfaces)
  BY AlongChords, AcrossMade
<1>3. onEdges[f] \in Seq(Lines) \cup {Unread}
  BY DEF TypeOK
<1> QED BY <1>1, <1>2, <1>3 DEF MeshKey, Keys, Reads, Readings

LEMMA JobKeyMade ==
    ASSUME TypeOK, NEW f \in Faces
    PROVE  /\ JobKey(f) \in Keys
           /\ JobKey(f).of = shape[f] /\ JobKey(f).deflection = deflection
           /\ JobKey(f).at = Along(f, Held) /\ JobKey(f).pass = Pass
           /\ DOMAIN JobKey(f).at = DOMAIN EdgesOf[f]
<1>1. Held \in [Edges -> Levels] /\ Pass \in Passes
  BY DEF TypeOK, Held, Pass, Passes
<1>2. JobKey(f) \in Keys
  BY <1>1, ReadMade DEF JobKey
<1>3. DOMAIN Along(f, Held) = DOMAIN EdgesOf[f]
  BY <1>1, AlongChords
<1> QED BY <1>2, <1>3 DEF JobKey, MeshKey

(* What a job draws from is what its key says and the surfaces across,     *)
(* where the rings of the walk are drawn again too: that face's edges are  *)
(* all at the caller's chord.                                              *)
LEMMA DrawsItsKey ==
    ASSUME TypeOK, NEW f \in Faces
    PROVE  /\ DrawnFrom(f) = Reads(f, Held, Pass) /\ DrawnFrom(f) \in Readings
           /\ Fits(DrawnFrom(f), JobKey(f)) /\ DrawnFrom(f).across = Across(f)
<1>1. DrawnFrom(f) = Reads(f, Held, Pass)
  <2>1. CASE Prepared(f)
    <3>1. Held = finer
      BY <2>1 DEF Prepared, Held
    <3>2. \A e \in EdgeSet(f) : finer[e] = 0
      BY <2>1 DEF Prepared, Touched
    <3>3. EdgeSet(f) \subseteq Edges
      BY FaceMeshesAssumption DEF EdgeSet
    <3>4. \A e \in EdgeSet(f) : [x \in Edges |-> 0][e] = finer[e]
      BY <3>2, <3>3
    <3>5. Along(f, [x \in Edges |-> 0]) = Along(f, finer)
      BY <3>4, SameWalk
    <3> QED BY <2>1, <3>1, <3>5 DEF DrawnFrom, Reads
  <2>2. CASE ~Prepared(f)
    BY <2>2 DEF DrawnFrom
  <2> QED BY <2>1, <2>2
<1>2. Held \in [Edges -> Levels] /\ Pass \in Passes
  BY DEF TypeOK, Held, Pass, Passes
<1>3. DrawnFrom(f) \in Readings
  BY <1>1, <1>2, ReadMade
<1>4. Fits(DrawnFrom(f), JobKey(f)) /\ DrawnFrom(f).across = Across(f)
  BY <1>1 DEF Reads, JobKey, MeshKey, Fits
<1> QED BY <1>1, <1>3, <1>4

LEMMA SameBeside ==
    ASSUME NEW f \in Faces, UNCHANGED <<shape, cached, onEdges>>
    PROVE  Across(f)' = Across(f) /\ Keeps(f)' = Keeps(f)
BY DEF Across, Keeps, EdgeSet

LEMMA JobKeyKept ==
    ASSUME NEW f \in Faces,
           UNCHANGED <<shape, deflection, cached, onEdges, stage, finer, drawn>>
    PROVE  JobKey(f)' = JobKey(f) /\ Across(f)' = Across(f) /\ Keeps(f)' = Keeps(f)
BY SameBeside DEF JobKey, MeshKey, Held, Pass, Along

(* Answers stand when geometry has answered more.                          *)
LEMMA StillAnswers ==
    ASSUME NEW answers, NEW later, Grows(answers, later)
    PROVE  /\ \A key, beside, kept, r :
                  DrawAnswer(answers, key, beside, kept, r)
                      => DrawAnswer(later, key, beside, kept, r)
           /\ \A of, d, at, beside, kept, m :
                  OwnMesh(answers, of, d, at, beside, kept, m)
                      => OwnMesh(later, of, d, at, beside, kept, m)
BY StillTrue DEF DrawAnswer, OwnMesh

LEMMA GrowsNot == ASSUME NEW answers PROVE Grows(answers, answers)
BY DEF Grows

(* The type of the computed meshes follows from what they are.             *)
LEMMA ComputedKeys ==
    ASSUME ComputedStand, NEW f \in Faces, IsMesh(computed[f])
    PROVE  computed[f] \in Meshes /\ computed[f].drawn \in Readings
BY MeshOrNot DEF ComputedStand, OwnMesh, TrueTo, Meshes

-----------------------------------------------------------------------------
(* The meshing keeps its invariant: the jobs of a stage.                   *)

LEMMA BareLines == Bare \in [Faces -> Seq(Lines) \cup {Unread}]
<1>1. ASSUME NEW f \in Faces PROVE [i \in DOMAIN EdgesOf[f] |-> NoLine] \in Seq(Lines)
  <2>1. EdgesOf[f] \in Seq(Edges)
    BY FaceMeshesAssumption
  <2>2. PICK n \in Nat : DOMAIN EdgesOf[f] = 1..n
    BY <2>1
  <2>3. [i \in 1..n |-> NoLine] \in [1..n -> Lines]
    BY DEF Lines
  <2> QED BY <2>2, <2>3
<1> QED BY <1>1 DEF Bare

LEMMA MeshingInit == Init => MeshingInv
<1> SUFFICES ASSUME Init PROVE MeshingInv
  OBVIOUS
<1>1. Rounds \in Nat /\ MaxCalls \in Nat /\ Finest \in Nat
  BY FaceMeshesAssumption
<1>2. \A f \in Faces : ~IsMesh(computed[f]) /\ computed[f] = NoMesh
  BY MeshOrNot DEF Init, NoResults
<1>3. DOMAIN held = {} /\ DOMAIN chords = {}
  BY DEF Init, NoAnswers
<1>4. TypeOK
  <2>1. finer \in [Edges -> Levels] /\ drawn \in [Edges -> Levels]
    BY <1>1 DEF Init, Levels
  <2>2. job \in [Faces -> {"none", "todo", "missed", "done"}]
    BY DEF Init, NoJobs
  <2>3. round \in 0..Rounds /\ calls \in 0..MaxCalls
    BY <1>1 DEF Init
  <2>4. DOMAIN held \subseteq Keys /\ DOMAIN chords \subseteq Keys
    BY <1>3
  <2> QED BY <1>2, <2>1, <2>2, <2>3, <2>4, BareLines DEF Init, TypeOK
<1>5. IsGeometry /\ ByFace
  BY DEF Init, IsGeometry, ByFace, NoResults
<1>6. JobsStand /\ ResultsStand
  BY DEF Init, JobsStand, ResultsStand, NoJobs, NoResults, Drawing, DrawStages
<1>7. ComputedStand /\ ChordsStand /\ CacheStands
  BY <1>2, <1>3 DEF Init, ComputedStand, ChordsStand, CacheStands
<1> QED BY <1>4, <1>5, <1>6, <1>7 DEF MeshingInv

(* What every step inside a stage leaves alone stays as it was.            *)
LEMMA StageStands ==
    ASSUME MeshingInv, UNCHANGED <<shape, deflection, cached, onEdges, calls>>,
           UNCHANGED <<stage, round, finer, drawn, changed, still, short, computed>>,
           cancelled' \in BOOLEAN,
           job' \in [Faces -> {"none", "todo", "missed", "done"}],
           \A f \in Faces : job'[f] = "none" <=> job[f] = "none",
           result' = [f \in Faces |-> result'[f]],
           IsGeometry', Grows(geometry.verdict, geometry'.verdict),
           CacheStands', DOMAIN held' \subseteq Keys, DOMAIN chords' \subseteq Keys,
           ResultsStand'
    PROVE  MeshingInv'
<1>1. ComputedStand'
  <2>1. \A f \in Faces : Along(f, drawn)' = Along(f, drawn)
    BY DEF Along
  <2>2. \A f \in Faces : Across(f)' = Across(f) /\ Keeps(f)' = Keeps(f)
    BY SameBeside
  <2> QED BY <2>1, <2>2, StillAnswers DEF MeshingInv, ComputedStand
<1>2. \A f \in Faces : IsMesh(computed'[f]) => computed'[f].drawn \in Readings
  BY ComputedKeys DEF MeshingInv
<1>3. TypeOK'
  BY <1>2 DEF MeshingInv, TypeOK
<1>4. ByFace'
  BY DEF MeshingInv, ByFace
<1>5. JobsStand'
  BY DEF MeshingInv, JobsStand, Drawing, Again
<1>6. ChordsStand'
  BY DEF MeshingInv, ChordsStand
<1> QED BY <1>1, <1>3, <1>4, <1>5, <1>6 DEF MeshingInv

(* A job answered as its stage asks.                                       *)
LEMMA Answered ==
    ASSUME MeshingInv, NEW f \in Faces, job[f] # "none", NEW r, Answer(f, r),
           stage \in DrawStages => DrawAnswer(geometry'.verdict, JobKey(f), Across(f), Keeps(f), r),
           stage = "ask" => AskAnswer(f, r),
           IsGeometry', Grows(geometry.verdict, geometry'.verdict),
           CacheStands', DOMAIN held' \subseteq Keys, DOMAIN chords' \subseteq Keys
    PROVE  MeshingInv'
<1>1. job \in [Faces -> {"none", "todo", "missed", "done"}]
  BY DEF MeshingInv, TypeOK
<1>2. result = [g \in Faces |-> result[g]]
  BY DEF MeshingInv, ByFace
<1>3. /\ \A g \in Faces : job'[g] = IF g = f THEN "done" ELSE job[g]
      /\ \A g \in Faces : result'[g] = IF g = f THEN r ELSE result[g]
      /\ result' = [g \in Faces |-> result'[g]]
      /\ job' \in [Faces -> {"none", "todo", "missed", "done"}]
  BY <1>1, <1>2 DEF Answer
<1>4. /\ UNCHANGED <<shape, deflection, cached, onEdges, calls, cancelled>>
      /\ UNCHANGED <<stage, round, finer, drawn, changed, still, short, computed>>
  BY DEF Answer, call
<1>5. ResultsStand'
  <2> SUFFICES ASSUME NEW g \in Faces
               PROVE  /\ job'[g] # "done" => result'[g] = NoMesh
                      /\ stage' \in DrawStages /\ job'[g] = "done" =>
                             DrawAnswer(geometry'.verdict, JobKey(g)', Across(g)', Keeps(g)', result'[g])
                      /\ stage' = "ask" /\ job'[g] = "done" => AskAnswer(g, result'[g])
    BY DEF ResultsStand, AskAnswer
  <2>1. JobKey(g)' = JobKey(g) /\ Across(g)' = Across(g) /\ Keeps(g)' = Keeps(g)
    BY <1>4, JobKeyKept
  <2>2. CASE g = f
    BY <1>3, <1>4, <2>1, <2>2
  <2>3. CASE g # f
    <3>1. job'[g] = job[g] /\ result'[g] = result[g]
      BY <1>3, <2>3
    <3> QED BY <1>4, <2>1, <3>1, StillAnswers DEF MeshingInv, ResultsStand
  <2> QED BY <2>2, <2>3
<1>6. \A g \in Faces : job'[g] = "none" <=> job[g] = "none"
  BY <1>3
<1>7. cancelled' \in BOOLEAN
  BY <1>4 DEF MeshingInv, TypeOK
<1> QED BY <1>3, <1>4, <1>5, <1>6, <1>7, StageStands

LEMMA CacheKept ==
    ASSUME MeshingInv, UNCHANGED cache, Grows(geometry.verdict, geometry'.verdict)
    PROVE  CacheStands' /\ DOMAIN held' \subseteq Keys /\ DOMAIN chords' \subseteq Keys
<1>1. held' = held /\ chords' = chords
  BY DEF cache
<1>2. CacheStands'
  BY <1>1, StillTrue DEF MeshingInv, CacheStands
<1> QED BY <1>1, <1>2 DEF MeshingInv, TypeOK

LEMMA GeometryKept ==
    ASSUME MeshingInv, UNCHANGED geometry
    PROVE  IsGeometry' /\ Grows(geometry.verdict, geometry'.verdict)
BY GrowsNot DEF MeshingInv, IsGeometry

LEMMA CancelKeeps == ASSUME MeshingInv, Cancel PROVE MeshingInv'
<1>1. /\ UNCHANGED <<shape, deflection, cached, onEdges, calls>>
      /\ UNCHANGED <<stage, round, finer, drawn, changed, still, short, computed>>
      /\ UNCHANGED <<job, result, cache, geometry>> /\ cancelled' \in BOOLEAN
  BY DEF Cancel
<1>2. job' \in [Faces -> {"none", "todo", "missed", "done"}]
  BY <1>1 DEF MeshingInv, TypeOK
<1>3. result' = [f \in Faces |-> result'[f]]
  BY <1>1 DEF MeshingInv, ByFace
<1>4. \A f \in Faces :
        JobKey(f)' = JobKey(f) /\ Across(f)' = Across(f) /\ Keeps(f)' = Keeps(f)
  BY <1>1, JobKeyKept
<1>5. ResultsStand'
  BY <1>1, <1>4 DEF MeshingInv, ResultsStand, AskAnswer
<1> QED BY <1>1, <1>2, <1>3, <1>5, CacheKept, GeometryKept, StageStands

(* What the cache holds under a job's key answers the job.                 *)
LEMMA KeptAnswers ==
    ASSUME MeshingInv, NEW f \in Faces, Keeps(f), Kept(f) # NoMesh
    PROVE  /\ stage \in DrawStages =>
                  DrawAnswer(geometry.verdict, JobKey(f), Across(f), Keeps(f), Kept(f))
           /\ stage = "ask" => AskAnswer(f, Kept(f))
<1>1. TypeOK /\ CacheStands
  BY DEF MeshingInv
<1>2. CASE stage = "ask"
  <2>1. JobKey(f) \in DOMAIN chords /\ Kept(f) = [ask |-> chords[JobKey(f)]]
    BY <1>2 DEF Kept
  <2>2. chords[JobKey(f)] \in [DOMAIN EdgesOf[f] -> Levels]
    BY <1>1, <2>1, JobKeyMade DEF CacheStands
  <2> QED BY <1>2, <2>1, <2>2 DEF AskAnswer, DrawStages
<1>3. CASE stage # "ask"
  <2>1. JobKey(f) \in DOMAIN held /\ Kept(f) = held[JobKey(f)]
    BY <1>3 DEF Kept
  <2> QED BY <1>1, <1>3, <2>1 DEF CacheStands, DrawAnswer
<1> QED BY <1>2, <1>3

LEMMA LookKeeps == ASSUME MeshingInv, NEW f \in Faces, Look(f) PROVE MeshingInv'
<1>1. UNCHANGED <<cache, geometry>> /\ job[f] = "todo"
  BY DEF Look
<1>2. CASE Answer(f, Failed)
  <2>1. /\ stage \in DrawStages => DrawAnswer(geometry'.verdict, JobKey(f), Across(f), Keeps(f), Failed)
        /\ stage = "ask" => AskAnswer(f, Failed)
    BY DEF DrawAnswer, AskAnswer
  <2> QED BY <1>1, <1>2, <2>1, CacheKept, GeometryKept, Answered
<1>3. CASE Keeps(f) /\ Kept(f) # NoMesh /\ Answer(f, Kept(f))
  <2>1. PICK r : r = Kept(f)
    OBVIOUS
  <2>2. Answer(f, r)
    BY <1>3, <2>1
  <2>3. /\ stage \in DrawStages => DrawAnswer(geometry'.verdict, JobKey(f), Across(f), Keeps(f), r)
        /\ stage = "ask" => AskAnswer(f, r)
    BY <1>1, <1>3, <2>1, KeptAnswers
  <2> QED BY <1>1, <2>2, <2>3, CacheKept, GeometryKept, Answered
<1>4. CASE /\ job' = [job EXCEPT ![f] = "missed"]
           /\ UNCHANGED <<call, stage, round, result, finer, drawn, changed, still,
                          short, computed>>
  <2>1. job \in [Faces -> {"none", "todo", "missed", "done"}]
    BY DEF MeshingInv, TypeOK
  <2>2. /\ \A g \in Faces : job'[g] = IF g = f THEN "missed" ELSE job[g]
        /\ job' \in [Faces -> {"none", "todo", "missed", "done"}]
    BY <1>4, <2>1
  <2>3. /\ UNCHANGED <<shape, deflection, cached, onEdges, calls, cancelled>>
        /\ UNCHANGED <<stage, round, finer, drawn, changed, still, short, computed, result>>
    BY <1>4 DEF call
  <2>4. result' = [g \in Faces |-> result'[g]]
    BY <2>3 DEF MeshingInv, ByFace
  <2>5. \A g \in Faces :
          JobKey(g)' = JobKey(g) /\ Across(g)' = Across(g) /\ Keeps(g)' = Keeps(g)
    BY <2>3, JobKeyKept
  <2>6. \A g \in Faces : job'[g] = "done" => job[g] = "done"
    BY <2>2
  <2>7. \A g \in Faces : job[g] = "done" => job'[g] = "done"
    BY <1>1, <2>2
  <2>8. ResultsStand'
    BY <1>1, <2>3, <2>5, <2>6, <2>7 DEF MeshingInv, ResultsStand, AskAnswer
  <2>9. \A g \in Faces : job'[g] = "none" <=> job[g] = "none"
    BY <1>1, <2>2
  <2>10. cancelled' \in BOOLEAN
    BY <2>3 DEF MeshingInv, TypeOK
  <2> QED BY <1>1, <2>2, <2>3, <2>4, <2>8, <2>9, <2>10, CacheKept, GeometryKept, StageStands
<1> QED BY <1>2, <1>3, <1>4 DEF Look

LEMMA DrawKeeps == ASSUME MeshingInv, NEW f \in Faces, Draw(f) PROVE MeshingInv'
<1>1. job[f] = "missed" /\ stage \in DrawStages /\ chords' = chords
  BY DEF Draw
<1>2. PICK k, x : k = JobKey(f) /\ x = DrawnFrom(f)
  OBVIOUS
<1>3. k \in Keys /\ x \in Readings /\ Fits(x, k) /\ x.across = Across(f)
  BY <1>2, JobKeyMade, DrawsItsKey DEF MeshingInv
<1>4. PICK v \in Verdicts :
        /\ x \in DOMAIN geometry.verdict => v = geometry.verdict[x]
        /\ geometry' = [geometry EXCEPT !.verdict = Put(@, x, v)]
        /\ IF v = "failed"
           THEN Answer(f, Failed) /\ UNCHANGED held
           ELSE /\ Answer(f, Drawn(x, v))
                /\ held' = IF Keeps(f) THEN Put(held, k, Drawn(x, v)) ELSE held
  BY <1>2, <1>3 DEF Draw
<1>5. IsGeometry' /\ geometry'.verdict = Put(geometry.verdict, x, v)
  BY <1>4 DEF MeshingInv, IsGeometry
<1>6. /\ Grows(geometry.verdict, geometry'.verdict)
      /\ x \in DOMAIN geometry'.verdict /\ geometry'.verdict[x] = v
  BY <1>4, <1>5, PutGrows
<1>7. stage # "ask"
  BY <1>1 DEF DrawStages
<1>8. CASE v = "failed"
  <2>1. Answer(f, Failed) /\ UNCHANGED cache
    BY <1>1, <1>4, <1>8 DEF cache
  <2>2. DrawAnswer(geometry'.verdict, JobKey(f), Across(f), Keeps(f), Failed)
    BY DEF DrawAnswer
  <2> QED BY <1>1, <1>5, <1>6, <1>7, <2>1, <2>2, CacheKept, Answered
<1>9. CASE v # "failed"
  <2>1. TrueTo(geometry'.verdict, Drawn(x, v)) /\ Drawn(x, v).drawn = x
    BY <1>3, <1>6, <1>9 DEF TrueTo, Meshes, Drawn
  <2>2. DrawAnswer(geometry'.verdict, JobKey(f), Across(f), Keeps(f), Drawn(x, v))
    BY <1>2, <1>3, <2>1 DEF DrawAnswer
  <2>3. /\ \A h \in DOMAIN held : TrueTo(geometry'.verdict, held[h]) /\ Fits(held[h].drawn, h)
        /\ DOMAIN held \subseteq Keys /\ DOMAIN chords \subseteq Keys
    BY <1>6, StillTrue DEF MeshingInv, CacheStands, TypeOK
  <2>4. /\ DOMAIN held' \subseteq DOMAIN held \cup {k}
        /\ \A h \in DOMAIN held' : \/ held'[h] = Drawn(x, v) /\ h = k
                                   \/ h \in DOMAIN held /\ held'[h] = held[h]
    BY <1>4, <1>9 DEF Put
  <2>5. CacheStands' /\ DOMAIN held' \subseteq Keys /\ DOMAIN chords' \subseteq Keys
    BY <1>1, <1>3, <2>1, <2>3, <2>4 DEF MeshingInv, CacheStands
  <2>6. Answer(f, Drawn(x, v))
    BY <1>4, <1>9
  <2> QED BY <1>1, <1>5, <1>6, <1>7, <2>2, <2>5, <2>6, Answered
<1> QED BY <1>8, <1>9

LEMMA AskKeeps == ASSUME MeshingInv, NEW f \in Faces, Ask(f) PROVE MeshingInv'
<1>1. job[f] = "missed" /\ stage = "ask" /\ held' = held /\ stage \notin DrawStages
  BY DEF Ask, DrawStages
<1>2. PICK at : at = Along(f, finer)
  OBVIOUS
<1>3. at \in [DOMAIN EdgesOf[f] -> Levels]
  BY <1>2, AlongChords DEF MeshingInv, TypeOK
<1>4. PICK c \in Levels \cup {Refuses} :
        /\ geometry' = [geometry EXCEPT !.ask = Put(@, Reads(f, finer, "agreeing"), c)]
        /\ IF c = Refuses
           THEN Answer(f, Failed) /\ UNCHANGED chords
           ELSE /\ Answer(f, [ask |-> Lowered(at, c)])
                /\ chords' = IF Keeps(f) THEN Put(chords, JobKey(f), Lowered(at, c))
                                       ELSE chords
  BY <1>2 DEF Ask
<1>5. IsGeometry' /\ geometry'.verdict = geometry.verdict
  BY <1>4 DEF MeshingInv, IsGeometry
<1>6. Grows(geometry.verdict, geometry'.verdict)
  BY <1>5, GrowsNot
<1>7. CASE c = Refuses
  <2>1. Answer(f, Failed) /\ UNCHANGED cache
    BY <1>1, <1>4, <1>7 DEF cache
  <2>2. AskAnswer(f, Failed)
    BY DEF AskAnswer
  <2> QED BY <1>1, <1>5, <1>6, <2>1, <2>2, CacheKept, Answered
<1>8. CASE c # Refuses
  <2>1. Lowered(at, c) \in [DOMAIN EdgesOf[f] -> Levels]
    BY <1>3, <1>4, <1>8, LoweredChords
  <2>2. PICK k : k = JobKey(f)
    OBVIOUS
  <2>3. k \in Keys /\ DOMAIN k.at = DOMAIN EdgesOf[f]
    BY <2>2, JobKeyMade DEF MeshingInv
  <2>4. /\ \A h \in DOMAIN chords : chords[h] \in [DOMAIN h.at -> Levels]
        /\ DOMAIN held \subseteq Keys /\ DOMAIN chords \subseteq Keys
    BY DEF MeshingInv, CacheStands, TypeOK
  <2>5. /\ DOMAIN chords' \subseteq DOMAIN chords \cup {k}
        /\ \A h \in DOMAIN chords' : \/ chords'[h] = Lowered(at, c) /\ h = k
                                     \/ h \in DOMAIN chords /\ chords'[h] = chords[h]
    BY <1>4, <1>8, <2>2 DEF Put
  <2>6. \A h \in DOMAIN chords' : chords'[h] \in [DOMAIN h.at -> Levels]
    BY <2>1, <2>3, <2>4, <2>5
  <2>7. CacheStands' /\ DOMAIN held' \subseteq Keys /\ DOMAIN chords' \subseteq Keys
    BY <1>1, <1>5, <2>3, <2>4, <2>5, <2>6 DEF MeshingInv, CacheStands
  <2>8. AskAnswer(f, [ask |-> Lowered(at, c)])
    BY <2>1 DEF AskAnswer
  <2>9. Answer(f, [ask |-> Lowered(at, c)])
    BY <1>4, <1>8
  <2> QED BY <1>1, <1>5, <1>6, <2>7, <2>8, <2>9, Answered
<1> QED BY <1>7, <1>8

-----------------------------------------------------------------------------
(* The meshing keeps its invariant: from stage to stage.                   *)

LEMMA Begun ==
    ASSUME MeshingInv, NEW s, NEW fs \in SUBSET Faces, Begin(s, fs),
           UNCHANGED <<cache, geometry>>
    PROVE  /\ stage' = s /\ ResultsStand'
           /\ result' = [f \in Faces |-> result'[f]]
           /\ job' \in [Faces -> {"none", "todo", "missed", "done"}]
           /\ \A f \in Faces : job'[f] # "none" <=> f \in fs
           /\ IsGeometry' /\ geometry'.verdict = geometry.verdict
           /\ CacheStands' /\ DOMAIN held' \subseteq Keys /\ DOMAIN chords' \subseteq Keys
<1>1. stage' = s /\ job' = Jobs(fs) /\ result' = NoResults
  BY DEF Begin
<1>2. /\ \A f \in Faces : job'[f] = IF f \in fs THEN "todo" ELSE "none"
      /\ \A f \in Faces : result'[f] = NoMesh
      /\ result' = [f \in Faces |-> result'[f]]
      /\ job' \in [Faces -> {"none", "todo", "missed", "done"}]
  BY <1>1 DEF Jobs, NoResults
<1>3. \A f \in Faces : job'[f] # "done"
  BY <1>2
<1>4. ResultsStand'
  BY <1>2, <1>3 DEF ResultsStand
<1>5. IsGeometry' /\ Grows(geometry.verdict, geometry'.verdict)
  BY GeometryKept
<1> QED BY <1>1, <1>2, <1>4, <1>5, CacheKept

(* What a draw that is done answered: its face, drawn to the held chords.  *)
LEMMA DrawnNow ==
    ASSUME MeshingInv, stage \in DrawStages, NEW f \in Faces, job[f] = "done",
           result[f] # Failed
    PROVE  /\ TrueTo(geometry.verdict, result[f])
           /\ result[f].drawn.of = shape[f] /\ result[f].drawn.deflection = deflection
           /\ result[f].drawn.at = Along(f, Held) /\ result[f].drawn.pass = Pass
           /\ result[f].drawn.across # Across(f) => Keeps(f)
<1>1. /\ TrueTo(geometry.verdict, result[f]) /\ Fits(result[f].drawn, JobKey(f))
      /\ result[f].drawn.across # Across(f) => Keeps(f)
  BY DEF MeshingInv, ResultsStand, DrawAnswer
<1> QED BY <1>1, JobKeyMade DEF MeshingInv, Fits

(* The invariant from its parts, once a stage has begun.                   *)
LEMMA StageBegins ==
    ASSUME MeshingInv, NEW s, NEW fs \in SUBSET Faces, Begin(s, fs),
           UNCHANGED <<call, cache, geometry>>,
           s \in {"ask", "settle", "last", "done", "refused"},
           round' \in 0..Rounds, finer' \in [Edges -> Levels], drawn' \in [Edges -> Levels],
           changed' \subseteq Edges, short' \subseteq still', still' \subseteq Faces,
           computed' = [f \in Faces |-> computed'[f]],
           s \in {"done", "refused"} => fs = {},
           s = "ask" => fs = short',
           s = "settle" => fs = Again(changed'),
           ComputedStand', ChordsStand'
    PROVE  MeshingInv'
<1>1. /\ stage' = s /\ ResultsStand'
      /\ result' = [f \in Faces |-> result'[f]]
      /\ job' \in [Faces -> {"none", "todo", "missed", "done"}]
      /\ \A f \in Faces : job'[f] # "none" <=> f \in fs
      /\ IsGeometry'
      /\ CacheStands' /\ DOMAIN held' \subseteq Keys /\ DOMAIN chords' \subseteq Keys
  BY Begun
<1>2. UNCHANGED <<shape, deflection, cached, onEdges, calls, cancelled>>
  BY DEF call
<1>3. \A f \in Faces : IsMesh(computed'[f]) => computed'[f].drawn \in Readings
  BY MeshOrNot DEF ComputedStand, OwnMesh, TrueTo, Meshes
<1>4. stage' \in {"idle", "ask", "done", "refused"} \cup DrawStages
  BY <1>1 DEF DrawStages
<1>5. TypeOK'
  BY <1>1, <1>2, <1>3, <1>4 DEF MeshingInv, TypeOK
<1>6. JobsStand'
  <2>1. s \notin {"done", "refused"} => Drawing'
    BY <1>1 DEF Drawing, DrawStages
  <2>2. s # "first"
    OBVIOUS
  <2> QED BY <1>1, <2>1, <2>2 DEF JobsStand, Again
<1> QED BY <1>1, <1>5, <1>6 DEF MeshingInv, ByFace

LEMMA EndFirstKeeps == ASSUME MeshingInv, EndFirst PROVE MeshingInv'
<1>1. /\ stage = "first" /\ computed' = result /\ drawn' = finer
      /\ still' = ShortFaces(result) /\ short' = ShortFaces(result)
      /\ Begin("ask", ShortFaces(result))
      /\ UNCHANGED <<call, round, finer, changed, cache, geometry>>
  BY DEF EndFirst
<1>2. PICK fs : fs = ShortFaces(result)
  OBVIOUS
<1>3. fs \in SUBSET Faces
  BY <1>2 DEF ShortFaces
<1>4. \A f \in Faces : job[f] = "done"
  BY <1>1 DEF EndFirst, JobsDone, MeshingInv, JobsStand
<1>5. stage' = "ask"
  BY <1>1 DEF Begin
<1>6. UNCHANGED <<shape, deflection, cached, onEdges>>
  BY <1>1 DEF call
<1>7. ASSUME NEW f \in Faces, result[f] # Failed
      PROVE  OwnMesh(geometry'.verdict, shape'[f], deflection', Along(f, drawn)',
                     Across(f)', Keeps(f)', computed'[f])
  <2>1. Held = finer /\ Pass = "agreeing" /\ stage \in DrawStages
    BY <1>1 DEF Held, Pass, DrawStages
  <2>2. Along(f, drawn)' = Along(f, finer) /\ Across(f)' = Across(f) /\ Keeps(f)' = Keeps(f)
    BY <1>1, <1>6, SameBeside DEF Along
  <2> QED BY <1>1, <1>4, <1>6, <1>7, <2>1, <2>2, DrawnNow DEF OwnMesh
<1>8. ComputedStand'
  BY <1>1, <1>5, <1>7 DEF ComputedStand
<1>9. ChordsStand'
  BY <1>1, <1>5 DEF ChordsStand
<1>10. computed' = [f \in Faces |-> computed'[f]]
  BY <1>1 DEF MeshingInv, ByFace
<1>11. /\ round' \in 0..Rounds /\ finer' \in [Edges -> Levels] /\ drawn' \in [Edges -> Levels]
       /\ changed' \subseteq Edges
  BY <1>1 DEF MeshingInv, TypeOK
<1>12. Begin("ask", fs) /\ short' = fs /\ still' = fs
  BY <1>1, <1>2
<1> QED BY <1>1, <1>3, <1>8, <1>9, <1>10, <1>11, <1>12, StageBegins

LEMMA EndSettleKeeps == ASSUME MeshingInv, EndSettle PROVE MeshingInv'
<1>1. PICK again : again = {f \in Faces : job[f] = "done"}
  OBVIOUS
<1>2. PICK fs : fs = {f \in ShortFaces(result) : result[f].verdict = "short"}
  OBVIOUS
<1>3. /\ stage = "settle" /\ JobsDone
      /\ still' = (still \ again) \cup ShortFaces(result)
      /\ computed' = [f \in Faces |-> IF f \in again THEN Redrawn(f) ELSE computed[f]]
      /\ short' = fs /\ Begin("ask", fs)
      /\ drawn' = finer
      /\ UNCHANGED <<call, round, finer, changed, cache, geometry>>
  BY <1>1, <1>2 DEF EndSettle
<1>4. ShortFaces(result) \subseteq Faces /\ fs \subseteq ShortFaces(result)
  BY <1>2 DEF ShortFaces
<1>5. stage' = "ask" /\ UNCHANGED <<shape, deflection, cached, onEdges>>
  BY <1>3 DEF Begin, call
<1>6. \A f \in Faces : f \in again <=> f \in Again(changed)
  BY <1>1, <1>3 DEF JobsDone, MeshingInv, JobsStand
<1>7. ASSUME NEW f \in Faces, computed'[f] # Failed
      PROVE  OwnMesh(geometry'.verdict, shape'[f], deflection', Along(f, drawn)',
                     Across(f)', Keeps(f)', computed'[f])
  <2>1. Along(f, drawn)' = Along(f, finer) /\ Across(f)' = Across(f) /\ Keeps(f)' = Keeps(f)
    BY <1>3, <1>5, SameBeside DEF Along
  <2>2. CASE f \in again
    <3>1. computed'[f] = result[f] /\ result[f] # Failed
      BY <1>3, <1>7, <2>2 DEF Redrawn
    <3>2. Held = finer /\ Pass = "agreeing" /\ stage \in DrawStages
      BY <1>3 DEF Held, Pass, DrawStages
    <3> QED BY <1>1, <1>3, <1>5, <2>1, <2>2, <3>1, <3>2, DrawnNow DEF OwnMesh
  <2>3. CASE f \notin again
    <3>1. computed'[f] = computed[f]
      BY <1>3, <2>3
    <3>2. OwnMesh(geometry.verdict, shape[f], deflection, Along(f, drawn),
                Across(f), Keeps(f), computed[f])
      BY <1>3, <1>7, <3>1 DEF MeshingInv, ComputedStand
    <3>3. \A e \in EdgeSet(f) : drawn[e] = finer[e]
      <4>1. EdgeSet(f) \cap changed = {} /\ EdgeSet(f) \subseteq Edges
        BY <1>6, <2>3, FaceMeshesAssumption DEF Again, EdgeSet
      <4> QED BY <1>3, <4>1 DEF MeshingInv, ChordsStand
    <3>4. Along(f, drawn) = Along(f, finer)
      BY <3>3, SameWalk
    <3> QED BY <1>3, <1>5, <2>1, <3>1, <3>2, <3>4
  <2> QED BY <2>2, <2>3
<1>8. ComputedStand'
  BY <1>5, <1>7 DEF ComputedStand
<1>9. ChordsStand'
  BY <1>3, <1>5 DEF ChordsStand
<1>10. computed' = [f \in Faces |-> computed'[f]]
  BY <1>3
<1>11. /\ round' \in 0..Rounds /\ finer' \in [Edges -> Levels] /\ drawn' \in [Edges -> Levels]
       /\ changed' \subseteq Edges
       /\ short' \subseteq still' /\ still' \subseteq Faces
  BY <1>3, <1>4 DEF MeshingInv, TypeOK
<1> QED BY <1>3, <1>4, <1>8, <1>9, <1>10, <1>11, StageBegins

LEMMA EndLastKeeps == ASSUME MeshingInv, EndLast PROVE MeshingInv'
<1>1. /\ stage = "last"
      /\ computed' = [f \in Faces |->
             IF IsMesh(result[f]) /\ result[f].verdict = "whole"
             THEN result[f] ELSE computed[f]]
      /\ Begin("done", {})
      /\ UNCHANGED <<call, round, finer, drawn, changed, still, short, cache, geometry>>
  BY DEF EndLast
<1>2. stage' = "done" /\ UNCHANGED <<shape, deflection, cached, onEdges>>
  BY <1>1 DEF Begin, call
<1>3. ASSUME NEW f \in Faces, computed'[f] # Failed
      PROVE  OwnMesh(geometry'.verdict, shape'[f], deflection', Along(f, drawn)',
                     Across(f)', Keeps(f)', computed'[f])
  <2>1. Along(f, drawn)' = Along(f, drawn) /\ Across(f)' = Across(f) /\ Keeps(f)' = Keeps(f)
    BY <1>1, <1>2, SameBeside DEF Along
  <2>2. CASE IsMesh(result[f]) /\ result[f].verdict = "whole"
    <3>1. job[f] = "done" /\ result[f] # Failed
      BY <2>2, MeshOrNot DEF MeshingInv, ResultsStand
    <3>2. Held = drawn /\ stage \in DrawStages
      BY <1>1 DEF Held, DrawStages
    <3>3. computed'[f] = result[f]
      BY <1>1, <2>2
    <3> QED BY <1>1, <1>2, <2>1, <2>2, <3>1, <3>2, <3>3, DrawnNow DEF OwnMesh
  <2>3. CASE ~(IsMesh(result[f]) /\ result[f].verdict = "whole")
    <3>1. computed'[f] = computed[f]
      BY <1>1, <2>3
    <3> QED BY <1>1, <1>2, <1>3, <2>1, <3>1 DEF MeshingInv, ComputedStand
  <2> QED BY <2>2, <2>3
<1>4. ComputedStand'
  BY <1>2, <1>3 DEF ComputedStand
<1>5. ChordsStand'
  BY <1>1, <1>2 DEF MeshingInv, ChordsStand
<1>6. computed' = [f \in Faces |-> computed'[f]]
  BY <1>1
<1>7. /\ round' \in 0..Rounds /\ finer' \in [Edges -> Levels] /\ drawn' \in [Edges -> Levels]
      /\ changed' \subseteq Edges /\ short' \subseteq still' /\ still' \subseteq Faces
  BY <1>1 DEF MeshingInv, TypeOK
<1> QED BY <1>1, <1>4, <1>5, <1>6, <1>7, StageBegins

(* The chords merged are levels, when every ask was answered.              *)
LEMMA MergedChords ==
    ASSUME MeshingInv, stage = "ask", JobsDone, \A f \in short : result[f] # Failed
    PROVE  Merged \in [Edges -> Levels]
<1>1. short \subseteq Faces /\ finer \in [Edges -> Levels]
  BY DEF MeshingInv, TypeOK
<1>2. ASSUME NEW f \in short PROVE result[f].ask \in [DOMAIN EdgesOf[f] -> Levels]
  <2>1. f \in Faces /\ job[f] = "done"
    BY <1>1 DEF JobsDone, MeshingInv, JobsStand
  <2>2. AskAnswer(f, result[f])
    BY <2>1 DEF MeshingInv, ResultsStand
  <2> QED BY <2>2 DEF AskAnswer
<1>3. ASSUME NEW e \in Edges
      PROVE  (LET asks == Wanted(e) \cup {finer[e]}
              IN  CHOOSE c \in asks : \A d \in asks : d <= c) \in Levels
  <2>1. Wanted(e) \subseteq Levels
    BY <1>2 DEF Wanted
  <2>2. Wanted(e) \cup {finer[e]} \in SUBSET Levels
    BY <1>1, <2>1
  <2> QED BY <2>2, FinestChosen
<1> QED BY <1>3 DEF Merged

LEMMA EndAskKeeps == ASSUME MeshingInv, EndAsk PROVE MeshingInv'
<1>1. /\ stage = "ask" /\ JobsDone
      /\ UNCHANGED <<call, drawn, still, short, computed, cache, geometry>>
  BY DEF EndAsk
<1>2. finer = drawn /\ \A e \in Edges : finer[e] = drawn[e]
  BY <1>1 DEF MeshingInv, ChordsStand
<1>3. UNCHANGED <<shape, deflection, cached, onEdges>>
  BY <1>1 DEF call
<1>4. /\ drawn' \in [Edges -> Levels]
      /\ short' \subseteq still' /\ still' \subseteq Faces
  BY <1>1 DEF MeshingInv, TypeOK
<1>5. computed' = [f \in Faces |-> computed'[f]]
  BY <1>1 DEF MeshingInv, ByFace
<1>6. stage' # "idle" /\ stage' # "first" => ComputedStand'
  <2>1. \A f \in Faces : Along(f, drawn)' = Along(f, drawn)
    BY <1>1 DEF Along
  <2>2. \A f \in Faces : Across(f)' = Across(f) /\ Keeps(f)' = Keeps(f)
    BY <1>3, SameBeside
  <2> QED BY <1>1, <1>3, <2>1, <2>2 DEF MeshingInv, ComputedStand
<1>7. CASE \E f \in short : result[f] = Failed
  <2>1. Begin("refused", {}) /\ UNCHANGED <<round, finer, changed>>
    BY <1>7 DEF EndAsk
  <2>2. stage' = "refused"
    BY <2>1 DEF Begin
  <2>3. ComputedStand' /\ ChordsStand'
    BY <1>1, <1>2, <1>6, <2>1, <2>2 DEF ChordsStand
  <2>4. round' \in 0..Rounds /\ finer' \in [Edges -> Levels] /\ changed' \subseteq Edges
    BY <2>1 DEF MeshingInv, TypeOK
  <2> QED BY <1>1, <1>4, <1>5, <2>1, <2>3, <2>4, StageBegins
<1>8. CASE \A f \in short : result[f] # Failed
  <2>1. PICK es : es = Changed
    OBVIOUS
  <2>2. /\ finer' = Merged /\ changed' = es
        /\ IF es # {} /\ round < Rounds
           THEN Begin("settle", Again(es)) /\ round' = round + 1
           ELSE Begin("last", still) /\ UNCHANGED round
    BY <1>8, <2>1 DEF EndAsk
  <2>3. finer' \in [Edges -> Levels] /\ changed' \subseteq Edges
    BY <1>1, <1>8, <2>1, <2>2, MergedChords DEF Changed
  <2>4. \A e \in Edges \ es : finer'[e] = drawn[e]
    BY <1>2, <2>1, <2>2 DEF Changed
  <2>5. round \in 0..Rounds /\ Rounds \in Nat
    BY FaceMeshesAssumption DEF MeshingInv, TypeOK
  <2>6. CASE es # {} /\ round < Rounds
    <3>1. Begin("settle", Again(es)) /\ round' = round + 1
      BY <2>2, <2>6
    <3>2. stage' = "settle"
      BY <3>1 DEF Begin
    <3>3. ComputedStand' /\ ChordsStand'
      BY <1>1, <1>6, <2>2, <2>4, <3>2 DEF ChordsStand
    <3>4. round' \in 0..Rounds
      BY <2>5, <2>6, <3>1
    <3>5. Again(es) \in SUBSET Faces /\ Again(es) = Again(changed')
      BY <2>2 DEF Again
    <3> QED BY <1>1, <1>4, <1>5, <2>3, <3>1, <3>3, <3>4, <3>5, StageBegins
  <2>7. CASE ~(es # {} /\ round < Rounds)
    <3>1. Begin("last", still) /\ UNCHANGED round
      BY <2>2, <2>7
    <3>2. stage' = "last"
      BY <3>1 DEF Begin
    <3>3. ComputedStand' /\ ChordsStand'
      BY <1>1, <1>6, <2>2, <2>4, <3>2 DEF ChordsStand
    <3>4. PICK fs : fs = still
      OBVIOUS
    <3>5. fs \in SUBSET Faces /\ Begin("last", fs) /\ round' \in 0..Rounds
      BY <2>5, <3>1, <3>4 DEF MeshingInv, TypeOK
    <3> QED BY <1>1, <1>4, <1>5, <2>3, <3>3, <3>5, StageBegins
  <2> QED BY <2>6, <2>7
<1> QED BY <1>7, <1>8

(* The chords the walk agrees on are levels.                               *)
LEMMA AgreedChords ==
    ASSUME NEW narrow \in [Faces -> Levels]
    PROVE  Agreed(narrow) \in [Edges -> Levels]
<1>1. 0 \in Levels
  BY FaceMeshesAssumption DEF Levels
<1>2. ASSUME NEW e \in Edges
      PROVE  (LET asks == {narrow[f] : f \in {g \in Faces : e \in EdgeSet(g)}} \cup {0}
              IN  CHOOSE c \in asks : \A d \in asks : d <= c) \in Levels
  <2>1. {narrow[f] : f \in {g \in Faces : e \in EdgeSet(g)}} \cup {0} \in SUBSET Levels
    BY <1>1
  <2> QED BY <2>1, FinestChosen
<1> QED BY <1>2 DEF Agreed

LEMMA CallKeeps ==
    ASSUME MeshingInv, NEW b \in Builds, NEW d \in Deflections, NEW kept \in BOOLEAN,
           NEW on \in [Faces -> Seq(Lines) \cup {Unread}], Call(b, d, kept, on)
    PROVE  MeshingInv'
<1>1. /\ calls < MaxCalls /\ calls' = calls + 1 /\ cancelled' = FALSE
      /\ shape' = b /\ deflection' = d /\ cached' = kept /\ onEdges' = on
      /\ drawn' = [e \in Edges |-> 0]
      /\ stage' = "first" /\ round' = 0
      /\ job' = Jobs(Faces) /\ result' = NoResults /\ computed' = NoResults
      /\ changed' = {} /\ still' = {} /\ short' = {}
      /\ UNCHANGED cache
  BY DEF Call
<1>2. finer' \in [Edges -> Levels] /\ IsGeometry' /\ geometry'.verdict = geometry.verdict
  <2>1. PICK narrow \in [Faces -> Levels] :
           /\ geometry' = [geometry EXCEPT !.narrow =
                [k \in DOMAIN @ \cup {NarrowKey(b, d, f) : f \in Faces} |->
                    IF k \in DOMAIN @ THEN @[k]
                    ELSE narrow[CHOOSE f \in Faces : NarrowKey(b, d, f) = k]]]
           /\ finer' = Agreed(narrow)
    BY DEF Call
  <2>2. PICK widths : geometry' = [geometry EXCEPT !.narrow = widths]
    BY <2>1
  <2>3. IsGeometry' /\ geometry'.verdict = geometry.verdict
    BY <2>2 DEF MeshingInv, IsGeometry
  <2> QED BY <2>1, <2>3, AgreedChords
<1>3. Grows(geometry.verdict, geometry'.verdict)
  BY <1>2, GrowsNot
<1>4. CacheStands' /\ DOMAIN held' \subseteq Keys /\ DOMAIN chords' \subseteq Keys
  BY <1>1, <1>3, CacheKept
<1>5. \A f \in Faces : ~IsMesh(computed'[f]) /\ computed'[f] = NoMesh /\ result'[f] = NoMesh
  BY <1>1, MeshOrNot DEF NoResults
<1>6. \A f \in Faces : job'[f] = "todo"
  BY <1>1 DEF Jobs
<1>7. job' \in [Faces -> {"none", "todo", "missed", "done"}]
  BY <1>1 DEF Jobs
<1>8. drawn' \in [Edges -> Levels] /\ calls' \in 0..MaxCalls /\ round' \in 0..Rounds
  <2>1. calls \in 0..MaxCalls /\ MaxCalls \in Nat /\ Rounds \in Nat /\ 0 \in Levels
    BY FaceMeshesAssumption DEF MeshingInv, TypeOK, Levels
  <2> QED BY <1>1, <2>1
<1>9. TypeOK'
  BY <1>1, <1>2, <1>4, <1>5, <1>7, <1>8 DEF TypeOK, DrawStages
<1>10. ByFace'
  BY <1>1 DEF ByFace, NoResults
<1>11. JobsStand' /\ ResultsStand'
  BY <1>1, <1>5, <1>6 DEF JobsStand, ResultsStand, Drawing, DrawStages
<1>12. ComputedStand' /\ ChordsStand'
  BY <1>1, <1>5 DEF ComputedStand, ChordsStand
<1> QED BY <1>2, <1>4, <1>9, <1>10, <1>11, <1>12 DEF MeshingInv

LEMMA MeshingStepKeeps == ASSUME MeshingInv, Step PROVE MeshingInv'
BY CancelKeeps, LookKeeps, DrawKeeps, AskKeeps, EndFirstKeeps, EndAskKeeps,
   EndSettleKeeps, EndLastKeeps DEF Step

LEMMA MeshingUnmoved == ASSUME MeshingInv, UNCHANGED meshing PROVE MeshingInv'
<1>1. /\ UNCHANGED <<shape, deflection, cached, onEdges, calls, cancelled>>
      /\ UNCHANGED <<stage, round, finer, drawn, changed, still, short, computed>>
      /\ UNCHANGED <<job, result, cache, geometry>>
  BY DEF meshing, call
<1>2. job' \in [Faces -> {"none", "todo", "missed", "done"}] /\ cancelled' \in BOOLEAN
  BY <1>1 DEF MeshingInv, TypeOK
<1>3. result' = [f \in Faces |-> result'[f]]
  BY <1>1 DEF MeshingInv, ByFace
<1>4. \A f \in Faces :
        JobKey(f)' = JobKey(f) /\ Across(f)' = Across(f) /\ Keeps(f)' = Keeps(f)
  BY <1>1, JobKeyKept
<1>5. ResultsStand'
  BY <1>1, <1>4 DEF MeshingInv, ResultsStand, AskAnswer
<1> QED BY <1>1, <1>2, <1>3, <1>5, CacheKept, GeometryKept, StageStands

-----------------------------------------------------------------------------
(* The storing keeps its invariant.                                        *)

(* A step of the meshing leaves a call that is not storing behind it.      *)
LEMMA MeshingMoves ==
    ASSUME StoredInv, Step
    PROVE  /\ storing \notin {"edges", "faces"}
           /\ \A n \in Nodes : mesh[n] = NoMesh \/ mesh[n].id[2] # calls
           /\ UNCHANGED <<shape, deflection, calls>>
<1>1. Drawing
  <2>1. CASE Cancel
    BY <2>1 DEF Cancel, Drawing
  <2>2. ASSUME NEW f \in Faces, Look(f) \/ Draw(f) \/ Ask(f) PROVE Drawing
    <3>1. job[f] # "none"
      BY <2>2 DEF Look, Draw, Ask
    <3> QED BY <3>1 DEF StoredInv, MeshingInv, JobsStand
  <2>3. CASE EndFirst \/ EndAsk \/ EndSettle \/ EndLast
    BY <2>3 DEF EndFirst, EndAsk, EndSettle, EndLast, Drawing, DrawStages
  <2> QED BY <2>1, <2>2, <2>3 DEF Step
<1>2. stage # "done"
  BY <1>1 DEF Drawing, DrawStages
<1>3. storing \notin {"edges", "faces"}
  BY <1>2 DEF StoredInv, StoringStands
<1>4. \A n \in Nodes : mesh[n] = NoMesh \/ mesh[n].id[2] # calls
  BY <1>2 DEF StoredInv, MeshesDated, Dated
<1>5. UNCHANGED <<shape, deflection, calls>>
  BY DEF Step, Cancel, Look, Draw, Ask, Answer, EndFirst, EndAsk, EndSettle, EndLast, call
<1> QED BY <1>3, <1>4, <1>5

LEMMA MeshesTyped ==
    ASSUME StoredInv, NEW n \in Nodes, mesh[n] # NoMesh
    PROVE  mesh[n].id[2] \in 1..calls /\ calls \in 0..MaxCalls
BY DEF StoredInv, MeshesDated, Dated, MeshingInv, TypeOK

(* Nothing stored moves: the paths walk their meshes still.                *)
LEMMA PathsStayed ==
    ASSUME PathsWalkTheirMesh, UNCHANGED <<line, mesh, path>>
    PROVE  PathsWalkTheirMesh'
BY DEF PathsWalkTheirMesh, IsStored, Walks

(* A call is made, or one is drawn on: what is stored is of earlier calls. *)
LEMMA MeshedOn ==
    ASSUME StoredInv, MeshingInv',
           storing \notin {"edges", "faces"}, storing' \notin {"edges", "faces"},
           storing' \in {"none", "meshing"},
           storing' # "none" => calls' \in 1..MaxCalls,
           calls' \in Nat, calls <= calls',
           \A n \in Nodes : mesh[n] = NoMesh \/ mesh[n].id[2] # calls',
           UNCHANGED <<left, line, mesh, path, whole>>
    PROVE  StoredInv'
<1>1. StoredTypeOK'
  BY DEF StoredInv, StoredTypeOK, MeshingInv
<1>2. StoringStands'
  BY DEF StoringStands
<1>3. MeshesDated'
  <2>1. ASSUME NEW n \in Nodes, mesh[n] # NoMesh
        PROVE  /\ mesh'[n] \in [id : Faces \X (1..calls'), mesh : Meshes]
               /\ NodeOf[mesh'[n].id[1]] = n /\ mesh'[n].id[2] # calls'
    <3>1. /\ mesh[n] \in [id : Faces \X (1..calls), mesh : Meshes]
          /\ NodeOf[mesh[n].id[1]] = n /\ mesh[n].id[2] # calls'
      BY <2>1 DEF StoredInv, MeshesDated, Dated
    <3>2. calls \in Nat
      BY DEF StoredInv, MeshingInv, TypeOK
    <3>3. 1..calls \subseteq 1..calls'
      BY <3>2
    <3> QED BY <3>1, <3>3
  <2>2. \A n \in Nodes : mesh[n] # NoMesh => Dated(n)'
    BY <2>1 DEF Dated
  <2> QED BY <2>2 DEF StoredInv, MeshesDated
<1>4. PathsWalkTheirMesh'
  BY PathsStayed DEF StoredInv
<1> QED BY <1>1, <1>2, <1>3, <1>4 DEF StoredInv

(* What the edges of a face carry is a line for each, or is not read.      *)
LEMMA CarriedLines ==
    ASSUME StoredInv
    PROVE  Carried \in [Faces -> Seq(Lines) \cup {Unread}]
<1>1. line \in [Edges -> Lines]
  BY DEF StoredInv, StoredTypeOK
<1>2. ASSUME NEW f \in Faces
      PROVE  [i \in DOMAIN EdgesOf[f] |-> line[EdgesOf[f][i]]] \in Seq(Lines)
  <2>1. EdgesOf[f] \in Seq(Edges)
    BY FaceMeshesAssumption
  <2>2. PICK n \in Nat : DOMAIN EdgesOf[f] = 1..n
    BY <2>1
  <2>3. \A i \in 1..n : EdgesOf[f][i] \in Edges
    BY <2>1, <2>2
  <2>4. [i \in 1..n |-> line[EdgesOf[f][i]]] \in [1..n -> Lines]
    BY <1>1, <2>3
  <2> QED BY <2>2, <2>4
<1> QED BY <1>2 DEF Carried

(* A new call is dated after every mesh that is stored.                    *)
LEMMA Called ==
    ASSUME StoredInv, storing = "none", NEW b \in Builds, NEW d \in Deflections,
           NEW kept \in BOOLEAN, NEW on \in [Faces -> Seq(Lines) \cup {Unread}],
           Call(b, d, kept, on), storing' \in {"none", "meshing"},
           UNCHANGED <<left, line, mesh, path, whole>>
    PROVE  StoredInv'
<1>1. MeshingInv'
  BY CallKeeps DEF StoredInv
<1>2. calls \in 0..MaxCalls /\ MaxCalls \in Nat /\ calls < MaxCalls /\ calls' = calls + 1
  BY FaceMeshesAssumption DEF StoredInv, MeshingInv, TypeOK, Call
<1>3. calls' \in 1..MaxCalls /\ calls <= calls'
  BY <1>2
<1>4. \A n \in Nodes : mesh[n] # NoMesh => mesh[n].id[2] # calls'
  BY <1>2, MeshesTyped
<1> QED BY <1>1, <1>3, <1>4, MeshedOn

LEMMA MeshingKeepsStored == ASSUME StoredInv, MeshingStep PROVE StoredInv'
<1>1. Step /\ UNCHANGED <<storing, left, line, mesh, path, whole>>
  BY DEF MeshingStep, stored
<1>2. MeshingInv'
  BY <1>1, MeshingStepKeeps DEF StoredInv
<1>3. /\ storing \notin {"edges", "faces"} /\ calls' = calls
      /\ \A n \in Nodes : mesh[n] = NoMesh \/ mesh[n].id[2] # calls'
  BY <1>1, MeshingMoves
<1>4. storing \in {"none", "meshing"}
  BY <1>3 DEF StoredInv, StoredTypeOK
<1>5. calls \in Nat /\ (storing # "none" => calls \in 1..MaxCalls)
  BY DEF StoredInv, StoringStands, MeshingInv, TypeOK
<1> QED BY <1>1, <1>2, <1>3, <1>4, <1>5, MeshedOn

LEMMA StartStoringKeeps == ASSUME StoredInv, StartStoring PROVE StoredInv'
<1>1. /\ storing = "meshing" /\ stage \in {"done", "refused"}
      /\ IF stage = "done"
         THEN storing' = "edges" /\ left' = Edges /\ whole' = FALSE
         ELSE storing' = "none" /\ UNCHANGED <<left, whole>>
      /\ UNCHANGED <<meshing, line, mesh, path>>
  BY DEF StartStoring
<1>2. MeshingInv'
  BY <1>1, MeshingUnmoved DEF StoredInv
<1>3. UNCHANGED <<calls, stage, deflection, finer, computed>>
  BY <1>1 DEF meshing, call
<1>4. \A n \in Nodes : mesh[n] = NoMesh \/ mesh[n].id[2] # calls
  BY <1>1 DEF StoredInv, MeshesDated, Dated
<1>5. CASE stage = "done"
  <2>1. storing' = "edges" /\ left' = Edges /\ whole' = FALSE
    BY <1>1, <1>5
  <2>2. StoredTypeOK'
    BY <1>1, <1>2, <2>1 DEF StoredInv, StoredTypeOK, MeshingInv
  <2>3. StoringStands'
    BY <1>1, <1>3, <1>5, <2>1 DEF StoredInv, StoringStands
  <2>4. MeshesDated'
    BY <1>1, <1>3, <1>4 DEF StoredInv, MeshesDated, Dated
  <2> QED BY <1>1, <1>2, <2>2, <2>3, <2>4, PathsStayed DEF StoredInv
<1>6. CASE stage # "done"
  <2>1. storing' = "none" /\ UNCHANGED <<left, whole>>
    BY <1>1, <1>6
  <2>2. calls \in Nat
    BY DEF StoredInv, MeshingInv, TypeOK
  <2> QED BY <1>1, <1>2, <1>3, <1>4, <2>1, <2>2, MeshedOn
<1> QED BY <1>5, <1>6

LEMMA StoreLineKeeps == ASSUME StoredInv, NEW e \in Edges, StoreLine(e) PROVE StoredInv'
<1>1. /\ storing = "edges" /\ e \in left /\ left' = left \ {e}
      /\ line' = [line EXCEPT ![e] = [deflection |-> deflection, at |-> finer[e]]]
      /\ path' = [path EXCEPT ![e] = {}]
      /\ UNCHANGED <<meshing, storing, mesh, whole>>
  BY DEF StoreLine
<1>2. MeshingInv'
  BY <1>1, MeshingUnmoved DEF StoredInv
<1>3. UNCHANGED <<calls, stage, deflection, finer, computed>>
  BY <1>1 DEF meshing, call
<1>4. /\ deflection \in Deflections /\ finer[e] \in Levels
      /\ line \in [Edges -> Lines]
      /\ path \in [Edges -> SUBSET Ids]
      /\ left \subseteq Edges
  BY <1>1 DEF StoredInv, StoredTypeOK, TypeOK
<1>5. /\ line' \in [Edges -> Lines]
      /\ path' \in [Edges -> SUBSET Ids]
      /\ \A g \in Edges : g # e => line'[g] = line[g] /\ path'[g] = path[g]
      /\ path'[e] = {} /\ line'[e] = [deflection |-> deflection, at |-> finer[e]]
  BY <1>1, <1>4 DEF Lines
<1>6. StoredTypeOK'
  BY <1>1, <1>2, <1>4, <1>5 DEF StoredInv, StoredTypeOK, MeshingInv
<1>7. StoringStands'
  <2>1. ASSUME NEW g \in Edges, g \notin left' PROVE LineDrawn(g)' /\ path'[g] = {}
    <3>1. CASE g = e
      BY <1>3, <1>5, <3>1 DEF LineDrawn
    <3>2. CASE g # e
      BY <1>1, <1>3, <1>5, <2>1, <3>2 DEF StoredInv, StoringStands, LineDrawn
    <3> QED BY <3>1, <3>2
  <2> QED BY <1>1, <1>3, <2>1 DEF StoredInv, StoringStands
<1>8. MeshesDated'
  BY <1>1, <1>3 DEF StoredInv, MeshesDated, Dated
<1>9. PathsWalkTheirMesh'
  BY <1>1, <1>5 DEF StoredInv, PathsWalkTheirMesh, IsStored, Walks
<1> QED BY <1>2, <1>6, <1>7, <1>8, <1>9 DEF StoredInv

LEMMA EdgesStoredKeeps == ASSUME StoredInv, EdgesStored PROVE StoredInv'
<1>1. /\ storing = "edges" /\ left = {} /\ storing' = "faces" /\ left' = Faces
      /\ UNCHANGED <<meshing, line, mesh, path, whole>>
  BY DEF EdgesStored
<1>2. MeshingInv'
  BY <1>1, MeshingUnmoved DEF StoredInv
<1>3. UNCHANGED <<calls, stage, deflection, finer, computed>>
  BY <1>1 DEF meshing, call
<1>4. StoredTypeOK'
  BY <1>1, <1>2 DEF StoredInv, StoredTypeOK, MeshingInv
<1>5. StoringStands'
  BY <1>1, <1>3 DEF StoredInv, StoringStands, LineDrawn
<1>6. MeshesDated'
  BY <1>1, <1>3 DEF StoredInv, MeshesDated, Dated
<1> QED BY <1>1, <1>2, <1>4, <1>5, <1>6, PathsStayed DEF StoredInv

(* A mesh stored by this tessellation on the node of a face was drawn to   *)
(* the chords the face's own was: they walk one boundary.                  *)
LEMMA StoredAlike ==
    ASSUME StoredInv, stage = "done", NEW f \in Faces, computed[f] # Failed,
           NEW g \in Faces, computed[g] # Failed, NodeOf[g] = NodeOf[f]
    PROVE  /\ EdgesOf[g] = EdgesOf[f]
           /\ computed[g].drawn.at = computed[f].drawn.at
           /\ computed[g].drawn.deflection = computed[f].drawn.deflection
<1>1. EdgesOf[g] = EdgesOf[f]
  BY FaceMeshesAssumption
<1>2. \A h \in {f, g} : computed[h].drawn.at = Along(h, drawn)
                        /\ computed[h].drawn.deflection = deflection
  BY DEF StoredInv, MeshingInv, ComputedStand, OwnMesh
<1> QED BY <1>1, <1>2 DEF Along

LEMMA StoreFaceKeeps == ASSUME StoredInv, NEW f \in Faces, StoreFace(f) PROVE StoredInv'
<1>1. /\ storing = "faces" /\ f \in left /\ \A g \in left : f <= g
      /\ computed[f] # Failed /\ left' = left \ {f}
      /\ mesh' = [mesh EXCEPT ![NodeOf[f]] = [id |-> <<f, calls>>, mesh |-> computed[f]]]
      /\ path' = [e \in Edges |->
              IF e \in EdgeSet(f) /\ Walks(computed[f], f, e)
              THEN path[e] \cup {<<f, calls>>} ELSE path[e]]
      /\ UNCHANGED <<meshing, storing, line, whole>>
  BY DEF StoreFace
<1>2. MeshingInv'
  BY <1>1, MeshingUnmoved DEF StoredInv
<1>3. UNCHANGED <<calls, stage, deflection, finer, computed>>
  BY <1>1 DEF meshing, call
<1>4. /\ calls \in 1..MaxCalls /\ stage = "done" /\ MaxCalls \in Nat
      /\ \A e \in Edges :
             LineDrawn(e) /\ \A p \in path[e] : p[2] = calls /\ \A g \in left : p[1] < g
  BY <1>1, FaceMeshesAssumption DEF StoredInv, StoringStands
<1>5. computed[f] \in Meshes
  BY <1>1, <1>4 DEF StoredInv, MeshingInv, ComputedStand, OwnMesh, TrueTo
<1>6. /\ mesh'[NodeOf[f]] = [id |-> <<f, calls>>, mesh |-> computed[f]]
      /\ \A n \in Nodes : n # NodeOf[f] => mesh'[n] = mesh[n]
      /\ mesh' = [n \in Nodes |-> mesh'[n]]
  BY <1>1 DEF StoredInv, MeshesDated, Nodes
<1>7. \A e \in Edges : /\ path'[e] \subseteq path[e] \cup {<<f, calls>>}
                       /\ <<f, calls>> \in path'[e] /\ <<f, calls>> \notin path[e]
                              => Walks(computed[f], f, e)
  BY <1>1
<1>8. /\ path \in [Edges -> SUBSET Ids] /\ <<f, calls>> \in Ids
      /\ left \subseteq Faces /\ Faces \subseteq Nat
  BY <1>1, <1>4, FaceMeshesAssumption DEF StoredInv, StoredTypeOK, Ids
<1>9. StoredTypeOK'
  <2>1. path' \in [Edges -> SUBSET Ids]
    BY <1>1, <1>8
  <2> QED BY <1>1, <1>2, <2>1 DEF StoredInv, StoredTypeOK, MeshingInv
<1>10. StoringStands'
  <2>1. ASSUME NEW e \in Edges, NEW p \in path'[e]
        PROVE  p[2] = calls /\ \A g \in left' : p[1] < g
    <3>1. CASE p \in path[e]
      BY <1>1, <1>4, <3>1
    <3>2. CASE p = <<f, calls>>
      <4>1. p[1] = f /\ p[2] = calls
        BY <3>2
      <4>2. \A g \in left' : f \in Nat /\ g \in Nat /\ f <= g /\ f # g
        BY <1>1, <1>8
      <4> QED BY <4>1, <4>2
    <3> QED BY <1>7, <3>1, <3>2
  <2>2. \A e \in Edges : LineDrawn(e)'
    BY <1>1, <1>3, <1>4 DEF LineDrawn
  <2> QED BY <1>1, <1>3, <1>4, <2>1, <2>2 DEF StoredInv, StoringStands
<1>11. MeshesDated'
  <2>1. ASSUME NEW n \in Nodes, mesh'[n] # NoMesh PROVE Dated(n)'
    <3>1. CASE n = NodeOf[f]
      <4>1. /\ mesh'[n].id[1] = f /\ mesh'[n].id[2] = calls /\ mesh'[n].mesh = computed[f]
            /\ mesh'[n] \in [id : Faces \X (1..calls), mesh : Meshes]
        BY <1>4, <1>5, <1>6, <3>1
      <4> QED BY <1>1, <1>3, <1>4, <3>1, <4>1 DEF Dated
    <3>2. CASE n # NodeOf[f]
      <4>1. mesh'[n] = mesh[n] /\ Dated(n)
        BY <1>6, <2>1, <3>2 DEF StoredInv, MeshesDated
      <4> QED BY <1>1, <1>3, <4>1 DEF Dated
    <3> QED BY <3>1, <3>2
  <2> QED BY <1>6, <2>1 DEF MeshesDated
<1>12. PathsWalkTheirMesh'
  <2> SUFFICES ASSUME NEW e \in Edges, NEW p \in path'[e], NEW n, n = NodeOf[p[1]]
               PROVE  /\ "mesh" \in DOMAIN mesh'[n]
                      /\ NodeOf[mesh'[n].id[1]] = n /\ p[1] <= mesh'[n].id[1]
                      /\ mesh'[n].id[2] = p[2]
                      /\ Walks(mesh'[n].mesh, p[1], e)
    BY <1>1 DEF PathsWalkTheirMesh, IsStored, Walks
  <2>1. p \in Ids /\ p[1] \in Faces /\ n \in Nodes
    BY <1>7, <1>8 DEF Ids, Nodes
  <2>2. CASE p \in path[e]
    <3>1. /\ IsStored(n) /\ NodeOf[mesh[n].id[1]] = n /\ p[1] <= mesh[n].id[1]
          /\ mesh[n].id[2] = p[2] /\ Walks(mesh[n].mesh, p[1], e)
      BY <2>2 DEF StoredInv, PathsWalkTheirMesh
    <3>2. CASE n # NodeOf[f]
      <4>1. mesh'[n] = mesh[n]
        BY <1>6, <2>1, <3>2
      <4> QED BY <3>1, <4>1 DEF IsStored
    <3>3. CASE n = NodeOf[f]
      <4>1. p[2] = calls /\ p[1] < f
        BY <1>1, <1>4, <2>2
      <4>2. PICK g : g = mesh[n].id[1]
        OBVIOUS
      <4>3. Dated(n)
        BY <2>1, <3>1 DEF IsStored, NoMesh, StoredInv, MeshesDated
      <4>4. g \in Faces /\ mesh[n].mesh = computed[g] /\ computed[g] \in Meshes
        BY <3>1, <4>1, <4>2, <4>3 DEF Dated
      <4>5. computed[g] # Failed /\ NodeOf[g] = NodeOf[f]
        BY <3>1, <3>3, <4>2, <4>4, MeshOrNot
      <4>6. /\ computed[g].drawn.at = computed[f].drawn.at
            /\ computed[g].drawn.deflection = computed[f].drawn.deflection
        BY <1>1, <1>4, <4>4, <4>5, StoredAlike
      <4>7. Walks(computed[f], p[1], e)
        BY <3>1, <4>4, <4>6 DEF Walks
      <4>8. mesh'[n].id[1] = f /\ mesh'[n].id[2] = calls /\ mesh'[n].mesh = computed[f]
            /\ "mesh" \in DOMAIN mesh'[n]
        BY <1>6, <3>3
      <4>9. p[1] <= f
        <5>1. p[1] \in Nat /\ f \in Nat
          BY <1>8, <2>1
        <5> QED BY <4>1, <5>1
      <4> QED BY <3>3, <4>1, <4>7, <4>8, <4>9
    <3> QED BY <3>2, <3>3
  <2>3. CASE p \notin path[e]
    <3>1. p = <<f, calls>> /\ Walks(computed[f], f, e)
      BY <1>7, <2>3
    <3>2. p[1] = f /\ p[2] = calls /\ n = NodeOf[f] /\ f <= f
      BY <1>8, <3>1
    <3>3. mesh'[n].id[1] = f /\ mesh'[n].id[2] = calls /\ mesh'[n].mesh = computed[f]
          /\ "mesh" \in DOMAIN mesh'[n]
      BY <1>6, <3>2
    <3> QED BY <3>1, <3>2, <3>3
  <2> QED BY <2>2, <2>3
<1> QED BY <1>2, <1>9, <1>10, <1>11, <1>12 DEF StoredInv

LEMMA FacesStoredKeeps == ASSUME StoredInv, FacesStored PROVE StoredInv'
<1>1. /\ storing = "faces" /\ storing' = "none" /\ whole' = TRUE
      /\ UNCHANGED <<meshing, left, line, mesh, path>>
  BY DEF FacesStored
<1>2. MeshingInv'
  BY <1>1, MeshingUnmoved DEF StoredInv
<1>3. UNCHANGED <<calls, stage, deflection, finer, computed>>
  BY <1>1 DEF meshing, call
<1>4. \A e \in Edges : LineDrawn(e)'
  BY <1>1, <1>3 DEF StoredInv, StoringStands, LineDrawn
<1>5. StoredTypeOK' /\ StoringStands'
  BY <1>1, <1>2 DEF StoredInv, StoredTypeOK, MeshingInv, StoringStands
<1>6. MeshesDated'
  BY <1>1, <1>3, <1>4 DEF StoredInv, MeshesDated, Dated
<1> QED BY <1>1, <1>2, <1>5, <1>6, PathsStayed DEF StoredInv

LEMMA StopKeeps == ASSUME StoredInv, Stop PROVE StoredInv'
<1>1. /\ storing \in {"edges", "faces"} /\ storing' = "none" /\ left' = {}
      /\ UNCHANGED <<meshing, line, mesh, path, whole>>
  BY DEF Stop
<1>2. MeshingInv'
  BY <1>1, MeshingUnmoved DEF StoredInv
<1>3. UNCHANGED <<calls, stage, deflection, finer, computed>>
  BY <1>1 DEF meshing, call
<1>4. ~whole'
  BY <1>1 DEF StoredInv, StoringStands
<1>5. StoredTypeOK' /\ StoringStands'
  BY <1>1, <1>2 DEF StoredInv, StoredTypeOK, MeshingInv, StoringStands
<1>6. MeshesDated'
  BY <1>1, <1>3, <1>4 DEF StoredInv, MeshesDated, Dated
<1> QED BY <1>1, <1>2, <1>5, <1>6, PathsStayed DEF StoredInv

LEMMA StoredInitially == StoredInit => StoredInv
<1> SUFFICES ASSUME StoredInit PROVE StoredInv
  OBVIOUS
<1>1. MeshingInv
  BY MeshingInit DEF StoredInit
<1>2. StoredTypeOK
  BY <1>1 DEF StoredInit, StoredTypeOK, MeshingInv, Lines
<1>3. StoringStands
  BY DEF StoredInit, StoringStands
<1>4. MeshesDated
  BY DEF StoredInit, MeshesDated
<1>5. PathsWalkTheirMesh
  BY DEF StoredInit, PathsWalkTheirMesh
<1> QED BY <1>1, <1>2, <1>3, <1>4, <1>5 DEF StoredInv

LEMMA StoredStep == StoredInv /\ [StoredNext]_vars => StoredInv'
<1> SUFFICES ASSUME StoredInv, [StoredNext]_vars PROVE StoredInv'
  OBVIOUS
<1>1. CASE MeshFaces
  <2>1. storing = "none" /\ UNCHANGED <<storing, left, line, mesh, path, whole>>
    BY <1>1 DEF MeshFaces, stored
  <2>2. PICK d \in Deflections :
            (\E b \in Builds : Call(b, d, TRUE, Bare)) \/ Call(Model, d, TRUE, Carried)
    BY <1>1 DEF MeshFaces
  <2>3. PICK b \in Builds, on \in [Faces -> Seq(Lines) \cup {Unread}] :
            Call(b, d, TRUE, on)
    BY <2>2, BareLines, CarriedLines, ModelAssumption
  <2> QED BY <2>1, <2>3, Called
<1>2. CASE StartTessellating
  <2>1. storing = "none" /\ storing' = "meshing" /\ UNCHANGED <<left, line, mesh, path, whole>>
    BY <1>2 DEF StartTessellating
  <2>2. PICK d \in Deflections, on \in [Faces -> Seq(Lines) \cup {Unread}] :
            Call(Model, d, FALSE, on)
    BY <1>2, CarriedLines DEF StartTessellating
  <2> QED BY <2>1, <2>2, Called, ModelAssumption
<1>3. CASE UNCHANGED vars
  <2>1. MeshingInv' /\ UNCHANGED <<storing, left, line, mesh, path, whole>>
    BY <1>3, MeshingUnmoved DEF StoredInv, vars, stored
  <2>2. UNCHANGED <<calls, stage, deflection, finer, computed>>
    BY <1>3 DEF vars, meshing, call
  <2>3. StoredTypeOK' /\ StoringStands'
    BY <2>1, <2>2 DEF StoredInv, StoredTypeOK, MeshingInv, StoringStands, LineDrawn
  <2>4. MeshesDated'
    BY <2>1, <2>2 DEF StoredInv, MeshesDated, Dated, LineDrawn
  <2> QED BY <2>1, <2>3, <2>4, PathsStayed DEF StoredInv
<1> QED
  BY <1>1, <1>2, <1>3, MeshingKeepsStored, StartStoringKeeps, StoreLineKeeps,
     EdgesStoredKeeps, StoreFaceKeeps, FacesStoredKeeps, StopKeeps DEF StoredNext

LEMMA Invariant == StoredSpec => []StoredInv
BY StoredInitially, StoredStep, PTL DEF StoredSpec

-----------------------------------------------------------------------------
(* What the meshing and the storing promise.                               *)

(* The state of the meshing and of what is stored stays well formed.       *)
THEOREM TypeCorrect == StoredSpec => []StoredTypeOK
<1>1. StoredInv => StoredTypeOK
  BY DEF StoredInv
<1> QED BY <1>1, Invariant, PTL

(* Two faces that share an edge draw it to one chord, in every mesh a call *)
(* hands out: the round that redraws the faces across a changed edge       *)
(* leaves none of the others behind, and the last pass keeps the chords    *)
(* the faces were drawn to, even where the rounds ran out.                 *)
THEOREM MeshesMeet == StoredSpec => []MeshesMeetAlongEdges
<1>1. StoredInv => MeshesMeetAlongEdges
  <2> SUFFICES ASSUME StoredInv, stage = "done",
                      NEW f \in Faces, NEW g \in Faces,
                      IsMesh(computed[f]), IsMesh(computed[g]),
                      NEW i \in DOMAIN EdgesOf[f], NEW j \in DOMAIN EdgesOf[g],
                      EdgesOf[f][i] = EdgesOf[g][j]
               PROVE  computed[f].drawn.at[i] = computed[g].drawn.at[j]
    BY DEF MeshesMeetAlongEdges
  <2>1. computed[f].drawn.at = Along(f, drawn) /\ computed[g].drawn.at = Along(g, drawn)
    BY MeshOrNot DEF StoredInv, MeshingInv, ComputedStand, OwnMesh
  <2> QED BY <2>1 DEF Along
<1> QED BY <1>1, Invariant, PTL

(* Every mesh was drawn of its own face's content at the deflection asked, *)
(* whatever other faces, builds, deflections and passes left in the cache; *)
(* and beside the surfaces that lie across its face's edges now, unless it *)
(* may have come from the cache, whose keys do not name them.              *)
THEOREM MeshesOwn == StoredSpec => []MeshesAreTheirFaces
<1>1. StoredInv => MeshesAreTheirFaces
  <2> SUFFICES ASSUME StoredInv, NEW f \in Faces, IsMesh(computed[f])
               PROVE  /\ computed[f].drawn.of = shape[f]
                      /\ computed[f].drawn.deflection = deflection
                      /\ computed[f].drawn.pass = "last" => computed[f].verdict = "whole"
                      /\ computed[f].verdict = geometry.verdict[computed[f].drawn]
                      /\ computed[f].drawn.across # Across(f) => Keeps(f)
    BY DEF MeshesAreTheirFaces
  <2> QED BY MeshOrNot DEF StoredInv, MeshingInv, ComputedStand, OwnMesh, TrueTo
<1> QED BY <1>1, Invariant, PTL

(* Where no chord changed after the last drawing, the chords a call        *)
(* answers are those every mesh was drawn to.                              *)
THEOREM SettledDrawn == StoredSpec => []SettledChordsAreDrawn
<1>1. StoredInv => SettledChordsAreDrawn
  <2> SUFFICES ASSUME StoredInv, stage = "done", changed = {},
                      NEW f \in Faces, IsMesh(computed[f])
               PROVE  computed[f].drawn.at = Along(f, finer)
    BY DEF SettledChordsAreDrawn
  <2>1. computed[f].drawn.at = Along(f, drawn)
    BY MeshOrNot DEF StoredInv, MeshingInv, ComputedStand, OwnMesh
  <2>2. EdgeSet(f) \subseteq Edges
    BY FaceMeshesAssumption DEF EdgeSet
  <2>3. \A e \in EdgeSet(f) : drawn[e] = finer[e]
    BY <2>2 DEF StoredInv, MeshingInv, ChordsStand
  <2> QED BY <2>1, <2>3, SameWalk
<1> QED BY <1>1, Invariant, PTL

(* A tessellation stored to its end, whose faces agreed, leaves no gap     *)
(* between an edge's polyline and the meshes on the faces it bounds.       *)
THEOREM NoGaps == StoredSpec => []WholeTessellationHasNoGaps
<1>1. StoredInv => WholeTessellationHasNoGaps
  <2> SUFFICES ASSUME StoredInv, storing = "none", whole,
                      NEW f \in Faces, NEW n, n = NodeOf[f], IsStored(n),
                      calls = mesh[n].id[2], changed = {},
                      NEW i \in DOMAIN EdgesOf[f]
               PROVE  line[EdgesOf[f][i]] =
                        [deflection |-> mesh[n].mesh.drawn.deflection,
                         at |-> mesh[n].mesh.drawn.at[i]]
    BY DEF WholeTessellationHasNoGaps, BoundaryAgrees
  <2>1. Dated(n)
    BY DEF IsStored, StoredInv, MeshesDated, NoMesh, Nodes
  <2>2. PICK g : g = mesh[n].id[1]
    OBVIOUS
  <2>3. /\ stage = "done" /\ g \in Faces /\ NodeOf[g] = n
        /\ mesh[n].mesh = computed[g] /\ computed[g] \in Meshes
        /\ \A e \in Edges : line[e] = [deflection |-> deflection, at |-> finer[e]]
    BY <2>1, <2>2 DEF Dated, LineDrawn
  <2>4. OwnMesh(geometry.verdict, shape[g], deflection, Along(g, drawn),
                Across(g), Keeps(g), computed[g])
    BY <2>3, MeshOrNot DEF StoredInv, MeshingInv, ComputedStand
  <2>5. EdgesOf[g] = EdgesOf[f]
    BY <2>3, FaceMeshesAssumption
  <2>6. EdgesOf[f][i] \in Edges /\ Along(g, drawn)[i] = drawn[EdgesOf[f][i]]
    BY <2>3, <2>5, AlongChords DEF StoredInv, MeshingInv, TypeOK
  <2>7. drawn[EdgesOf[f][i]] = finer[EdgesOf[f][i]]
    BY <2>3, <2>6 DEF StoredInv, MeshingInv, ChordsStand
  <2> QED BY <2>3, <2>4, <2>6, <2>7 DEF OwnMesh
<1> QED BY <1>1, Invariant, PTL

(* A path an edge keeps is into a mesh its face carries now, or one that a *)
(* later place of the face replaced within the same tessellation, and fits *)
(* the edge's own polyline, wherever a tessellation stopped.               *)
THEOREM PathsWalk == StoredSpec => []PathsWalkTheirMesh
<1>1. StoredInv => PathsWalkTheirMesh
  BY DEF StoredInv
<1> QED BY <1>1, Invariant, PTL
=============================================================================
