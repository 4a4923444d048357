-------------------------- MODULE ToleranceProofs --------------------------
(***************************************************************************)
(* Proofs about the journal of widened tolerances and the two components   *)
(* that use it.  ModelTolerance: for any number of nodes, attempts and     *)
(* noted calls, boundaries stay as loose as what they bound and one        *)
(* journal does for attempts that nest.  Rounding: for any solid, the      *)
(* ladder of attempts starts each attempt with exact rims from the solid   *)
(* as it was given, and a seated cut that is not made leaves no trace.     *)
(***************************************************************************)
EXTENDS ModelTolerance, Rounding, SequenceTheorems, WellFoundedInduction, TLAPS

-----------------------------------------------------------------------------
(* The journal by itself: what was noted for a node, and what putting it   *)
(* back gives.                                                             *)

Since(l, from, n) == {i \in (from + 1)..Len(l) : n \in DOMAIN l[i]}

Restored(l, t, from, n) ==
    IF Since(l, from, n) = {} THEN t[n] ELSE l[EarliestOf(Since(l, from, n))][n]

(* A set of naturals that is not empty has a least element.                *)
LEMMA HasLeast ==
    ASSUME NEW S \in SUBSET Nat, S # {}
    PROVE  \E x \in S : \A y \in S : x <= y
<1> DEFINE below == {ss \in Nat \X Nat : ss[1] < ss[2]}
<1>1. OpToRel(<, Nat) = below
  BY Zenon DEF OpToRel
<1>2. IsWellFoundedOn(below, Nat)
  BY <1>1, NatLessThanWellFounded
<1> HIDE DEF below
<1>3. PICK x \in S : \A y \in S : ~ (<<y, x>> \in below)
  BY <1>2, WFMin
<1>4. ASSUME NEW y \in S PROVE x <= y
  <2>1. x \in Nat /\ y \in Nat
    OBVIOUS
  <2>2. ~(y < x)
    BY <1>3, <2>1 DEF below
  <2> QED BY <2>1, <2>2
<1> QED BY <1>4

(* So what was noted of a node has a first call.                           *)
LEMMA FirstNoted ==
    ASSUME NEW l, Len(l) \in Nat, NEW from \in Nat, NEW n, Since(l, from, n) # {}
    PROVE  \E i \in Since(l, from, n) : \A j \in Since(l, from, n) : i <= j
<1>1. Since(l, from, n) \in SUBSET Nat
  BY DEF Since
<1> QED BY <1>1, HasLeast

(* The earliest of some calls is the one no other comes before.            *)
LEMMA EarliestIs ==
    ASSUME NEW calls \in SUBSET Int, NEW i \in calls, \A j \in calls : i <= j
    PROVE  EarliestOf(calls) = i
<1>1. /\ EarliestOf(calls) \in calls
      /\ \A j \in calls : EarliestOf(calls) <= j
  BY DEF EarliestOf
<1>2. i \in Int /\ EarliestOf(calls) \in Int
  BY <1>1
<1>3. i <= EarliestOf(calls) /\ EarliestOf(calls) <= i
  BY <1>1
<1> HIDE DEF EarliestOf
<1> QED BY <1>2, <1>3

(* So a node gets back what the earliest call to note it noted.            *)
LEMMA RestoredFirst ==
    ASSUME NEW l, NEW t, NEW from \in Nat, NEW n, Len(l) \in Nat,
           NEW i \in Since(l, from, n), \A j \in Since(l, from, n) : i <= j
    PROVE  Restored(l, t, from, n) = l[i][n]
<1>1. Since(l, from, n) \in SUBSET Int
  BY DEF Since
<1>2. EarliestOf(Since(l, from, n)) = i
  BY <1>1, EarliestIs
<1> QED BY <1>2 DEF Restored

(* Noting what a call changes keeps what every mark puts back as it was.   *)
LEMMA RestoredAfterNoting ==
    ASSUME NEW B, NEW l \in Seq(B), NEW noted \in B, NEW t, NEW u,
           NEW from \in 0..Len(l), NEW n,
           n \in DOMAIN noted => noted[n] = t[n],
           n \notin DOMAIN noted => u[n] = t[n]
    PROVE  Restored(Append(l, noted), u, from, n) = Restored(l, t, from, n)
<1> DEFINE m == Append(l, noted)
<1>1. /\ Len(l) \in Nat /\ Len(m) = Len(l) + 1
      /\ \A i \in 1..Len(l) : m[i] = l[i]
      /\ m[Len(l) + 1] = noted
  OBVIOUS
<1> HIDE DEF m
<1>2. CASE Since(l, from, n) = {} /\ n \notin DOMAIN noted
  <2>1. Since(m, from, n) = {}
    <3> SUFFICES ASSUME NEW i \in Since(m, from, n) PROVE FALSE
      OBVIOUS
    <3>1. i \in (from + 1)..(Len(l) + 1) /\ n \in DOMAIN m[i]
      BY <1>1 DEF Since
    <3>2. i # Len(l) + 1
      BY <1>1, <1>2, <3>1
    <3>3. i \in (from + 1)..Len(l)
      BY <1>1, <3>1, <3>2
    <3>4. i \in Since(l, from, n)
      BY <1>1, <3>1, <3>3 DEF Since
    <3> QED BY <1>2, <3>4
  <2> QED BY <1>2, <2>1 DEF Restored, m
<1>3. CASE Since(l, from, n) = {} /\ n \in DOMAIN noted
  <2>1. Len(l) + 1 \in Since(m, from, n)
    BY <1>1, <1>3 DEF Since
  <2>2. ASSUME NEW j \in Since(m, from, n) PROVE Len(l) + 1 <= j
    <3>1. j \in (from + 1)..(Len(l) + 1) /\ n \in DOMAIN m[j]
      BY <1>1 DEF Since
    <3>2. ASSUME j # Len(l) + 1 PROVE FALSE
      <4>1. j \in (from + 1)..Len(l) /\ j \in 1..Len(l)
        BY <1>1, <3>1, <3>2
      <4>2. j \in Since(l, from, n)
        BY <1>1, <3>1, <4>1 DEF Since
      <4> QED BY <1>3, <4>2
    <3> QED BY <1>1, <3>2
  <2>3. Restored(m, u, from, n) = m[Len(l) + 1][n]
    BY <1>1, <2>1, <2>2, RestoredFirst
  <2> QED BY <1>1, <1>3, <2>3 DEF Restored, m
<1>4. CASE Since(l, from, n) # {}
  <2>1. PICK i \in Since(l, from, n) : \A j \in Since(l, from, n) : i <= j
    BY <1>1, <1>4, FirstNoted
  <2>2. i \in (from + 1)..Len(l) /\ i \in 1..Len(l) /\ n \in DOMAIN l[i]
    BY <1>1 DEF Since
  <2>3. i \in Since(m, from, n)
    BY <1>1, <2>2 DEF Since
  <2>4. ASSUME NEW j \in Since(m, from, n) PROVE i <= j
    <3>1. j \in (from + 1)..(Len(l) + 1) /\ n \in DOMAIN m[j]
      BY <1>1 DEF Since
    <3>2. CASE j = Len(l) + 1
      BY <1>1, <2>2, <3>2
    <3>3. CASE j # Len(l) + 1
      <4>1. j \in (from + 1)..Len(l) /\ j \in 1..Len(l)
        BY <1>1, <3>1, <3>3
      <4>2. j \in Since(l, from, n)
        BY <1>1, <3>1, <4>1 DEF Since
      <4> QED BY <2>1, <4>2
    <3> QED BY <3>2, <3>3
  <2>5. Restored(m, u, from, n) = m[i][n]
    BY <1>1, <2>3, <2>4, RestoredFirst
  <2>6. Restored(l, t, from, n) = l[i][n]
    BY <1>1, <2>1, RestoredFirst
  <2> QED BY <1>1, <2>2, <2>5, <2>6 DEF m
<1> QED BY <1>2, <1>3, <1>4

(* Putting back to one mark and then to an earlier one is putting back to  *)
(* the earlier one.                                                        *)
LEMMA RestoredAfterCut ==
    ASSUME NEW B, NEW l \in Seq(B), NEW end \in 0..Len(l), NEW from \in 0..end,
           NEW t, NEW u, NEW n,
           u[n] = Restored(l, t, end, n)
    PROVE  Restored(SubSeq(l, 1, end), u, from, n) = Restored(l, t, from, n)
<1> DEFINE m == SubSeq(l, 1, end)
<1>1. /\ Len(l) \in Nat /\ Len(m) = end
      /\ \A i \in 1..end : m[i] = l[i]
  OBVIOUS
<1> HIDE DEF m
<1>2. \A j \in 1..end : j \in Since(m, from, n) <=> j \in Since(l, from, n)
  BY <1>1 DEF Since
<1>3. Since(m, from, n) \subseteq 1..end
  BY <1>1 DEF Since
<1>4. CASE Since(l, from, n) = {}
  <2>1. Since(m, from, n) = {}
    BY <1>2, <1>3, <1>4
  <2>2. Since(l, end, n) = {}
    <3> SUFFICES ASSUME NEW j \in Since(l, end, n) PROVE FALSE
      OBVIOUS
    <3>1. j \in (end + 1)..Len(l) /\ n \in DOMAIN l[j]
      BY DEF Since
    <3>2. j \in (from + 1)..Len(l)
      BY <1>1, <3>1
    <3> QED BY <1>4, <3>1, <3>2 DEF Since
  <2> QED BY <1>4, <2>1, <2>2 DEF Restored, m
<1>5. CASE Since(l, from, n) # {}
  <2>1. PICK i \in Since(l, from, n) : \A j \in Since(l, from, n) : i <= j
    BY <1>1, <1>5, FirstNoted
  <2>2. i \in (from + 1)..Len(l) /\ n \in DOMAIN l[i]
    BY DEF Since
  <2>3. Restored(l, t, from, n) = l[i][n]
    BY <1>1, <2>1, RestoredFirst
  <2>4. CASE i <= end
    <3>1. i \in 1..end
      BY <1>1, <2>2, <2>4
    <3>2. i \in Since(m, from, n)
      BY <1>2, <3>1
    <3>3. \A j \in Since(m, from, n) : i <= j
      BY <1>2, <1>3, <2>1
    <3>4. Restored(m, u, from, n) = m[i][n]
      BY <1>1, <3>2, <3>3, RestoredFirst
    <3> QED BY <1>1, <2>3, <3>1, <3>4 DEF m
  <2>5. CASE ~(i <= end)
    <3>1. Since(m, from, n) = {}
      <4> SUFFICES ASSUME NEW j \in Since(m, from, n) PROVE FALSE
        OBVIOUS
      <4>1. j \in 1..end /\ i <= j
        BY <1>2, <1>3, <2>1
      <4> QED BY <2>2, <2>5, <4>1
    <3>2. i \in Since(l, end, n)
      BY <1>1, <2>2, <2>5 DEF Since
    <3>3. ASSUME NEW j \in Since(l, end, n) PROVE i <= j
      <4>1. j \in (end + 1)..Len(l) /\ n \in DOMAIN l[j]
        BY DEF Since
      <4>2. j \in (from + 1)..Len(l)
        BY <1>1, <4>1
      <4>3. j \in Since(l, from, n)
        BY <4>1, <4>2 DEF Since
      <4> QED BY <2>1, <4>3
    <3>4. Restored(l, t, end, n) = l[i][n]
      BY <1>1, <3>2, <3>3, RestoredFirst
    <3> QED BY <2>3, <3>1, <3>4 DEF Restored, m
  <2> QED BY <2>4, <2>5
<1> QED BY <1>4, <1>5

-----------------------------------------------------------------------------
(* The inductive invariant.                                                *)

Over == {<<"Edge", "Vertex">>, <<"Wire", "Edge">>, <<"Face", "Wire">>}

(* A node holds nodes made before it, of the kind below its own.           *)
Stratified ==
    \A n \in Ids : \A c \in nodes[n].children :
        /\ c \in 1..(n - 1)
        /\ <<nodes[n].kind, nodes[c].kind>> \in Over

(* Only what carries a tolerance is noted.                                 *)
NotedNodes ==
    \A i \in DOMAIN log : \A n \in DOMAIN log[i] : n \in Ids /\ nodes[n].kind # "Wire"

(* An attempt within another was marked no earlier.                        *)
MarksInOrder ==
    \A j, k \in DOMAIN attempts :
        j < k => attempts[j].mark.from <= attempts[k].mark.from

(* Tolerances t hold every boundary of the nodes S as loose as it bounds.  *)
ContainedIn(t, S) ==
    \A n \in S :
        /\ nodes[n].kind = "Edge" => \A v \in nodes[n].children : t[n] <= t[v]
        /\ nodes[n].kind = "Face" =>
              \A e \in Holds(nodes[n].children) : t[n] <= t[e]

(* The live nodes an attempt began with.                                   *)
BegunWith(k) == Live \cap 1..attempts[k].made

(* Undoing an attempt gives tolerances that hold the boundaries again.     *)
SavedContained ==
    \A k \in DOMAIN attempts :
        ContainedIn(PutBack(attempts[k].mark.from), BegunWith(k))

IInv ==
    /\ TypeOK
    /\ Contained
    /\ OpenWhileAttempting
    /\ Stratified
    /\ NotedNodes
    /\ MarksInOrder
    /\ SavedContained

(* What follows of the types alone.                                        *)
LEMMA TypeFacts ==
    ASSUME TypeOK
    PROVE  /\ Len(nodes) \in Nat /\ Ids = 1..Len(nodes)
           /\ \A n \in Ids : nodes[n] \in Node
           /\ \A n \in Ids : tol[n] \in Nat
           /\ \A n \in Ids : nodes[n].kind # "Wire" => tol[n] \in Tolerances
           /\ Len(log) \in Nat /\ DOMAIN log = 1..Len(log)
           /\ Len(attempts) \in Nat /\ DOMAIN attempts = 1..Len(attempts)
           /\ \A k \in DOMAIN attempts : attempts[k] \in Attempt
           /\ \A t \in Tolerances : t \in Nat /\ t # 0
<1>1. \A t \in Tolerances : t \in Nat /\ t # 0
  BY ToleranceAssumption DEF Tolerances
<1>2. /\ Len(nodes) \in Nat /\ Ids = 1..Len(nodes)
      /\ \A n \in Ids : nodes[n] \in Node
  BY DEF TypeOK, Ids
<1>3. \A n \in Ids : /\ tol[n] \in Tolerances \cup {NoTolerance}
                     /\ nodes[n].kind # "Wire" => tol[n] # NoTolerance
  BY DEF TypeOK
<1>4. Len(log) \in Nat /\ DOMAIN log = 1..Len(log)
  BY DEF TypeOK
<1>5. /\ Len(attempts) \in Nat /\ DOMAIN attempts = 1..Len(attempts)
      /\ \A k \in DOMAIN attempts : attempts[k] \in Attempt
  BY DEF TypeOK
<1>6. \A n \in Ids : tol[n] \in Nat
  <2> TAKE n \in Ids
  <2>1. tol[n] \in Tolerances \/ tol[n] = 0
    BY <1>3 DEF NoTolerance
  <2> QED BY <1>1, <2>1
<1>7. \A n \in Ids : nodes[n].kind # "Wire" => tol[n] \in Tolerances
  BY <1>3
<1> QED BY <1>1, <1>2, <1>4, <1>5, <1>6, <1>7

(* What a node holds is a node, of the kind below its own.                 *)
LEMMA ChildFacts ==
    ASSUME TypeOK, Stratified
    PROVE  \A n \in Ids : \A c \in nodes[n].children :
               c \in Ids /\ <<nodes[n].kind, nodes[c].kind>> \in Over
<1>1. Len(nodes) \in Nat /\ Ids = 1..Len(nodes)
  BY TypeFacts
<1> QED BY <1>1 DEF Stratified

(* Contained, as tolerances over the live nodes.                           *)
LEMMA ContainedIsIn == Contained <=> ContainedIn(tol, Live)
BY DEF Contained, ContainedIn, OfKind

(* What putting back gives, node by node.                                  *)
LEMMA PutBackIs ==
    ASSUME NEW from, NEW n \in DOMAIN tol
    PROVE  PutBack(from)[n] = Restored(log, tol, from, n)
BY DEF PutBack, Restored, NotedSince, Since

(* What an edge or a face bounds is below whatever it is below itself.     *)
LEMMA BelowIsClosed ==
    ASSUME TypeOK, Stratified, NEW S \in SUBSET Ids
    PROVE  /\ Below(S) \subseteq Ids
           /\ S \subseteq Below(S)
           /\ \A e \in Below(S) : nodes[e].kind = "Edge" =>
                 nodes[e].children \subseteq Below(S)
           /\ \A f \in Below(S) : nodes[f].kind = "Face" =>
                 Holds(nodes[f].children) \subseteq Below(S)
<1>1. \A n \in Ids : \A c \in nodes[n].children :
          c \in Ids /\ <<nodes[n].kind, nodes[c].kind>> \in Over
  BY ChildFacts
<1>2. \A T \in SUBSET Ids : Holds(T) \in SUBSET Ids
  BY <1>1 DEF Holds
<1>3. \A T \in SUBSET Ids : \A n \in T : nodes[n].children \subseteq Holds(T)
  BY DEF Holds
<1>4. \A T \in SUBSET Ids : \A c \in Holds(T) :
          \E n \in T : n \in Ids /\ c \in nodes[n].children
  BY DEF Holds
<1> DEFINE A == Holds(S)
           B == Holds(A)
           C == Holds(B)
<1>5. A \in SUBSET Ids /\ B \in SUBSET Ids /\ C \in SUBSET Ids
  BY <1>2
<1>6. Below(S) = S \cup A \cup B \cup C
  BY DEF Below
<1> HIDE DEF A, B, C
<1>7. \A c \in A : nodes[c].kind # "Face"
  <2> TAKE c \in A
  <2>1. PICK n \in S : c \in nodes[n].children
    BY <1>4 DEF A
  <2> QED BY <1>1, <2>1 DEF Over
<1>8. \A c \in B : nodes[c].kind \notin {"Face", "Wire"}
  <2> TAKE c \in B
  <2>1. PICK n \in A : c \in nodes[n].children
    BY <1>4, <1>5 DEF B
  <2> QED BY <1>1, <1>5, <1>7, <2>1 DEF Over
<1>9. \A c \in C : nodes[c].kind \notin {"Face", "Wire", "Edge"}
  <2> TAKE c \in C
  <2>1. PICK n \in B : c \in nodes[n].children
    BY <1>4, <1>5 DEF C
  <2> QED BY <1>1, <1>5, <1>8, <2>1 DEF Over
<1>10. /\ \A n \in S : nodes[n].children \subseteq A
       /\ \A n \in A : nodes[n].children \subseteq B
       /\ \A n \in B : nodes[n].children \subseteq C
  BY <1>3, <1>5 DEF A, B, C
<1>11. ASSUME NEW f \in Below(S), nodes[f].kind = "Face"
       PROVE  Holds(nodes[f].children) \subseteq Below(S)
  <2>1. f \in S
    BY <1>6, <1>7, <1>8, <1>9, <1>11
  <2>2. nodes[f].children \subseteq A
    BY <1>10, <2>1
  <2>3. Holds(nodes[f].children) \subseteq Holds(A)
    BY <2>2 DEF Holds
  <2> QED BY <1>6, <2>3 DEF B
<1>12. ASSUME NEW e \in Below(S), nodes[e].kind = "Edge"
       PROVE  nodes[e].children \subseteq Below(S)
  BY <1>6, <1>9, <1>10, <1>12
<1> QED BY <1>5, <1>6, <1>11, <1>12

(* Widening nodes and all below them changes only what carries a           *)
(* tolerance, makes nothing tighter and keeps every boundary as loose as   *)
(* what it bounds.                                                         *)
LEMMA WideningContains ==
    ASSUME TypeOK, Stratified, Contained, NEW S \in SUBSET Ids, NEW to \in Tolerances
    PROVE  /\ Grown(S, to) \in SUBSET Ids
           /\ \A n \in Grown(S, to) : nodes[n].kind # "Wire"
           /\ Widened(Grown(S, to), to) \in [Ids -> Tolerances \cup {NoTolerance}]
           /\ \A n \in Ids : Widened(Grown(S, to), to)[n] = NoTolerance
                                <=> nodes[n].kind = "Wire"
           /\ \A n \in Ids : tol[n] <= Widened(Grown(S, to), to)[n]
           /\ \A n \in Ids \ Grown(S, to) : Widened(Grown(S, to), to)[n] = tol[n]
           /\ \A n \in Below(S) : nodes[n].kind # "Wire" =>
                 to <= Widened(Grown(S, to), to)[n]
           /\ ContainedIn(Widened(Grown(S, to), to), Live)
<1> DEFINE G == Grown(S, to)
           w == Widened(G, to)
<1>1. /\ Below(S) \subseteq Ids
      /\ \A n \in Ids : n \in G <=> n \in Below(S) /\ tol[n] # NoTolerance /\ tol[n] < to
      /\ G \subseteq Ids
  BY BelowIsClosed DEF Grown
<1>2. DOMAIN w = Ids /\ \A n \in Ids : w[n] = IF n \in G THEN to ELSE tol[n]
  BY DEF Widened
<1>3. w = [n \in Ids |-> IF n \in G THEN to ELSE tol[n]]
  BY DEF Widened
<1> HIDE DEF G, w
<1>4. \A n \in Ids : /\ tol[n] \in Nat
                     /\ tol[n] \in Tolerances \cup {NoTolerance}
                     /\ tol[n] = NoTolerance <=> nodes[n].kind = "Wire"
  BY TypeFacts DEF TypeOK
<1>5. to \in Nat /\ to # NoTolerance
  BY ToleranceAssumption DEF Tolerances, NoTolerance
<1>6. \A n \in G : nodes[n].kind # "Wire"
  BY <1>1, <1>4
<1>7. w \in [Ids -> Tolerances \cup {NoTolerance}]
  BY <1>3, <1>4
<1>8. \A n \in Ids : w[n] = NoTolerance <=> nodes[n].kind = "Wire"
  BY <1>2, <1>4, <1>5, <1>6
<1>9. \A n \in Ids : tol[n] <= w[n] /\ w[n] \in Nat
  BY <1>1, <1>2, <1>4, <1>5
<1>10. \A n \in Below(S) : nodes[n].kind # "Wire" => to <= w[n]
  BY <1>1, <1>2, <1>4, <1>5
<1>11. ContainedIn(w, Live)
  <2>1. ASSUME NEW n \in Ids, NEW b \in Ids, tol[n] <= tol[b], nodes[b].kind # "Wire",
               n \in Below(S) => b \in Below(S)
        PROVE  w[n] <= w[b]
    <3>1. CASE n \in G
      BY <1>1, <1>2, <1>10, <2>1, <3>1
    <3>2. CASE n \notin G
      BY <1>2, <1>4, <1>9, <2>1, <3>2
    <3> QED BY <3>1, <3>2
  <2>2. \A n \in Ids : \A c \in nodes[n].children :
            c \in Ids /\ <<nodes[n].kind, nodes[c].kind>> \in Over
    BY ChildFacts
  <2> SUFFICES ASSUME NEW n \in Live
               PROVE  /\ nodes[n].kind = "Edge" =>
                            \A v \in nodes[n].children : w[n] <= w[v]
                      /\ nodes[n].kind = "Face" =>
                            \A e \in Holds(nodes[n].children) : w[n] <= w[e]
    BY DEF ContainedIn
  <2>3. n \in Ids
    BY DEF Live
  <2>4. ContainedIn(tol, Live)
    BY ContainedIsIn
  <2>5. ASSUME nodes[n].kind = "Edge", NEW v \in nodes[n].children PROVE w[n] <= w[v]
    <3>1. v \in Ids /\ nodes[v].kind # "Wire"
      BY <2>2, <2>3, <2>5 DEF Over
    <3>2. n \in Below(S) => v \in Below(S)
      BY <2>5, BelowIsClosed
    <3>3. tol[n] <= tol[v]
      BY <2>4, <2>5 DEF ContainedIn
    <3> QED BY <2>1, <2>3, <3>1, <3>2, <3>3
  <2>6. ASSUME nodes[n].kind = "Face", NEW e \in Holds(nodes[n].children)
        PROVE  w[n] <= w[e]
    <3>1. PICK h \in nodes[n].children : e \in nodes[h].children
      BY DEF Holds
    <3>2. h \in Ids /\ nodes[h].kind = "Wire"
      BY <2>2, <2>3, <2>6, <3>1 DEF Over
    <3>3. e \in Ids /\ nodes[e].kind # "Wire"
      BY <2>2, <3>1, <3>2 DEF Over
    <3>4. n \in Below(S) => e \in Below(S)
      BY <2>6, BelowIsClosed
    <3>5. tol[n] <= tol[e]
      BY <2>4, <2>6 DEF ContainedIn
    <3> QED BY <2>1, <2>3, <3>3, <3>4, <3>5
  <2> QED BY <2>5, <2>6
<1>12. \A n \in Ids \ G : w[n] = tol[n]
  BY <1>2
<1> QED BY <1>1, <1>6, <1>7, <1>8, <1>9, <1>10, <1>11, <1>12 DEF G, w

-----------------------------------------------------------------------------
(* Every step but the ends of an attempt adds nodes, or loosens what is    *)
(* there and notes it.                                                     *)

Kept(changed) ==
    /\ changed \in SUBSET Ids
    /\ \A n \in changed : nodes[n].kind # "Wire"
    /\ log' = WithNoted(Noting(changed))
    /\ nodes' \in Seq(Node)
    /\ Ids \subseteq Ids'
    /\ \A n \in Ids : nodes'[n] = nodes[n]
    /\ DOMAIN tol' = Ids'
    /\ \A n \in Ids \ changed : tol'[n] = tol[n]
    /\ UNCHANGED <<open, attempts, dead>>

(* Such a step notes well ...                                              *)
LEMMA NotesWell ==
    ASSUME IInv, NEW changed, Kept(changed)
    PROVE  /\ log' \in Seq(Noted')
           /\ Len(log) <= Len(log)'
           /\ (~open => log = <<>>)'
           /\ NotedNodes'
<1> USE DEF Kept
<1> DEFINE noted == Noting(changed)
<1>1. Noted \subseteq Noted'
  BY DEF Noted
<1>2. noted \in Noted /\ DOMAIN noted = changed
  <2>1. \A n \in changed : tol[n] \in Tolerances
    BY TypeFacts DEF IInv
  <2>2. noted \in [changed -> Tolerances]
    BY <2>1 DEF Noting
  <2> QED BY <2>2 DEF Noted
<1>3. log \in Seq(Noted) /\ Len(log) \in Nat /\ DOMAIN log = 1..Len(log)
  BY TypeFacts DEF IInv, TypeOK
<1>4. log \in Seq(Noted')
  BY <1>1, <1>3
<1>5. CASE log' = log
  <2>1. NotedNodes'
    BY <1>5 DEF IInv, NotedNodes
  <2>3. (~open => log = <<>>)'
    BY <1>5 DEF IInv, TypeOK
  <2> QED BY <1>3, <1>4, <1>5, <2>1, <2>3
<1>6. CASE open /\ log' = Append(log, noted)
  <2>1. log' \in Seq(Noted')
    BY <1>1, <1>2, <1>4, <1>6
  <2>2. /\ Len(log') = Len(log) + 1
        /\ DOMAIN log' = 1..(Len(log) + 1)
        /\ \A i \in 1..Len(log) : log'[i] = log[i]
        /\ log'[Len(log) + 1] = noted
    BY <1>2, <1>3, <1>6
  <2> HIDE DEF noted
  <2>3. NotedNodes'
    <3> SUFFICES ASSUME NEW i \in DOMAIN log', NEW n \in DOMAIN log'[i]
                 PROVE  n \in Ids /\ nodes[n].kind # "Wire"
      BY DEF NotedNodes
    <3>1. CASE i = Len(log) + 1
      BY <1>2, <2>2, <3>1
    <3>2. CASE i # Len(log) + 1
      <4>1. i \in DOMAIN log /\ log'[i] = log[i]
        BY <1>3, <2>2, <3>2
      <4> QED BY <4>1 DEF IInv, NotedNodes
    <3> QED BY <3>1, <3>2
  <2>5. open'
    BY <1>6
  <2> QED BY <1>3, <2>1, <2>2, <2>3, <2>5
<1> QED BY <1>5, <1>6 DEF WithNoted

(* ... and keeps what putting back to any mark gives.                      *)
LEMMA KeepsWhatIsSaved ==
    ASSUME IInv, NEW changed, Kept(changed)
    PROVE  \A k \in DOMAIN attempts : \A n \in Ids :
               PutBack(attempts[k].mark.from)'[n] = PutBack(attempts[k].mark.from)[n]
<1> SUFFICES ASSUME NEW k \in DOMAIN attempts, NEW n \in Ids
             PROVE  PutBack(attempts[k].mark.from)'[n] = PutBack(attempts[k].mark.from)[n]
  OBVIOUS
<1> USE DEF Kept
<1> DEFINE noted == Noting(changed)
           from == attempts[k].mark.from
<1>1. /\ log \in Seq(Noted) /\ Len(log) \in Nat
      /\ n \in Nat /\ n \in DOMAIN tol /\ n \in DOMAIN tol'
      /\ from \in 0..Len(log)
  <2>1. attempts[k] \in Attempt
    BY TypeFacts DEF IInv
  <2>2. from \in 0..Len(log)
    BY <2>1 DEF Attempt
  <2> QED BY <2>2, TypeFacts DEF IInv, TypeOK
<1>2. /\ noted \in Noted /\ DOMAIN noted = changed
      /\ \A m \in changed : noted[m] = tol[m]
  <2>1. \A m \in changed : tol[m] \in Tolerances
    BY TypeFacts DEF IInv
  <2>2. noted \in [changed -> Tolerances] /\ \A m \in changed : noted[m] = tol[m]
    BY <2>1 DEF Noting
  <2> QED BY <2>2 DEF Noted
<1>3. open
  BY DEF IInv, OpenWhileAttempting
<1>4. from' = from
  OBVIOUS
<1>6. PutBack(from)[n] = Restored(log, tol, from, n)
  BY <1>1, PutBackIs
<1>7. PutBack(from)'[n] = Restored(log', tol', from, n)
  BY <1>1, <1>4 DEF PutBack, Restored, NotedSince, Since
<1> HIDE DEF from, noted
<1>8. Restored(log', tol', from, n) = Restored(log, tol, from, n)
  <2>1. n \notin DOMAIN noted => tol'[n] = tol[n]
    BY <1>2
  <2>2. n \in DOMAIN noted => noted[n] = tol[n]
    BY <1>2
  <2>3. CASE changed # {}
    <3>1. log' = Append(log, noted)
      BY <1>2, <1>3, <2>3 DEF WithNoted, noted
    <3> QED BY <1>1, <1>2, <2>1, <2>2, <3>1, RestoredAfterNoting
  <2>4. CASE changed = {}
    <3>1. log' = log
      BY <1>2, <1>3, <2>4 DEF WithNoted, noted
    <3>2. tol'[n] = tol[n]
      BY <2>4
    <3> QED BY <3>1, <3>2 DEF Restored
  <2> QED BY <2>3, <2>4
<1> QED BY <1>6, <1>7, <1>8 DEF from

(* So what holds of the attempts under way goes on holding.                *)
LEMMA KeptAttempts ==
    ASSUME IInv, NEW changed, Kept(changed)
    PROVE  /\ attempts' \in Seq(Attempt')
           /\ dead' \in SUBSET Ids'
           /\ OpenWhileAttempting'
           /\ MarksInOrder'
           /\ SavedContained'
           /\ \A k \in DOMAIN attempts : SavedBy(attempts[k])' = SavedBy(attempts[k])
<1> USE DEF Kept
<1>1. /\ attempts \in Seq(Attempt)
      /\ DOMAIN attempts = 1..Len(attempts)
      /\ \A k \in DOMAIN attempts : attempts[k] \in Attempt
  BY TypeFacts DEF IInv, TypeOK
<1>2. Attempt \subseteq Attempt'
  <2>1. Len(log) \in Nat /\ Len(log)' \in Nat /\ Len(log) <= Len(log)'
    BY NotesWell, TypeFacts DEF IInv
  <2>2. Len(nodes) \in Nat /\ Len(nodes)' \in Nat /\ Ids = 1..Len(nodes) /\ Ids' = 1..Len(nodes)'
    BY TypeFacts DEF IInv, Ids
  <2>3. Len(nodes) <= Len(nodes)'
    BY <2>2
  <2>4. 0..Len(log) \subseteq 0..Len(log)' /\ 0..Len(nodes) \subseteq 0..Len(nodes)'
    BY <2>1, <2>2, <2>3
  <2> QED BY <2>4 DEF Attempt
<1>3. attempts' \in Seq(Attempt')
  BY <1>1, <1>2
<1>4. OpenWhileAttempting' /\ MarksInOrder' /\ dead' \in SUBSET Ids'
  BY DEF IInv, OpenWhileAttempting, MarksInOrder, TypeOK
<1>5. \A k \in DOMAIN attempts : attempts[k].made \in 0..Len(nodes)
  BY <1>1 DEF Attempt
<1>6. \A k \in DOMAIN attempts : 1..attempts[k].made \subseteq Ids
  BY <1>5, TypeFacts DEF IInv
<1>7. ASSUME NEW k \in DOMAIN attempts
      PROVE  SavedBy(attempts[k])' = SavedBy(attempts[k])
  <2>1. \A n \in 1..attempts[k].made :
            PutBack(attempts[k].mark.from)'[n] = PutBack(attempts[k].mark.from)[n]
    BY <1>6, KeepsWhatIsSaved
  <2> QED BY <2>1 DEF SavedBy
<1>8. ASSUME NEW k \in DOMAIN attempts, NEW n \in BegunWith(k)'
      PROVE  /\ n \in BegunWith(k)
             /\ nodes'[n] = nodes[n]
             /\ \A c \in nodes[n].children : c \in Ids /\ nodes'[c] = nodes[c]
  <2>1. n \in 1..attempts[k].made /\ n \notin dead
    BY DEF BegunWith, Live
  <2>2. n \in Ids
    BY <1>6, <2>1
  <2> QED BY <2>1, <2>2, ChildFacts DEF BegunWith, Live, IInv
<1>9. ASSUME NEW k \in DOMAIN attempts
      PROVE  ContainedIn(PutBack(attempts[k].mark.from), BegunWith(k))'
  <2> DEFINE t == PutBack(attempts[k].mark.from)
  <2>1. \A n \in Ids : t'[n] = t[n]
    BY KeepsWhatIsSaved
  <2>2. ContainedIn(t, BegunWith(k))
    BY DEF IInv, SavedContained
  <2> HIDE DEF t
  <2> SUFFICES ASSUME NEW n \in BegunWith(k)'
               PROVE  /\ nodes'[n].kind = "Edge" =>
                            \A v \in nodes'[n].children : t'[n] <= t'[v]
                      /\ nodes'[n].kind = "Face" =>
                            \A e \in Holds(nodes[n].children)' : t'[n] <= t'[e]
    BY DEF ContainedIn, t
  <2>3. /\ n \in BegunWith(k) /\ n \in Ids
        /\ nodes'[n] = nodes[n]
        /\ \A c \in nodes[n].children : c \in Ids /\ nodes'[c] = nodes[c]
    BY <1>8 DEF BegunWith, Live
  <2>4. Holds(nodes[n].children)' = Holds(nodes[n].children)
    BY <2>3 DEF Holds
  <2>5. \A e \in Holds(nodes[n].children) : e \in Ids
    <3>1. TypeOK /\ Stratified
      BY DEF IInv
    <3>2. \A m \in Ids : \A c \in nodes[m].children : c \in Ids
      BY <3>1, ChildFacts
    <3> QED BY <2>3, <3>2 DEF Holds
  <2> QED BY <2>1, <2>2, <2>3, <2>4, <2>5 DEF ContainedIn
<1>10. SavedContained'
  BY <1>9 DEF SavedContained
<1> QED BY <1>3, <1>4, <1>7, <1>10

-----------------------------------------------------------------------------
(* The steps one by one.                                                   *)

(* What an attempt under way was begun with is as it was, and nothing is   *)
(* tighter or gone.                                                        *)
Loosened ==
    /\ Ids \subseteq Ids'
    /\ \A n \in Ids : tol[n] <= tol'[n]
    /\ attempts' = attempts
    /\ \A k \in DOMAIN attempts : SavedBy(attempts[k])' = SavedBy(attempts[k])

(* Loosening nodes that are there: what widen and node_mut have in common. *)
LEMMA LoosenStep ==
    ASSUME IInv, NEW S \in SUBSET Ids, NEW to \in Tolerances, NEW edited \in SUBSET Ids,
           \A n \in edited : nodes[n].kind # "Wire",
           tol' = Widened(Grown(S, to), to),
           log' = WithNoted(Noting(edited \cup Grown(S, to))),
           UNCHANGED <<nodes, open, attempts, dead>>
    PROVE  IInv' /\ Loosened
<1> DEFINE changed == edited \cup Grown(S, to)
<1>1. /\ Grown(S, to) \in SUBSET Ids
      /\ \A n \in Grown(S, to) : nodes[n].kind # "Wire"
      /\ tol' \in [Ids -> Tolerances \cup {NoTolerance}]
      /\ \A n \in Ids : tol'[n] = NoTolerance <=> nodes[n].kind = "Wire"
      /\ \A n \in Ids : tol[n] <= tol'[n]
      /\ \A n \in Ids \ Grown(S, to) : tol'[n] = tol[n]
      /\ ContainedIn(tol', Live)
  <2>1. TypeOK /\ Stratified /\ Contained
    BY DEF IInv
  <2> DEFINE w == Widened(Grown(S, to), to)
  <2>2. /\ Grown(S, to) \in SUBSET Ids
        /\ \A n \in Grown(S, to) : nodes[n].kind # "Wire"
        /\ w \in [Ids -> Tolerances \cup {NoTolerance}]
        /\ \A n \in Ids : w[n] = NoTolerance <=> nodes[n].kind = "Wire"
        /\ \A n \in Ids : tol[n] <= w[n]
        /\ \A n \in Ids \ Grown(S, to) : w[n] = tol[n]
        /\ ContainedIn(w, Live)
    BY <2>1, WideningContains
  <2>3. tol' = w
    OBVIOUS
  <2> HIDE DEF w
  <2> QED BY <2>2, <2>3
<1>2. Ids' = Ids /\ Live' = Live
  BY DEF Ids, Live
<1>3. Kept(changed)
  BY <1>1, <1>2 DEF Kept, IInv, TypeOK
<1> HIDE DEF changed
<1>4. /\ log' \in Seq(Noted')
      /\ (~open => log = <<>>)'
      /\ NotedNodes'
  BY <1>3, NotesWell
<1>5. /\ attempts' \in Seq(Attempt')
      /\ dead' \in SUBSET Ids'
      /\ OpenWhileAttempting'
      /\ MarksInOrder'
      /\ SavedContained'
      /\ \A k \in DOMAIN attempts : SavedBy(attempts[k])' = SavedBy(attempts[k])
  BY <1>3, KeptAttempts
<1>6. TypeOK'
  BY <1>1, <1>2, <1>4, <1>5 DEF IInv, TypeOK
<1>7. Contained'
  BY <1>1, <1>2 DEF Contained, ContainedIn, OfKind, Holds
<1>8. Stratified'
  BY <1>2 DEF IInv, Stratified
<1>9. Loosened
  BY <1>1, <1>2, <1>5 DEF Loosened
<1> QED BY <1>4, <1>5, <1>6, <1>7, <1>8, <1>9 DEF IInv

LEMMA WidenStep ==
    ASSUME IInv, NEW n \in Live, NEW to \in Tolerances, Widen(n, to)
    PROVE  IInv' /\ Loosened
<1>1. {n} \in SUBSET Ids
  BY DEF Live
<1>2. {} \cup Grown({n}, to) = Grown({n}, to)
  OBVIOUS
<1>3. /\ tol' = Widened(Grown({n}, to), to)
      /\ log' = WithNoted(Noting({} \cup Grown({n}, to)))
      /\ UNCHANGED <<nodes, open, attempts, dead>>
  BY <1>2 DEF Widen, WidenBelow
<1>4. {} \in SUBSET Ids /\ \A m \in {} : nodes[m].kind # "Wire"
  OBVIOUS
<1> QED BY <1>1, <1>3, <1>4, LoosenStep

LEMMA NodeMutStep ==
    ASSUME IInv, NEW n \in Live, NEW to \in Tolerances, NodeMut(n, to)
    PROVE  IInv' /\ Loosened
<1>1. {n} \in SUBSET Ids
  BY DEF Live
<1>2. nodes[n].kind # "Wire"
  BY <1>1 DEF NodeMut, IInv, TypeOK
<1>3. /\ tol' = Widened(Grown({n}, to), to)
      /\ log' = WithNoted(Noting({n} \cup Grown({n}, to)))
      /\ UNCHANGED <<nodes, open, attempts, dead>>
  BY DEF NodeMut
<1>4. \A m \in {n} : nodes[m].kind # "Wire"
  BY <1>2
<1> QED BY <1>1, <1>3, <1>4, LoosenStep

(* A node is added over nodes of the kind below its own, and what it       *)
(* bounds is made as loose as it first.                                    *)
LEMMA AddStep ==
    ASSUME IInv, NEW kind \in Kinds, NEW children \in SUBSET Live, NEW own,
           NEW bounding \in SUBSET Ids, Add(kind, children, own, bounding),
           own \in Tolerances \cup {NoTolerance},
           own = NoTolerance <=> kind = "Wire",
           \A c \in children : <<kind, nodes[c].kind>> \in Over,
           kind = "Edge" => children \subseteq bounding,
           kind = "Face" => \A e \in Holds(children) : e \in bounding \/ own <= tol[e]
    PROVE  IInv' /\ Loosened
<1> DEFINE G == Grown(bounding, own)
           w == Widened(G, own)
           new == Len(nodes) + 1
           changed == G
<1>1. /\ G \in SUBSET Ids
      /\ \A n \in G : nodes[n].kind # "Wire"
      /\ w \in [Ids -> Tolerances \cup {NoTolerance}]
      /\ \A n \in Ids : w[n] = NoTolerance <=> nodes[n].kind = "Wire"
      /\ \A n \in Ids : tol[n] <= w[n]
      /\ \A n \in Ids \ G : w[n] = tol[n]
      /\ ContainedIn(w, Live)
      /\ \A n \in bounding : nodes[n].kind # "Wire" => own <= w[n]
  <2>1. CASE own \in Tolerances
    BY <2>1, WideningContains, BelowIsClosed DEF IInv
  <2>2. CASE own = NoTolerance
    <3>1. \A n \in Ids : tol[n] \in Nat
      BY TypeFacts DEF IInv
    <3>2. Below(bounding) \subseteq Ids
      BY BelowIsClosed DEF IInv
    <3>3. G = {}
      BY <2>2, <3>1, <3>2 DEF Grown, NoTolerance
    <3>4. tol = [n \in Ids |-> tol[n]]
      BY DEF IInv, TypeOK
    <3>5. w = tol
      BY <3>3, <3>4 DEF Widened
    <3>6. \A n \in Ids : own <= tol[n] /\ tol[n] <= tol[n]
      BY <2>2, <3>1 DEF NoTolerance
    <3>7. ContainedIn(tol, Live)
      BY ContainedIsIn DEF IInv
    <3> HIDE DEF G, w
    <3> QED BY <3>3, <3>5, <3>6, <3>7 DEF IInv, TypeOK
  <2> QED BY <2>1, <2>2
<1>2. /\ Len(nodes) \in Nat /\ Ids = 1..Len(nodes)
      /\ nodes \in Seq(Node)
  BY TypeFacts DEF IInv, TypeOK
<1>3. /\ nodes' = Append(nodes, [kind |-> kind, children |-> children])
      /\ tol' = Append(w, own)
      /\ log' = WithNoted(Noting(G))
      /\ UNCHANGED <<open, attempts, dead>>
  BY DEF Add
<1> HIDE DEF G, w
<1>4. [kind |-> kind, children |-> children] \in Node
  <2>1. children \in SUBSET Nat
    BY <1>2 DEF Live
  <2> QED BY <2>1 DEF Node
<1>5. /\ nodes' \in Seq(Node) /\ Ids' = 1..new
      /\ \A n \in Ids : nodes'[n] = nodes[n]
      /\ nodes'[new] = [kind |-> kind, children |-> children]
  BY <1>2, <1>3, <1>4 DEF Ids
<1>6. /\ tol' \in [1..new -> Tolerances \cup {NoTolerance}]
      /\ \A n \in Ids : tol'[n] = w[n]
      /\ tol'[new] = own
  <2> DEFINE Values == Tolerances \cup {NoTolerance}
  <2>1. w \in [1..Len(nodes) -> Values] /\ own \in Values
    BY <1>1, <1>2
  <2> HIDE DEF Values
  <2>2. w \in Seq(Values) /\ Len(w) = Len(nodes)
    BY <1>2, <2>1
  <2>3. /\ Append(w, own) \in [1..new -> Values]
        /\ \A n \in 1..Len(nodes) : Append(w, own)[n] = w[n]
        /\ Append(w, own)[new] = own
    <3>1. Append(w, own) \in Seq(Values) /\ Len(Append(w, own)) = new
      BY <2>1, <2>2
    <3>2. /\ \A n \in 1..Len(w) : Append(w, own)[n] = w[n]
          /\ Append(w, own)[Len(w) + 1] = own
      BY <2>1, <2>2
    <3>3. Append(w, own) \in [1..new -> Values]
      <4> DEFINE u == Append(w, own)
      <4>1. u \in Seq(Values) /\ Len(u) = new
        BY <3>1
      <4> HIDE DEF u
      <4>2. u \in [1..Len(u) -> Values]
        BY <4>1
      <4> QED BY <4>1, <4>2 DEF u
    <3> QED BY <2>2, <3>2, <3>3
  <2> QED BY <1>2, <1>3, <2>3 DEF Values
<1>7. Ids \subseteq Ids' /\ Ids' = Ids \cup {new} /\ new \notin Ids
  BY <1>2, <1>5
<1>8. Kept(G)
  BY <1>1, <1>3, <1>5, <1>6, <1>7 DEF Kept
<1>9. /\ log' \in Seq(Noted')
      /\ (~open => log = <<>>)'
      /\ NotedNodes'
  BY <1>8, NotesWell
<1>10. /\ attempts' \in Seq(Attempt')
       /\ dead' \in SUBSET Ids'
       /\ OpenWhileAttempting'
       /\ MarksInOrder'
       /\ SavedContained'
       /\ \A k \in DOMAIN attempts : SavedBy(attempts[k])' = SavedBy(attempts[k])
  BY <1>8, KeptAttempts
<1>11. TypeOK'
  <2>1. \A n \in Ids' : tol'[n] = NoTolerance <=> nodes'[n].kind = "Wire"
    <3> TAKE n \in Ids'
    <3>1. CASE n \in Ids
      BY <1>1, <1>5, <1>6, <3>1
    <3>2. CASE n = new
      BY <1>5, <1>6, <3>2
    <3> QED BY <1>7, <3>1, <3>2
  <2>2. tol' \in [Ids' -> Tolerances \cup {NoTolerance}]
    BY <1>5, <1>6
  <2>3. open' \in BOOLEAN
    BY <1>3 DEF IInv, TypeOK
  <2> QED BY <1>5, <1>9, <1>10, <2>1, <2>2, <2>3 DEF TypeOK
<1>12. Stratified'
  <2> SUFFICES ASSUME NEW n \in Ids', NEW c \in nodes'[n].children
               PROVE  /\ c \in 1..(n - 1)
                      /\ <<nodes'[n].kind, nodes'[c].kind>> \in Over
    BY DEF Stratified
  <2>1. CASE n \in Ids
    BY <1>5, <2>1, ChildFacts DEF IInv, Stratified
  <2>2. CASE n = new
    <3>1. c \in Ids /\ c \in children
      BY <1>5, <2>2 DEF Live
    <3> QED BY <1>2, <1>5, <2>2, <3>1
  <2> QED BY <1>7, <2>1, <2>2
<1>13. Contained'
  <2>1. Live' = Live \cup {new}
    BY <1>3, <1>7 DEF Live, IInv, TypeOK
  <2>2. \A h \in Ids : \A c \in nodes[h].children : c \in Ids
    BY ChildFacts DEF IInv
  <2>3. \A T \in SUBSET Ids : Holds(T)' = Holds(T) /\ Holds(T) \in SUBSET Ids
    BY <1>5, <2>2 DEF Holds
  <2> SUFFICES ASSUME NEW n \in Live'
               PROVE  /\ nodes'[n].kind = "Edge" =>
                            \A v \in nodes'[n].children : tol'[n] <= tol'[v]
                      /\ nodes'[n].kind = "Face" =>
                            \A e \in Holds(nodes[n].children)' : tol'[n] <= tol'[e]
    BY DEF Contained, OfKind
  <2>4. CASE n \in Live
    <3>1. n \in Ids /\ nodes'[n] = nodes[n] /\ tol'[n] = w[n]
      BY <1>5, <1>6, <2>4 DEF Live
    <3>2. \A v \in nodes[n].children : v \in Ids /\ tol'[v] = w[v]
      BY <1>6, <2>2, <3>1
    <3>3. nodes[n].children \in SUBSET Ids
      BY <2>2, <3>1
    <3>4. \A e \in Holds(nodes[n].children) : tol'[e] = w[e]
      BY <1>6, <2>3, <3>3
    <3>5. Holds(nodes[n].children)' = Holds(nodes[n].children)
      BY <2>3, <3>1, <3>3 DEF Holds
    <3> QED BY <1>1, <2>4, <3>1, <3>2, <3>4, <3>5 DEF ContainedIn
  <2>5. CASE n = new
    <3>1. nodes'[n].kind = kind /\ nodes'[n].children = children /\ tol'[n] = own
      BY <1>5, <1>6, <2>5
    <3>2. children \in SUBSET Ids
      BY DEF Live
    <3>3. Holds(nodes[n].children)' = Holds(children)
      BY <2>3, <3>1, <3>2 DEF Holds
    <3>4. ASSUME kind = "Edge", NEW v \in children PROVE own <= tol'[v]
      <4>1. v \in Ids /\ v \in bounding /\ nodes[v].kind # "Wire"
        BY <3>2, <3>4 DEF Over
      <4> QED BY <1>1, <1>6, <4>1
    <3>5. ASSUME kind = "Face", NEW e \in Holds(children) PROVE own <= tol'[e]
      <4>1. PICK h \in children : e \in nodes[h].children
        BY DEF Holds
      <4>2. nodes[h].kind = "Wire" /\ h \in Ids
        BY <3>2, <3>5 DEF Over
      <4>3. e \in Ids /\ nodes[e].kind # "Wire"
        BY <4>1, <4>2, ChildFacts DEF IInv, Over
      <4>4. tol[e] \in Nat /\ own \in Nat /\ w[e] \in Nat
        BY <1>1, <4>3, TypeFacts DEF IInv, NoTolerance
      <4>5. own <= w[e]
        BY <1>1, <3>5, <4>3, <4>4
      <4> QED BY <1>6, <4>3, <4>5
    <3> QED BY <3>1, <3>3, <3>4, <3>5
  <2> QED BY <2>1, <2>4, <2>5
<1>14. \A n \in Ids : tol[n] <= tol'[n]
  BY <1>1, <1>6
<1>15. Loosened
  BY <1>3, <1>7, <1>10, <1>14 DEF Loosened
<1> QED BY <1>9, <1>10, <1>11, <1>12, <1>13, <1>15 DEF IInv

-----------------------------------------------------------------------------
(* The ends of attempts.                                                   *)

Saved == [k \in DOMAIN attempts |-> SavedBy(attempts[k])]

(* An attempt begins with the tolerances as they stand.                    *)
LEMMA BeginStep ==
    ASSUME IInv, Begin
    PROVE  IInv' /\ tol' = tol /\ Saved' = Append(Saved, tol)
<1> DEFINE last == Len(attempts) + 1
           begun == [mark |-> Mark, made |-> Len(nodes)]
<1>1. /\ Len(nodes) \in Nat /\ Ids = 1..Len(nodes)
      /\ Len(log) \in Nat
      /\ Len(attempts) \in Nat /\ DOMAIN attempts = 1..Len(attempts)
      /\ attempts \in Seq(Attempt)
      /\ \A k \in DOMAIN attempts : attempts[k] \in Attempt
  BY TypeFacts DEF IInv, TypeOK
<1>2. begun \in Attempt
  <2>1. Mark \in [from : 0..Len(log), opened : BOOLEAN]
    BY <1>1 DEF Mark, IInv, TypeOK
  <2> QED BY <1>1, <2>1 DEF Attempt
<1>3. /\ attempts' = Append(attempts, begun)
      /\ UNCHANGED <<nodes, dead, tol, log>>
      /\ open'
  BY DEF Begin, NoteWidened
<1>4. begun.mark.from = Len(log) /\ begun.mark.opened = ~open /\ begun.made = Len(nodes)
  BY DEF Mark
<1> HIDE DEF begun
<1>5. /\ attempts' \in Seq(Attempt)
      /\ DOMAIN attempts' = 1..last
      /\ \A k \in 1..Len(attempts) : attempts'[k] = attempts[k]
      /\ attempts'[last] = begun
      /\ attempts' # <<>>
  BY <1>1, <1>2, <1>3
<1>6. Ids' = Ids /\ Live' = Live
  BY <1>3 DEF Ids, Live
<1>7. TypeOK'
  <2>1. Attempt' = Attempt /\ Noted' = Noted
    BY <1>3, <1>6 DEF Attempt, Noted
  <2> QED BY <1>3, <1>5, <1>6, <2>1 DEF IInv, TypeOK
<1>8. OpenWhileAttempting'
  <2>1. \A k \in 1..last : attempts'[k].mark.opened <=> k = 1
    <3> TAKE k \in 1..last
    <3>1. CASE k = last
      <4>1. begun.mark.opened <=> attempts = <<>>
        BY <1>4 DEF IInv, OpenWhileAttempting
      <4>2. attempts = <<>> <=> Len(attempts) = 0
        BY <1>1
      <4> QED BY <1>1, <1>5, <3>1, <4>1, <4>2
    <3>2. CASE k # last
      <4>1. k \in DOMAIN attempts
        BY <1>1, <3>2
      <4> QED BY <1>1, <1>5, <4>1 DEF IInv, OpenWhileAttempting
    <3> QED BY <3>1, <3>2
  <2> QED BY <1>3, <1>5, <2>1 DEF OpenWhileAttempting
<1>9. MarksInOrder'
  <2> SUFFICES ASSUME NEW j \in 1..last, NEW k \in 1..last, j < k
               PROVE  attempts'[j].mark.from <= attempts'[k].mark.from
    BY <1>5 DEF MarksInOrder
  <2>1. j \in DOMAIN attempts
    BY <1>1
  <2>2. CASE k = last
    <3>1. attempts[j].mark.from \in 0..Len(log)
      BY <1>1, <2>1 DEF Attempt
    <3> QED BY <1>1, <1>4, <1>5, <2>1, <2>2, <3>1
  <2>3. CASE k # last
    <3>1. k \in DOMAIN attempts
      BY <1>1, <2>3
    <3> QED BY <1>1, <1>5, <2>1, <3>1 DEF IInv, MarksInOrder
  <2> QED BY <2>2, <2>3
<1>10. \A from : PutBack(from)' = PutBack(from)
  BY <1>3 DEF PutBack, NotedSince
<1>11. PutBack(Len(log)) = tol
  <2>1. tol = [n \in DOMAIN tol |-> tol[n]]
    BY DEF IInv, TypeOK
  <2>2. \A n : NotedSince(Len(log), n) = {}
    BY <1>1 DEF NotedSince
  <2> QED BY <2>1, <2>2 DEF PutBack
<1>12. SavedContained'
  <2> SUFFICES ASSUME NEW k \in 1..last
               PROVE  ContainedIn(PutBack(attempts[k].mark.from), BegunWith(k))'
    BY <1>5 DEF SavedContained
  <2>1. CASE k = last
    <3>1. PutBack(attempts[k].mark.from)' = tol
      BY <1>3, <1>4, <1>5, <1>11, <2>1 DEF PutBack, NotedSince
    <3>2. BegunWith(k)' \subseteq Live
      BY <1>6 DEF BegunWith
    <3>3. ContainedIn(tol, Live)
      BY ContainedIsIn DEF IInv
    <3> QED BY <1>3, <3>1, <3>2, <3>3 DEF ContainedIn, Holds
  <2>2. CASE k # last
    <3>1. k \in DOMAIN attempts /\ attempts'[k] = attempts[k]
      BY <1>1, <1>5, <2>2
    <3>2. BegunWith(k)' = BegunWith(k)
      BY <1>6, <3>1 DEF BegunWith
    <3>3. PutBack(attempts[k].mark.from)' = PutBack(attempts[k].mark.from)
      BY <1>3, <3>1 DEF PutBack, NotedSince
    <3>4. ContainedIn(PutBack(attempts[k].mark.from), BegunWith(k))
      BY <3>1 DEF IInv, SavedContained
    <3> QED BY <1>3, <3>2, <3>3, <3>4 DEF ContainedIn, Holds
  <2> QED BY <2>1, <2>2
<1>13. Saved' = Append(Saved, tol)
  <2>1. \A k \in 1..Len(attempts) : SavedBy(attempts[k])' = SavedBy(attempts[k])
    BY <1>3, <1>5 DEF SavedBy, PutBack, NotedSince
  <2>2. ASSUME NEW k, k = last PROVE SavedBy(attempts[k])' = tol
    <3>1. attempts'[k] = begun
      BY <1>5, <2>2
    <3>2. PutBack(attempts[k].mark.from)' = tol
      BY <1>3, <1>4, <1>11, <3>1 DEF PutBack, NotedSince
    <3>3. SavedBy(attempts[k])' =
              [n \in 1..attempts'[k].made |-> PutBack(attempts[k].mark.from)'[n]]
      BY DEF SavedBy
    <3>4. SavedBy(attempts[k])' = [n \in 1..Len(nodes) |-> tol[n]]
      BY <1>4, <3>1, <3>2, <3>3
    <3> QED BY <1>1, <3>4 DEF IInv, TypeOK
  <2> DEFINE Values == {SavedBy(attempts[k]) : k \in 1..Len(attempts)} \cup {tol}
  <2>3. Saved \in [1..Len(attempts) -> Values]
    BY <1>1 DEF Saved
  <2>4. \A k \in 1..Len(attempts) : Saved[k] = SavedBy(attempts[k])
    BY <1>1 DEF Saved
  <2>5. Saved' = [k \in 1..last |-> SavedBy(attempts[k])']
    BY <1>5 DEF Saved
  <2>6. tol \in Values
    OBVIOUS
  <2> HIDE DEF Values
  <2>7. Saved \in Seq(Values) /\ Len(Saved) = Len(attempts)
    BY <1>1, <2>3
  <2> DEFINE longer == Append(Saved, tol)
  <2>8. /\ longer \in Seq(Values) /\ Len(longer) = last
        /\ \A k \in 1..Len(attempts) : longer[k] = Saved[k]
        /\ longer[last] = tol
    BY <1>1, <2>6, <2>7
  <2> HIDE DEF longer
  <2>9. longer = [k \in 1..last |-> longer[k]]
    BY <2>8
  <2>10. \A k \in 1..last : longer[k] = SavedBy(attempts[k])'
    <3> TAKE k \in 1..last
    <3>1. CASE k = last
      BY <2>2, <2>8, <3>1
    <3>2. CASE k # last
      <4>1. k \in 1..Len(attempts)
        BY <1>1, <3>2
      <4> QED BY <2>1, <2>4, <2>8, <4>1
    <3> QED BY <3>1, <3>2
  <2> QED BY <2>5, <2>9, <2>10 DEF longer
<1>14. Contained' /\ Stratified' /\ NotedNodes'
  <2>1. Contained' /\ Stratified'
    BY <1>3, <1>6 DEF IInv, Contained, OfKind, Holds, Stratified
  <2>2. NotedNodes'
    BY <1>3, <1>6 DEF IInv, NotedNodes
  <2> QED BY <2>1, <2>2
<1> QED BY <1>3, <1>7, <1>8, <1>9, <1>12, <1>13, <1>14 DEF IInv

(* The attempt that ends is the last one begun, and the first began the    *)
(* journal.                                                                *)
LEMMA Ended ==
    ASSUME IInv, attempts # <<>>, attempts' = WithoutLast
    PROVE  /\ Len(attempts) \in Nat \ {0}
           /\ Len(attempts) \in DOMAIN attempts
           /\ Last \in Attempt
           /\ attempts' \in Seq(Attempt)
           /\ DOMAIN attempts' = 1..(Len(attempts) - 1)
           /\ \A k \in DOMAIN attempts' : k \in DOMAIN attempts /\ attempts'[k] = attempts[k]
           /\ open
           /\ Last.mark.opened <=> Len(attempts) = 1
           /\ Last.mark.opened <=> attempts' = <<>>
<1>1. /\ attempts \in Seq(Attempt)
      /\ Len(attempts) \in Nat /\ DOMAIN attempts = 1..Len(attempts)
  BY TypeFacts DEF IInv, TypeOK
<1>2. Len(attempts) # 0
  BY <1>1
<1>3. Len(attempts) \in DOMAIN attempts /\ Last = attempts[Len(attempts)]
  BY <1>1, <1>2 DEF Last
<1>4. /\ attempts' \in Seq(Attempt)
      /\ Len(attempts') = Len(attempts) - 1
      /\ DOMAIN attempts' = 1..(Len(attempts) - 1)
      /\ \A k \in 1..(Len(attempts) - 1) : attempts'[k] = attempts[k]
  BY <1>1, <1>2 DEF WithoutLast
<1>5. attempts' = <<>> <=> Len(attempts) = 1
  BY <1>1, <1>4
<1>6. open /\ (Last.mark.opened <=> Len(attempts) = 1)
  BY <1>3 DEF IInv, OpenWhileAttempting
<1> QED BY <1>1, <1>2, <1>3, <1>4, <1>5, <1>6

(* With it goes the last of what is saved.                                 *)
LEMMA SavedShorter ==
    ASSUME IInv, attempts # <<>>, attempts' = WithoutLast,
           \A k \in DOMAIN attempts' : SavedBy(attempts[k])' = SavedBy(attempts[k])
    PROVE  /\ Saved # <<>>
           /\ Len(Saved) = Len(attempts)
           /\ Saved[Len(attempts)] = SavedBy(Last)
           /\ Saved' = SubSeq(Saved, 1, Len(Saved) - 1)
<1> DEFINE Values == {SavedBy(attempts[k]) : k \in DOMAIN attempts}
           n == Len(attempts)
<1>1. /\ n \in Nat \ {0} /\ DOMAIN attempts = 1..n
      /\ DOMAIN attempts' = 1..(n - 1)
  BY Ended, TypeFacts DEF IInv
<1>2. /\ Saved \in [1..n -> Values]
      /\ \A k \in 1..n : Saved[k] = SavedBy(attempts[k])
  BY <1>1 DEF Saved
<1> HIDE DEF Values
<1>3. Saved \in Seq(Values) /\ Len(Saved) = n
  BY <1>1, <1>2
<1>4. Saved[n] = SavedBy(Last)
  BY <1>1, <1>2 DEF Last
<1>5. Saved # <<>>
  BY <1>1, <1>3
<1> DEFINE shorter == SubSeq(Saved, 1, n - 1)
<1>6. /\ shorter \in Seq(Values) /\ Len(shorter) = n - 1
      /\ \A k \in 1..(n - 1) : shorter[k] = Saved[k]
  BY <1>1, <1>3
<1> HIDE DEF shorter
<1>7. shorter = [k \in 1..(n - 1) |-> shorter[k]]
  BY <1>6
<1>8. Saved' = [k \in 1..(n - 1) |-> SavedBy(attempts[k])']
  BY <1>1 DEF Saved
<1>9. \A k \in 1..(n - 1) : shorter[k] = SavedBy(attempts[k])'
  BY <1>1, <1>2, <1>6, SMTT(30)
<1>10. Saved' = shorter
  BY <1>7, <1>8, <1>9
<1> QED BY <1>3, <1>4, <1>5, <1>10 DEF shorter

(* What an attempt kept leaves: the tolerances, and what it noted unless   *)
(* it began the journal.                                                   *)
LEMMA KeepStep ==
    ASSUME IInv, Keep
    PROVE  /\ IInv'
           /\ tol' = tol
           /\ Saved # <<>>
           /\ Saved' = SubSeq(Saved, 1, Len(Saved) - 1)
<1>1. /\ attempts # <<>> /\ attempts' = WithoutLast
      /\ UNCHANGED <<nodes, dead, tol>>
      /\ IF Last.mark.opened
         THEN open' = FALSE /\ log' = <<>>
         ELSE UNCHANGED <<open, log>>
  BY DEF Keep, KeepWidened
<1>2. /\ attempts' \in Seq(Attempt)
      /\ \A k \in DOMAIN attempts' : k \in DOMAIN attempts /\ attempts'[k] = attempts[k]
      /\ open
      /\ Last.mark.opened <=> attempts' = <<>>
  BY <1>1, Ended
<1>3. Ids' = Ids /\ Live' = Live
  BY <1>1 DEF Ids, Live
<1>4. OpenWhileAttempting'
  BY <1>1, <1>2 DEF IInv, OpenWhileAttempting
<1>5. MarksInOrder'
  BY <1>2 DEF IInv, MarksInOrder
<1>6. Contained' /\ Stratified'
  BY <1>1, <1>3 DEF IInv, Contained, OfKind, Holds, Stratified
<1>7. CASE Last.mark.opened
  <2>1. log' = <<>> /\ attempts' = <<>> /\ Len(log') = 0 /\ DOMAIN log' = {}
        /\ DOMAIN attempts' = {}
    BY <1>1, <1>2, <1>7
  <2>2. TypeOK'
    <3>1. log' \in Seq(Noted') /\ attempts' \in Seq(Attempt')
      BY <2>1
    <3> QED BY <1>1, <1>3, <1>7, <2>1, <3>1 DEF IInv, TypeOK
  <2>3. NotedNodes' /\ SavedContained'
    BY <2>1 DEF NotedNodes, SavedContained
  <2>5. \A k \in DOMAIN attempts' : SavedBy(attempts[k])' = SavedBy(attempts[k])
    BY <2>1
  <2> QED BY <1>1, <1>4, <1>5, <1>6, <2>2, <2>3, <2>5, SavedShorter DEF IInv
<1>8. CASE ~Last.mark.opened
  <2>1. UNCHANGED <<open, log, tol, nodes, dead>>
    BY <1>1, <1>8
  <2>2. TypeOK'
    <3>1. Attempt' = Attempt /\ Noted' = Noted
      BY <2>1, <1>3 DEF Attempt, Noted
    <3> QED BY <1>2, <1>3, <2>1, <3>1 DEF IInv, TypeOK
  <2>3. NotedNodes'
    BY <1>3, <2>1 DEF IInv, NotedNodes
  <2>4. ASSUME NEW k \in DOMAIN attempts'
        PROVE  /\ PutBack(attempts[k].mark.from)' = PutBack(attempts[k].mark.from)
               /\ SavedBy(attempts[k])' = SavedBy(attempts[k])
               /\ BegunWith(k)' = BegunWith(k)
               /\ ContainedIn(PutBack(attempts[k].mark.from), BegunWith(k))
    <3>1. k \in DOMAIN attempts /\ attempts'[k] = attempts[k]
      BY <1>2
    <3>2. PutBack(attempts[k].mark.from)' = PutBack(attempts[k].mark.from)
      BY <2>1, <3>1 DEF PutBack, NotedSince
    <3>3. SavedBy(attempts[k])' = SavedBy(attempts[k])
      BY <3>1, <3>2 DEF SavedBy
    <3> QED BY <1>3, <3>1, <3>2, <3>3 DEF BegunWith, IInv, SavedContained
  <2>5. SavedContained'
    <3> SUFFICES ASSUME NEW k \in DOMAIN attempts'
                 PROVE  ContainedIn(PutBack(attempts[k].mark.from), BegunWith(k))'
      BY DEF SavedContained
    <3> QED BY <2>1, <2>4 DEF ContainedIn, Holds
  <2> QED BY <1>1, <1>4, <1>5, <1>6, <2>1, <2>2, <2>3, <2>4, <2>5, SavedShorter DEF IInv
<1> QED BY <1>7, <1>8

(* What an attempt undone leaves: to every node it was begun with, the     *)
(* tolerance it had then.                                                  *)
LEMMA UndoStep ==
    ASSUME IInv, Undo
    PROVE  /\ IInv'
           /\ DOMAIN tol' = DOMAIN tol
           /\ Saved # <<>>
           /\ Saved' = SubSeq(Saved, 1, Len(Saved) - 1)
           /\ \A n \in DOMAIN Saved[Len(Saved)] : tol'[n] = Saved[Len(Saved)][n]
<1> DEFINE end == Last.mark.from
           made == Last.made
<1>1. /\ attempts # <<>> /\ attempts' = WithoutLast
      /\ UndoWidened(Last.mark)
      /\ dead' = dead \cup (made + 1)..Len(nodes)
      /\ nodes' = nodes
  BY DEF Undo
<1>2. /\ Len(attempts) \in DOMAIN attempts
      /\ Last \in Attempt
      /\ attempts' \in Seq(Attempt)
      /\ DOMAIN attempts' = 1..(Len(attempts) - 1)
      /\ \A k \in DOMAIN attempts' : k \in DOMAIN attempts /\ attempts'[k] = attempts[k]
      /\ open
      /\ Last.mark.opened <=> attempts' = <<>>
  BY <1>1, Ended
<1>3. /\ Len(nodes) \in Nat /\ Ids = 1..Len(nodes) /\ DOMAIN tol = Ids
      /\ log \in Seq(Noted) /\ Len(log) \in Nat /\ DOMAIN log = 1..Len(log)
      /\ Len(attempts) \in Nat
      /\ \A k \in DOMAIN attempts : attempts[k] \in Attempt
  BY TypeFacts DEF IInv, TypeOK
<1>4. end \in 0..Len(log) /\ made \in 0..Len(nodes)
  BY <1>2 DEF Attempt
<1>5. CutAt(Last.mark) = end
  BY <1>3, <1>4 DEF CutAt
<1>6. /\ tol' = PutBack(end)
      /\ open' = ~Last.mark.opened
      /\ log' = IF Last.mark.opened THEN <<>> ELSE SubSeq(log, 1, end)
  BY <1>1, <1>2, <1>5 DEF UndoWidened
<1>7. Last = attempts[Len(attempts)]
  BY DEF Last
<1> DEFINE t == tol'
<1>8. DOMAIN t = Ids /\ \A n \in Ids : t[n] = Restored(log, tol, end, n)
  BY <1>3, <1>6, PutBackIs DEF PutBack
<1>9. Ids' = Ids /\ Live' = Live \ (made + 1)..Len(nodes)
  BY <1>1 DEF Ids, Live
<1>10. ContainedIn(PutBack(end), Live \cap 1..made)
  BY <1>2, <1>7 DEF IInv, SavedContained, BegunWith
<1>11. Live' \subseteq Live \cap 1..made
  <2>1. \A n \in Live' : n \in 1..Len(nodes) /\ n \in Live /\ n \notin (made + 1)..Len(nodes)
    BY <1>3, <1>9 DEF Live
  <2>2. \A n \in Live' : n \in 1..made
    BY <1>3, <1>4, <2>1
  <2> QED BY <2>1, <2>2
<1>12. Contained'
  BY <1>1, <1>6, <1>9, <1>10, <1>11 DEF Contained, ContainedIn, OfKind, Holds
<1> HIDE DEF end, made, t
<1>13. \A n \in Ids : /\ t[n] \in Tolerances \cup {NoTolerance}
                      /\ t[n] = NoTolerance <=> nodes[n].kind = "Wire"
  <2> TAKE n \in Ids
  <2>1. CASE Since(log, end, n) = {}
    <3>1. t[n] = tol[n]
      BY <1>8, <2>1 DEF Restored
    <3> QED BY <3>1 DEF IInv, TypeOK
  <2>2. CASE Since(log, end, n) # {}
    <3>2. PICK i \in Since(log, end, n) : \A j \in Since(log, end, n) : i <= j
      BY <1>3, <1>4, <2>2, FirstNoted
    <3>3. t[n] = log[i][n]
      BY <1>3, <1>4, <1>8, <3>2, RestoredFirst
    <3>4. i \in DOMAIN log /\ n \in DOMAIN log[i]
      BY <1>3, <1>4 DEF Since
    <3>5. log[i] \in Noted
      BY <1>3, <3>4
    <3>6. log[i][n] \in Tolerances
      BY <3>4, <3>5 DEF Noted
    <3>7. nodes[n].kind # "Wire"
      BY <3>4 DEF IInv, NotedNodes
    <3>8. log[i][n] # NoTolerance
      BY <3>6, TypeFacts DEF NoTolerance, IInv
    <3> QED BY <3>3, <3>6, <3>7, <3>8
  <2> QED BY <2>1, <2>2
<1>14. t \in [Ids -> Tolerances \cup {NoTolerance}]
  <2>1. PutBack(end) = [n \in Ids |-> PutBack(end)[n]]
    BY <1>3 DEF PutBack
  <2> QED BY <1>6, <1>13, <2>1 DEF t
<1>15. dead' \in SUBSET Ids'
  <2>1. dead \subseteq Ids
    BY DEF IInv, TypeOK
  <2>2. dead' = dead \cup (made + 1)..Len(nodes)
    BY <1>1 DEF made
  <2>3. (made + 1)..Len(nodes) \subseteq Ids
    BY <1>3, <1>4
  <2> QED BY <1>9, <2>1, <2>2, <2>3
<1>16. OpenWhileAttempting'
  BY <1>2, <1>6 DEF IInv, OpenWhileAttempting
<1>17. MarksInOrder'
  BY <1>2 DEF IInv, MarksInOrder
<1>18. Stratified'
  BY <1>1, <1>9 DEF IInv, Stratified
<1>19. DOMAIN SavedBy(Last) = 1..made /\ \A n \in 1..made : tol'[n] = SavedBy(Last)[n]
  BY <1>6 DEF SavedBy, made, end
<1>20. CASE Last.mark.opened
  <2>1. log' = <<>> /\ attempts' = <<>> /\ Len(log') = 0 /\ DOMAIN log' = {}
        /\ DOMAIN attempts' = {} /\ ~open'
    <3>1. log' = <<>> /\ attempts' = <<>> /\ ~open'
      BY <1>2, <1>6, <1>20
    <3> QED BY <3>1
  <2>2. TypeOK'
    <3>1. log' \in Seq(Noted') /\ attempts' \in Seq(Attempt') /\ open' \in BOOLEAN
      BY <2>1, <1>6, <1>20
    <3> QED BY <1>1, <1>9, <1>13, <1>14, <1>15, <2>1, <3>1 DEF IInv, TypeOK, t
  <2>3. NotedNodes' /\ SavedContained'
    BY <2>1 DEF NotedNodes, SavedContained
  <2>5. \A k \in DOMAIN attempts' : SavedBy(attempts[k])' = SavedBy(attempts[k])
    BY <2>1
  <2> QED BY <1>1, <1>8, <1>3, <1>12, <1>16, <1>17, <1>18, <1>19,
             <2>2, <2>3, <2>5, SavedShorter DEF IInv, t
<1>21. CASE ~Last.mark.opened
  <2>1. log' = SubSeq(log, 1, end) /\ open'
    BY <1>6, <1>21
  <2>2. /\ log' \in Seq(Noted) /\ Len(log') = end /\ DOMAIN log' = 1..end
        /\ \A i \in 1..end : i \in DOMAIN log /\ log'[i] = log[i]
    BY <1>3, <1>4, <2>1
  <2>3. \A k \in DOMAIN attempts' :
            /\ attempts'[k].mark.from \in 0..end
            /\ attempts[k].mark.from = attempts'[k].mark.from
            /\ attempts[k].made \in 0..Len(nodes)
    <3> TAKE k \in DOMAIN attempts'
    <3>1. k \in DOMAIN attempts /\ attempts'[k] = attempts[k] /\ k < Len(attempts)
      BY <1>2, <1>3
    <3>2. attempts[k].mark.from <= end
      BY <1>2, <1>7, <3>1 DEF IInv, MarksInOrder, end
    <3>3. attempts[k].mark.from \in 0..Len(log) /\ attempts[k].made \in 0..Len(nodes)
      BY <1>3, <3>1 DEF Attempt
    <3> QED BY <1>3, <1>4, <3>1, <3>2, <3>3
  <2>4. attempts' \in Seq(Attempt')
    <3>1. \A k \in DOMAIN attempts' : attempts'[k] \in Attempt'
      <4> TAKE k \in DOMAIN attempts'
      <4>1. attempts'[k] \in Attempt /\ attempts'[k].mark.from \in 0..Len(log')
        BY <1>2, <1>3, <2>2, <2>3
      <4> QED BY <1>1, <4>1 DEF Attempt
    <3>2. Len(attempts') \in Nat /\ DOMAIN attempts' = 1..Len(attempts')
          /\ attempts' = [k \in 1..Len(attempts') |-> attempts'[k]]
      BY <1>2
    <3>3. attempts' \in [1..Len(attempts') -> Attempt']
      BY <3>1, <3>2
    <3> QED BY <3>2, <3>3
  <2>5. Noted' = Noted
    BY <1>9 DEF Noted
  <2>6. TypeOK'
    <3>1. log' \in Seq(Noted') /\ open' \in BOOLEAN
      BY <2>1, <2>2, <2>5, <1>6
    <3>2. nodes' \in Seq(Node)
      BY <1>1 DEF IInv, TypeOK
    <3>3. /\ tol' \in [Ids' -> Tolerances \cup {NoTolerance}]
          /\ \A n \in Ids' : tol'[n] = NoTolerance <=> nodes'[n].kind = "Wire"
      BY <1>1, <1>9, <1>13, <1>14 DEF t
    <3> QED BY <1>15, <2>1, <2>4, <3>1, <3>2, <3>3 DEF TypeOK
  <2>7. NotedNodes'
    BY <1>1, <1>9, <2>2 DEF IInv, NotedNodes
  <2>9. ASSUME NEW k \in DOMAIN attempts', NEW n \in Ids
        PROVE  PutBack(attempts[k].mark.from)'[n] = PutBack(attempts[k].mark.from)[n]
    <3> DEFINE from == attempts[k].mark.from
    <3>1. from \in 0..end /\ from' = from
      BY <2>3
    <3>2. PutBack(from)'[n] = Restored(log', tol', from, n)
      BY <1>8, <3>1 DEF PutBack, Restored, NotedSince, Since, t
    <3>3. PutBack(from)[n] = Restored(log, tol, from, n)
      BY <1>3, PutBackIs
    <3>4. n \in Nat /\ from \in 0..Len(log)
      BY <1>3, <1>4, <3>1
    <3> HIDE DEF from
    <3>6. tol'[n] = Restored(log, tol, end, n)
      BY <1>8 DEF t
    <3>7. Restored(SubSeq(log, 1, end), tol', from, n) = Restored(log, tol, from, n)
      BY <1>3, <1>4, <3>1, <3>6, RestoredAfterCut
    <3> QED BY <2>1, <3>2, <3>3, <3>7 DEF from
  <2>10. ASSUME NEW k \in DOMAIN attempts'
         PROVE  SavedBy(attempts[k])' = SavedBy(attempts[k])
    <3>1. attempts'[k] = attempts[k]
      BY <1>2
    <3>2. \A n \in 1..attempts[k].made : n \in Ids
      BY <1>3, <2>3
    <3> QED BY <2>9, <3>1, <3>2 DEF SavedBy
  <2>11. SavedContained'
    <3> SUFFICES ASSUME NEW k \in DOMAIN attempts'
                 PROVE  ContainedIn(PutBack(attempts[k].mark.from), BegunWith(k))'
      BY DEF SavedContained
    <3> DEFINE b == PutBack(attempts[k].mark.from)
    <3>1. k \in DOMAIN attempts /\ attempts'[k] = attempts[k]
      BY <1>2
    <3>2. \A n \in Ids : b'[n] = b[n]
      BY <2>9
    <3>3. ContainedIn(b, BegunWith(k))
      BY <3>1 DEF IInv, SavedContained
    <3>4. BegunWith(k)' \subseteq BegunWith(k) /\ BegunWith(k) \subseteq Ids
      BY <1>9, <3>1 DEF BegunWith, Live
    <3>5. \A n \in Ids : \A c \in nodes[n].children : c \in Ids
      BY ChildFacts DEF IInv
    <3> HIDE DEF b
    <3> SUFFICES ASSUME NEW n \in BegunWith(k)'
                 PROVE  /\ nodes[n].kind = "Edge" =>
                              \A v \in nodes[n].children : b'[n] <= b'[v]
                        /\ nodes[n].kind = "Face" =>
                              \A e \in Holds(nodes[n].children) : b'[n] <= b'[e]
      BY <1>1 DEF ContainedIn, Holds, b
    <3>6. n \in BegunWith(k) /\ n \in Ids
      BY <3>4
    <3>7. \A e \in Holds(nodes[n].children) : e \in Ids
      BY <3>5, <3>6 DEF Holds
    <3> QED BY <3>2, <3>3, <3>5, <3>6, <3>7 DEF ContainedIn
  <2> QED BY <1>1, <1>8, <1>3, <1>12, <1>16, <1>17, <1>18, <1>19,
             <2>6, <2>7, <2>10, <2>11, SavedShorter DEF IInv, t
<1> QED BY <1>20, <1>21

-----------------------------------------------------------------------------
(* The theorems about ModelTolerance.                                      *)

LEMMA InitIsSound == Init => IInv
<1> SUFFICES ASSUME Init PROVE IInv
  OBVIOUS
<1> USE DEF Init
<1>1. /\ DOMAIN nodes = {} /\ DOMAIN log = {} /\ DOMAIN attempts = {} /\ DOMAIN tol = {}
      /\ Len(log) = 0 /\ Len(nodes) = 0
      /\ nodes \in Seq(Node) /\ log \in Seq(Noted) /\ attempts \in Seq(Attempt)
  OBVIOUS
<1>2. TypeOK
  <2>1. tol \in [Ids -> Tolerances \cup {NoTolerance}]
    BY <1>1 DEF Ids
  <2> QED BY <1>1, <2>1 DEF TypeOK, Ids
<1>3. Contained
  BY <1>1 DEF Contained, OfKind, Live, Ids
<1>4. OpenWhileAttempting
  BY <1>1 DEF OpenWhileAttempting
<1>5. Stratified /\ NotedNodes /\ MarksInOrder /\ SavedContained
  BY <1>1 DEF Stratified, NotedNodes, MarksInOrder, SavedContained, Ids
<1> QED BY <1>2, <1>3, <1>4, <1>5 DEF IInv

(* What bounds what: the children each builder is given.                   *)
LEMMA BuilderStep ==
    ASSUME IInv,
           \/ \E own \in Tolerances : AddVertex(own)
           \/ \E own \in Tolerances, ends \in SUBSET OfKind("Vertex") : AddEdge(own, ends)
           \/ \E edges \in SUBSET OfKind("Edge") : AddWire(edges)
           \/ \E own \in Tolerances, wires \in SUBSET OfKind("Wire") : AddFace(own, wires)
    PROVE  IInv' /\ Loosened
<1>1. \A own \in Tolerances : own # NoTolerance /\ own >= MIN
  BY ToleranceAssumption DEF Tolerances, NoTolerance
<1>2. \A kind \in Kinds : OfKind(kind) \subseteq Live
  BY DEF OfKind
<1>3. Live \subseteq Ids
  BY DEF Live
<1>4. ASSUME NEW own \in Tolerances, AddVertex(own) PROVE IInv' /\ Loosened
  <2>1. Add("Vertex", {}, own, {})
    BY <1>4 DEF AddVertex
  <2>2. /\ "Vertex" \in Kinds /\ {} \in SUBSET Live /\ {} \in SUBSET Ids
        /\ own \in Tolerances \cup {NoTolerance}
        /\ own = NoTolerance <=> "Vertex" = "Wire"
        /\ \A c \in {} : <<"Vertex", nodes[c].kind>> \in Over
    BY <1>1 DEF Kinds
  <2> QED BY <2>1, <2>2, AddStep
<1>5. ASSUME NEW own \in Tolerances, NEW ends \in SUBSET OfKind("Vertex"),
             AddEdge(own, ends)
      PROVE  IInv' /\ Loosened
  <2>1. Add("Edge", ends, own, ends)
    BY <1>5 DEF AddEdge
  <2>2. ends \in SUBSET Live /\ ends \in SUBSET Ids
    BY <1>2, <1>3 DEF Kinds
  <2>3. \A c \in ends : <<"Edge", nodes[c].kind>> \in Over
    BY DEF OfKind, Over
  <2>4. /\ "Edge" \in Kinds
        /\ own \in Tolerances \cup {NoTolerance}
        /\ own = NoTolerance <=> "Edge" = "Wire"
    BY <1>1 DEF Kinds
  <2> QED BY <2>1, <2>2, <2>3, <2>4, AddStep
<1>6. ASSUME NEW edges \in SUBSET OfKind("Edge"), AddWire(edges)
      PROVE  IInv' /\ Loosened
  <2>1. Add("Wire", edges, NoTolerance, {})
    BY <1>6 DEF AddWire
  <2>2. edges \in SUBSET Live /\ {} \in SUBSET Ids
    BY <1>2 DEF Kinds
  <2>3. \A c \in edges : <<"Wire", nodes[c].kind>> \in Over
    BY DEF OfKind, Over
  <2>4. "Wire" \in Kinds /\ NoTolerance \in Tolerances \cup {NoTolerance}
    BY DEF Kinds
  <2> QED BY <2>1, <2>2, <2>3, <2>4, AddStep
<1>7. ASSUME NEW own \in Tolerances, NEW wires \in SUBSET OfKind("Wire"),
             AddFace(own, wires)
      PROVE  IInv' /\ Loosened
  <2> DEFINE bounding == IF own > MIN THEN Holds(wires) ELSE {}
  <2>1. Add("Face", wires, own, bounding)
    BY <1>7 DEF AddFace
  <2>2. wires \in SUBSET Live
    BY <1>2 DEF Kinds
  <2>3. \A c \in wires : <<"Face", nodes[c].kind>> \in Over
    BY DEF OfKind, Over
  <2>4. \A e \in Holds(wires) : e \in Ids /\ nodes[e].kind = "Edge"
    <3> TAKE e \in Holds(wires)
    <3>1. PICK h \in wires : e \in nodes[h].children
      BY DEF Holds
    <3>2. h \in Ids /\ nodes[h].kind = "Wire"
      BY <1>3, <2>2 DEF OfKind
    <3> QED BY <3>1, <3>2, ChildFacts DEF IInv, Over
  <2>5. bounding \in SUBSET Ids
    BY <2>4
  <2>6. \A e \in Holds(wires) : e \in bounding \/ own <= tol[e]
    <3> TAKE e \in Holds(wires)
    <3>1. tol[e] \in Tolerances
      BY <2>4, TypeFacts DEF IInv
    <3> QED BY <1>1, <3>1, ToleranceAssumption DEF Tolerances
  <2>7. /\ "Face" \in Kinds
        /\ own \in Tolerances \cup {NoTolerance}
        /\ own = NoTolerance <=> "Face" = "Wire"
    BY <1>1 DEF Kinds
  <2> HIDE DEF bounding
  <2> QED BY <2>1, <2>2, <2>3, <2>5, <2>6, <2>7, AddStep
<1> QED BY <1>4, <1>5, <1>6, <1>7

(* Every step keeps the inductive invariant, and is a step of the stack of *)
(* saved tolerances.                                                       *)
LEMMA StepIsSound == IInv /\ [Next]_vars => IInv' /\ [Tentative!Next]_<<tol, Saved>>
<1> SUFFICES ASSUME IInv, [Next]_vars PROVE IInv' /\ [Tentative!Next]_<<tol, Saved>>
  OBVIOUS
<1>1. ASSUME Loosened, IInv' PROVE Tentative!Next
  <2>1. DOMAIN tol = Ids /\ DOMAIN tol' = Ids'
    BY <1>1 DEF IInv, TypeOK
  <2>2. Saved' = Saved
    BY <1>1 DEF Loosened, Saved
  <2> QED BY <1>1, <2>1, <2>2 DEF Loosened, Saved, Tentative!Next, Tentative!Grow
<1>2. CASE \/ \E own \in Tolerances : AddVertex(own)
           \/ \E own \in Tolerances, ends \in SUBSET OfKind("Vertex") : AddEdge(own, ends)
           \/ \E edges \in SUBSET OfKind("Edge") : AddWire(edges)
           \/ \E own \in Tolerances, wires \in SUBSET OfKind("Wire") : AddFace(own, wires)
  BY <1>1, <1>2, BuilderStep
<1>3. CASE \E n \in Live, to \in Tolerances : Widen(n, to)
  BY <1>1, <1>3, WidenStep
<1>4. CASE \E n \in Live, to \in Tolerances : NodeMut(n, to)
  BY <1>1, <1>4, NodeMutStep
<1>5. CASE Begin
  <2>1. IInv' /\ tol' = tol /\ Saved' = Append(Saved, tol)
    BY <1>5, BeginStep
  <2> QED BY <2>1 DEF Saved, Tentative!Next, Tentative!Begin
<1>6. CASE Keep
  <2>1. IInv' /\ tol' = tol /\ Saved # <<>> /\ Saved' = SubSeq(Saved, 1, Len(Saved) - 1)
    BY <1>6, KeepStep
  <2> QED BY <2>1 DEF Saved, Tentative!Next, Tentative!Keep
<1>7. CASE Undo
  <2>1. /\ IInv' /\ DOMAIN tol' = DOMAIN tol
        /\ Saved # <<>> /\ Saved' = SubSeq(Saved, 1, Len(Saved) - 1)
        /\ \A n \in DOMAIN Saved[Len(Saved)] : tol'[n] = Saved[Len(Saved)][n]
    BY <1>7, UndoStep
  <2> QED BY <2>1 DEF Saved, Tentative!Next, Tentative!Undo
<1>8. CASE UNCHANGED vars
  <2> USE <1>8 DEF vars
  <2>1. TypeOK' /\ Contained' /\ OpenWhileAttempting'
    BY DEF IInv, TypeOK, Ids, Noted, Attempt, Contained, OfKind, Live, Holds,
           OpenWhileAttempting
  <2>2. Stratified' /\ NotedNodes' /\ MarksInOrder'
    BY DEF IInv, Stratified, NotedNodes, MarksInOrder, Ids
  <2>3. SavedContained'
    <3> SUFFICES ASSUME NEW k \in DOMAIN attempts
                 PROVE  ContainedIn(PutBack(attempts[k].mark.from), BegunWith(k))'
      BY DEF SavedContained
    <3>1. PutBack(attempts[k].mark.from)' = PutBack(attempts[k].mark.from)
      BY DEF PutBack, NotedSince
    <3>2. BegunWith(k)' = BegunWith(k)
      BY DEF BegunWith, Live, Ids
    <3>3. ContainedIn(PutBack(attempts[k].mark.from), BegunWith(k))
      BY DEF IInv, SavedContained
    <3> QED BY <3>1, <3>2, <3>3 DEF ContainedIn, Holds
  <2>4. Saved' = Saved
    BY DEF Saved, SavedBy, PutBack, NotedSince
  <2> QED BY <2>1, <2>2, <2>3, <2>4 DEF IInv
<1> QED BY <1>2, <1>3, <1>4, <1>5, <1>6, <1>7, <1>8 DEF Next

(* The inductive invariant holds throughout: what the builders, widening,  *)
(* edits and attempts of a model keep.                                     *)
THEOREM Inductive == Spec => []IInv
<1>1. Init => IInv
  BY InitIsSound
<1>2. IInv /\ [Next]_vars => IInv'
  BY StepIsSound
<1> QED BY <1>1, <1>2, PTL DEF Spec

(* Every tolerance is one, wires carry none, and a closed journal is empty. *)
THEOREM TypeCorrect == Spec => []TypeOK
<1>1. IInv => TypeOK
  BY DEF IInv
<1> QED BY <1>1, Inductive, PTL

(* Every boundary is at least as loose as what it bounds, through shared   *)
(* nodes, widening and attempts undone.                                    *)
THEOREM BoundariesContain == Spec => []Contained
<1>1. IInv => Contained
  BY DEF IInv
<1> QED BY <1>1, Inductive, PTL

(* The journal is open exactly while an attempt is under way.              *)
THEOREM JournalOpen == Spec => []OpenWhileAttempting
<1>1. IInv => OpenWhileAttempting
  BY DEF IInv
<1> QED BY <1>1, Inductive, PTL

(* One journal with marks implements a stack of saved tolerances: however  *)
(* attempts nest, undoing one gives back what it began with.               *)
THEOREM Refinement == Spec => ImplementsTentative
<1>1. Init => Tentative!Init
  <2> SUFFICES ASSUME Init PROVE Tentative!Init
    OBVIOUS
  <2>1. DOMAIN attempts = {}
    BY DEF Init
  <2> QED BY <2>1 DEF Init, Tentative!Init
<1>2. IInv /\ [Next]_vars => [Tentative!Next]_<<tol, Saved>>
  BY StepIsSound
<1> QED BY <1>1, <1>2, Inductive, PTL DEF Spec, ImplementsTentative, Tentative!Spec, Saved

-----------------------------------------------------------------------------
(* Rounding: what a mark goes back to.                                     *)

NotedTolerances == UNION {[S -> 1..MaxTol] : S \in SUBSET Nodes}

GoesBackTo(t, from) ==
    /\ open /\ from <= Len(log)
    /\ \A n \in Nodes : Restored(log, tol, from, n) = t[n]

-----------------------------------------------------------------------------
(* Its inductive invariant.                                                *)

Exact == rims = "exact" /\ pc # "idle"

(* While rims are exact the journal is open and goes back to the solid as  *)
(* it was given, and has nothing past that mark when an attempt begins.    *)
OuterStands ==
    /\ Exact => GoesBackTo(given.tol, outer.from)
    /\ Exact /\ pc \in {"round", "attempt"} => Len(log) = outer.from

(* The ladder's own mark is then the same one, of a journal it did not     *)
(* open.                                                                   *)
InnerStands ==
    /\ Exact /\ pc \in {"attempt", "build", "cut", "answered"} /\ junctions # "none" =>
           ~inner.opened /\ inner.from = outer.from
    /\ pc = "answered" => junctions # "none"

(* A seated cut goes back to where it began, above the mark of the round.  *)
CutStands ==
    pc = "cut" => /\ GoesBackTo(before, cut.from)
                  /\ Exact => ~cut.opened /\ outer.from <= cut.from

SurfacesStand ==
    Exact =>
        /\ pc \in {"round", "attempt"} => surfaces = given.surfaces
        /\ pc \in {"build", "cut", "answered"} /\ taken.any =>
               taken.surfaces = given.surfaces

RoundingIInv ==
    /\ RoundingTypeOK /\ Len(log) <= MaxLog
    /\ OuterStands /\ InnerStands /\ CutStands /\ SurfacesStand

-----------------------------------------------------------------------------
(* The journal under a ladder of attempts.                                 *)

(* At a mark past which nothing is noted, tolerances are as they stand.    *)
LEMMA RestoredNow ==
    ASSUME NEW l, Len(l) \in Nat, NEW t, NEW n
    PROVE  Restored(l, t, Len(l), n) = t[n]
BY DEF Restored, Since

(* What a call notes of node n as it sets the tolerances t to u.           *)
Notes(noted, t, u, n) ==
    IF n \in DOMAIN noted THEN noted[n] = t[n] ELSE u[n] = t[n]

(* The journal m is l with one more call.                                  *)
Extends(m, l, noted) == m = Append(l, noted)

(* Noting what a call changes keeps what a mark goes back to.              *)
LEMMA RestoredAfterBuilding ==
    ASSUME NEW l \in Seq(NotedTolerances), NEW noted \in NotedTolerances, NEW t, NEW u,
           NEW from \in 0..Len(l), NEW n,
           Notes(noted, t, u, n), NEW m, Extends(m, l, noted)
    PROVE  Restored(m, u, from, n) = Restored(l, t, from, n)
<1>1. /\ n \in DOMAIN noted => noted[n] = t[n]
      /\ n \notin DOMAIN noted => u[n] = t[n]
  BY DEF Notes
<1>2. Restored(Append(l, noted), u, from, n) = Restored(l, t, from, n)
  BY <1>1, RestoredAfterNoting
<1> QED BY <1>2 DEF Extends

(* What goes back are tolerances.                                          *)
LEMMA RestoredTyped ==
    ASSUME NEW l \in Seq(NotedTolerances), NEW t \in SolidTolerances, NEW from \in Nat, NEW n \in Nodes
    PROVE  Restored(l, t, from, n) \in 1..MaxTol
<1>1. Len(l) \in Nat /\ \A i \in 1..Len(l) : l[i] \in NotedTolerances
  OBVIOUS
<1>2. CASE Since(l, from, n) = {}
  BY <1>2 DEF Restored, SolidTolerances
<1>3. CASE Since(l, from, n) # {}
  <2>1. PICK i \in Since(l, from, n) : \A j \in Since(l, from, n) : i <= j
    BY <1>1, <1>3, FirstNoted
  <2>2. Restored(l, t, from, n) = l[i][n]
    BY <1>1, <2>1, RestoredFirst
  <2>3. i \in 1..Len(l) /\ n \in DOMAIN l[i]
    BY <1>1 DEF Since
  <2>4. PICK S \in SUBSET Nodes : l[i] \in [S -> 1..MaxTol]
    BY <1>1, <2>3 DEF NotedTolerances
  <2>5. l[i][n] \in 1..MaxTol
    BY <2>3, <2>4
  <2> QED BY <2>2, <2>5
<1> QED BY <1>2, <1>3

LEMMA SolidPutBackIs ==
    ASSUME RoundingTypeOK, NEW from
    PROVE  /\ PutBack(from) = [n \in Nodes |-> Restored(log, tol, from, n)]
<1>1. DOMAIN tol = Nodes
  BY DEF RoundingTypeOK, SolidTolerances
<1> QED BY <1>1 DEF PutBack, Restored, NotedSince, Since

(* Undoing at a mark leaves tolerances and a journal, wherever it stands.  *)
LEMMA UndoneTyped ==
    ASSUME RoundingIInv, NEW mark \in Mark0, UndoWidened(mark)
    PROVE  /\ tol' \in SolidTolerances
           /\ open' \in BOOLEAN /\ (~open' => log' = <<>>)
           /\ log' \in Seq(NotedTolerances) /\ Len(log') <= MaxLog
<1>1. log \in Seq(NotedTolerances) /\ tol \in SolidTolerances /\ open \in BOOLEAN /\ (~open => log = <<>>)
  BY DEF RoundingIInv, RoundingTypeOK, NotedTolerances
<1>2. Len(log) \in Nat /\ Len(log) <= MaxLog /\ MaxLog \in Nat
  BY <1>1, RoundingAssumption DEF RoundingIInv
<1>3. mark.from \in Nat /\ mark.opened \in BOOLEAN
  BY <1>2 DEF Mark0
<1>4. CASE ~open
  BY <1>1, <1>2, <1>4 DEF UndoWidened
<1>5. CASE open
  <2>1. PICK end \in 0..Len(log) : end = CutAt(mark)
    BY <1>2, <1>3 DEF CutAt
  <2>2. /\ tol' = PutBack(end) /\ open' = ~mark.opened
        /\ log' = IF mark.opened THEN <<>> ELSE SubSeq(log, 1, end)
    BY <1>5, <2>1 DEF UndoWidened
  <2>3. tol' = [n \in Nodes |-> Restored(log, tol, end, n)]
    BY <2>2, SolidPutBackIs DEF RoundingIInv
  <2>4. ASSUME NEW n \in Nodes PROVE Restored(log, tol, end, n) \in 1..MaxTol
    <3>1. end \in Nat
      BY <1>2
    <3> QED BY <1>1, <3>1, RestoredTyped
  <2>5. tol' \in SolidTolerances
    BY <2>3, <2>4 DEF SolidTolerances
  <2>6. CASE mark.opened
    <3>1. log' = <<>> /\ Len(<<>>) = 0 /\ <<>> \in Seq(NotedTolerances)
      BY <2>2, <2>6
    <3> QED BY <1>2, <2>2, <2>5, <2>6, <3>1
  <2>7. CASE ~mark.opened
    <3>1. log' = SubSeq(log, 1, end)
      BY <2>2, <2>7
    <3>2. log' \in Seq(NotedTolerances) /\ Len(log') = end
      BY <1>1, <1>2, <3>1
    <3>3. Len(log') <= MaxLog
      BY <1>2, <3>2
    <3> QED BY <2>2, <2>5, <2>7, <3>2, <3>3
  <2> QED BY <1>3, <2>6, <2>7
<1> QED BY <1>1, <1>4, <1>5

(* Undoing at a mark of an open journal: the tolerances go back, and what  *)
(* earlier marks go back to stays.                                         *)
LEMMA Undone ==
    ASSUME RoundingIInv, open, NEW mark \in Mark0, mark.from <= Len(log), UndoWidened(mark)
    PROVE  /\ \A n \in Nodes : tol'[n] = Restored(log, tol, mark.from, n)
           /\ open' = ~mark.opened
           /\ ~mark.opened =>
                /\ Len(log') = mark.from
                /\ \A from \in 0..mark.from : \A n \in Nodes :
                     Restored(log', tol', from, n) = Restored(log, tol, from, n)
<1>1. log \in Seq(NotedTolerances) /\ Len(log) \in Nat /\ MaxLog \in Nat
  BY RoundingAssumption DEF RoundingIInv, RoundingTypeOK, NotedTolerances
<1>2. mark.from \in Nat
  BY <1>1 DEF Mark0
<1>3. PICK end \in 0..Len(log) : end = mark.from
  BY <1>1, <1>2
<1>4. CutAt(mark) = end
  BY <1>1, <1>3 DEF CutAt
<1>5. /\ tol' = PutBack(end) /\ open' = ~mark.opened
      /\ log' = IF mark.opened THEN <<>> ELSE SubSeq(log, 1, end)
  BY <1>4 DEF UndoWidened
<1>6. tol' = [n \in Nodes |-> Restored(log, tol, end, n)]
  BY <1>5, SolidPutBackIs DEF RoundingIInv
<1>7. ASSUME ~mark.opened
      PROVE  /\ Len(log') = end
             /\ \A from \in 0..end : \A n \in Nodes :
                  Restored(log', tol', from, n) = Restored(log, tol, from, n)
  <2>1. PICK l, t, u : l = log /\ t = tol /\ u = tol'
    OBVIOUS
  <2>2. log' = SubSeq(l, 1, end) /\ l \in Seq(NotedTolerances) /\ end \in 0..Len(l)
    BY <1>1, <1>5, <1>7, <2>1
  <2>3. Len(log') = end
    BY <1>1, <2>1, <2>2
  <2>4. ASSUME NEW from \in 0..end, NEW n \in Nodes
        PROVE  Restored(SubSeq(l, 1, end), u, from, n) = Restored(l, t, from, n)
    <3>1. u[n] = Restored(l, t, end, n)
      BY <1>6, <2>1
    <3> QED BY <2>2, <3>1, RestoredAfterCut
  <2> QED BY <2>1, <2>2, <2>3, <2>4
<1> QED BY <1>3, <1>5, <1>6, <1>7

(* So does keeping.                                                        *)
LEMMA KeptTyped ==
    ASSUME RoundingIInv, NEW mark, KeepWidened(mark)
    PROVE  /\ log' \in Seq(NotedTolerances) /\ Len(log') <= MaxLog
           /\ open' \in BOOLEAN /\ (~open' => log' = <<>>)
<1>1. /\ log \in Seq(NotedTolerances) /\ Len(log) <= MaxLog /\ MaxLog \in Nat
      /\ open \in BOOLEAN /\ (~open => log = <<>>)
  BY RoundingAssumption DEF RoundingIInv, RoundingTypeOK, NotedTolerances
<1>2. CASE mark.opened
  <2>1. open' = FALSE /\ log' = <<>>
    BY <1>2 DEF KeepWidened
  <2>2. log' \in Seq(NotedTolerances)
    BY <2>1
  <2>3. Len(log') <= MaxLog
    BY <1>1, <2>1
  <2>4. open' \in BOOLEAN
    BY <2>1, Zenon
  <2> QED BY <2>1, <2>2, <2>3, <2>4
<1>3. CASE ~mark.opened
  <2>1. UNCHANGED <<open, log>>
    BY <1>3 DEF KeepWidened
  <2> QED BY <1>1, <2>1
<1> QED BY <1>2, <1>3

(* The mark of a journal as it stands goes back to it as it stands.        *)
LEMMA Marked ==
    ASSUME RoundingIInv
    PROVE  /\ Mark \in Mark0 /\ Mark.from = Len(log) /\ Mark.opened = ~open
           /\ Len(log) \in Nat
           /\ \A n \in Nodes : Restored(log, tol, Len(log), n) = tol[n]
<1>1. Len(log) \in 0..MaxLog /\ open \in BOOLEAN
  BY RoundingAssumption DEF RoundingIInv, RoundingTypeOK
<1> QED BY <1>1, RestoredNow DEF Mark, Mark0

LEMMA RoundingInitially == RoundingInit => RoundingIInv
<1> SUFFICES ASSUME RoundingInit PROVE RoundingIInv
  OBVIOUS
<1>1. MaxTol \in Nat /\ 1 \in 1..MaxTol /\ MaxWritten \in Nat /\ MaxLog \in Nat
  BY RoundingAssumption
<1>2. tol \in SolidTolerances /\ before \in SolidTolerances
  BY <1>1 DEF RoundingInit, SolidTolerances
<1>3. 0 \in 0..MaxWritten /\ 0 \in 0..MaxLog
  BY <1>1
<1>4. outer \in Mark0 /\ inner \in Mark0 /\ cut \in Mark0
  BY <1>3 DEF RoundingInit, NoMark, Mark0
<1>5. taken \in [any : BOOLEAN, crossed : BOOLEAN, surfaces : 0..MaxWritten]
  BY <1>3 DEF RoundingInit, NoJunction
<1>6. given \in [tol : SolidTolerances, surfaces : 0..MaxWritten]
  BY <1>2, <1>3 DEF RoundingInit
<1>7. log = <<>> /\ Len(log) <= MaxLog
  BY <1>1 DEF RoundingInit
<1>8. log \in Seq(UNION {[S -> 1..MaxTol] : S \in SUBSET Nodes})
  BY <1>7
<1>9. open \in BOOLEAN
  BY Zenon DEF RoundingInit
<1>10. /\ pc = "idle" /\ rims = "exact" /\ sharing \in BOOLEAN /\ junctions = "none"
       /\ answer = "built" /\ surfaces \in 0..MaxWritten
  BY <1>3 DEF RoundingInit
<1>11. RoundingTypeOK
  BY <1>2, <1>4, <1>5, <1>6, <1>7, <1>8, <1>9, <1>10, Zenon DEF RoundingTypeOK
<1> QED BY <1>7, <1>11 DEF RoundingInit, RoundingIInv, OuterStands, InnerStands, CutStands, SurfacesStand, Exact

-----------------------------------------------------------------------------
(* A step keeps the invariant: the ladder.                                 *)

LEMMA RequestKeeps == ASSUME RoundingIInv, NEW shares \in BOOLEAN, Request(shares) PROVE RoundingIInv'
<1>1. /\ pc' = "round" /\ open' = TRUE /\ tol' = tol /\ log' = log /\ outer' = Mark
      /\ rims' = "exact" /\ sharing' = shares
      /\ given' = [tol |-> tol, surfaces |-> surfaces]
      /\ UNCHANGED <<junctions, taken, answer, inner, cut, surfaces, before>>
  BY DEF Request, Go, NoteWidened
<1>2. RoundingTypeOK'
  BY <1>1, Marked DEF RoundingIInv, RoundingTypeOK
<1>3. GoesBackTo(given.tol, outer.from)'
  BY <1>1, Marked DEF GoesBackTo
<1>4. OuterStands' /\ InnerStands' /\ CutStands'
  BY <1>1, <1>3, Marked DEF OuterStands, InnerStands, CutStands
<1>5. SurfacesStand'
  BY <1>1 DEF SurfacesStand
<1> QED BY <1>1, <1>2, <1>4, <1>5 DEF RoundingIInv

(* Steps that leave the journal, its marks and the surfaces alone.         *)
LEMMA GoneOn ==
    ASSUME RoundingIInv, UNCHANGED <<tol, journal, rims, marks, surfaces, given, before>>,
           pc # "idle", RoundingTypeOK', pc' \notin {"round", "cut"},
           pc' = "attempt" => pc = "round",
           InnerStands', SurfacesStand'
    PROVE  RoundingIInv'
<1>1. /\ UNCHANGED <<tol, open, log, rims, outer, inner, cut, surfaces, given, before>>
  BY DEF journal, marks
<1>2. OuterStands'
  BY <1>1 DEF RoundingIInv, OuterStands, Exact, GoesBackTo
<1>3. CutStands'
  BY DEF CutStands
<1> QED BY <1>1, <1>2, <1>3 DEF RoundingIInv

LEMMA RoundAloneKeeps == ASSUME RoundingIInv, RoundAlone PROVE RoundingIInv'
<1>1. /\ pc = "round" /\ pc' = "attempt" /\ junctions' = "none" /\ taken' = NoJunction
      /\ UNCHANGED <<tol, journal, rims, sharing, answer, marks, surfaces, given, before>>
  BY DEF RoundAlone, Go
<1>2. RoundingTypeOK'
  BY <1>1, RoundingAssumption DEF RoundingIInv, RoundingTypeOK, NoJunction, journal, marks
<1>3. InnerStands' /\ SurfacesStand'
  BY <1>1 DEF RoundingIInv, InnerStands, SurfacesStand, Exact
<1> QED BY <1>1, <1>2, <1>3, GoneOn

LEMMA RoundMeetingKeeps == ASSUME RoundingIInv, RoundMeeting PROVE RoundingIInv'
<1>1. /\ pc = "round" /\ pc' = "attempt" /\ junctions' = "crossed" /\ taken' = NoJunction
      /\ open' = TRUE /\ tol' = tol /\ log' = log /\ inner' = Mark
      /\ UNCHANGED <<rims, sharing, answer, outer, cut, surfaces, given, before>>
  BY DEF RoundMeeting, Go, NoteWidened
<1>2. RoundingTypeOK'
  BY <1>1, Marked, RoundingAssumption DEF RoundingIInv, RoundingTypeOK, NoJunction
<1>3. OuterStands'
  BY <1>1 DEF RoundingIInv, OuterStands, Exact, GoesBackTo
<1>4. Exact => open /\ Len(log) = outer.from
  BY <1>1 DEF RoundingIInv, OuterStands, GoesBackTo
<1>5. InnerStands'
  BY <1>1, <1>4, Marked DEF InnerStands, Exact
<1>6. CutStands' /\ SurfacesStand'
  BY <1>1 DEF RoundingIInv, CutStands, SurfacesStand, Exact
<1> QED BY <1>1, <1>2, <1>3, <1>5, <1>6 DEF RoundingIInv

LEMMA TakeKeeps ==
    ASSUME RoundingIInv, NEW any \in BOOLEAN, NEW crossed \in BOOLEAN, Take(any, crossed)
    PROVE  RoundingIInv'
<1>1. /\ pc = "attempt" /\ pc' = "build"
      /\ taken' = [any |-> any, crossed |-> crossed, surfaces |-> IF any THEN surfaces ELSE 0]
      /\ UNCHANGED <<tol, journal, rims, sharing, junctions, answer, marks, surfaces, given, before>>
  BY DEF Take, Go
<1>2. RoundingTypeOK'
  BY <1>1, RoundingAssumption DEF RoundingIInv, RoundingTypeOK, journal, marks
<1>3. InnerStands' /\ SurfacesStand'
  BY <1>1 DEF RoundingIInv, InnerStands, SurfacesStand, Exact, marks
<1> QED BY <1>1, <1>2, <1>3, GoneOn

LEMMA WriteBackKeeps == ASSUME RoundingIInv, WriteBack PROVE RoundingIInv'
<1>1. /\ pc = "build" /\ surfaces < MaxWritten /\ surfaces' = surfaces + 1
      /\ UNCHANGED <<tol, open, log, pc, rims, sharing, junctions, taken, answer>>
      /\ UNCHANGED <<outer, inner, cut, given, before>>
  BY DEF WriteBack, journal, control, marks
<1>2. RoundingTypeOK'
  BY <1>1, RoundingAssumption DEF RoundingIInv, RoundingTypeOK
<1>3. OuterStands' /\ InnerStands' /\ CutStands' /\ SurfacesStand'
  BY <1>1 DEF RoundingIInv, OuterStands, InnerStands, CutStands, SurfacesStand, Exact, GoesBackTo
<1> QED BY <1>1, <1>2, <1>3 DEF RoundingIInv

LEMMA AnswerKeeps ==
    ASSUME RoundingIInv, NEW what \in {"built", "refused", "stopped"}, Answer(what)
    PROVE  RoundingIInv'
<1>1. /\ pc = "build" /\ pc' = (IF junctions = "none" THEN "rounded" ELSE "answered")
      /\ answer' = what
      /\ UNCHANGED <<tol, journal, rims, sharing, junctions, taken, marks, surfaces, given, before>>
  BY DEF Answer, Go
<1>2. RoundingTypeOK'
  BY <1>1 DEF RoundingIInv, RoundingTypeOK, journal, marks
<1>3. InnerStands' /\ SurfacesStand'
  BY <1>1 DEF RoundingIInv, InnerStands, SurfacesStand, Exact, marks
<1> QED BY <1>1, <1>2, <1>3, GoneOn

LEMMA KeepMeetingKeeps == ASSUME RoundingIInv, KeepMeeting PROVE RoundingIInv'
<1>1. /\ pc = "answered" /\ pc' = "rounded" /\ tol' = tol
      /\ IF inner.opened THEN open' = FALSE /\ log' = <<>> ELSE UNCHANGED <<open, log>>
      /\ UNCHANGED <<rims, sharing, junctions, taken, answer, surfaces, given, before>>
      /\ UNCHANGED <<outer, inner, cut>>
  BY DEF KeepMeeting, Go, KeepWidened, marks
<1>2. Exact => UNCHANGED <<open, log>>
  BY <1>1 DEF RoundingIInv, InnerStands
<1>3. /\ log' \in Seq(NotedTolerances) /\ Len(log') <= MaxLog
      /\ open' \in BOOLEAN /\ (~open' => log' = <<>>)
  BY <1>1, KeptTyped DEF KeepMeeting
<1>6. RoundingTypeOK'
  BY <1>1, <1>3 DEF RoundingIInv, RoundingTypeOK, NotedTolerances
<1>4. OuterStands'
  BY <1>1, <1>2 DEF RoundingIInv, OuterStands, Exact, GoesBackTo
<1>5. InnerStands' /\ CutStands' /\ SurfacesStand'
  BY <1>1 DEF InnerStands, CutStands, SurfacesStand
<1> QED BY <1>3, <1>4, <1>5, <1>6 DEF RoundingIInv

LEMMA UndoMeetingKeeps == ASSUME RoundingIInv, UndoMeeting PROVE RoundingIInv'
<1>1. /\ pc = "answered" /\ pc' = "attempt" /\ ~Settled /\ UndoWidened(inner)
      /\ surfaces' = taken.surfaces /\ junctions' = NextJunctions /\ taken' = NoJunction
      /\ UNCHANGED <<rims, sharing, answer, given, before>>
      /\ UNCHANGED <<outer, inner, cut>>
  BY DEF UndoMeeting, Go, marks
<1>2. junctions # "none" /\ taken.any
  BY <1>1 DEF RoundingIInv, InnerStands, Settled
<1>3. /\ surfaces' \in 0..MaxWritten /\ junctions' \in {"crossed", "flush", "none"}
      /\ taken' \in [any : BOOLEAN, crossed : BOOLEAN, surfaces : 0..MaxWritten]
  BY <1>1, RoundingAssumption DEF RoundingIInv, RoundingTypeOK, NextJunctions, NoJunction
<1>4. inner \in Mark0 /\ MaxLog \in Nat
  BY RoundingAssumption DEF RoundingIInv, RoundingTypeOK
<1>5. /\ tol' \in SolidTolerances /\ log' \in Seq(NotedTolerances) /\ Len(log') <= MaxLog
      /\ open' \in BOOLEAN /\ (~open' => log' = <<>>)
  BY <1>1, <1>4, UndoneTyped
<1>6. RoundingTypeOK'
  BY <1>1, <1>3, <1>5 DEF RoundingIInv, RoundingTypeOK, NotedTolerances
<1>7. ASSUME Exact
      PROVE  /\ GoesBackTo(given.tol, outer.from)' /\ Len(log') = outer.from
             /\ ~inner.opened /\ inner.from = outer.from
             /\ surfaces' = given.surfaces
  <2>1. ~inner.opened /\ inner.from = outer.from /\ GoesBackTo(given.tol, outer.from)
    BY <1>1, <1>2, <1>7 DEF RoundingIInv, InnerStands, OuterStands
  <2>2. open /\ inner.from <= Len(log) /\ outer.from \in 0..inner.from /\ outer.from <= outer.from
    BY <1>4, <2>1 DEF GoesBackTo, Mark0
  <2>5. /\ open' = ~inner.opened /\ Len(log') = inner.from
        /\ \A from \in 0..inner.from : \A n \in Nodes :
             Restored(log', tol', from, n) = Restored(log, tol, from, n)
    BY <1>1, <1>4, <2>1, <2>2, Undone
  <2>3. /\ open' /\ Len(log') = outer.from
        /\ \A n \in Nodes : Restored(log', tol', outer.from, n) = Restored(log, tol, outer.from, n)
    BY <2>1, <2>2, <2>5
  <2>4. surfaces' = given.surfaces
    BY <1>1, <1>2, <1>7 DEF RoundingIInv, SurfacesStand
  <2> QED BY <1>1, <2>1, <2>2, <2>3, <2>4 DEF GoesBackTo
<1>8. Exact' => Exact
  BY <1>1 DEF Exact
<1>9. OuterStands' /\ InnerStands' /\ CutStands' /\ SurfacesStand'
  BY <1>1, <1>7, <1>8 DEF OuterStands, InnerStands, CutStands, SurfacesStand
<1> QED BY <1>5, <1>6, <1>9 DEF RoundingIInv

LEMMA KeepExactKeeps == ASSUME RoundingIInv, KeepExact PROVE RoundingIInv'
<1>1. /\ pc = "rounded" /\ pc' = "idle" /\ tol' = tol /\ KeepWidened(outer)
      /\ UNCHANGED <<rims, sharing, junctions, taken, answer, surfaces, given, before>>
      /\ UNCHANGED <<outer, inner, cut>>
  BY DEF KeepExact, Go, KeepWidened, marks
<1>2. /\ log' \in Seq(NotedTolerances) /\ Len(log') <= MaxLog
      /\ open' \in BOOLEAN /\ (~open' => log' = <<>>)
  BY <1>1, KeptTyped
<1>3. RoundingTypeOK'
  BY <1>1, <1>2 DEF RoundingIInv, RoundingTypeOK, NotedTolerances
<1> QED BY <1>1, <1>2, <1>3 DEF RoundingIInv, OuterStands, InnerStands, CutStands, SurfacesStand, Exact

LEMMA UndoExactKeeps == ASSUME RoundingIInv, UndoExact PROVE RoundingIInv'
<1>1. /\ pc = "rounded" /\ pc' = "round" /\ rims' = "fitted" /\ UndoWidened(outer)
      /\ UNCHANGED <<sharing, junctions, taken, answer, surfaces, given, before>>
      /\ UNCHANGED <<outer, inner, cut>>
  BY DEF UndoExact, Go, marks
<1>2. outer \in Mark0
  BY DEF RoundingIInv, RoundingTypeOK
<1>3. /\ tol' \in SolidTolerances /\ log' \in Seq(NotedTolerances) /\ Len(log') <= MaxLog
      /\ open' \in BOOLEAN /\ (~open' => log' = <<>>)
  BY <1>1, <1>2, UndoneTyped
<1>4. RoundingTypeOK'
  BY <1>1, <1>3 DEF RoundingIInv, RoundingTypeOK, NotedTolerances
<1> QED BY <1>1, <1>3, <1>4 DEF RoundingIInv, OuterStands, InnerStands, CutStands, SurfacesStand, Exact

(* A round that answers without touching the solid.                        *)
LEMMA RoundAnsweredKeeps == ASSUME RoundingIInv, RimsUnknown \/ FittedAnswer PROVE RoundingIInv'
<1>1. /\ pc = "rounded" /\ pc' = "idle"
      /\ UNCHANGED <<tol, open, log, rims, sharing, junctions, taken, answer, surfaces>>
      /\ UNCHANGED <<outer, inner, cut, given, before>>
  BY DEF RimsUnknown, FittedAnswer, Go, journal, marks
<1>2. RoundingTypeOK'
  BY <1>1 DEF RoundingIInv, RoundingTypeOK
<1> QED BY <1>1, <1>2 DEF RoundingIInv, OuterStands, InnerStands, CutStands, SurfacesStand, Exact

-----------------------------------------------------------------------------
(* A step keeps the invariant: building and seated cuts.                   *)

LEMMA BuildKeeps ==
    ASSUME RoundingIInv, NEW S \in SUBSET Nodes, NEW to \in 1..MaxTol, Build(S, to)
    PROVE  RoundingIInv'
<1> DEFINE noted == [n \in S |-> tol[n]]
<1>1. /\ pc \in {"build", "cut"} /\ (open => Len(log) < MaxLog) /\ S # {}
      /\ tol' = [n \in Nodes |-> IF n \in S THEN to ELSE tol[n]]
      /\ log' = (IF open THEN Append(log, noted) ELSE log)
      /\ UNCHANGED <<open, pc, rims, sharing, junctions, taken, answer>>
      /\ UNCHANGED <<outer, inner, cut, surfaces, given, before>>
  BY DEF Build, WithNoted, control, marks
<1>2. /\ log \in Seq(NotedTolerances) /\ Len(log) \in Nat /\ Len(log) <= MaxLog /\ MaxLog \in Nat
      /\ tol \in SolidTolerances /\ open \in BOOLEAN /\ (~open => log = <<>>)
      /\ outer \in Mark0 /\ cut \in Mark0
  BY RoundingAssumption DEF RoundingIInv, RoundingTypeOK, NotedTolerances
<1>3. tol' \in SolidTolerances
  BY <1>1, <1>2 DEF SolidTolerances
<1>4. noted \in NotedTolerances
  <2>1. noted \in [S -> 1..MaxTol]
    BY <1>2 DEF SolidTolerances
  <2> QED BY <2>1 DEF NotedTolerances
<1>5. log' \in Seq(NotedTolerances) /\ Len(log') <= MaxLog /\ (~open' => log' = <<>>)
  <2>1. CASE open
    <3>1. log' \in Seq(NotedTolerances) /\ Len(log') = Len(log) + 1
      BY <1>1, <1>2, <1>4, <2>1
    <3> QED BY <1>1, <1>2, <2>1, <3>1
  <2> QED BY <1>1, <1>2, <2>1
<1>6. RoundingTypeOK'
  BY <1>1, <1>3, <1>5 DEF RoundingIInv, RoundingTypeOK, NotedTolerances
<1>7. ASSUME open, NEW from \in Nat, from <= Len(log)
      PROVE  /\ from <= Len(log')
             /\ \A n \in Nodes : Restored(log', tol', from, n) = Restored(log, tol, from, n)
  <2>1. PICK l, t, u, new, m : l = log /\ t = tol /\ u = tol' /\ new = noted /\ m = log'
    OBVIOUS
  <2>2. Extends(m, l, new) /\ l \in Seq(NotedTolerances) /\ new \in NotedTolerances /\ from \in 0..Len(l)
    BY <1>1, <1>2, <1>4, <1>7, <2>1 DEF Extends
  <2>3. Len(log') = Len(log) + 1
    BY <2>1, <2>2 DEF Extends
  <2>4. ASSUME NEW n \in Nodes
        PROVE  Restored(m, u, from, n) = Restored(l, t, from, n)
    <3>1. Notes(new, t, u, n)
      BY <1>1, <2>1 DEF Notes
    <3> QED BY <2>2, <3>1, RestoredAfterBuilding
  <2> QED BY <1>2, <1>7, <2>1, <2>2, <2>3, <2>4
<1>8. Exact => GoesBackTo(given.tol, outer.from)'
  <2> SUFFICES ASSUME Exact PROVE GoesBackTo(given.tol, outer.from)'
    OBVIOUS
  <2>1. GoesBackTo(given.tol, outer.from)
    BY DEF RoundingIInv, OuterStands
  <2>2. open /\ outer.from \in Nat /\ outer.from <= Len(log)
    BY <1>2, <2>1 DEF GoesBackTo, Mark0
  <2> QED BY <1>1, <1>7, <2>1, <2>2 DEF GoesBackTo
<1>9. pc = "cut" => GoesBackTo(before, cut.from)'
  <2> SUFFICES ASSUME pc = "cut" PROVE GoesBackTo(before, cut.from)'
    OBVIOUS
  <2>1. GoesBackTo(before, cut.from)
    BY DEF RoundingIInv, CutStands
  <2>2. open /\ cut.from \in Nat /\ cut.from <= Len(log)
    BY <1>2, <2>1 DEF GoesBackTo, Mark0
  <2> QED BY <1>1, <1>7, <2>1, <2>2 DEF GoesBackTo
<1>10. OuterStands' /\ InnerStands' /\ CutStands' /\ SurfacesStand'
  BY <1>1, <1>8, <1>9 DEF RoundingIInv, OuterStands, InnerStands, CutStands, SurfacesStand, Exact
<1> QED BY <1>5, <1>6, <1>10 DEF RoundingIInv

LEMMA BeginCutKeeps == ASSUME RoundingIInv, BeginCut PROVE RoundingIInv'
<1>1. /\ pc = "build" /\ pc' = "cut" /\ open' = TRUE /\ tol' = tol /\ log' = log
      /\ cut' = Mark /\ before' = tol
      /\ UNCHANGED <<rims, sharing, junctions, taken, answer, outer, inner, surfaces, given>>
  BY DEF BeginCut, Go, NoteWidened
<1>2. RoundingTypeOK'
  BY <1>1, Marked DEF RoundingIInv, RoundingTypeOK
<1>3. OuterStands'
  BY <1>1 DEF RoundingIInv, OuterStands, Exact, GoesBackTo
<1>4. InnerStands' /\ SurfacesStand'
  BY <1>1 DEF RoundingIInv, InnerStands, SurfacesStand, Exact
<1>5. GoesBackTo(before, cut.from)'
  BY <1>1, Marked DEF GoesBackTo
<1>6. Exact => open /\ outer.from <= Len(log)
  BY DEF RoundingIInv, OuterStands, GoesBackTo
<1>7. CutStands'
  BY <1>1, <1>5, <1>6, Marked DEF CutStands, Exact
<1> QED BY <1>1, <1>2, <1>3, <1>4, <1>7 DEF RoundingIInv

LEMMA KeepCutKeeps == ASSUME RoundingIInv, KeepCut PROVE RoundingIInv'
<1>1. /\ pc = "cut" /\ pc' = "build" /\ tol' = tol /\ KeepWidened(cut)
      /\ UNCHANGED <<rims, sharing, junctions, taken, answer, surfaces, given, before>>
      /\ UNCHANGED <<outer, inner, cut>>
  BY DEF KeepCut, Go, KeepWidened, marks
<1>2. /\ log' \in Seq(NotedTolerances) /\ Len(log') <= MaxLog
      /\ open' \in BOOLEAN /\ (~open' => log' = <<>>)
  BY <1>1, KeptTyped
<1>3. RoundingTypeOK'
  BY <1>1, <1>2 DEF RoundingIInv, RoundingTypeOK, NotedTolerances
<1>4. Exact => UNCHANGED <<open, log>>
  BY <1>1 DEF RoundingIInv, CutStands, KeepWidened
<1>5. OuterStands'
  BY <1>1, <1>4 DEF RoundingIInv, OuterStands, Exact, GoesBackTo
<1>6. InnerStands' /\ CutStands' /\ SurfacesStand'
  BY <1>1 DEF RoundingIInv, InnerStands, CutStands, SurfacesStand, Exact
<1> QED BY <1>2, <1>3, <1>5, <1>6 DEF RoundingIInv

(* A seated cut undone leaves the tolerances as it found them.             *)
LEMMA CutUndone == ASSUME RoundingIInv, UndoCut PROVE tol' = before
<1>1. pc = "cut" /\ UndoWidened(cut) /\ cut \in Mark0
  BY DEF UndoCut, Go, RoundingIInv, RoundingTypeOK
<1>2. GoesBackTo(before, cut.from)
  BY <1>1 DEF RoundingIInv, CutStands
<1>3. \A n \in Nodes : tol'[n] = before[n]
  BY <1>1, <1>2, Undone DEF GoesBackTo
<1>4. tol' \in SolidTolerances /\ before \in SolidTolerances
  BY <1>1, UndoneTyped DEF RoundingIInv, RoundingTypeOK
<1> QED BY <1>3, <1>4 DEF SolidTolerances

LEMMA UndoCutKeeps == ASSUME RoundingIInv, UndoCut PROVE RoundingIInv'
<1>1. /\ pc = "cut" /\ pc' = "build" /\ UndoWidened(cut)
      /\ UNCHANGED <<rims, sharing, junctions, taken, answer, surfaces, given, before>>
      /\ UNCHANGED <<outer, inner, cut>>
  BY DEF UndoCut, Go, marks
<1>2. cut \in Mark0 /\ outer \in Mark0 /\ MaxLog \in Nat
  BY RoundingAssumption DEF RoundingIInv, RoundingTypeOK
<1>3. /\ tol' \in SolidTolerances /\ log' \in Seq(NotedTolerances) /\ Len(log') <= MaxLog
      /\ open' \in BOOLEAN /\ (~open' => log' = <<>>)
  BY <1>1, <1>2, UndoneTyped
<1>4. RoundingTypeOK'
  BY <1>1, <1>3 DEF RoundingIInv, RoundingTypeOK, NotedTolerances
<1>5. Exact => GoesBackTo(given.tol, outer.from)'
  <2> SUFFICES ASSUME Exact PROVE GoesBackTo(given.tol, outer.from)'
    OBVIOUS
  <2>1. /\ GoesBackTo(given.tol, outer.from) /\ open /\ cut.from <= Len(log)
        /\ ~cut.opened /\ outer.from <= cut.from
    BY <1>1 DEF RoundingIInv, OuterStands, CutStands, GoesBackTo
  <2>2. outer.from \in 0..cut.from
    BY <1>2, <2>1 DEF Mark0
  <2>3. /\ open' = ~cut.opened /\ Len(log') = cut.from
        /\ \A from \in 0..cut.from : \A n \in Nodes :
             Restored(log', tol', from, n) = Restored(log, tol, from, n)
    BY <1>1, <1>2, <2>1, Undone
  <2>4. \A n \in Nodes : Restored(log', tol', outer.from, n) = Restored(log, tol, outer.from, n)
    BY <2>2, <2>3
  <2> QED BY <1>1, <2>1, <2>3, <2>4 DEF GoesBackTo
<1>6. OuterStands'
  BY <1>1, <1>5 DEF OuterStands, Exact
<1>7. InnerStands' /\ CutStands' /\ SurfacesStand'
  BY <1>1 DEF RoundingIInv, InnerStands, CutStands, SurfacesStand, Exact
<1> QED BY <1>3, <1>4, <1>6, <1>7 DEF RoundingIInv

LEMMA StutterKeeps == ASSUME RoundingIInv, UNCHANGED roundingVars PROVE RoundingIInv'
<1>1. /\ UNCHANGED <<tol, open, log, pc, rims, sharing, junctions, taken, answer>>
      /\ UNCHANGED <<outer, inner, cut, surfaces, given, before>>
  BY DEF roundingVars, journal, control, marks
<1>2. RoundingTypeOK'
  BY <1>1 DEF RoundingIInv, RoundingTypeOK
<1> QED BY <1>1, <1>2 DEF RoundingIInv, OuterStands, InnerStands, CutStands, SurfacesStand, Exact, GoesBackTo

LEMMA StepKeeps == RoundingIInv /\ [RoundingNext]_roundingVars => RoundingIInv'
<1> SUFFICES ASSUME RoundingIInv, [RoundingNext]_roundingVars PROVE RoundingIInv'
  OBVIOUS
<1>1. ASSUME NEW shares \in BOOLEAN, Request(shares) PROVE RoundingIInv'
  BY <1>1, RequestKeeps
<1>2. ASSUME NEW any \in BOOLEAN, NEW crossed \in BOOLEAN, Take(any, crossed) PROVE RoundingIInv'
  BY <1>2, TakeKeeps
<1>3. ASSUME NEW what \in {"built", "refused", "stopped"}, Answer(what) PROVE RoundingIInv'
  BY <1>3, AnswerKeeps
<1>4. ASSUME NEW S \in SUBSET Nodes, NEW to \in 1..MaxTol, Build(S, to) PROVE RoundingIInv'
  BY <1>4, BuildKeeps
<1>5. CASE RoundAlone \/ RoundMeeting
  BY <1>5, RoundAloneKeeps, RoundMeetingKeeps
<1>6. CASE WriteBack \/ BeginCut \/ KeepCut \/ UndoCut
  BY <1>6, WriteBackKeeps, BeginCutKeeps, KeepCutKeeps, UndoCutKeeps
<1>7. CASE KeepMeeting \/ UndoMeeting
  BY <1>7, KeepMeetingKeeps, UndoMeetingKeeps
<1>8. CASE KeepExact \/ UndoExact \/ RimsUnknown \/ FittedAnswer
  BY <1>8, KeepExactKeeps, UndoExactKeeps, RoundAnsweredKeeps
<1>9. CASE UNCHANGED roundingVars
  BY <1>9, StutterKeeps
<1> QED BY <1>1, <1>2, <1>3, <1>4, <1>5, <1>6, <1>7, <1>8, <1>9 DEF RoundingNext, Step, Widening

-----------------------------------------------------------------------------
(* The theorems about Rounding.                                            *)

(* The invariant holds throughout.                                         *)
THEOREM JournalStands == RoundingSpec => []RoundingIInv
<1>1. RoundingInit => RoundingIInv
  BY RoundingInitially
<1>2. RoundingIInv /\ [RoundingNext]_roundingVars => RoundingIInv'
  BY StepKeeps
<1> QED BY <1>1, <1>2, PTL DEF RoundingSpec

(* SolidTolerances, journal and marks have their types through every ladder of  *)
(* attempts: no mark lies past the bound, and putting back yields          *)
(* tolerances again.                                                       *)
THEOREM RoundingTypeCorrect == RoundingSpec => []RoundingTypeOK
<1>1. RoundingIInv => RoundingTypeOK
  BY DEF RoundingIInv
<1> QED BY <1>1, JournalStands, PTL

(* Every attempt with exact rims starts from the solid as it was given,    *)
(* tolerances and surfaces, whatever the attempts before it widened, cut   *)
(* or wrote back before they refused.                                      *)
THEOREM ExactAsGiven == RoundingSpec => []ExactStartsAsGiven
<1>1. RoundingIInv => ExactStartsAsGiven
  <2> SUFFICES ASSUME RoundingIInv, pc = "attempt", rims = "exact" PROVE AsGiven
    BY DEF ExactStartsAsGiven
  <2>1. /\ GoesBackTo(given.tol, outer.from) /\ Len(log) = outer.from
        /\ surfaces = given.surfaces
    BY DEF RoundingIInv, OuterStands, SurfacesStand, Exact
  <2>2. \A n \in Nodes : tol[n] = given.tol[n]
    BY <2>1, Marked DEF GoesBackTo
  <2>3. tol \in SolidTolerances /\ given.tol \in SolidTolerances
    BY DEF RoundingIInv, RoundingTypeOK
  <2>4. tol = given.tol
    BY <2>2, <2>3 DEF SolidTolerances
  <2> QED BY <2>1, <2>4 DEF AsGiven
<1> QED BY <1>1, JournalStands, PTL

(* A seated cut that is not made leaves the tolerances as it found them,   *)
(* whether it opened the journal or notes in the one of the attempt it is  *)
(* part of.                                                                *)
THEOREM CutUndoneIsPutBack == RoundingSpec => CutPutsBack
<1>1. RoundingIInv /\ [RoundingNext]_roundingVars => [UndoCut => tol' = before]_roundingVars
  BY CutUndone
<1> QED BY <1>1, JournalStands, PTL DEF RoundingSpec, CutPutsBack

=============================================================================
