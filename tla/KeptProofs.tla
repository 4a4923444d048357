----------------------------- MODULE KeptProofs -----------------------------
(***************************************************************************)
(* Proofs about what a model keeps and shares: that boxes and reads are    *)
(* found as they would be found again, that only edits change shapes, and  *)
(* that what several shapes hold is marked, so that a shape unshared is    *)
(* alone.                                                                  *)
(***************************************************************************)
EXTENDS ModelKept, FiniteSetTheorems, SequenceTheorems, WellFoundedInduction, TLAPS

-----------------------------------------------------------------------------
(* Nodes in order.                                                         *)

(* Each kind of node is made of the kind below it.                         *)
Ordered(ns) ==
    \A i \in DOMAIN ns :
        /\ ns[i].kind \in Kinds
        /\ ns[i].children \subseteq DOMAIN ns
        /\ ns[i].kind = "vertex" => ns[i].children = {}
        /\ ns[i].kind = "edge" => \A c \in ns[i].children : ns[c].kind = "vertex"
        /\ ns[i].kind = "face" => \A c \in ns[i].children : ns[c].kind = "edge"
        /\ ns[i].kind = "shell" => \A c \in ns[i].children : ns[c].kind = "face"

-----------------------------------------------------------------------------
(* What a node means.                                                      *)

(* Meanings is the function its definition asks for: kinds are ordered, so *)
(* it can be put together level by level.                                  *)
LEMMA MeaningsAre ==
    ASSUME NEW ns, Ordered(ns), NEW meant, meant = Meanings(ns)
    PROVE  \A i \in DOMAIN ns : meant[i] = [kind |-> ns[i].kind, data |-> ns[i].data, parts |-> {meant[c] : c \in ns[i].children}]
<1> DEFINE D == DOMAIN ns
           of(m, i) == [kind |-> ns[i].kind, data |-> ns[i].data,
                        parts |-> {m[c] : c \in ns[i].children}]
           v == [i \in D |-> [kind |-> ns[i].kind, data |-> ns[i].data, parts |-> {}]]
           e == [i \in D |-> of(v, i)]
           f == [i \in D |-> of(e, i)]
           s == [i \in D |-> of(f, i)]
           m == [i \in D |-> IF ns[i].kind = "vertex" THEN v[i]
                             ELSE IF ns[i].kind = "edge" THEN e[i]
                             ELSE IF ns[i].kind = "face" THEN f[i] ELSE s[i]]
<1>1. \A i \in D : m[i] = of(m, i)
  <2> SUFFICES ASSUME NEW i \in D PROVE m[i] = of(m, i)
    OBVIOUS
  <2>1. /\ ns[i].kind \in {"vertex", "edge", "face", "shell"}
        /\ ns[i].children \subseteq D
        /\ ns[i].kind = "vertex" => ns[i].children = {}
        /\ ns[i].kind = "edge" => \A c \in ns[i].children : ns[c].kind = "vertex"
        /\ ns[i].kind = "face" => \A c \in ns[i].children : ns[c].kind = "edge"
        /\ ns[i].kind = "shell" => \A c \in ns[i].children : ns[c].kind = "face"
    BY DEF Ordered, Kinds
  <2>2. ASSUME ns[i].kind = "vertex" PROVE m[i] = of(m, i)
    BY <2>1, <2>2
  <2>3. ASSUME ns[i].kind = "edge" PROVE m[i] = of(m, i)
    <3>1. \A c \in ns[i].children : m[c] = v[c]
      BY <2>1, <2>3
    <3>2. m[i] = of(v, i)
      BY <2>3
    <3> HIDE DEF m, v
    <3> QED BY <3>1, <3>2
  <2>4. ASSUME ns[i].kind = "face" PROVE m[i] = of(m, i)
    <3>1. \A c \in ns[i].children : m[c] = e[c]
      BY <2>1, <2>4
    <3>2. m[i] = of(e, i)
      BY <2>4
    <3> HIDE DEF m, e
    <3> QED BY <3>1, <3>2
  <2>5. ASSUME ns[i].kind = "shell" PROVE m[i] = of(m, i)
    <3>1. \A c \in ns[i].children : m[c] = f[c]
      BY <2>1, <2>5
    <3>2. m[i] = of(f, i)
      BY <2>5
    <3> HIDE DEF m, f
    <3> QED BY <3>1, <3>2
  <2> QED BY <2>1, <2>2, <2>3, <2>4, <2>5
<1>2. m = [i \in D |-> of(m, i)]
  <2>1. m = [i \in D |-> m[i]]
    OBVIOUS
  <2> HIDE DEF m
  <2> QED BY <1>1, <2>1
<1> HIDE DEF m
<1>3. \E g : g = [i \in D |-> of(g, i)]
  BY <1>2
<1> DEFINE P(g) == g = [i \in D |-> of(g, i)]
<1>4. P(Meanings(ns))
  BY <1>3, Zenon DEF Meanings
<1>5. P(meant)
  <2> HIDE DEF P
  <2> QED BY <1>4
<1> QED BY <1>5

(* So is Tolerances.                                                       *)
LEMMA TolerancesAre ==
    ASSUME NEW ns, Ordered(ns), NEW meant, meant = Tolerances(ns)
    PROVE  \A i \in DOMAIN ns : meant[i] = [own |-> ns[i].tolerance, parts |-> {meant[c] : c \in ns[i].children}]
<1> DEFINE D == DOMAIN ns
           of(m, i) == [own |-> ns[i].tolerance, parts |-> {m[c] : c \in ns[i].children}]
           v == [i \in D |-> [own |-> ns[i].tolerance, parts |-> {}]]
           e == [i \in D |-> of(v, i)]
           f == [i \in D |-> of(e, i)]
           s == [i \in D |-> of(f, i)]
           m == [i \in D |-> IF ns[i].kind = "vertex" THEN v[i]
                             ELSE IF ns[i].kind = "edge" THEN e[i]
                             ELSE IF ns[i].kind = "face" THEN f[i] ELSE s[i]]
<1>1. \A i \in D : m[i] = of(m, i)
  <2> SUFFICES ASSUME NEW i \in D PROVE m[i] = of(m, i)
    OBVIOUS
  <2>1. /\ ns[i].kind \in {"vertex", "edge", "face", "shell"}
        /\ ns[i].children \subseteq D
        /\ ns[i].kind = "vertex" => ns[i].children = {}
        /\ ns[i].kind = "edge" => \A c \in ns[i].children : ns[c].kind = "vertex"
        /\ ns[i].kind = "face" => \A c \in ns[i].children : ns[c].kind = "edge"
        /\ ns[i].kind = "shell" => \A c \in ns[i].children : ns[c].kind = "face"
    BY DEF Ordered, Kinds
  <2>2. ASSUME ns[i].kind = "vertex" PROVE m[i] = of(m, i)
    BY <2>1, <2>2
  <2>3. ASSUME ns[i].kind = "edge" PROVE m[i] = of(m, i)
    <3>1. \A c \in ns[i].children : m[c] = v[c]
      BY <2>1, <2>3
    <3>2. m[i] = of(v, i)
      BY <2>3
    <3> HIDE DEF m, v
    <3> QED BY <3>1, <3>2
  <2>4. ASSUME ns[i].kind = "face" PROVE m[i] = of(m, i)
    <3>1. \A c \in ns[i].children : m[c] = e[c]
      BY <2>1, <2>4
    <3>2. m[i] = of(e, i)
      BY <2>4
    <3> HIDE DEF m, e
    <3> QED BY <3>1, <3>2
  <2>5. ASSUME ns[i].kind = "shell" PROVE m[i] = of(m, i)
    <3>1. \A c \in ns[i].children : m[c] = f[c]
      BY <2>1, <2>5
    <3>2. m[i] = of(f, i)
      BY <2>5
    <3> HIDE DEF m, f
    <3> QED BY <3>1, <3>2
  <2> QED BY <2>1, <2>2, <2>3, <2>4, <2>5
<1>2. m = [i \in D |-> of(m, i)]
  <2>1. m = [i \in D |-> m[i]]
    OBVIOUS
  <2> HIDE DEF m
  <2> QED BY <1>1, <2>1
<1> HIDE DEF m
<1>3. \E g : g = [i \in D |-> of(g, i)]
  BY <1>2
<1> DEFINE P(g) == g = [i \in D |-> of(g, i)]
<1>4. P(Tolerances(ns))
  BY <1>3, Zenon DEF Tolerances
<1>5. P(meant)
  <2> HIDE DEF P
  <2> QED BY <1>4
<1> QED BY <1>5

(* Nodes that correspond hold nodes that correspond.                       *)
Corresponds(ns, ms, R) ==
    \A i \in DOMAIN ns, j \in DOMAIN ms : <<i, j>> \in R =>
        /\ ns[i].kind = ms[j].kind
        /\ \A c \in ns[i].children : \E d \in ms[j].children : <<c, d>> \in R
        /\ \A d \in ms[j].children : \E c \in ns[i].children : <<c, d>> \in R

SameData(ns, ms, R) ==
    \A i \in DOMAIN ns, j \in DOMAIN ms : <<i, j>> \in R => ns[i].data = ms[j].data

SameTolerance(ns, ms, R) ==
    \A i \in DOMAIN ns, j \in DOMAIN ms : <<i, j>> \in R => ns[i].tolerance = ms[j].tolerance

(* What is the same of corresponding nodes once it is of their children    *)
(* is the same of them all.                                                *)
Inherited(ns, ms, R, m, n) ==
    \A i \in DOMAIN ns, j \in DOMAIN ms :
        (/\ <<i, j>> \in R
         /\ \A c \in ns[i].children, d \in ms[j].children : <<c, d>> \in R => m[c] = n[d])
            => m[i] = n[j]

Same(ns, ms, R, m, n) == \A i \in DOMAIN ns, j \in DOMAIN ms : <<i, j>> \in R => m[i] = n[j]

(* What nodes that correspond inherit the same is the same, vertices first *)
(* and shells last.                                                        *)
LEMMA LevelByLevel ==
    ASSUME NEW ns, NEW ms, NEW R, NEW m, NEW n, Ordered(ns), Ordered(ms),
           Corresponds(ns, ms, R), Inherited(ns, ms, R, m, n)
    PROVE  Same(ns, ms, R, m, n)
<1> DEFINE all(kind) == \A i \in DOMAIN ns, j \in DOMAIN ms :
                            <<i, j>> \in R /\ ns[i].kind = kind => m[i] = n[j]
<1>1. all("vertex")
  BY DEF Ordered, Inherited
<1>2. ASSUME NEW low, NEW kind, all(low),
             \A i \in DOMAIN ns : ns[i].kind = kind => \A c \in ns[i].children : ns[c].kind = low
      PROVE  all(kind)
  <2> SUFFICES ASSUME NEW i \in DOMAIN ns, NEW j \in DOMAIN ms, <<i, j>> \in R, ns[i].kind = kind
               PROVE  m[i] = n[j]
    OBVIOUS
  <2>1. ns[i].children \subseteq DOMAIN ns /\ ms[j].children \subseteq DOMAIN ms
    BY DEF Ordered
  <2>2. \A c \in ns[i].children, d \in ms[j].children : <<c, d>> \in R => m[c] = n[d]
    BY <1>2, <2>1
  <2> QED BY <2>2 DEF Inherited
<1>3. /\ \A i \in DOMAIN ns : ns[i].kind = "edge" => \A c \in ns[i].children : ns[c].kind = "vertex"
      /\ \A i \in DOMAIN ns : ns[i].kind = "face" => \A c \in ns[i].children : ns[c].kind = "edge"
      /\ \A i \in DOMAIN ns : ns[i].kind = "shell" => \A c \in ns[i].children : ns[c].kind = "face"
  BY DEF Ordered
<1> HIDE DEF all
<1>4. all("edge")
  BY <1>1, <1>2, <1>3
<1>5. all("face")
  BY <1>2, <1>3, <1>4
<1>6. all("shell")
  BY <1>2, <1>3, <1>5
<1> QED BY <1>1, <1>4, <1>5, <1>6 DEF all, Same, Ordered, Kinds

Matched(A, B, m, n) ==
    /\ \A c \in A : \E d \in B : m[c] = n[d]
    /\ \A d \in B : \E c \in A : m[c] = n[d]

(* Parts that match one to one and alike are the same parts.               *)
LEMMA SameImages ==
    ASSUME NEW A, NEW B, NEW m, NEW n, Matched(A, B, m, n)
    PROVE  {m[c] : c \in A} = {n[d] : d \in B}
<1>1. \A c \in A : \E d \in B : m[c] = n[d]
  BY DEF Matched
<1>2. \A d \in B : \E c \in A : m[c] = n[d]
  BY DEF Matched
<1>3. {m[c] : c \in A} \subseteq {n[d] : d \in B}
  BY <1>1, Zenon
<1>4. {n[d] : d \in B} \subseteq {m[c] : c \in A}
  BY <1>2, Zenon
<1> QED BY <1>3, <1>4, Zenon

(* Nodes that correspond and have the same data mean the same.             *)
LEMMA SameMeaning ==
    ASSUME NEW ns, NEW ms, NEW R,
           Ordered(ns), Ordered(ms), Corresponds(ns, ms, R), SameData(ns, ms, R)
    PROVE  Same(ns, ms, R, Meanings(ns), Meanings(ms))
<1>1. PICK m : m = Meanings(ns)
  OBVIOUS
<1>2. PICK n : n = Meanings(ms)
  OBVIOUS
<1>3. /\ \A i \in DOMAIN ns : m[i] = [kind |-> ns[i].kind, data |-> ns[i].data, parts |-> {m[c] : c \in ns[i].children}]
      /\ \A j \in DOMAIN ms : n[j] = [kind |-> ms[j].kind, data |-> ms[j].data, parts |-> {n[c] : c \in ms[j].children}]
  BY <1>1, <1>2, MeaningsAre
<1>4. ASSUME NEW i \in DOMAIN ns, NEW j \in DOMAIN ms, <<i, j>> \in R,
             \A c \in ns[i].children, d \in ms[j].children : <<c, d>> \in R => m[c] = n[d]
      PROVE  m[i] = n[j]
  <2>1. /\ \A c \in ns[i].children : \E d \in ms[j].children : <<c, d>> \in R
        /\ \A d \in ms[j].children : \E c \in ns[i].children : <<c, d>> \in R
    BY <1>4 DEF Corresponds
  <2>2. {m[c] : c \in ns[i].children} = {n[d] : d \in ms[j].children}
    <3>1. Matched(ns[i].children, ms[j].children, m, n)
      BY <1>4, <2>1 DEF Matched
    <3> QED BY <3>1, SameImages
  <2>3. ns[i].kind = ms[j].kind /\ ns[i].data = ms[j].data
    BY <1>4 DEF Corresponds, SameData
  <2> QED BY <1>3, <2>2, <2>3
<1>5. Inherited(ns, ms, R, m, n)
  BY <1>4 DEF Inherited
<1>6. Same(ns, ms, R, m, n)
  BY <1>5, LevelByLevel
<1> QED BY <1>1, <1>2, <1>6

(* So they have the same tolerances where their own are.                   *)
LEMMA SameTolerances ==
    ASSUME NEW ns, NEW ms, NEW R,
           Ordered(ns), Ordered(ms), Corresponds(ns, ms, R), SameTolerance(ns, ms, R)
    PROVE  Same(ns, ms, R, Tolerances(ns), Tolerances(ms))
<1>1. PICK m : m = Tolerances(ns)
  OBVIOUS
<1>2. PICK n : n = Tolerances(ms)
  OBVIOUS
<1>3. /\ \A i \in DOMAIN ns : m[i] = [own |-> ns[i].tolerance, parts |-> {m[c] : c \in ns[i].children}]
      /\ \A j \in DOMAIN ms : n[j] = [own |-> ms[j].tolerance, parts |-> {n[c] : c \in ms[j].children}]
  BY <1>1, <1>2, TolerancesAre
<1>4. ASSUME NEW i \in DOMAIN ns, NEW j \in DOMAIN ms, <<i, j>> \in R,
             \A c \in ns[i].children, d \in ms[j].children : <<c, d>> \in R => m[c] = n[d]
      PROVE  m[i] = n[j]
  <2>1. /\ \A c \in ns[i].children : \E d \in ms[j].children : <<c, d>> \in R
        /\ \A d \in ms[j].children : \E c \in ns[i].children : <<c, d>> \in R
    BY <1>4 DEF Corresponds
  <2>2. {m[c] : c \in ns[i].children} = {n[d] : d \in ms[j].children}
    <3>1. Matched(ns[i].children, ms[j].children, m, n)
      BY <1>4, <2>1 DEF Matched
    <3> QED BY <3>1, SameImages
  <2>3. ns[i].tolerance = ms[j].tolerance
    BY <1>4 DEF Corresponds, SameTolerance
  <2> QED BY <1>3, <2>2, <2>3
<1>5. Inherited(ns, ms, R, m, n)
  BY <1>4 DEF Inherited
<1>6. Same(ns, ms, R, m, n)
  BY <1>5, LevelByLevel
<1> QED BY <1>1, <1>2, <1>6

-----------------------------------------------------------------------------
(* What lies below.                                                        *)

Kids(ns, S) == UNION {ns[i].children : i \in S}
WithKids(ns, S) == S \cup Kids(ns, S)
BelowIn(ns, S) == WithKids(ns, WithKids(ns, WithKids(ns, S)))

Closed(ns, T) == \A x \in T : ns[x].children \subseteq T

(* Below is reachability in the nodes there are.                           *)
LEMMA BelowIs == \A S : Below(S) = BelowIn(nodes, S)
BY DEF Below, BelowIn, WithChildren, WithKids, Children, Kids

(* What lies below some nodes is the least set that holds them and what    *)
(* each it holds is made of.                                               *)
LEMMA BelowIsLeast ==
    ASSUME NEW ns, Ordered(ns), NEW S, S \subseteq DOMAIN ns
    PROVE  /\ S \subseteq BelowIn(ns, S) /\ BelowIn(ns, S) \subseteq DOMAIN ns
           /\ Closed(ns, BelowIn(ns, S))
           /\ \A T : S \subseteq T /\ Closed(ns, T) => BelowIn(ns, S) \subseteq T
<1> DEFINE a == WithKids(ns, S)
           b == WithKids(ns, a)
           c == WithKids(ns, b)
<1>0. BelowIn(ns, S) = c
  BY DEF BelowIn
<1>1. ASSUME NEW U, U \subseteq DOMAIN ns
      PROVE  /\ WithKids(ns, U) \subseteq DOMAIN ns /\ U \subseteq WithKids(ns, U)
             /\ \A x \in U : ns[x].children \subseteq WithKids(ns, U)
             /\ \A x \in WithKids(ns, U) : x \in U \/ \E p \in U : x \in ns[p].children
             /\ \A T : U \subseteq T /\ Closed(ns, T) => WithKids(ns, U) \subseteq T
  BY <1>1 DEF WithKids, Kids, Ordered, Closed
<1>2. a \subseteq DOMAIN ns /\ b \subseteq DOMAIN ns /\ c \subseteq DOMAIN ns
  BY <1>1
<1>3. S \subseteq a /\ a \subseteq b /\ b \subseteq c
  BY <1>1, <1>2
<1>4. /\ \A x \in S : ns[x].children \subseteq a
      /\ \A x \in a : ns[x].children \subseteq b
      /\ \A x \in b : ns[x].children \subseteq c
      /\ \A x \in a : x \in S \/ \E p \in S : x \in ns[p].children
      /\ \A x \in b : x \in a \/ \E p \in a : x \in ns[p].children
      /\ \A x \in c : x \in b \/ \E p \in b : x \in ns[p].children
  BY <1>1, <1>2
<1>5. \A T : S \subseteq T /\ Closed(ns, T) => c \subseteq T
  BY <1>1, <1>2
<1> HIDE DEF a, b, c
<1>6. ASSUME NEW x \in c PROVE ns[x].children \subseteq c
  <2>1. CASE x \in b
    BY <1>4, <2>1
  <2>2. CASE x \notin b
    <3>1. PICK p \in b : x \in ns[p].children
      BY <1>4, <2>2
    <3>2. p \notin a
      BY <1>4, <2>2, <3>1
    <3>3. PICK q \in a : p \in ns[q].children
      BY <1>4, <3>2
    <3>4. q \notin S
      BY <1>4, <3>2, <3>3
    <3>5. PICK t \in S : q \in ns[t].children
      BY <1>4, <3>4
    <3>6. t \in DOMAIN ns /\ q \in DOMAIN ns /\ p \in DOMAIN ns /\ x \in DOMAIN ns
      BY <1>2, <1>3
    <3>7. ns[t].kind # "vertex"
      BY <3>5, <3>6 DEF Ordered
    <3>8. ns[q].kind # "vertex" /\ ns[q].kind \in {"vertex", "edge", "face"}
      BY <3>3, <3>5, <3>6 DEF Ordered, Kinds
    <3>9. ns[p].kind # "vertex" /\ ns[p].kind \in {"vertex", "edge"}
      BY <3>1, <3>3, <3>6, <3>8 DEF Ordered
    <3>10. ns[x].kind = "vertex"
      BY <3>1, <3>6, <3>9 DEF Ordered
    <3> QED BY <3>6, <3>10 DEF Ordered
  <2> QED BY <2>1, <2>2
<1> QED BY <1>0, <1>2, <1>3, <1>5, <1>6 DEF Closed

(* What lies below a node below S lies below S.                            *)
LEMMA BelowGrows ==
    ASSUME NEW ns, Ordered(ns), NEW S, NEW x, S \subseteq DOMAIN ns, x \in BelowIn(ns, S)
    PROVE  BelowIn(ns, {x}) \subseteq BelowIn(ns, S)
<1>1. {x} \subseteq DOMAIN ns /\ {x} \subseteq BelowIn(ns, S) /\ Closed(ns, BelowIn(ns, S))
  BY BelowIsLeast
<1> QED BY <1>1, BelowIsLeast

(* What lies below some nodes lies below one of them.                      *)
LEMMA BelowEach ==
    ASSUME NEW ns, Ordered(ns), NEW S, S \subseteq DOMAIN ns, NEW x \in BelowIn(ns, S)
    PROVE  \E s \in S : x \in BelowIn(ns, {s})
<1> DEFINE T == UNION {BelowIn(ns, {s}) : s \in S}
<1>1. ASSUME NEW s \in S
      PROVE  s \in BelowIn(ns, {s}) /\ Closed(ns, BelowIn(ns, {s}))
  <2>1. {s} \subseteq DOMAIN ns
    OBVIOUS
  <2> QED BY <2>1, BelowIsLeast
<1>2. S \subseteq T
  BY <1>1
<1>3. Closed(ns, T)
  BY <1>1 DEF Closed
<1>4. x \in T
  <2> HIDE DEF T
  <2> QED BY <1>2, <1>3, BelowIsLeast
<1> QED BY <1>4

-----------------------------------------------------------------------------
(* Nodes that stay as they are mean what they did.                         *)
Identity(T) == {<<x, x>> : x \in T}

AlikeIn(ns, ms, T) ==
    /\ T \subseteq DOMAIN ns /\ T \subseteq DOMAIN ms /\ Closed(ns, T)
    /\ \A x \in T : ms[x].kind = ns[x].kind /\ ms[x].children = ns[x].children

(* A node that stays corresponds to itself.                                *)
LEMMA AlikeCorresponds ==
    ASSUME NEW ns, NEW ms, NEW T, AlikeIn(ns, ms, T)
    PROVE  /\ Corresponds(ns, ms, Identity(T))
           /\ \A x \in T : <<x, x>> \in Identity(T)
<1>1. \A i, j : <<i, j>> \in Identity(T) <=> i \in T /\ j = i
  BY DEF Identity
<1>2. \A x \in T : /\ ms[x].kind = ns[x].kind /\ ms[x].children = ns[x].children
                    /\ ns[x].children \subseteq T
  BY DEF AlikeIn, Closed
<1> HIDE DEF Identity
<1>3. ASSUME NEW i \in DOMAIN ns, NEW j \in DOMAIN ms, <<i, j>> \in Identity(T)
      PROVE  /\ ns[i].kind = ms[j].kind
             /\ \A c \in ns[i].children : \E d \in ms[j].children : <<c, d>> \in Identity(T)
             /\ \A d \in ms[j].children : \E c \in ns[i].children : <<c, d>> \in Identity(T)
  <2>1. i \in T /\ j = i
    BY <1>1, <1>3
  <2>2. ms[i].children = ns[i].children /\ \A c \in ns[i].children : <<c, c>> \in Identity(T)
    BY <1>1, <1>2, <2>1
  <2> QED BY <1>2, <2>1, <2>2
<1> QED BY <1>1, <1>3 DEF Corresponds

(* A node that stays, with all that is below it, means what it did.        *)
LEMMA AlikeMeansSame ==
    ASSUME NEW ns, NEW ms, Ordered(ns), Ordered(ms), NEW T, AlikeIn(ns, ms, T),
           \A x \in T : ms[x].data = ns[x].data
    PROVE  \A x \in T : Meanings(ms)[x] = Meanings(ns)[x]
<1>1. /\ Corresponds(ns, ms, Identity(T))
      /\ \A x \in T : <<x, x>> \in Identity(T)
  BY AlikeCorresponds
<1>2. SameData(ns, ms, Identity(T))
  BY DEF Identity, SameData
<1>3. Same(ns, ms, Identity(T), Meanings(ns), Meanings(ms))
  BY <1>1, <1>2, SameMeaning, Zenon
<1>4. T \subseteq DOMAIN ns /\ T \subseteq DOMAIN ms
  BY DEF AlikeIn
<1>5. ASSUME NEW x \in T PROVE Meanings(ms)[x] = Meanings(ns)[x]
  BY <1>1, <1>3, <1>4, Zenon DEF Same
<1> QED BY <1>5, Zenon

(* With its tolerances it reads as it did.                                 *)
LEMMA AlikeIsAsLoose ==
    ASSUME NEW ns, NEW ms, Ordered(ns), Ordered(ms), NEW T, AlikeIn(ns, ms, T),
           \A x \in T : ms[x].tolerance = ns[x].tolerance
    PROVE  \A x \in T : Tolerances(ms)[x] = Tolerances(ns)[x]
<1>1. /\ Corresponds(ns, ms, Identity(T))
      /\ \A x \in T : <<x, x>> \in Identity(T)
  BY AlikeCorresponds
<1>2. SameTolerance(ns, ms, Identity(T))
  BY DEF Identity, SameTolerance
<1>3. Same(ns, ms, Identity(T), Tolerances(ns), Tolerances(ms))
  BY <1>1, <1>2, SameTolerances, Zenon
<1>4. T \subseteq DOMAIN ns /\ T \subseteq DOMAIN ms
  BY DEF AlikeIn
<1>5. ASSUME NEW x \in T PROVE Tolerances(ms)[x] = Tolerances(ns)[x]
  BY <1>1, <1>3, <1>4, Zenon DEF Same
<1> QED BY <1>5, Zenon

(* What lies below a node that stays as it is, is below it afterwards.     *)
LEMMA AlikeBelow ==
    ASSUME NEW ns, NEW ms, Ordered(ns), Ordered(ms), NEW S, S \subseteq DOMAIN ns,
           AlikeIn(ns, ms, BelowIn(ns, S))
    PROVE  BelowIn(ms, S) = BelowIn(ns, S)
<1> DEFINE T == BelowIn(ns, S)
           U == BelowIn(ms, S)
<1>1. /\ S \subseteq T /\ T \subseteq DOMAIN ns /\ Closed(ns, T)
      /\ \A V : S \subseteq V /\ Closed(ns, V) => T \subseteq V
  BY BelowIsLeast
<1>2. T \subseteq DOMAIN ms /\ \A x \in T : ms[x].children = ns[x].children
  BY DEF AlikeIn
<1>3. S \subseteq DOMAIN ms
  BY <1>1, <1>2
<1>4. /\ S \subseteq U /\ Closed(ms, U)
      /\ \A V : S \subseteq V /\ Closed(ms, V) => U \subseteq V
  BY <1>3, BelowIsLeast
<1> HIDE DEF T, U
<1>5. Closed(ms, T)
  BY <1>1, <1>2 DEF Closed
<1>6. U \subseteq T
  BY <1>1, <1>4, <1>5
<1>7. Closed(ns, U)
  BY <1>2, <1>4, <1>6 DEF Closed
<1> QED BY <1>1, <1>4, <1>6, <1>7 DEF T, U

-----------------------------------------------------------------------------
(* Numbers of a set in order.                                              *)
Ranks(S) == 1..Cardinality(S)

(* A set of naturals that is not empty has a least member.                 *)
LEMMA HasLeast ==
    ASSUME NEW T \in SUBSET Nat, T # {}
    PROVE  \E x \in T : \A y \in T : x <= y
<1>1. \E x \in T : \A y \in T : ~(<<y, x>> \in OpToRel(<, Nat))
  BY NatLessThanWellFounded, WFMin
<1>2. PICK x \in T : \A y \in T : ~(y < x)
  BY <1>1 DEF OpToRel
<1>3. \A y \in T : y \in Nat /\ x \in Nat
  OBVIOUS
<1> QED BY <1>2, <1>3

(* Ranks go up with the members.                                           *)
LEMMA RankStrict ==
    ASSUME NEW S \in SUBSET Nat, IsFiniteSet(S), NEW x \in S, NEW y \in Nat, x < y
    PROVE  Rank(S, x) \in Nat /\ Rank(S, y) \in Nat /\ Rank(S, x) < Rank(S, y)
<1> DEFINE A == {z \in S : z < x}
           B == {z \in S : z < y}
<1>1. A \in SUBSET S /\ B \in SUBSET S /\ x \in B /\ x \notin A
  OBVIOUS
<1>5. ASSUME NEW z \in A PROVE z \in B
  <2>1. z \in Nat /\ x \in Nat /\ z < x
    OBVIOUS
  <2>2. z < y
    BY <2>1
  <2> QED BY <2>2
<1>6. A \in SUBSET B
  BY <1>5
<1>2. IsFiniteSet(A) /\ IsFiniteSet(B)
  BY <1>1, FS_Subset
<1>3. /\ Cardinality(A) \in Nat /\ Cardinality(B) \in Nat
      /\ Cardinality(A) <= Cardinality(B)
      /\ Cardinality(B) = Cardinality(A) => B = A
  BY <1>6, <1>2, FS_Subset, FS_CardinalityType
<1>4. Rank(S, x) = Cardinality(A) + 1 /\ Rank(S, y) = Cardinality(B) + 1
  BY DEF Rank
<1> HIDE DEF A, B
<1> QED BY <1>1, <1>3, <1>4

(* A rank is at least one.                                                 *)
LEMMA RankPositive ==
    ASSUME NEW S, IsFiniteSet(S), NEW x
    PROVE  Rank(S, x) \in Nat \ {0}
<1> DEFINE A == {z \in S : z < x}
<1>1. IsFiniteSet(A)
  BY FS_Subset
<1>2. Cardinality(A) \in Nat
  BY <1>1, FS_CardinalityType
<1>3. Rank(S, x) = Cardinality(A) + 1
  BY DEF Rank
<1> HIDE DEF A
<1> QED BY <1>2, <1>3

(* A rank is at most how many members there are.                           *)
LEMMA RankAtMost ==
    ASSUME NEW S \in SUBSET Nat, IsFiniteSet(S), NEW x \in S
    PROVE  Rank(S, x) \in Ranks(S)
<1> DEFINE A == {z \in S : z < x}
<1>1. A \in SUBSET S /\ x \in S /\ x \notin A
  OBVIOUS
<1>2. IsFiniteSet(A)
  BY <1>1, FS_Subset
<1>3. /\ Cardinality(A) \in Nat /\ Cardinality(S) \in Nat
      /\ Cardinality(A) <= Cardinality(S)
      /\ Cardinality(S) = Cardinality(A) => S = A
  BY <1>1, <1>2, FS_Subset, FS_CardinalityType
<1>4. Rank(S, x) = Cardinality(A) + 1
  BY DEF Rank
<1> HIDE DEF A
<1> QED BY <1>1, <1>3, <1>4 DEF Ranks

(* Every number up to how many there are is the rank of a member.          *)
LEMMA AtIsThere ==
    ASSUME NEW S \in SUBSET Nat, IsFiniteSet(S), NEW k \in Ranks(S)
    PROVE  At(S, k) \in S /\ Rank(S, At(S, k)) = k
<1> DEFINE rank == [x \in S |-> Rank(S, x)]
<1>1. rank \in [S -> Ranks(S)]
  BY RankAtMost
<1>2. \A x, y \in S : rank[x] = rank[y] => x = y
  <2>1. SUFFICES ASSUME NEW x \in S, NEW y \in S, x # y PROVE rank[x] # rank[y]
    OBVIOUS
  <2>2. x \in Nat /\ y \in Nat
    OBVIOUS
  <2>3. CASE x < y
    BY <2>2, <2>3, RankStrict
  <2>4. CASE y < x
    BY <2>2, <2>4, RankStrict
  <2> QED BY <2>1, <2>2, <2>3, <2>4
<1>3. rank \in Injection(S, Ranks(S))
  BY <1>1, <1>2 DEF Injection, IsInjective
<1>4. /\ Cardinality(S) \in Nat
      /\ IsFiniteSet(Ranks(S)) /\ Cardinality(Ranks(S)) = Cardinality(S)
  <2>1. Cardinality(S) \in Nat
    BY FS_CardinalityType
  <2> QED BY <2>1, FS_Interval DEF Ranks
<1>5. rank \in Surjection(S, Ranks(S))
  BY <1>3, <1>4, FS_Injection
<1>6. PICK x \in S : rank[x] = k
  BY <1>5 DEF Surjection
<1>7. Rank(S, x) = k
  BY <1>6
<1> QED BY <1>7 DEF At

(* Members of one rank are one.                                            *)
LEMMA RankIsOneToOne ==
    ASSUME NEW S \in SUBSET Nat, IsFiniteSet(S), NEW x \in S, NEW y \in S, Rank(S, x) = Rank(S, y)
    PROVE  x = y
<1>1. x \in Nat /\ y \in Nat
  OBVIOUS
<1>2. CASE x < y
  BY <1>1, <1>2, RankStrict
<1>3. CASE y < x
  BY <1>1, <1>3, RankStrict
<1> QED BY <1>1, <1>2, <1>3

(* At undoes Rank.                                                         *)
LEMMA AtOfRank ==
    ASSUME NEW S \in SUBSET Nat, IsFiniteSet(S), NEW x \in S
    PROVE  At(S, Rank(S, x)) = x
<1>1. Rank(S, x) \in Ranks(S)
  BY RankAtMost
<1>2. At(S, Rank(S, x)) \in S /\ Rank(S, At(S, Rank(S, x))) = Rank(S, x)
  BY <1>1, AtIsThere
<1>3. At(S, Rank(S, x)) \in S /\ Rank(S, At(S, Rank(S, x))) = Rank(S, x)
  BY <1>2
<1>4. PICK y : y = At(S, Rank(S, x))
  OBVIOUS
<1>5. y \in S /\ Rank(S, y) = Rank(S, x)
  BY <1>3, <1>4
<1>6. y = x
  BY <1>5, RankIsOneToOne
<1> QED BY <1>4, <1>6

-----------------------------------------------------------------------------
(* Lists, of whatever they hold.                                           *)
IsList(s) == s \in Seq({s[k] : k \in DOMAIN s})

(* A sequence is a list of its own entries.                                *)
LEMMA ListIs == ASSUME NEW s, NEW A, s \in Seq(A) PROVE IsList(s)
<1>1. Len(s) \in Nat /\ s \in [1..Len(s) -> A] /\ DOMAIN s = 1..Len(s)
  OBVIOUS
<1>2. s \in [1..Len(s) -> {s[k] : k \in DOMAIN s}]
  BY <1>1
<1> QED BY <1>1, <1>2 DEF IsList

(* A function from 1..n is a list.                                         *)
LEMMA ListMade ==
    ASSUME NEW n \in Nat, NEW s, s = [k \in 1..n |-> s[k]]
    PROVE  IsList(s) /\ Len(s) = n /\ DOMAIN s = 1..n
<1>1. DOMAIN s = 1..n
  OBVIOUS
<1>2. s \in [1..n -> {s[k] : k \in DOMAIN s}]
  BY <1>1
<1>3. s \in Seq({s[k] : k \in DOMAIN s})
  BY <1>2
<1> QED BY <1>1, <1>3 DEF IsList

(* The length of a list, and its places.                                   *)
LEMMA ListLen ==
    ASSUME NEW s, IsList(s)
    PROVE  Len(s) \in Nat /\ DOMAIN s = 1..Len(s)
BY DEF IsList

(* An entry appended stands last, the others where they stood.             *)
LEMMA ListAppend ==
    ASSUME NEW s, IsList(s), NEW e
    PROVE  /\ IsList(Append(s, e)) /\ Len(Append(s, e)) = Len(s) + 1
           /\ \A k \in DOMAIN s : Append(s, e)[k] = s[k]
           /\ Append(s, e)[Len(s) + 1] = e
<1> DEFINE A == {s[k] : k \in DOMAIN s} \cup {e}
<1>1. s \in Seq(A)
  <2>1. s \in [1..Len(s) -> A] /\ Len(s) \in Nat
    BY DEF IsList
  <2> HIDE DEF A
  <2> QED BY <2>1
<1>2. e \in A
  OBVIOUS
<1> HIDE DEF A
<1>3. Append(s, e) \in Seq(A)
  BY <1>1, <1>2
<1>4. IsList(Append(s, e))
  BY <1>3, ListIs
<1>5. /\ Len(Append(s, e)) = Len(s) + 1
      /\ \A k \in 1..Len(s) : Append(s, e)[k] = s[k]
      /\ Append(s, e)[Len(s) + 1] = e
  BY <1>1, <1>2, AppendProperties
<1> QED BY <1>1, <1>4, <1>5

Joins(s, t) ==
    /\ IsList(s \o t) /\ Len(s \o t) = Len(s) + Len(t)
    /\ \A k \in DOMAIN s : (s \o t)[k] = s[k]
    /\ \A k \in DOMAIN t : (s \o t)[Len(s) + k] = t[k]

(* In two lists joined, those of the second stand after the first.         *)
LEMMA ListConcat == ASSUME NEW s, IsList(s), NEW t, IsList(t) PROVE Joins(s, t)
<1> DEFINE A == {s[k] : k \in DOMAIN s} \cup {t[k] : k \in DOMAIN t}
<1>1. s \in Seq(A) /\ t \in Seq(A)
  <2>1. s \in [1..Len(s) -> A] /\ t \in [1..Len(t) -> A] /\ Len(s) \in Nat /\ Len(t) \in Nat
    BY DEF IsList
  <2> HIDE DEF A
  <2> QED BY <2>1
<1> HIDE DEF A
<1>2. s \o t \in Seq(A)
  BY <1>1
<1>3. IsList(s \o t)
  BY <1>2, ListIs
<1>4. /\ Len(s \o t) = Len(s) + Len(t)
      /\ \A k \in DOMAIN s : (s \o t)[k] = s[k]
      /\ \A k \in DOMAIN t : (s \o t)[Len(s) + k] = t[k]
  BY <1>1
<1> QED BY <1>3, <1>4 DEF Joins

(* The tail holds all but the first, one place down.                       *)
LEMMA ListTail ==
    ASSUME NEW s, IsList(s), Len(s) > 0
    PROVE  /\ IsList(Tail(s)) /\ Len(Tail(s)) = Len(s) - 1
           /\ \A k \in DOMAIN Tail(s) : k + 1 \in DOMAIN s /\ Tail(s)[k] = s[k + 1]
<1> DEFINE A == {s[k] : k \in DOMAIN s}
<1>1. s \in Seq(A) /\ s # <<>>
  BY DEF IsList
<1> HIDE DEF A
<1>2. Tail(s) \in Seq(A) /\ Len(Tail(s)) = Len(s) - 1
  BY <1>1
<1>3. IsList(Tail(s))
  BY <1>2, ListIs
<1>4. \A k \in 1..Len(s) - 1 : Tail(s)[k] = s[k + 1]
  BY <1>1
<1>5. DOMAIN Tail(s) = 1..Len(s) - 1 /\ DOMAIN s = 1..Len(s) /\ Len(s) \in Nat
  BY <1>1, <1>2
<1> QED BY <1>2, <1>3, <1>4, <1>5

(* What is left of a list at some of its places comes from it.             *)
LEMMA ThoseAre ==
    ASSUME NEW s, IsList(s), NEW P \in SUBSET DOMAIN s
    PROVE  /\ IsList(Those(s, P)) /\ Len(Those(s, P)) <= Len(s)
           /\ \A k \in DOMAIN Those(s, P) : \E j \in P : Those(s, P)[k] = s[j]
<1>1. Len(s) \in Nat /\ DOMAIN s = 1..Len(s)
  BY ListLen
<1>2. /\ IsFiniteSet(DOMAIN s) /\ Cardinality(DOMAIN s) = Len(s)
  BY <1>1, FS_Interval
<1>3. /\ IsFiniteSet(P) /\ Cardinality(P) \in Nat /\ Cardinality(P) <= Len(s)
  BY <1>2, FS_Subset, FS_CardinalityType
<1>4. P \in SUBSET Nat
  BY <1>1
<1>5. Those(s, P) = [k \in 1..Cardinality(P) |-> s[At(P, k)]]
  BY DEF Those
<1>6. IsList(Those(s, P)) /\ Len(Those(s, P)) = Cardinality(P) /\ DOMAIN Those(s, P) = 1..Cardinality(P)
  BY <1>3, <1>5, ListMade
<1>7. \A k \in 1..Cardinality(P) : At(P, k) \in P
  BY <1>3, <1>4, AtIsThere DEF Ranks
<1> QED BY <1>3, <1>5, <1>6, <1>7

-----------------------------------------------------------------------------
(* The inductive invariant, of nodes and what is kept of them.             *)
FacesOf(ns) == {i \in DOMAIN ns : ns[i].kind = "face"}

(* What edges and faces are made of knows what holds it.                   *)
Linked(ns) ==
    \A i \in DOMAIN ns : Linkable(ns[i]) => \A c \in ns[i].children : i \in ns[c].held_by

(* Every face has a place for its box, and the place is its own.           *)
Placed(ns, count) ==
    /\ count = Cardinality(FacesOf(ns))
    /\ \A i \in DOMAIN ns : ns[i].box \in IF ns[i].kind = "face" THEN 1..count ELSE {0}
    /\ \A i, j \in FacesOf(ns) : ns[i].box = ns[j].box => i = j

Graph(ns, n, count) ==
    /\ n \in 0..MaxSlots /\ DOMAIN ns \subseteq 1..n
    /\ \A i \in DOMAIN ns : ns[i] \in Node
    /\ Ordered(ns) /\ Linked(ns) /\ Placed(ns, count)

(* The boxes kept are those of the faces, found against the surfaces as    *)
(* they were at one time, and the flag says so.                            *)
Drawn(ns, kept, any, at) ==
    /\ IsList(kept) /\ Len(kept) = Cardinality(FacesOf(ns))
    /\ \A k \in DOMAIN kept : Cardinality(kept[k]) <= 1 /\ (kept[k] # {} => any)
    /\ \A f \in FacesOf(ns) : \A b \in kept[ns[f].box] :
          b = [face |-> Meanings(ns)[f], revision |-> at]

(* A set of slots a read is forgotten by: with a live node in it whatever  *)
(* the node is made of.                                                    *)
Covers(ns, n, below, i) ==
    /\ i \in below /\ below \subseteq 1..n
    /\ \A x \in below \cap DOMAIN ns : ns[x].children \subseteq below

ReadStands(ns, n, read) ==
    /\ read.shape \in DOMAIN ns /\ Covers(ns, n, read.below, read.shape)
    /\ read.found = [shape |-> Meanings(ns)[read.shape],
                     tolerances |-> Tolerances(ns)[read.shape], edits |-> read.edits]

ReadsStand(ns, n, kept) ==
    IsList(kept) /\ Len(kept) <= SHAPES /\ \A k \in DOMAIN kept : ReadStands(ns, n, kept[k])

-----------------------------------------------------------------------------
(* How it outlives a step.                                                 *)
LEMMA DrawnAlike ==
    ASSUME NEW ns, NEW ms, NEW kept, NEW any, NEW at, Drawn(ns, kept, any, at),
           FacesOf(ms) = FacesOf(ns),
           \A f \in FacesOf(ns) : ms[f].box = ns[f].box /\ Meanings(ms)[f] = Meanings(ns)[f]
    PROVE  Drawn(ms, kept, any, at)
<1>1. PICK m : m = Meanings(ns)
  OBVIOUS
<1>2. PICK n : n = Meanings(ms)
  OBVIOUS
<1>3. /\ IsList(kept) /\ Len(kept) = Cardinality(FacesOf(ms))
      /\ \A k \in DOMAIN kept : Cardinality(kept[k]) <= 1 /\ (kept[k] # {} => any)
  BY DEF Drawn
<1>4. ASSUME NEW f \in FacesOf(ms), NEW b \in kept[ms[f].box]
      PROVE  b = [face |-> n[f], revision |-> at]
  <2>1. b = [face |-> m[f], revision |-> at]
    BY <1>1, <1>4 DEF Drawn
  <2> QED BY <1>1, <1>2, <1>4, <2>1
<1> QED BY <1>2, <1>3, <1>4 DEF Drawn

Untouched(ns, ms, x) ==
    /\ x \in DOMAIN ns /\ ms[x].kind = ns[x].kind /\ ms[x].children = ns[x].children
    /\ ms[x].data = ns[x].data /\ ms[x].tolerance = ns[x].tolerance

(* A set of slots covers a node as long as no live node in it changes.     *)
LEMMA CoversStill ==
    ASSUME NEW ns, NEW ms, NEW n \in Nat, NEW m \in Nat, n <= m, NEW below, NEW i,
           Covers(ns, n, below, i),
           \A x \in below \cap DOMAIN ms : Untouched(ns, ms, x)
    PROVE  Covers(ms, m, below, i)
<1>1. below \subseteq 1..m
  BY DEF Covers
<1> QED BY <1>1 DEF Covers, Untouched

(* A read stands as long as no live node it is forgotten by changes.       *)
LEMMA ReadStandsStill ==
    ASSUME NEW ns, NEW ms, Ordered(ns), Ordered(ms), NEW n \in Nat, NEW m \in Nat, n <= m,
           NEW read, ReadStands(ns, n, read), read.shape \in DOMAIN ms,
           \A x \in read.below \cap DOMAIN ms : Untouched(ns, ms, x)
    PROVE  ReadStands(ms, m, read)
<1> DEFINE T == read.below \cap DOMAIN ms
<1>1. Covers(ns, n, read.below, read.shape)
  BY DEF ReadStands
<1>2. Covers(ms, m, read.below, read.shape)
  BY <1>1, CoversStill
<1>3. /\ T \subseteq DOMAIN ms /\ T \subseteq DOMAIN ns /\ read.shape \in T
      /\ \A x \in T : Untouched(ns, ms, x)
  BY <1>1 DEF Covers, Untouched
<1>4. Closed(ms, T)
  BY <1>2 DEF Closed, Covers, Ordered
<1> HIDE DEF T
<1>5. AlikeIn(ms, ns, T)
  BY <1>3, <1>4 DEF AlikeIn, Untouched
<1>6. \A x \in T : Meanings(ns)[x] = Meanings(ms)[x]
  <2>1. \A x \in T : ns[x].data = ms[x].data
    BY <1>3 DEF Untouched
  <2> QED BY <1>5, <2>1, AlikeMeansSame
<1>7. \A x \in T : Tolerances(ns)[x] = Tolerances(ms)[x]
  <2>1. \A x \in T : ns[x].tolerance = ms[x].tolerance
    BY <1>3 DEF Untouched
  <2> QED BY <1>5, <2>1, AlikeIsAsLoose
<1>8. /\ Meanings(ns)[read.shape] = Meanings(ms)[read.shape]
      /\ Tolerances(ns)[read.shape] = Tolerances(ms)[read.shape]
  BY <1>3, <1>6, <1>7, Zenon
<1>9. read.found = [shape |-> Meanings(ms)[read.shape],
                    tolerances |-> Tolerances(ms)[read.shape], edits |-> read.edits]
  <2>1. read.found = [shape |-> Meanings(ns)[read.shape],
                      tolerances |-> Tolerances(ns)[read.shape], edits |-> read.edits]
    BY DEF ReadStands
  <2>2. PICK a : a = Meanings(ns)[read.shape]
    OBVIOUS
  <2>3. PICK b : b = Tolerances(ns)[read.shape]
    OBVIOUS
  <2>4. Meanings(ms)[read.shape] = a /\ Tolerances(ms)[read.shape] = b
    BY <1>8, <2>2, <2>3
  <2>5. read.found = [shape |-> a, tolerances |-> b, edits |-> read.edits]
    BY <2>1, <2>2, <2>3
  <2> QED BY <2>4, <2>5
<1> QED BY <1>2, <1>9 DEF ReadStands

(* The reads left at some places stand where no node they are forgotten by *)
(* is touched.                                                             *)
LEMMA ThoseStand ==
    ASSUME NEW ns, NEW ms, Ordered(ns), Ordered(ms), NEW n \in Nat, NEW m \in Nat, n <= m,
           NEW kept, ReadsStand(ns, n, kept), NEW P \in SUBSET DOMAIN kept,
           \A k \in P : /\ kept[k].shape \in DOMAIN ms
                        /\ \A x \in kept[k].below \cap DOMAIN ms : Untouched(ns, ms, x)
    PROVE  ReadsStand(ms, m, Those(kept, P))
<1>1. IsList(kept) /\ Len(kept) <= SHAPES /\ Len(kept) \in Nat
  BY ListLen DEF ReadsStand
<1>2. /\ IsList(Those(kept, P)) /\ Len(Those(kept, P)) <= Len(kept)
      /\ \A k \in DOMAIN Those(kept, P) : \E j \in P : Those(kept, P)[k] = kept[j]
  BY <1>1, ThoseAre
<1>3. Len(Those(kept, P)) \in Nat
  BY <1>2, ListLen
<1>4. ASSUME NEW k \in DOMAIN Those(kept, P)
      PROVE  ReadStands(ms, m, Those(kept, P)[k])
  <2>1. PICK j \in P : Those(kept, P)[k] = kept[j]
    BY <1>2
  <2>2. PICK read : read = kept[j]
    OBVIOUS
  <2>3. ReadStands(ns, n, read) /\ read.shape \in DOMAIN ms
    BY <2>2 DEF ReadsStand
  <2>4. \A x \in read.below \cap DOMAIN ms : Untouched(ns, ms, x)
    BY <2>2
  <2>5. ReadStands(ms, m, read)
    BY <2>3, <2>4, ReadStandsStill
  <2> QED BY <2>1, <2>2, <2>5
<1> QED BY <1>1, <1>2, <1>3, <1>4, KeptAssumption DEF ReadsStand

(* So do all reads, where no live node changes and slots are only added.   *)
LEMMA AllStand ==
    ASSUME NEW ns, NEW ms, Ordered(ns), Ordered(ms), NEW n \in Nat, NEW m \in Nat, n <= m,
           NEW kept, ReadsStand(ns, n, kept),
           \A x \in DOMAIN ns : x \in DOMAIN ms,
           \A x \in 1..n \cap DOMAIN ms : Untouched(ns, ms, x)
    PROVE  ReadsStand(ms, m, kept)
<1>1. ASSUME NEW k \in DOMAIN kept PROVE ReadStands(ms, m, kept[k])
  <2>1. PICK read : read = kept[k]
    OBVIOUS
  <2>2. ReadStands(ns, n, read) /\ read.shape \in DOMAIN ms
    BY <2>1 DEF ReadsStand, ReadStands
  <2>3. \A x \in read.below \cap DOMAIN ms : Untouched(ns, ms, x)
    BY <2>2 DEF ReadStands, Covers
  <2>4. ReadStands(ms, m, read)
    BY <2>2, <2>3, ReadStandsStill
  <2> QED BY <2>1, <2>4
<1> QED BY <1>1 DEF ReadsStand

-----------------------------------------------------------------------------
(* Steps that leave what nodes are made of as it stands.                   *)
Reshaped(ns, ms) ==
    /\ DOMAIN ms = DOMAIN ns
    /\ \A i \in DOMAIN ns :
          /\ ms[i] \in Node
          /\ ms[i].kind = ns[i].kind /\ ms[i].children = ns[i].children
          /\ ms[i].held_by = ns[i].held_by /\ ms[i].box = ns[i].box

(* The graph stands where kinds, parts, links and places do.               *)
LEMMA ReshapedGraph ==
    ASSUME NEW ns, NEW ms, NEW n, NEW count, Graph(ns, n, count), Reshaped(ns, ms)
    PROVE  Graph(ms, n, count) /\ FacesOf(ms) = FacesOf(ns)
<1>1. FacesOf(ms) = FacesOf(ns)
  BY DEF FacesOf, Reshaped
<1>2. Ordered(ms)
  <2> SUFFICES ASSUME NEW i \in DOMAIN ms
               PROVE  /\ ms[i].kind \in Kinds
                      /\ ms[i].children \subseteq DOMAIN ms
                      /\ ms[i].kind = "vertex" => ms[i].children = {}
                      /\ ms[i].kind = "edge" => \A c \in ms[i].children : ms[c].kind = "vertex"
                      /\ ms[i].kind = "face" => \A c \in ms[i].children : ms[c].kind = "edge"
                      /\ ms[i].kind = "shell" => \A c \in ms[i].children : ms[c].kind = "face"
    BY DEF Ordered
  <2>1. i \in DOMAIN ns /\ ms[i].kind = ns[i].kind /\ ms[i].children = ns[i].children
    BY DEF Reshaped
  <2>2. ns[i].children \subseteq DOMAIN ns
    BY <2>1 DEF Graph, Ordered
  <2>3. \A c \in ns[i].children : ms[c].kind = ns[c].kind
    BY <2>2 DEF Reshaped
  <2> QED BY <2>1, <2>2, <2>3 DEF Graph, Ordered, Reshaped
<1>3. Linked(ms)
  <2> SUFFICES ASSUME NEW i \in DOMAIN ms, Linkable(ms[i]), NEW c \in ms[i].children
               PROVE  i \in ms[c].held_by
    BY DEF Linked
  <2>1. i \in DOMAIN ns /\ Linkable(ns[i]) /\ c \in ns[i].children
    BY DEF Reshaped, Linkable
  <2>2. c \in DOMAIN ns
    BY <2>1 DEF Graph, Ordered
  <2> QED BY <2>1, <2>2 DEF Graph, Linked, Reshaped
<1>4. Placed(ms, count)
  BY <1>1 DEF Graph, Placed, Reshaped, FacesOf
<1> QED BY <1>1, <1>2, <1>3, <1>4 DEF Graph, Reshaped

(* What is finite and numbered in the graph.                               *)
LEMMA GraphFacts ==
    ASSUME NEW ns, NEW n, NEW count, Graph(ns, n, count)
    PROVE  /\ n \in Nat /\ n <= MaxSlots /\ DOMAIN ns \subseteq 1..n /\ DOMAIN ns \in SUBSET Nat
           /\ IsFiniteSet(DOMAIN ns) /\ IsFiniteSet(FacesOf(ns))
           /\ count \in Nat /\ n + 1 \notin DOMAIN ns
<1>1. n \in Nat /\ n <= MaxSlots /\ DOMAIN ns \subseteq 1..n /\ DOMAIN ns \in SUBSET Nat /\ n + 1 \notin DOMAIN ns
  BY KeptAssumption DEF Graph
<1>2. IsFiniteSet(1..n)
  BY <1>1, FS_Interval
<1>3. FacesOf(ns) \subseteq DOMAIN ns
  BY DEF FacesOf
<1>4. IsFiniteSet(DOMAIN ns) /\ IsFiniteSet(FacesOf(ns))
  BY <1>1, <1>2, <1>3, FS_Subset
<1>5. count \in Nat
  BY <1>4, FS_CardinalityType DEF Graph, Placed
<1> QED BY <1>1, <1>4, <1>5

-----------------------------------------------------------------------------
(* The inductive invariant, with what is under way.                        *)

(* What a reader found it keeps of nodes that have not changed since.      *)
ReadersStand ==
    \A r \in Readers :
        /\ readers[r].doing \in {"store", "init"} => readers[r].of \in Faces /\ ~Stale
        /\ readers[r].doing = "init" => box_any
        /\ readers[r].doing \in {"walk", "keep"} => readers[r].of \in DOMAIN nodes
        /\ readers[r].doing = "keep" => Covers(nodes, slots, readers[r].below, readers[r].of)

ClonesStand ==
    \A c \in clone :
        Drawn(nodes, c.boxes, box_any, box_revision) /\ ReadsStand(nodes, slots, c.reads)

Reader == [doing : {"nothing", "store", "init", "walk", "keep"}, of : Nat, below : SUBSET Nat]

Books ==
    /\ any_held = (\E i \in DOMAIN nodes : nodes[i].held)
    /\ box_revision \in Nat /\ revision \in Nat /\ edits \in Nat /\ box_any \in BOOLEAN
    /\ box_revision <= revision /\ revision <= edits
    /\ shapes \subseteq DOMAIN nodes
    /\ since \in {NoOperation} \cup 0..slots
    /\ readers \in [Readers -> Reader]

IInv ==
    /\ Graph(nodes, slots, Len(boxes))
    /\ Drawn(nodes, boxes, box_any, box_revision)
    /\ ReadsStand(nodes, slots, reads)
    /\ ReadersStand
    /\ ClonesStand
    /\ Books

(* The invariant says that the state has its type.                         *)
LEMMA IInvTypes == IInv => TypeOK
<1> SUFFICES ASSUME IInv PROVE TypeOK
  OBVIOUS
<1>1. Graph(nodes, slots, Len(boxes)) /\ Faces = FacesOf(nodes)
  BY DEF IInv, Faces, FacesOf
<1>2. DOMAIN boxes = 1..Len(boxes)
  BY ListLen DEF IInv, Drawn
<1>3. \A k \in DOMAIN boxes : Cardinality(boxes[k]) <= 1
  BY DEF IInv, Drawn
<1>4. Len(reads) <= SHAPES
  BY DEF IInv, ReadsStand
<1>5. \A r \in Readers : readers[r].doing \in {"nothing", "store", "init", "walk", "keep"}
  BY DEF IInv, Books, Reader
<1> QED BY <1>1, <1>2, <1>3, <1>4, <1>5 DEF TypeOK, Graph, Ordered, Placed, IInv, Books

(* It holds of an empty model.                                             *)
LEMMA InitIsSound == Init => IInv
<1> SUFFICES ASSUME Init PROVE IInv
  OBVIOUS
<1>1. nodes = <<>> /\ boxes = <<>> /\ reads = <<>> /\ slots = 0 /\ clone = {} /\ shapes = {}
  BY DEF Init
<1>2. DOMAIN nodes = {} /\ FacesOf(nodes) = {} /\ Cardinality(FacesOf(nodes)) = 0
  <2>1. DOMAIN nodes = {}
    BY <1>1
  <2>2. FacesOf(nodes) = {}
    BY <2>1 DEF FacesOf
  <2> QED BY <2>1, <2>2, FS_EmptySet
<1>3. IsList(boxes) /\ IsList(reads) /\ Len(boxes) = 0 /\ Len(reads) = 0 /\ DOMAIN boxes = {} /\ DOMAIN reads = {}
  <2>1. boxes \in Seq({}) /\ reads \in Seq({})
    BY <1>1
  <2>2. IsList(boxes) /\ IsList(reads)
    BY <2>1, ListIs
  <2> QED BY <1>1, <2>2
<1>4. Graph(nodes, slots, Len(boxes))
  BY <1>1, <1>2, <1>3, KeptAssumption DEF Graph, Ordered, Linked, Placed
<1>5. Drawn(nodes, boxes, box_any, box_revision)
  BY <1>2, <1>3 DEF Drawn
<1>6. ReadsStand(nodes, slots, reads)
  BY <1>3, KeptAssumption DEF ReadsStand
<1>7. readers \in [Readers -> Reader] /\ \A r \in Readers : readers[r].doing = "nothing"
  BY DEF Init, Idle, Reader
<1>8. ReadersStand /\ ClonesStand
  BY <1>1, <1>7 DEF ReadersStand, ClonesStand
<1>9. Books
  <2>1. any_held = (\E i \in DOMAIN nodes : nodes[i].held)
    BY <1>2 DEF Init
  <2>2. /\ box_revision \in Nat /\ revision \in Nat /\ edits \in Nat
        /\ box_revision <= revision /\ revision <= edits
    BY DEF Init
  <2>4. box_any \in BOOLEAN
    BY Zenon DEF Init
  <2>3. since \in {NoOperation} \cup 0..slots
    BY DEF Init
  <2> QED BY <1>1, <1>7, <2>1, <2>2, <2>3, <2>4 DEF Books
<1> QED BY <1>4, <1>5, <1>6, <1>8, <1>9 DEF IInv

(* Nobody is in the middle of anything while an exclusive operation runs.  *)
LEMMA AloneStands ==
    ASSUME Alone, UNCHANGED sharing
    PROVE  ReadersStand' /\ ClonesStand'
<1>1. \A r \in Readers : readers'[r].doing = "nothing"
  BY DEF Alone, sharing, Idle
<1>2. clone' = {}
  BY DEF Alone, sharing
<1> QED BY <1>1, <1>2 DEF ReadersStand, ClonesStand

(* It says the same of a graph that has not changed ...                    *)
LEMMA SameGraph ==
    ASSUME IInv, UNCHANGED <<nodes, slots>>, Len(boxes') = Len(boxes)
    PROVE  Graph(nodes, slots, Len(boxes))'
BY DEF IInv

(* ... and of reads that have not.                                         *)
LEMMA SameReads ==
    ASSUME IInv, UNCHANGED <<nodes, slots, reads>>
    PROVE  ReadsStand(nodes, slots, reads)'
BY DEF IInv

(* An operation that begins changes nothing that is kept.                  *)
LEMMA BeginStands == ASSUME IInv, Begin PROVE IInv'
<1>1. /\ UNCHANGED <<nodes, slots, any_held, kept_boxes, geometry, reads, shapes>>
      /\ UNCHANGED sharing /\ since' = slots /\ Alone
  BY DEF Begin
<1>2. ReadersStand' /\ ClonesStand'
  BY <1>1, AloneStands
<1>3. Graph(nodes, slots, Len(boxes))' /\ ReadsStand(nodes, slots, reads)'
  BY <1>1, SameGraph, SameReads DEF kept_boxes
<1>4. Drawn(nodes, boxes, box_any, box_revision)'
  BY <1>1 DEF IInv, kept_boxes
<1>5. Books'
  BY <1>1 DEF IInv, Books, Graph, kept_boxes, geometry, sharing
<1> QED BY <1>2, <1>3, <1>4, <1>5 DEF IInv

(* Geometry rewritten makes boxes stale or reads old, and wrong none.      *)
LEMMA RewriteStands == ASSUME IInv, RewriteSurface \/ RewritePcurve PROVE IInv'
<1>1. /\ UNCHANGED <<nodes, slots, any_held, kept_boxes, reads, shapes, since>>
      /\ UNCHANGED sharing /\ Alone
      /\ edits' = edits + 1 /\ (revision' = revision \/ revision' = revision + 1)
      /\ edits < MaxChanges
  BY DEF RewriteSurface, RewritePcurve
<1>2. ReadersStand' /\ ClonesStand'
  BY <1>1, AloneStands
<1>3. Graph(nodes, slots, Len(boxes))' /\ ReadsStand(nodes, slots, reads)'
  BY <1>1, SameGraph, SameReads DEF kept_boxes
<1>4. Drawn(nodes, boxes, box_any, box_revision)'
  BY <1>1 DEF IInv, kept_boxes
<1>5. Books'
  BY <1>1 DEF IInv, Books, kept_boxes, sharing
<1> QED BY <1>2, <1>3, <1>4, <1>5 DEF IInv

-----------------------------------------------------------------------------
(* Readers.                                                                *)
LEMMA CurrentStands ==
    ASSUME IInv
    PROVE  /\ ReadsStand(nodes, slots, Current)
           /\ \A k \in DOMAIN Current : Current[k].edits = edits
<1> DEFINE P == {k \in DOMAIN reads : reads[k].edits = edits}
<1>1. Ordered(nodes) /\ slots \in Nat
  BY GraphFacts DEF IInv, Graph
<1>2. P \in SUBSET DOMAIN reads /\ \A k \in P : reads[k].edits = edits
  OBVIOUS
<1>3. Current = Those(reads, P)
  BY DEF Current
<1> HIDE DEF P
<1>4. ReadsStand(nodes, slots, reads) /\ IsList(reads)
  BY DEF IInv, ReadsStand
<1>5. \A k \in P : /\ reads[k].shape \in DOMAIN nodes
                   /\ \A x \in reads[k].below \cap DOMAIN nodes : Untouched(nodes, nodes, x)
  BY <1>2, <1>4 DEF ReadsStand, ReadStands, Untouched
<1>6. ReadsStand(nodes, slots, Those(reads, P))
  BY <1>1, <1>2, <1>4, <1>5, ThoseStand
<1>7. \A k \in DOMAIN Those(reads, P) : \E j \in P : Those(reads, P)[k] = reads[j]
  BY <1>2, <1>4, ThoseAre
<1> QED BY <1>2, <1>3, <1>6, <1>7

(* The steps of a reader that change nothing but where it is.              *)
LEMMA ReaderMoves ==
    ASSUME IInv, UNCHANGED <<nodes, slots, any_held, kept_boxes, geometry, reads, shapes, since, clone>>,
           readers' \in [Readers -> Reader], ReadersStand'
    PROVE  IInv'
<1>1. Graph(nodes, slots, Len(boxes))' /\ ReadsStand(nodes, slots, reads)'
  BY SameGraph, SameReads DEF kept_boxes
<1>2. Drawn(nodes, boxes, box_any, box_revision)' /\ ClonesStand'
  BY DEF IInv, kept_boxes, ClonesStand
<1>3. Books'
  BY DEF IInv, Books, kept_boxes, geometry
<1> QED BY <1>1, <1>2, <1>3 DEF IInv

(* What the others found stands as long as what they found it of does.     *)
LEMMA OthersStand ==
    ASSUME IInv, NEW r \in Readers, UNCHANGED <<nodes, slots, box_revision, revision>>,
           box_any => box_any',
           NEW reader \in Reader, readers' = [readers EXCEPT ![r] = reader],
           reader.doing \in {"store", "init"} => reader.of \in Faces /\ ~Stale,
           reader.doing = "init" => box_any',
           reader.doing \in {"walk", "keep"} => reader.of \in DOMAIN nodes,
           reader.doing = "keep" => Covers(nodes, slots, reader.below, reader.of)
    PROVE  ReadersStand' /\ readers' \in [Readers -> Reader]
<1>1. readers \in [Readers -> Reader]
  BY DEF IInv, Books
<1>2. readers' \in [Readers -> Reader] /\ readers'[r] = reader
      /\ \A s \in Readers \ {r} : readers'[s] = readers[s]
  BY <1>1
<1>3. Faces' = Faces /\ Stale' = Stale
  BY DEF Faces, Stale
<1>4. ASSUME NEW s \in Readers
      PROVE  /\ readers'[s].doing \in {"store", "init"} => readers'[s].of \in Faces /\ ~Stale
             /\ readers'[s].doing = "init" => box_any'
             /\ readers'[s].doing \in {"walk", "keep"} => readers'[s].of \in DOMAIN nodes
             /\ readers'[s].doing = "keep" =>
                   Covers(nodes, slots, readers'[s].below, readers'[s].of)
  <2>1. CASE s = r
    BY <1>2, <2>1
  <2>2. CASE s # r
    BY <1>2, <2>2 DEF IInv, ReadersStand
  <2> QED BY <2>1, <2>2
<1> QED BY <1>2, <1>3, <1>4 DEF ReadersStand

(* A reader that asks for a box may ask: the boxes are not stale.          *)
LEMMA AskBoxStands ==
    ASSUME IInv, NEW r \in Readers, NEW i \in Faces, AskBox(r, i)
    PROVE  IInv'
<1> DEFINE reader == [doing |-> "store", of |-> i, below |-> {}]
<1>1. reader \in Reader
  BY GraphFacts DEF Reader, Faces, IInv
<1>2. reader.doing = "store" /\ reader.of = i
  OBVIOUS
<1>3. readers' = [readers EXCEPT ![r] = reader] /\ ~Stale
  BY DEF AskBox, Asks
<1> HIDE DEF reader
<1>4. ReadersStand' /\ readers' \in [Readers -> Reader]
  BY <1>1, <1>2, <1>3, OthersStand DEF AskBox, kept_boxes, geometry
<1> QED BY <1>4, ReaderMoves DEF AskBox

(* A reader that asks for a read asks of a live shape.                     *)
LEMMA AskReadStands ==
    ASSUME IInv, NEW r \in Readers, NEW i \in DOMAIN nodes, AskRead(r, i)
    PROVE  IInv'
<1> DEFINE reader == [doing |-> "walk", of |-> i, below |-> {}]
<1>1. reader \in Reader
  BY GraphFacts DEF Reader, IInv
<1>2. reader.doing = "walk" /\ reader.of = i
  OBVIOUS
<1>3. readers' = [readers EXCEPT ![r] = reader]
  BY DEF AskRead, Asks
<1> HIDE DEF reader
<1>4. ReadersStand' /\ readers' \in [Readers -> Reader]
  BY <1>1, <1>2, <1>3, OthersStand DEF AskRead, kept_boxes, geometry
<1> QED BY <1>4, ReaderMoves DEF AskRead

(* Once a reader has stored the flag, it may store the box.                *)
LEMMA StoreAnyStands ==
    ASSUME IInv, NEW r \in Readers, StoreAny(r)
    PROVE  IInv'
<1>1. /\ UNCHANGED <<nodes, slots, any_held, boxes, box_revision, geometry, reads, shapes, since, clone>>
      /\ readers[r].doing = "store" /\ box_any' = TRUE
      /\ readers' = [readers EXCEPT ![r].doing = "init"]
  BY DEF StoreAny, Goes
<1> DEFINE reader == [doing |-> "init", of |-> readers[r].of, below |-> readers[r].below]
<1>2. readers[r] \in Reader
  BY DEF IInv, Books
<1>3. reader \in Reader /\ reader.doing = "init" /\ reader.of = readers[r].of
  BY <1>2 DEF Reader
<1>4. readers' = [readers EXCEPT ![r] = reader]
  <2>1. [readers[r] EXCEPT !.doing = "init"] = reader
    BY <1>2 DEF Reader
  <2>2. readers' = [readers EXCEPT ![r] = [readers[r] EXCEPT !.doing = "init"]]
    BY <1>1
  <2> QED BY <2>1, <2>2
<1>5. readers[r].of \in Faces /\ ~Stale
  BY <1>1 DEF IInv, ReadersStand
<1> HIDE DEF reader
<1>6. ReadersStand' /\ readers' \in [Readers -> Reader]
  BY <1>1, <1>3, <1>4, <1>5, OthersStand DEF geometry
<1>7. Graph(nodes, slots, Len(boxes))' /\ ReadsStand(nodes, slots, reads)'
  BY <1>1, SameGraph, SameReads
<1>8. \A kept : Drawn(nodes, kept, box_any, box_revision) => Drawn(nodes, kept, TRUE, box_revision)
  BY DEF Drawn
<1>9. Drawn(nodes, boxes, box_any, box_revision)'
  BY <1>1, <1>8 DEF IInv
<1>10. ClonesStand'
  BY <1>1, <1>8 DEF IInv, ClonesStand
<1>11. Books'
  BY <1>1, <1>6 DEF IInv, Books, geometry
<1> QED BY <1>6, <1>7, <1>9, <1>10, <1>11 DEF IInv

(* What it stores is the box it would find, and the flag is set.           *)
LEMMA InitBoxStands ==
    ASSUME IInv, NEW r \in Readers, InitBox(r)
    PROVE  IInv'
<1> DEFINE i == readers[r].of
           place == nodes[i].box
<1>1. /\ UNCHANGED <<nodes, slots, any_held, box_revision, box_any, geometry, reads, shapes, since, clone>>
      /\ readers[r].doing = "init" /\ readers' = [readers EXCEPT ![r] = Idle]
      /\ boxes' = [boxes EXCEPT ![place] = IF @ = {} THEN {Box(i)} ELSE @]
  BY DEF InitBox, Ends
<1>2. i \in FacesOf(nodes) /\ ~Stale /\ box_any
  BY <1>1 DEF IInv, ReadersStand, Faces, FacesOf
<1>3. Idle \in Reader /\ Idle.doing = "nothing"
  BY DEF Idle, Reader
<1>4. ReadersStand' /\ readers' \in [Readers -> Reader]
  BY <1>1, <1>3, OthersStand DEF geometry
<1>5. IsList(boxes) /\ Len(boxes) \in Nat /\ DOMAIN boxes = 1..Len(boxes)
  BY ListLen DEF IInv, Drawn
<1>6. /\ Graph(nodes, slots, Len(boxes)) /\ place \in 1..Len(boxes)
      /\ \A f \in FacesOf(nodes) : nodes[f].box \in 1..Len(boxes) /\ (nodes[f].box = place => f = i)
  BY <1>2 DEF IInv, Graph, Placed, FacesOf
<1> DEFINE kept == [boxes EXCEPT ![place] = IF @ = {} THEN {Box(i)} ELSE @]
<1>7. /\ DOMAIN kept = 1..Len(boxes) /\ kept = [k \in 1..Len(boxes) |-> kept[k]]
      /\ \A k \in 1..Len(boxes) : k # place => kept[k] = boxes[k]
      /\ kept[place] = IF boxes[place] = {} THEN {Box(i)} ELSE boxes[place]
  BY <1>5, <1>6
<1>8. boxes' = kept
  BY <1>1
<1> HIDE DEF kept, place, i
<1>9. IsList(kept) /\ Len(kept) = Len(boxes)
  BY <1>5, <1>7, ListMade
<1>10. Drawn(nodes, kept, box_any, box_revision)
  <2>1. Len(kept) = Cardinality(FacesOf(nodes))
    BY <1>9 DEF IInv, Drawn
  <2>2. ASSUME NEW k \in DOMAIN kept
        PROVE  Cardinality(kept[k]) <= 1 /\ (kept[k] # {} => box_any)
    <3>1. PICK b : b = Box(i)
      OBVIOUS
    <3>2. Cardinality({b}) = 1
      BY FS_Singleton
    <3>3. k \in DOMAIN boxes /\ Cardinality(boxes[k]) <= 1
      BY <1>5, <1>7 DEF IInv, Drawn
    <3>4. kept[k] = boxes[k] \/ kept[k] = {b}
      BY <1>7, <3>1
    <3> QED BY <1>2, <3>2, <3>3, <3>4
  <2>3. ASSUME NEW f \in FacesOf(nodes), NEW b \in kept[nodes[f].box]
        PROVE  b = [face |-> Meanings(nodes)[f], revision |-> box_revision]
    <3>1. nodes[f].box \in 1..Len(boxes) /\ (nodes[f].box = place => f = i)
      BY <1>6
    <3>2. CASE b \in boxes[nodes[f].box]
      BY <3>2 DEF IInv, Drawn
    <3>3. CASE b \notin boxes[nodes[f].box]
      <4>1. nodes[f].box = place /\ f = i /\ b = Box(i)
        BY <1>7, <3>1, <3>3
      <4>2. revision = box_revision
        BY <1>2 DEF Stale
      <4> QED BY <4>1, <4>2, Zenon DEF Box
    <3> QED BY <3>2, <3>3
  <2> QED BY <1>9, <2>1, <2>2, <2>3 DEF Drawn
<1>11. Drawn(nodes, boxes, box_any, box_revision)' /\ ClonesStand'
  BY <1>1, <1>8, <1>10 DEF IInv, ClonesStand
<1>12. Graph(nodes, slots, Len(boxes))' /\ ReadsStand(nodes, slots, reads)'
  BY <1>1, <1>8, <1>9, SameGraph, SameReads
<1>13. Books'
  BY <1>1, <1>4 DEF IInv, Books, geometry
<1> QED BY <1>4, <1>11, <1>12, <1>13 DEF IInv

(* The walk down misses nothing, also where it stops at sets kept already. *)
LEMMA WalkCovers ==
    ASSUME IInv, NEW i \in DOMAIN nodes
    PROVE  Covers(nodes, slots, BelowKept(i), i)
<1> DEFINE a == nodes[i].children
           b == Steps(a)
           c == Steps(b)
           sets == UNION {Current[FirstOf(x)].below : x \in c \ Uncovered(c)}
<1>1. Ordered(nodes) /\ DOMAIN nodes \subseteq 1..slots
  BY DEF IInv, Graph
<1>2. BelowKept(i) = {i} \cup c \cup sets
  BY DEF BelowKept, Walked
<1>3. /\ IsList(Current) /\ DOMAIN Current \in SUBSET Nat
      /\ \A k \in DOMAIN Current : Covers(nodes, slots, Current[k].below, Current[k].shape)
  <2>1. ReadsStand(nodes, slots, Current)
    BY CurrentStands
  <2>2. /\ IsList(Current)
        /\ \A k \in DOMAIN Current : ReadStands(nodes, slots, Current[k])
    BY <2>1 DEF ReadsStand
  <2>3. DOMAIN Current \in SUBSET Nat
    BY <2>2, ListLen
  <2>4. ASSUME NEW k \in DOMAIN Current
        PROVE  Covers(nodes, slots, Current[k].below, Current[k].shape)
    BY <2>2 DEF ReadStands
  <2> QED BY <2>2, <2>3, <2>4
<1>4. ASSUME NEW x, Containing(x) # {}
      PROVE  /\ FirstOf(x) \in DOMAIN Current /\ x \in Current[FirstOf(x)].below
             /\ Covers(nodes, slots, Current[FirstOf(x)].below, Current[FirstOf(x)].shape)
  <2>1. Containing(x) \in SUBSET DOMAIN Current
    BY DEF Containing
  <2>2. PICK k \in Containing(x) : \A j \in Containing(x) : k <= j
    <3>1. PICK n \in Containing(x) : TRUE
      BY <1>4
    <3> DEFINE S == Containing(x)
    <3>2. S \in SUBSET Nat /\ S # {}
      BY <1>3, <1>4, <2>1
    <3> HIDE DEF S
    <3>3. \E k \in S : \A j \in S : k <= j
      BY <3>2, HasLeast
    <3> QED BY <3>3 DEF S
  <2>3. FirstOf(x) \in Containing(x)
    BY <2>2 DEF FirstOf
  <2> QED BY <1>3, <2>1, <2>3 DEF Containing
<1>5. \A S : Uncovered(S) = {x \in S : Containing(x) = {}}
  BY DEF Uncovered
<1>6. \A S : S \subseteq Steps(S) /\ \A x \in S : Containing(x) = {} => nodes[x].children \subseteq Steps(S)
  BY <1>5 DEF Steps, Children
<1>7. \A S, y : y \in Steps(S) /\ y \notin S =>
          \E x \in S : Containing(x) = {} /\ y \in nodes[x].children
  BY <1>5 DEF Steps, Children
<1>8. a \subseteq DOMAIN nodes
  BY <1>1 DEF Ordered
<1>9. \A S : S \subseteq DOMAIN nodes => Steps(S) \subseteq DOMAIN nodes
  BY <1>1, <1>7 DEF Ordered
<1>10. b \subseteq DOMAIN nodes /\ c \subseteq DOMAIN nodes
  BY <1>8, <1>9
<1> HIDE DEF b, c
<1>11. /\ a \subseteq b /\ b \subseteq c
       /\ \A x \in a : Containing(x) = {} => nodes[x].children \subseteq b
       /\ \A x \in b : Containing(x) = {} => nodes[x].children \subseteq c
       /\ \A y \in b \ a : \E x \in a : Containing(x) = {} /\ y \in nodes[x].children
       /\ \A y \in c \ b : \E x \in b : Containing(x) = {} /\ y \in nodes[x].children
  BY <1>6, <1>7 DEF b, c
<1>12. ASSUME NEW y \in c, Containing(y) = {} PROVE nodes[y].children \subseteq c
  <2>1. CASE y \in b
    BY <1>11, <1>12, <2>1
  <2>2. CASE y \notin b
    <3>1. PICK x \in b : Containing(x) = {} /\ y \in nodes[x].children
      BY <1>11, <2>2
    <3>2. x \notin a
      BY <1>11, <2>2, <3>1
    <3>3. nodes[y].children = {}
      <4>1. PICK z \in a : x \in nodes[z].children
        BY <1>11, <3>2
      <4>2. z \in DOMAIN nodes /\ x \in DOMAIN nodes /\ y \in DOMAIN nodes /\ i \in DOMAIN nodes
        BY <1>8, <1>10
      <4>3. nodes[z].kind # "vertex" /\ nodes[z].kind \in {"vertex", "edge", "face"}
        BY <1>1, <4>1, <4>2 DEF Ordered, Kinds
      <4>4. nodes[x].kind # "vertex" /\ nodes[x].kind \in {"vertex", "edge"}
        BY <1>1, <3>1, <4>1, <4>2, <4>3 DEF Ordered
      <4>5. nodes[y].kind = "vertex"
        BY <1>1, <3>1, <4>2, <4>4 DEF Ordered
      <4> QED BY <1>1, <4>2, <4>5 DEF Ordered
    <3> QED BY <3>3
  <2> QED BY <2>1, <2>2
<1>13. ASSUME NEW x \in c, Containing(x) # {}
       PROVE  /\ Current[FirstOf(x)].below \subseteq sets /\ x \in sets
              /\ \A y \in Current[FirstOf(x)].below \cap DOMAIN nodes :
                    nodes[y].children \subseteq Current[FirstOf(x)].below
  <2>1. x \in c \ Uncovered(c)
    BY <1>5, <1>13
  <2> QED BY <1>4, <1>13, <2>1 DEF Covers
<1>14. ASSUME NEW y \in sets
       PROVE  \E x \in c : Containing(x) # {} /\ y \in Current[FirstOf(x)].below
  BY <1>5
<1> HIDE DEF sets
<1>15. ASSUME NEW y \in ({i} \cup c \cup sets) \cap DOMAIN nodes
       PROVE  nodes[y].children \subseteq {i} \cup c \cup sets
  <2>1. CASE y = i
    BY <1>11, <2>1
  <2>2. CASE y \in sets
    <3>1. PICK x \in c : Containing(x) # {} /\ y \in Current[FirstOf(x)].below
      BY <1>14, <2>2
    <3> QED BY <1>13, <1>15, <3>1
  <2>3. CASE y \in c /\ Containing(y) = {}
    BY <1>12, <2>3
  <2>4. CASE y \in c /\ Containing(y) # {}
    BY <1>4, <1>13, <1>15, <2>4
  <2> QED BY <2>1, <2>2, <2>3, <2>4
<1>16. sets \subseteq 1..slots
  BY <1>4, <1>14 DEF Covers
<1> QED BY <1>1, <1>2, <1>10, <1>15, <1>16 DEF Covers

(* The walk ends with a set of slots that covers the shape, whether it was *)
(* gathered node by node or from the sets kept already.                    *)
LEMMA WalkStands ==
    ASSUME IInv, NEW r \in Readers, Walk(r)
    PROVE  IInv'
<1> DEFINE i == readers[r].of
           below == IF KeptFor(i, Current) # {}
                    THEN Current[CHOOSE k \in KeptFor(i, Current) : TRUE].below
                    ELSE BelowKept(i)
           reader == [doing |-> "keep", of |-> i, below |-> below]
<1>1. /\ UNCHANGED <<nodes, slots, any_held, kept_boxes, geometry, reads, shapes, since, clone>>
      /\ readers[r].doing = "walk"
      /\ readers' = [readers EXCEPT ![r].doing = "keep", ![r].below = below]
  BY DEF Walk
<1>2. i \in DOMAIN nodes /\ readers[r] \in Reader
  BY <1>1 DEF IInv, ReadersStand, Books
<1>3. Covers(nodes, slots, below, i)
  <2>1. CASE KeptFor(i, Current) # {}
    <3>1. PICK k : k = CHOOSE j \in KeptFor(i, Current) : TRUE
      OBVIOUS
    <3>2. k \in KeptFor(i, Current)
      BY <2>1, <3>1
    <3>3. k \in DOMAIN Current /\ Current[k].shape = i
      BY <3>2 DEF KeptFor
    <3>4. ReadStands(nodes, slots, Current[k])
      BY <3>3, CurrentStands DEF ReadsStand
    <3>5. below = Current[k].below
      BY <2>1, <3>1
    <3> QED BY <3>3, <3>4, <3>5 DEF ReadStands
  <2>2. CASE KeptFor(i, Current) = {}
    BY <1>2, <2>2, WalkCovers
  <2> QED BY <2>1, <2>2
<1> HIDE DEF below
<1>4. below \in SUBSET Nat /\ i \in Nat
  BY <1>2, <1>3, GraphFacts DEF Covers, IInv
<1>5. reader \in Reader /\ reader.doing = "keep" /\ reader.of = i /\ reader.below = below
  BY <1>4 DEF Reader
<1>6. readers' = [readers EXCEPT ![r] = reader]
  <2>1. [readers[r] EXCEPT !.doing = "keep", !.below = below] = reader
    <3>1. PICK was \in Reader : was = readers[r]
      BY <1>2
    <3>2. PICK set \in SUBSET Nat : set = below
      BY <1>4
    <3>3. [was EXCEPT !.doing = "keep", !.below = set] = [doing |-> "keep", of |-> was.of, below |-> set]
      <4> DEFINE moved == [was EXCEPT !.doing = "keep", !.below = set]
      <4>1. moved \in Reader /\ moved.doing = "keep" /\ moved.of = was.of /\ moved.below = set
        BY DEF Reader
      <4> HIDE DEF moved
      <4>2. moved = [doing |-> moved.doing, of |-> moved.of, below |-> moved.below]
        BY <4>1 DEF Reader
      <4> QED BY <4>1, <4>2 DEF moved
    <3> QED BY <3>1, <3>2, <3>3
  <2>2. readers' = [readers EXCEPT ![r] = [readers[r] EXCEPT !.doing = "keep", !.below = below]]
    BY <1>1, <1>2 DEF IInv, Books, Reader
  <2> QED BY <2>1, <2>2
<1> HIDE DEF reader, i
<1>7. ReadersStand' /\ readers' \in [Readers -> Reader]
  BY <1>1, <1>2, <1>3, <1>5, <1>6, OthersStand DEF kept_boxes, geometry
<1> QED BY <1>1, <1>7, ReaderMoves

(* A read put among the current ones stands, in whichever place.           *)
LEMMA KeptStands ==
    ASSUME IInv, NEW i \in DOMAIN nodes, NEW below, Covers(nodes, slots, below, i)
    PROVE  ReadsStand(nodes, slots, Kept(i, below))
<1> DEFINE entry == [shape |-> i, below |-> below, edits |-> edits, found |-> Read(i)]
           there == KeptFor(i, Current)
           room == IF Len(Current) >= SHAPES THEN Tail(Current) ELSE Current
<1>1. PICK found : found = Read(i)
  OBVIOUS
<1>2. \A read : (/\ read.shape = i /\ Covers(nodes, slots, read.below, i)
                 /\ read.edits = edits /\ read.found = found)
                   => ReadStands(nodes, slots, read)
  <2> SUFFICES ASSUME NEW read, read.shape = i, Covers(nodes, slots, read.below, i),
                      read.edits = edits, read.found = found
               PROVE  ReadStands(nodes, slots, read)
    OBVIOUS
  <2>1. PICK m : m = Meanings(nodes)[i]
    OBVIOUS
  <2>2. PICK t : t = Tolerances(nodes)[i]
    OBVIOUS
  <2>3. read.found = [shape |-> m, tolerances |-> t, edits |-> read.edits]
    BY <1>1, <2>1, <2>2 DEF Read
  <2>4. Meanings(nodes)[read.shape] = m /\ Tolerances(nodes)[read.shape] = t
    BY <2>1, <2>2
  <2> QED BY <2>3, <2>4 DEF ReadStands
<1>3. /\ ReadsStand(nodes, slots, Current) /\ IsList(Current) /\ Len(Current) \in Nat
      /\ DOMAIN Current = 1..Len(Current) /\ Len(Current) <= SHAPES
      /\ \A k \in DOMAIN Current : Current[k].edits = edits /\ ReadStands(nodes, slots, Current[k])
  BY CurrentStands, ListLen DEF ReadsStand
<1>4. CASE there # {}
  <2>1. PICK k : k = CHOOSE j \in there : TRUE
    OBVIOUS
  <2>2. k \in there
    BY <1>4, <2>1
  <2>3. k \in DOMAIN Current /\ Current[k].shape = i
    BY <2>2 DEF KeptFor
  <2>4. PICK now : now = Current
    OBVIOUS
  <2> DEFINE kept == [now EXCEPT ![k].found = found]
  <2>5. Kept(i, below) = kept
    BY <1>1, <1>4, <2>1, <2>4 DEF Kept
  <2>6. kept = [j \in 1..Len(now) |-> kept[j]] /\ Len(now) \in Nat /\ Len(now) <= SHAPES
    BY <1>3, <2>4
  <2>7. /\ \A j \in 1..Len(now) : j # k => kept[j] = now[j]
        /\ kept[k] = [now[k] EXCEPT !.found = found]
    BY <1>3, <2>3, <2>4
  <2> HIDE DEF kept
  <2>8. IsList(kept) /\ Len(kept) = Len(now) /\ DOMAIN kept = 1..Len(now)
    BY <2>6, ListMade
  <2>9. ASSUME NEW j \in DOMAIN kept PROVE ReadStands(nodes, slots, kept[j])
    <3>1. CASE j # k
      BY <1>3, <2>4, <2>7, <2>8, <3>1
    <3>2. CASE j = k
      <4>1. ReadStands(nodes, slots, now[k]) /\ now[k].shape = i /\ now[k].edits = edits
        BY <1>3, <2>3, <2>4
      <4>2. Covers(nodes, slots, now[k].below, i)
        BY <4>1 DEF ReadStands
      <4>3. /\ kept[k].found = found /\ kept[k].below = now[k].below
            /\ kept[k].shape = i /\ kept[k].edits = edits
        BY <2>7, <4>1
      <4> QED BY <1>2, <3>2, <4>2, <4>3
    <3> QED BY <3>1, <3>2
  <2> QED BY <2>5, <2>6, <2>8, <2>9 DEF ReadsStand
<1>5. CASE there = {}
  <2>1. /\ entry.shape = i /\ entry.below = below /\ entry.edits = edits /\ entry.found = found
    BY <1>1
  <2>2. Kept(i, below) = Append(room, entry)
    BY <1>5 DEF Kept
  <2> HIDE DEF entry
  <2>3. ReadStands(nodes, slots, entry)
    BY <1>2, <2>1
  <2>4. /\ IsList(room) /\ Len(room) \in Nat /\ Len(room) + 1 <= SHAPES
        /\ \A k \in DOMAIN room : ReadStands(nodes, slots, room[k])
    <3>1. CASE Len(Current) >= SHAPES
      <4>1. Len(Current) > 0
        BY <1>3, <3>1, KeptAssumption
      <4>2. /\ IsList(Tail(Current)) /\ Len(Tail(Current)) = Len(Current) - 1
            /\ \A k \in DOMAIN Tail(Current) : k + 1 \in DOMAIN Current /\ Tail(Current)[k] = Current[k + 1]
        BY <1>3, <4>1, ListTail
      <4>3. room = Tail(Current)
        BY <3>1
      <4> HIDE DEF room
      <4> QED BY <1>3, <4>1, <4>2, <4>3, KeptAssumption
    <3>2. CASE ~(Len(Current) >= SHAPES)
      <4>1. room = Current
        BY <3>2
      <4> HIDE DEF room
      <4> QED BY <1>3, <3>2, <4>1, KeptAssumption
    <3> QED BY <3>1, <3>2
  <2> HIDE DEF room
  <2>5. /\ IsList(Append(room, entry)) /\ Len(Append(room, entry)) = Len(room) + 1
        /\ \A k \in DOMAIN room : Append(room, entry)[k] = room[k]
        /\ Append(room, entry)[Len(room) + 1] = entry
    BY <2>4, ListAppend
  <2>6. /\ DOMAIN Append(room, entry) = 1..Len(room) + 1 /\ DOMAIN room = 1..Len(room)
    BY <2>4, <2>5, ListLen
  <2>7. ASSUME NEW k \in DOMAIN Append(room, entry)
        PROVE  ReadStands(nodes, slots, Append(room, entry)[k])
    <3>1. k \in DOMAIN room \/ k = Len(room) + 1
      BY <2>4, <2>6
    <3> QED BY <2>3, <2>4, <2>5, <3>1
  <2> QED BY <2>2, <2>4, <2>5, <2>7 DEF ReadsStand
<1> QED BY <1>4, <1>5

(* So a reader that keeps what it read keeps the invariant.                *)
LEMMA KeepReadStands ==
    ASSUME IInv, NEW r \in Readers, KeepRead(r)
    PROVE  IInv'
<1> DEFINE i == readers[r].of
<1>1. /\ UNCHANGED <<nodes, slots, any_held, kept_boxes, geometry, shapes, since, clone>>
      /\ readers[r].doing = "keep" /\ readers' = [readers EXCEPT ![r] = Idle]
      /\ reads' = Kept(i, readers[r].below)
  BY DEF KeepRead, Ends
<1>2. i \in DOMAIN nodes /\ Covers(nodes, slots, readers[r].below, i)
  BY <1>1 DEF IInv, ReadersStand
<1>3. Idle \in Reader /\ Idle.doing = "nothing"
  BY DEF Idle, Reader
<1>4. ReadersStand' /\ readers' \in [Readers -> Reader]
  BY <1>1, <1>3, OthersStand DEF geometry, kept_boxes
<1>5. ReadsStand(nodes, slots, reads)'
  BY <1>1, <1>2, KeptStands
<1>6. Graph(nodes, slots, Len(boxes))'
  BY <1>1, SameGraph DEF kept_boxes
<1>7. Drawn(nodes, boxes, box_any, box_revision)' /\ ClonesStand'
  BY <1>1 DEF IInv, ClonesStand, kept_boxes
<1>8. Books'
  BY <1>1, <1>4 DEF IInv, Books, geometry, kept_boxes
<1> QED BY <1>4, <1>5, <1>6, <1>7, <1>8 DEF IInv

(* A clone takes boxes and reads that stand ...                            *)
LEMMA CloneBoxesStands == ASSUME IInv, CloneBoxes PROVE IInv'
<1>1. /\ UNCHANGED <<nodes, slots, any_held, kept_boxes, geometry, reads, shapes, since, readers>>
      /\ clone' = {[reads |-> reads, boxes |-> boxes]}
  BY DEF CloneBoxes
<1>2. ASSUME NEW c \in clone' PROVE c.boxes = boxes /\ c.reads = reads
  BY <1>1
<1>3. ClonesStand'
  BY <1>1, <1>2 DEF IInv, ClonesStand, kept_boxes
<1>4. ReadersStand'
  BY <1>1 DEF IInv, ReadersStand, kept_boxes, geometry, Faces, Stale
<1>5. Graph(nodes, slots, Len(boxes))' /\ ReadsStand(nodes, slots, reads)'
  BY <1>1, SameGraph, SameReads DEF kept_boxes
<1>6. Drawn(nodes, boxes, box_any, box_revision)'
  BY <1>1 DEF IInv, kept_boxes
<1>7. Books'
  BY <1>1 DEF IInv, Books, geometry, kept_boxes
<1> QED BY <1>3, <1>4, <1>5, <1>6, <1>7 DEF IInv

(* ... and that still stand when it takes the flag: while it is made,      *)
(* readers only add.                                                       *)
LEMMA CloneRestStands == ASSUME IInv, CloneRest PROVE IInv'
<1>1. PICK cloned \in clone :
         /\ reads' = cloned.reads /\ boxes' = cloned.boxes
         /\ readers' = [r \in Readers |-> Idle] /\ clone' = {}
         /\ UNCHANGED <<nodes, slots, any_held, box_revision, box_any, geometry, shapes, since>>
  BY DEF CloneRest
<1>2. Drawn(nodes, cloned.boxes, box_any, box_revision) /\ ReadsStand(nodes, slots, cloned.reads)
  BY DEF IInv, ClonesStand
<1>3. Drawn(nodes, boxes, box_any, box_revision)' /\ ReadsStand(nodes, slots, reads)'
  BY <1>1, <1>2
<1>4. Len(boxes') = Len(boxes)
  BY <1>1, <1>2 DEF IInv, Drawn
<1>5. Graph(nodes, slots, Len(boxes))'
  BY <1>1, <1>4, SameGraph
<1>6. /\ readers' \in [Readers -> Reader] /\ \A r \in Readers : readers'[r].doing = "nothing"
  BY <1>1 DEF Idle, Reader
<1>7. ReadersStand' /\ ClonesStand'
  BY <1>1, <1>6 DEF ReadersStand, ClonesStand
<1>8. Books'
  BY <1>1, <1>6 DEF IInv, Books, geometry
<1> QED BY <1>3, <1>5, <1>7, <1>8 DEF IInv

-----------------------------------------------------------------------------
(* Steps that mark or edit the nodes there are.                            *)

(* Nodes reshaped without an edit mean what they did.                      *)
LEMMA ReshapedMeans ==
    ASSUME NEW ns, NEW ms, NEW n, NEW count, Graph(ns, n, count), Reshaped(ns, ms),
           \A i \in DOMAIN ns : ms[i].data = ns[i].data
    PROVE  \A i \in DOMAIN ns : Meanings(ms)[i] = Meanings(ns)[i]
<1>1. Graph(ms, n, count)
  BY ReshapedGraph
<1>2. Ordered(ns) /\ Ordered(ms)
  BY <1>1 DEF Graph
<1>3. AlikeIn(ns, ms, DOMAIN ns)
  BY <1>2 DEF AlikeIn, Reshaped, Closed, Ordered
<1> QED BY <1>2, <1>3, AlikeMeansSame

(* The boxes once those found before a surface was rewritten are forgotten. *)
LEMMA SyncedDrawn ==
    ASSUME IInv
    PROVE  Drawn(nodes, SyncedBoxes, SyncedAny, revision) /\ Len(SyncedBoxes) = Len(boxes)
<1>1. /\ IsList(boxes) /\ Len(boxes) \in Nat /\ DOMAIN boxes = 1..Len(boxes)
      /\ Drawn(nodes, boxes, box_any, box_revision)
  BY ListLen DEF IInv, Drawn
<1>2. ASSUME NEW f \in FacesOf(nodes) PROVE nodes[f].box \in DOMAIN boxes
  BY <1>1, <1>2 DEF IInv, Graph, Placed, FacesOf
<1>3. CASE Stale /\ box_any
  <2> DEFINE none == [k \in DOMAIN boxes |-> {}]
  <2>1. SyncedBoxes = none
    BY <1>3 DEF SyncedBoxes
  <2>2. none = [k \in 1..Len(boxes) |-> none[k]] /\ \A k \in DOMAIN boxes : none[k] = {}
    BY <1>1
  <2> HIDE DEF none
  <2>3. IsList(none) /\ Len(none) = Len(boxes) /\ DOMAIN none = 1..Len(boxes)
    BY <1>1, <2>2, ListMade
  <2>4. Cardinality({}) = 0
    BY FS_EmptySet
  <2>5. \A k \in DOMAIN none : none[k] = {}
    BY <1>1, <2>2, <2>3
  <2>6. \A f \in FacesOf(nodes) : none[nodes[f].box] = {}
    BY <1>2, <2>2
  <2>7. Len(none) = Cardinality(FacesOf(nodes))
    BY <1>1, <2>3 DEF Drawn
  <2>8. Drawn(nodes, none, SyncedAny, revision)
    BY <2>3, <2>4, <2>5, <2>6, <2>7 DEF Drawn
  <2> QED BY <2>1, <2>3, <2>8
<1>4. CASE Stale /\ ~box_any
  <2>1. SyncedBoxes = boxes
    BY <1>4 DEF SyncedBoxes
  <2>2. \A k \in DOMAIN boxes : boxes[k] = {}
    BY <1>1, <1>4 DEF Drawn
  <2>3. Drawn(nodes, boxes, SyncedAny, revision)
    BY <1>1, <1>2, <2>2 DEF Drawn
  <2> QED BY <2>1, <2>3
<1>5. CASE ~Stale
  <2>1. SyncedBoxes = boxes /\ (box_any => SyncedAny) /\ revision = box_revision
    BY <1>5 DEF SyncedBoxes, SyncedAny, Stale
  <2>2. Drawn(nodes, boxes, SyncedAny, revision)
    BY <1>1, <2>1 DEF Drawn
  <2> QED BY <2>1, <2>2
<1> QED BY <1>3, <1>4, <1>5

(* The faces above a node are those it lies below.                         *)
LEMMA AboveReaches ==
    ASSUME IInv, NEW f \in FacesOf(nodes), NEW i \in BelowIn(nodes, {f})
    PROVE  f \in Above({i})
<1> DEFINE edges == nodes[f].children
           ends == UNION {nodes[e].children : e \in edges}
           T == {f} \cup edges \cup ends
<1>1. Ordered(nodes) /\ Linked(nodes) /\ f \in DOMAIN nodes /\ nodes[f].kind = "face"
  BY DEF IInv, Graph, FacesOf
<1>2. \A e \in edges : e \in DOMAIN nodes /\ nodes[e].kind = "edge"
  BY <1>1 DEF Ordered
<1>3. \A v \in ends : v \in DOMAIN nodes /\ nodes[v].children = {}
  <2> SUFFICES ASSUME NEW e \in edges, NEW v \in nodes[e].children
               PROVE  v \in DOMAIN nodes /\ nodes[v].children = {}
    OBVIOUS
  <2>1. v \in DOMAIN nodes /\ nodes[v].kind = "vertex"
    BY <1>1, <1>2 DEF Ordered
  <2> QED BY <1>1, <2>1 DEF Ordered
<1>4. Closed(nodes, T)
  BY <1>3 DEF Closed
<1>5. i \in T
  <2>1. {f} \subseteq T /\ {f} \subseteq DOMAIN nodes
    BY <1>1
  <2> HIDE DEF T
  <2> QED BY <1>1, <1>4, <2>1, BelowIsLeast
<1>6. \A S, x, y : x \in S /\ y \in nodes[x].held_by /\ y \in DOMAIN nodes => y \in Holders(S)
  BY DEF Holders
<1>7. \A e \in edges : f \in nodes[e].held_by
  BY <1>1 DEF Linked, Linkable
<1>8. CASE i = f
  BY <1>8 DEF Above
<1>9. CASE i \in edges
  <2>1. f \in Holders({i})
    BY <1>1, <1>6, <1>7, <1>9
  <2> QED BY <2>1 DEF Above
<1>10. CASE i \in ends
  <2>1. PICK e \in edges : i \in nodes[e].children
    BY <1>10
  <2>2. e \in nodes[i].held_by
    BY <1>1, <1>2, <2>1 DEF Linked, Linkable
  <2>3. e \in Holders({i})
    BY <1>2, <1>6, <2>1, <2>2
  <2>4. f \in Holders(Holders({i}))
    BY <1>1, <1>6, <1>7, <2>1, <2>3
  <2> QED BY <2>4 DEF Above
<1> QED BY <1>5, <1>8, <1>9, <1>10

(* What an operation is made of is live.                                   *)
LEMMA ShapesAreLive ==
    ASSUME IInv
    PROVE  /\ Made \subseteq DOMAIN nodes /\ Below(shapes) = BelowIn(nodes, shapes)
           /\ Below(shapes) \subseteq DOMAIN nodes
<1>1. Ordered(nodes) /\ shapes \subseteq DOMAIN nodes
  BY DEF IInv, Graph, Books
<1>2. BelowIn(nodes, shapes) \subseteq DOMAIN nodes
  BY <1>1, BelowIsLeast
<1> QED BY <1>2, BelowIs DEF Made

(* So is what is noted of it.                                              *)
LEMMA NotedIsLive ==
    ASSUME IInv, NEW result \in DOMAIN nodes
    PROVE  NotedHeld(result) \subseteq DOMAIN nodes
<1>1. Ordered(nodes)
  BY DEF IInv, Graph
<1>2. \A S : S \subseteq DOMAIN nodes => Met(S) \subseteq DOMAIN nodes
  BY <1>1 DEF Met, Children, Ordered
<1>3. {result} \subseteq DOMAIN nodes
  OBVIOUS
<1>4. Met(Met(Met({result}))) \subseteq DOMAIN nodes
  BY <1>2, <1>3
<1> QED BY <1>4 DEF NotedHeld

(* An operation that ends changes marks alone.                             *)
LEMMA EndStands ==
    ASSUME IInv, NEW result \in Made \cup Below(shapes), End(result)
    PROVE  IInv'
<1> DEFINE noted == NotedHeld(result)
           marked == [i \in DOMAIN nodes |-> [nodes[i] EXCEPT !.held = @ \/ i \in noted]]
<1>1. /\ Alone /\ nodes' = marked /\ any_held' = (any_held \/ noted # {})
      /\ shapes' = shapes \cup {result} /\ since' = NoOperation
      /\ UNCHANGED <<slots, kept_boxes, geometry, reads>> /\ UNCHANGED sharing
  BY DEF End
<1>2. result \in DOMAIN nodes /\ noted \subseteq DOMAIN nodes
  BY ShapesAreLive, NotedIsLive
<1>3. Graph(nodes, slots, Len(boxes)) /\ Ordered(nodes) /\ slots \in Nat
  BY GraphFacts DEF IInv, Graph
<1>4. ASSUME NEW i \in DOMAIN nodes
      PROVE  /\ marked[i] \in Node
             /\ marked[i].kind = nodes[i].kind /\ marked[i].children = nodes[i].children
             /\ marked[i].held_by = nodes[i].held_by /\ marked[i].box = nodes[i].box
             /\ marked[i].data = nodes[i].data /\ marked[i].tolerance = nodes[i].tolerance
             /\ marked[i].held = (nodes[i].held \/ i \in noted)
  <2>1. nodes[i] \in Node
    BY <1>3 DEF Graph
  <2>2. PICK held \in BOOLEAN : held = (nodes[i].held \/ i \in noted)
    OBVIOUS
  <2>3. marked[i] = [nodes[i] EXCEPT !.held = held]
    BY <2>2
  <2> HIDE DEF marked
  <2> QED BY <2>1, <2>2, <2>3 DEF Node
<1>5. DOMAIN marked = DOMAIN nodes
  OBVIOUS
<1> HIDE DEF marked, noted
<1>6. Reshaped(nodes, marked) /\ \A i \in DOMAIN nodes : Untouched(nodes, marked, i)
  BY <1>4, <1>5 DEF Reshaped, Untouched
<1>7. Graph(marked, slots, Len(boxes)) /\ FacesOf(marked) = FacesOf(nodes)
  BY <1>3, <1>6, ReshapedGraph
<1>8. \A i \in DOMAIN nodes : Meanings(marked)[i] = Meanings(nodes)[i]
  BY <1>3, <1>4, <1>6, ReshapedMeans
<1>9. Drawn(marked, boxes, box_any, box_revision)
  BY <1>4, <1>7, <1>8, DrawnAlike DEF IInv, FacesOf
<1>10. ReadsStand(marked, slots, reads)
  <2>1. Ordered(marked) /\ slots <= slots /\ ReadsStand(nodes, slots, reads)
    BY <1>3, <1>7 DEF Graph, IInv
  <2> QED BY <1>3, <1>5, <1>6, <2>1, AllStand
<1>11. ReadersStand' /\ ClonesStand'
  BY <1>1, AloneStands
<1>12. Books'
  <2>1. any_held' = (\E i \in DOMAIN nodes' : nodes'[i].held)
    <3>1. any_held <=> \E i \in DOMAIN nodes : nodes[i].held
      BY DEF IInv, Books
    <3>2. \A i \in DOMAIN nodes : nodes'[i].held = (nodes[i].held \/ i \in noted)
      BY <1>1, <1>4
    <3>3. DOMAIN nodes' = DOMAIN nodes
      BY <1>1, <1>5
    <3>4. any_held' <=> any_held \/ noted # {}
      BY <1>1
    <3>5. any_held' <=> \E i \in DOMAIN nodes' : nodes'[i].held
      BY <1>2, <3>1, <3>2, <3>3, <3>4
    <3>6. any_held' \in BOOLEAN
      BY <1>1, Zenon
    <3> QED BY <3>5, <3>6, Zenon
  <2> QED BY <1>1, <1>2, <1>5, <2>1 DEF IInv, Books, kept_boxes, geometry, sharing
<1> QED BY <1>1, <1>7, <1>9, <1>10, <1>11, <1>12 DEF IInv, kept_boxes

(* The boxes left are those of faces whose meaning has not changed.        *)
LEMMA ForgottenDrawn ==
    ASSUME IInv, NEW ms, Reshaped(nodes, ms), NEW S,
           \A f \in FacesOf(nodes) \ S : Meanings(ms)[f] = Meanings(nodes)[f]
    PROVE  Drawn(ms, Forgotten(S), SyncedAny, revision) /\ Len(Forgotten(S)) = Len(boxes)
<1> DEFINE kept == Forgotten(S)
<1>1. /\ Drawn(nodes, SyncedBoxes, SyncedAny, revision) /\ Len(SyncedBoxes) = Len(boxes)
      /\ IsList(SyncedBoxes) /\ IsList(boxes)
  BY SyncedDrawn DEF Drawn, IInv
<1>2. /\ Len(boxes) \in Nat /\ DOMAIN boxes = 1..Len(boxes) /\ DOMAIN SyncedBoxes = 1..Len(boxes)
      /\ Len(boxes) = Cardinality(FacesOf(nodes))
  BY <1>1, ListLen DEF Drawn
<1>3. /\ kept = [k \in 1..Len(boxes) |-> kept[k]]
      /\ \A k \in 1..Len(boxes) : kept[k] = IF k \in BoxesOf(S) THEN {} ELSE SyncedBoxes[k]
  BY <1>2 DEF Forgotten
<1> HIDE DEF kept
<1>4. IsList(kept) /\ Len(kept) = Len(boxes) /\ DOMAIN kept = 1..Len(boxes)
  BY <1>2, <1>3, ListMade
<1>5. FacesOf(ms) = FacesOf(nodes)
  BY DEF FacesOf, Reshaped
<1>6. ASSUME NEW k \in DOMAIN kept
      PROVE  Cardinality(kept[k]) <= 1 /\ (kept[k] # {} => SyncedAny)
  <2>1. Cardinality({}) = 0
    BY FS_EmptySet
  <2>2. k \in 1..Len(boxes) /\ k \in DOMAIN SyncedBoxes
    BY <1>2, <1>4
  <2>3. Cardinality(SyncedBoxes[k]) <= 1 /\ (SyncedBoxes[k] # {} => SyncedAny)
    BY <1>1, <2>2 DEF Drawn
  <2>4. CASE k \in BoxesOf(S)
    <3>1. kept[k] = {}
      BY <1>3, <2>2, <2>4
    <3> QED BY <2>1, <3>1
  <2>5. CASE k \notin BoxesOf(S)
    <3>1. kept[k] = SyncedBoxes[k]
      BY <1>3, <2>2, <2>5
    <3> QED BY <2>3, <3>1
  <2> QED BY <2>4, <2>5
<1>7. ASSUME NEW f \in FacesOf(ms), NEW b \in kept[ms[f].box]
      PROVE  b = [face |-> Meanings(ms)[f], revision |-> revision]
  <2>1. /\ f \in FacesOf(nodes) /\ f \in DOMAIN nodes /\ ms[f].box = nodes[f].box
        /\ nodes[f].box \in 1..Len(boxes)
    BY <1>2, <1>5 DEF FacesOf, Reshaped, IInv, Graph, Placed
  <2>2. nodes[f].box \notin BoxesOf(S) /\ b \in SyncedBoxes[nodes[f].box]
    BY <1>3, <2>1
  <2>3. f \notin S
    BY <2>1, <2>2 DEF BoxesOf, Faces, FacesOf
  <2>4. b = [face |-> Meanings(nodes)[f], revision |-> revision]
    BY <1>1, <2>1, <2>2 DEF Drawn
  <2>5. Meanings(ms)[f] = Meanings(nodes)[f]
    BY <2>1, <2>3
  <2> QED BY <2>4, <2>5, Zenon
<1> QED BY <1>2, <1>4, <1>5, <1>6, <1>7 DEF Drawn, kept

(* The reads left are those of which no node was handed out.               *)
LEMMA ReadsWithoutStand ==
    ASSUME IInv, NEW ms, Ordered(ms), NEW m \in Nat, slots <= m, NEW S,
           DOMAIN nodes \subseteq DOMAIN ms,
           \A x \in 1..slots \cap DOMAIN ms : x \notin S => Untouched(nodes, ms, x)
    PROVE  ReadsStand(ms, m, ReadsWithout(S))
<1> DEFINE P == {k \in DOMAIN reads : reads[k].below \cap S = {}}
<1>1. Ordered(nodes) /\ slots \in Nat /\ ReadsStand(nodes, slots, reads)
  BY GraphFacts DEF IInv, Graph
<1>2. P \in SUBSET DOMAIN reads /\ \A k \in P : reads[k].below \cap S = {}
  OBVIOUS
<1>3. ReadsWithout(S) = Those(reads, P)
  BY DEF ReadsWithout
<1> HIDE DEF P
<1>4. ASSUME NEW k \in P
      PROVE  /\ reads[k].shape \in DOMAIN ms
             /\ \A x \in reads[k].below \cap DOMAIN ms : Untouched(nodes, ms, x)
  <2>1. ReadStands(nodes, slots, reads[k])
    BY <1>1, <1>2 DEF ReadsStand
  <2>2. reads[k].shape \in DOMAIN nodes /\ reads[k].below \subseteq 1..slots
    BY <2>1 DEF ReadStands, Covers
  <2> QED BY <1>2, <2>2
<1>5. ReadsStand(ms, m, Those(reads, P))
  BY <1>1, <1>2, <1>4, ThoseStand
<1> QED BY <1>3, <1>5

(* Boxes are found against the surfaces as they are, once synced.          *)
LEMMA SyncBooks ==
    ASSUME IInv, Sync
    PROVE  /\ box_revision' \in Nat /\ box_revision' <= revision
           /\ box_any' \in BOOLEAN /\ box_any' = SyncedAny /\ box_revision' = revision
<1>1. box_revision' = revision /\ box_any' = SyncedAny /\ revision \in Nat
  BY DEF Sync, IInv, Books
<1>2. SyncedAny \in BOOLEAN
  BY Zenon DEF SyncedAny
<1> QED BY <1>1, <1>2

(* The flag for marks stands where the marks do.                           *)
LEMMA HeldSame ==
    ASSUME IInv, any_held' = any_held, DOMAIN nodes' = DOMAIN nodes,
           \A i \in DOMAIN nodes : nodes'[i].held = nodes[i].held
    PROVE  any_held' = (\E i \in DOMAIN nodes' : nodes'[i].held)
<1>1. any_held = (\E i \in DOMAIN nodes : nodes[i].held)
  BY DEF IInv, Books
<1>2. (\E i \in DOMAIN nodes : nodes[i].held) <=> (\E i \in DOMAIN nodes' : nodes'[i].held)
  OBVIOUS
<1> QED BY <1>1, <1>2, Zenon

(* A node edited in place is read by no read left, and bounds no face that *)
(* keeps its box.                                                          *)
LEMMA NodeMutStands ==
    ASSUME IInv, NEW i \in DOMAIN nodes, NodeMut(i)
    PROVE  IInv'
<1> DEFINE ms == [nodes EXCEPT ![i].data = @ + 1]
<1>1. /\ Alone /\ nodes' = ms /\ boxes' = Forgotten(Above({i})) /\ Sync /\ reads' = ReadsWithout({i})
      /\ UNCHANGED <<slots, any_held, geometry, shapes, since>> /\ UNCHANGED sharing
  BY DEF NodeMut
<1>2. Graph(nodes, slots, Len(boxes)) /\ Ordered(nodes) /\ slots \in Nat /\ DOMAIN nodes \subseteq 1..slots
  BY GraphFacts DEF IInv, Graph
<1>3. DOMAIN ms = DOMAIN nodes /\ \A j \in DOMAIN nodes : j # i => ms[j] = nodes[j]
  OBVIOUS
<1>4. /\ ms[i] \in Node /\ ms[i].kind = nodes[i].kind /\ ms[i].children = nodes[i].children
      /\ ms[i].held_by = nodes[i].held_by /\ ms[i].box = nodes[i].box /\ ms[i].held = nodes[i].held
  <2>1. PICK node : node = nodes[i]
    OBVIOUS
  <2>2. node \in Node
    BY <1>2, <2>1 DEF Graph
  <2>3. ms[i] = [node EXCEPT !.data = node.data + 1]
    BY <2>1
  <2> HIDE DEF ms
  <2> QED BY <2>1, <2>2, <2>3 DEF Node
<1> HIDE DEF ms
<1>5. Reshaped(nodes, ms)
  BY <1>2, <1>3, <1>4 DEF Reshaped, Graph
<1>6. Graph(ms, slots, Len(boxes)) /\ FacesOf(ms) = FacesOf(nodes) /\ Ordered(ms)
  BY <1>2, <1>5, ReshapedGraph DEF Graph
<1>7. ASSUME NEW f \in FacesOf(nodes) \ Above({i}) PROVE Meanings(ms)[f] = Meanings(nodes)[f]
  <2> DEFINE T == BelowIn(nodes, {f})
  <2>1. f \in FacesOf(nodes) /\ {f} \subseteq DOMAIN nodes
    BY DEF FacesOf
  <2>2. i \notin T
    BY <1>7, <2>1, AboveReaches
  <2>3. f \in T /\ T \subseteq DOMAIN nodes /\ Closed(nodes, T)
    BY <1>2, <2>1, BelowIsLeast
  <2> HIDE DEF T
  <2>4. \A x \in T : ms[x] = nodes[x]
    BY <1>3, <2>2, <2>3
  <2>5. AlikeIn(nodes, ms, T) /\ \A x \in T : ms[x].data = nodes[x].data
    BY <1>3, <2>3, <2>4 DEF AlikeIn
  <2>6. \A x \in T : Meanings(ms)[x] = Meanings(nodes)[x]
    BY <1>2, <1>6, <2>5, AlikeMeansSame
  <2> QED BY <2>3, <2>6
<1>8. Drawn(ms, Forgotten(Above({i})), SyncedAny, revision) /\ Len(Forgotten(Above({i}))) = Len(boxes)
  <2>1. PICK S : S = Above({i})
    OBVIOUS
  <2>2. \A f \in FacesOf(nodes) \ S : Meanings(ms)[f] = Meanings(nodes)[f]
    BY <1>7, <2>1
  <2>3. Drawn(ms, Forgotten(S), SyncedAny, revision) /\ Len(Forgotten(S)) = Len(boxes)
    BY <1>5, <2>2, ForgottenDrawn
  <2> QED BY <2>1, <2>3
<1>9. ReadsStand(ms, slots, ReadsWithout({i}))
  <2>1. \A x \in 1..slots \cap DOMAIN ms : x \notin {i} => Untouched(nodes, ms, x)
    BY <1>3 DEF Untouched
  <2>2. slots <= slots /\ DOMAIN nodes \subseteq DOMAIN ms
    BY <1>2, <1>3
  <2> QED BY <1>2, <1>6, <2>1, <2>2, ReadsWithoutStand
<1>10. ReadersStand' /\ ClonesStand'
  BY <1>1, AloneStands
<1>11. Books'
  <2>1. any_held' = (\E j \in DOMAIN nodes' : nodes'[j].held)
    BY <1>1, <1>3, <1>4, HeldSame
  <2> QED BY <1>1, <1>3, <2>1, SyncBooks DEF IInv, Books, geometry, sharing
<1> QED BY <1>1, <1>6, <1>8, <1>9, <1>10, <1>11, SyncBooks DEF IInv

(* Steps that change tolerances alone.                                     *)
LEMMA LoosenedStands ==
    ASSUME IInv, NEW S, NEW to \in Nat,
           nodes' = [j \in DOMAIN nodes |->
                        IF j \in S THEN [nodes[j] EXCEPT !.tolerance = to] ELSE nodes[j]],
           reads' = ReadsWithout(S), Alone,
           \/ boxes' = SyncedBoxes /\ Sync
           \/ UNCHANGED kept_boxes,
           UNCHANGED <<slots, any_held, geometry, shapes, since>>, UNCHANGED sharing
    PROVE  IInv'
<1> DEFINE ms == [j \in DOMAIN nodes |->
                     IF j \in S THEN [nodes[j] EXCEPT !.tolerance = to] ELSE nodes[j]]
<1>1. nodes' = ms
  OBVIOUS
<1>2. Graph(nodes, slots, Len(boxes)) /\ Ordered(nodes) /\ slots \in Nat /\ DOMAIN nodes \subseteq 1..slots
  BY GraphFacts DEF IInv, Graph
<1>3. DOMAIN ms = DOMAIN nodes /\ \A j \in DOMAIN nodes : j \notin S => ms[j] = nodes[j]
  OBVIOUS
<1>4. ASSUME NEW i \in DOMAIN nodes
      PROVE  /\ ms[i] \in Node /\ ms[i].kind = nodes[i].kind /\ ms[i].children = nodes[i].children
             /\ ms[i].held_by = nodes[i].held_by /\ ms[i].box = nodes[i].box /\ ms[i].held = nodes[i].held
             /\ ms[i].data = nodes[i].data
  <2>1. PICK node : node = nodes[i]
    OBVIOUS
  <2>2. node \in Node
    BY <1>2, <2>1 DEF Graph
  <2>3. ms[i] = IF i \in S THEN [node EXCEPT !.tolerance = to] ELSE node
    BY <2>1
  <2> HIDE DEF ms
  <2> QED BY <2>1, <2>2, <2>3 DEF Node
<1> HIDE DEF ms
<1>5. Reshaped(nodes, ms)
  BY <1>3, <1>4 DEF Reshaped
<1>6. Graph(ms, slots, Len(boxes)) /\ FacesOf(ms) = FacesOf(nodes) /\ Ordered(ms)
  BY <1>2, <1>5, ReshapedGraph DEF Graph
<1>7. \A f \in DOMAIN nodes : Meanings(ms)[f] = Meanings(nodes)[f]
  BY <1>2, <1>4, <1>5, ReshapedMeans
<1>8. \A kept, any, at : Drawn(nodes, kept, any, at) => Drawn(ms, kept, any, at)
  <2> SUFFICES ASSUME NEW kept, NEW any, NEW at, Drawn(nodes, kept, any, at)
               PROVE  Drawn(ms, kept, any, at)
    OBVIOUS
  <2>1. \A f \in FacesOf(nodes) : ms[f].box = nodes[f].box /\ Meanings(ms)[f] = Meanings(nodes)[f]
    BY <1>4, <1>7 DEF FacesOf
  <2> QED BY <1>6, <2>1, DrawnAlike
<1>9. Drawn(nodes, boxes, box_any, box_revision)' /\ Len(boxes') = Len(boxes)
  <2>1. CASE boxes' = SyncedBoxes /\ Sync
    BY <1>1, <1>8, <2>1, SyncedDrawn, SyncBooks
  <2>2. CASE UNCHANGED kept_boxes
    BY <1>1, <1>8, <2>2 DEF IInv, kept_boxes
  <2> QED BY <2>1, <2>2
<1>10. ReadsStand(ms, slots, ReadsWithout(S))
  <2>1. \A x \in 1..slots \cap DOMAIN ms : x \notin S => Untouched(nodes, ms, x)
    BY <1>3 DEF Untouched
  <2>2. slots <= slots /\ DOMAIN nodes \subseteq DOMAIN ms
    BY <1>2, <1>3
  <2> QED BY <1>2, <1>6, <2>1, <2>2, ReadsWithoutStand
<1>11. ReadersStand' /\ ClonesStand'
  BY AloneStands
<1>12. Books'
  <2>1. any_held' = (\E j \in DOMAIN nodes' : nodes'[j].held)
    BY <1>1, <1>3, <1>4, HeldSame
  <2>2. box_revision' \in Nat /\ box_revision' <= revision /\ box_any' \in BOOLEAN
    <3>1. CASE Sync
      BY <3>1, SyncBooks
    <3>2. CASE UNCHANGED kept_boxes
      BY <3>2 DEF IInv, Books, kept_boxes
    <3> QED BY <3>1, <3>2
  <2> QED BY <1>1, <1>3, <2>1, <2>2 DEF IInv, Books, geometry, sharing
<1> QED BY <1>1, <1>6, <1>9, <1>10, <1>11, <1>12 DEF IInv

(* Widening forgets the reads, and no box: boxes hold no tolerance.        *)
LEMMA WidenStands ==
    ASSUME IInv, NEW i \in DOMAIN nodes, NEW to \in 1..MaxChanges, Widen(i, to)
    PROVE  IInv'
<1> DEFINE S == {j \in Below({i}) : nodes[j].kind # "shell" /\ nodes[j].tolerance < to}
<1>1. /\ nodes' = [j \in DOMAIN nodes |->
                      IF j \in S THEN [nodes[j] EXCEPT !.tolerance = to] ELSE nodes[j]]
      /\ reads' = ReadsWithout(S) /\ Alone /\ boxes' = SyncedBoxes /\ Sync
      /\ UNCHANGED <<slots, any_held, geometry, shapes, since>> /\ UNCHANGED sharing
  BY DEF Widen
<1>2. to \in Nat
  BY KeptAssumption
<1> HIDE DEF S
<1> QED BY <1>1, <1>2, LoosenedStands

(* So does putting back what was widened.                                  *)
LEMMA UndoWidenedStands ==
    ASSUME IInv, NEW S, UndoWidened(S)
    PROVE  IInv'
<1>1. /\ nodes' = [j \in DOMAIN nodes |->
                      IF j \in S THEN [nodes[j] EXCEPT !.tolerance = 0] ELSE nodes[j]]
      /\ reads' = ReadsWithout(S) /\ Alone /\ UNCHANGED kept_boxes
      /\ UNCHANGED <<slots, any_held, geometry, shapes, since>> /\ UNCHANGED sharing
  BY DEF UndoWidened
<1>2. 0 \in Nat
  OBVIOUS
<1> QED BY <1>1, <1>2, LoosenedStands

-----------------------------------------------------------------------------
(* Steps that add nodes to those there are.                                *)
Longer(ns, ms, n) ==
    /\ DOMAIN ns \subseteq DOMAIN ms /\ DOMAIN ms \cap 1..n = DOMAIN ns
    /\ \A i \in DOMAIN ns : ms[i].kind = ns[i].kind /\ ms[i].box = ns[i].box

Grown(ns, ms, n) == Longer(ns, ms, n) /\ \A i \in DOMAIN ns : Untouched(ns, ms, i)

(* Nodes added change no meaning of those there were.                      *)
LEMMA GrownMeans ==
    ASSUME NEW ns, NEW ms, NEW n, Ordered(ns), Ordered(ms), Grown(ns, ms, n)
    PROVE  \A i \in DOMAIN ns : Meanings(ms)[i] = Meanings(ns)[i]
<1> DEFINE T == DOMAIN ns
<1>1. AlikeIn(ns, ms, T) /\ \A x \in T : ms[x].data = ns[x].data
  BY DEF Longer, Grown, Untouched, AlikeIn, Closed, Ordered
<1> HIDE DEF T
<1>2. \A x \in T : Meanings(ms)[x] = Meanings(ns)[x]
  BY <1>1, AlikeMeansSame
<1> QED BY <1>2 DEF T

(* Nor do they change what was read.                                       *)
LEMMA GrownReads ==
    ASSUME NEW ns, NEW ms, NEW n \in Nat, NEW m \in Nat, n <= m, Ordered(ns), Ordered(ms),
           Grown(ns, ms, n), NEW kept, ReadsStand(ns, n, kept)
    PROVE  ReadsStand(ms, m, kept)
<1>1. /\ \A x \in DOMAIN ns : x \in DOMAIN ms
      /\ \A x \in 1..n \cap DOMAIN ms : Untouched(ns, ms, x)
  BY DEF Longer, Grown
<1> QED BY <1>1, AllStand

(* The boxes of a graph that grew: those there were, and some of the nodes *)
(* added.                                                                  *)
More(ns, ms, kept, more, any, at) ==
    /\ IsList(more) /\ Len(more) = Cardinality(FacesOf(ms)) /\ Len(kept) <= Len(more)
    /\ \A k \in DOMAIN kept : more[k] = kept[k]
    /\ \A k \in DOMAIN more \ DOMAIN kept : Cardinality(more[k]) <= 1 /\ (more[k] # {} => any)
    /\ \A f \in FacesOf(ms) \ FacesOf(ns) : \A b \in more[ms[f].box] :
          b = [face |-> Meanings(ms)[f], revision |-> at]

(* Boxes added for faces added, after those there were, are the boxes of   *)
(* those faces.                                                            *)
LEMMA DrawnMore ==
    ASSUME NEW ns, NEW ms, NEW n, NEW count, Graph(ns, n, count), Longer(ns, ms, n),
           \A f \in FacesOf(ns) : Meanings(ms)[f] = Meanings(ns)[f],
           NEW kept, NEW more, NEW any, NEW than, NEW at,
           Drawn(ns, kept, any, at), any => than, More(ns, ms, kept, more, than, at)
    PROVE  Drawn(ms, more, than, at)
<1>1. \A f \in FacesOf(ns) : f \in DOMAIN ns /\ ms[f].box = ns[f].box
                             /\ Meanings(ms)[f] = Meanings(ns)[f]
  BY DEF Longer, FacesOf
<1>2. \A f \in FacesOf(ns) : ns[f].box \in DOMAIN kept
  BY ListLen DEF Graph, Placed, Drawn, FacesOf
<1>3. ASSUME NEW k \in DOMAIN more
      PROVE  Cardinality(more[k]) <= 1 /\ (more[k] # {} => than)
  <2>1. CASE k \in DOMAIN kept
    <3>1. Cardinality(kept[k]) <= 1 /\ (kept[k] # {} => any) /\ more[k] = kept[k]
      BY <2>1 DEF Drawn, More
    <3> QED BY <3>1
  <2>2. CASE k \notin DOMAIN kept
    BY <2>2 DEF More
  <2> QED BY <2>1, <2>2
<1>4. ASSUME NEW f \in FacesOf(ms), NEW b \in more[ms[f].box]
      PROVE  b = [face |-> Meanings(ms)[f], revision |-> at]
  <2>1. CASE f \in FacesOf(ns)
    <3>1. PICK m : m = Meanings(ns)[f]
      OBVIOUS
    <3>2. Meanings(ms)[f] = m
      BY <1>1, <2>1, <3>1
    <3>3. b \in kept[ns[f].box]
      BY <1>1, <1>2, <1>4, <2>1 DEF More
    <3>4. b = [face |-> m, revision |-> at]
      BY <2>1, <3>1, <3>3 DEF Drawn
    <3> QED BY <3>2, <3>4
  <2>2. CASE f \notin FacesOf(ns)
    BY <1>4, <2>2 DEF More
  <2> QED BY <2>1, <2>2
<1> QED BY <1>3, <1>4 DEF Drawn, More

(* Nodes added with their faces in the places after those there are.       *)
Added(ns, ms, n, m, faces, count) ==
    /\ Longer(ns, ms, n) /\ n <= m /\ m \in 0..MaxSlots /\ DOMAIN ms \subseteq 1..m
    /\ \A i \in DOMAIN ms : ms[i] \in Node
    /\ Ordered(ms) /\ Linked(ms)
    /\ faces = FacesOf(ms) \ FacesOf(ns)
    /\ \A i \in DOMAIN ms \ DOMAIN ns :
          ms[i].box \in IF ms[i].kind = "face" THEN count + 1..count + Cardinality(faces) ELSE {0}
    /\ \A i, j \in faces : ms[i].box = ms[j].box => i = j

(* The graph with nodes added, each with its place.                        *)
LEMMA AddedGraph ==
    ASSUME NEW ns, NEW ms, NEW n, NEW m, NEW count, NEW faces,
           Graph(ns, n, count), Added(ns, ms, n, m, faces, count)
    PROVE  /\ Graph(ms, m, count + Cardinality(faces))
           /\ Cardinality(FacesOf(ms)) = count + Cardinality(faces)
           /\ faces \in SUBSET Nat /\ IsFiniteSet(faces) /\ Cardinality(faces) \in Nat
<1>1. /\ n \in Nat /\ m \in Nat /\ IsFiniteSet(1..m) /\ IsFiniteSet(FacesOf(ns)) /\ count \in Nat
      /\ 1..m \subseteq Nat
  BY GraphFacts, KeptAssumption, FS_Interval DEF Added
<1>2. /\ faces \subseteq FacesOf(ms) /\ FacesOf(ms) \subseteq 1..m /\ FacesOf(ns) \subseteq FacesOf(ms)
      /\ faces \cap FacesOf(ns) = {} /\ FacesOf(ms) = FacesOf(ns) \cup faces
      /\ faces \cap DOMAIN ns = {}
  BY DEF Added, Longer, FacesOf
<1>3. faces \in SUBSET Nat /\ IsFiniteSet(faces)
  BY <1>1, <1>2, FS_Subset
<1>4. Cardinality(FacesOf(ms)) = count + Cardinality(faces) /\ Cardinality(faces) \in Nat
  <2>1. FacesOf(ns) \cap faces = {} /\ Cardinality({}) = 0 /\ Cardinality(FacesOf(ns)) = count
    BY <1>2, FS_EmptySet DEF Graph, Placed
  <2>2. Cardinality(FacesOf(ns) \cup faces)
           = Cardinality(FacesOf(ns)) + Cardinality(faces) - Cardinality(FacesOf(ns) \cap faces)
    BY <1>1, <1>3, FS_Union
  <2>3. Cardinality(faces) \in Nat
    BY <1>3, FS_CardinalityType
  <2>4. Cardinality(FacesOf(ms)) = Cardinality(FacesOf(ns) \cup faces)
    BY <1>2, Zenon
  <2>5. Cardinality(FacesOf(ns) \cap faces) = 0
    BY <2>1, Zenon
  <2> QED BY <1>1, <2>1, <2>2, <2>3, <2>4, <2>5
<1>5. \A f \in faces : ms[f].box \in count + 1..count + Cardinality(faces)
  BY <1>2 DEF Added, FacesOf
<1>6. \A f \in FacesOf(ns) : ms[f].box = ns[f].box /\ ns[f].box \in 1..count
  BY DEF Added, Longer, Graph, Placed, FacesOf
<1>7. Placed(ms, count + Cardinality(faces))
  <2>1. ASSUME NEW i \in DOMAIN ms
        PROVE  ms[i].box \in IF ms[i].kind = "face" THEN 1..(count + Cardinality(faces)) ELSE {0}
    <3>1. CASE i \in faces
      BY <1>1, <1>2, <1>4, <1>5, <3>1 DEF FacesOf
    <3>2. CASE i \in FacesOf(ns)
      BY <1>1, <1>2, <1>4, <1>6, <3>2 DEF FacesOf
    <3>3. CASE i \notin FacesOf(ms)
      <4>1. CASE i \in DOMAIN ns
        BY <1>2, <3>3, <4>1 DEF Added, Longer, Graph, Placed, FacesOf
      <4>2. CASE i \notin DOMAIN ns
        BY <3>3, <4>2 DEF Added, FacesOf
      <4> QED BY <4>1, <4>2
    <3> QED BY <1>2, <3>1, <3>2, <3>3
  <2>2. ASSUME NEW i \in FacesOf(ms), NEW j \in FacesOf(ms), ms[i].box = ms[j].box
        PROVE  i = j
    <3>1. CASE i \in faces /\ j \in faces
      BY <2>2, <3>1 DEF Added
    <3>2. CASE i \in FacesOf(ns) /\ j \in FacesOf(ns)
      BY <1>6, <2>2, <3>2 DEF Graph, Placed
    <3>3. CASE i \in faces /\ j \in FacesOf(ns)
      BY <1>1, <1>5, <1>6, <2>2, <3>3
    <3>4. CASE i \in FacesOf(ns) /\ j \in faces
      BY <1>1, <1>5, <1>6, <2>2, <3>4
    <3> QED BY <1>2, <3>1, <3>2, <3>3, <3>4
  <2> QED BY <1>4, <2>1, <2>2 DEF Placed
<1> QED BY <1>3, <1>4, <1>7 DEF Graph, Added

(* What a node of a kind may be made of.                                   *)
MadeOf(ns, kind, children) ==
    /\ children \subseteq DOMAIN ns
    /\ kind = "vertex" => children = {}
    /\ kind = "edge" => \A c \in children : ns[c].kind = "vertex"
    /\ kind = "face" => \A c \in children : ns[c].kind = "edge"
    /\ kind = "shell" => \A c \in children : ns[c].kind = "face"

(* What is chosen of a kind is of that kind, and live.                     *)
LEMMA OfKindAre ==
    ASSUME IInv, NEW kind
    PROVE  OfKind(kind) \subseteq DOMAIN nodes /\ \A i \in OfKind(kind) : nodes[i].kind = kind
<1>1. Ordered(nodes) /\ shapes \subseteq DOMAIN nodes
  BY DEF IInv, Graph, Books
<1>2. Below(shapes) \subseteq DOMAIN nodes
  BY <1>1, BelowIs, BelowIsLeast
<1> QED BY <1>2 DEF OfKind, Made

(* A node inserted keeps the invariant, over whatever it is made of.       *)
LEMMA InsertStands ==
    ASSUME IInv, NEW kind \in Kinds, NEW children, MadeOf(nodes, kind, children),
           Insert(kind, children)
    PROVE  IInv' /\ Grown(nodes, nodes', slots)
<1> DEFINE made == slots + 1
           place == IF kind = "face" THEN Len(boxes) + 1 ELSE 0
           new == [kind |-> kind, data |-> 0, tolerance |-> 0, children |-> children,
                   held_by |-> {}, held |-> FALSE, box |-> place]
           links(i) == {j \in {made} : kind # "shell" /\ i \in children}
           ms == [i \in DOMAIN nodes \cup {made} |->
                     IF i = made THEN new ELSE [nodes[i] EXCEPT !.held_by = @ \cup links(i)]]
           faces == IF kind = "face" THEN {made} ELSE {}
           more == IF kind = "face" THEN Append(SyncedBoxes, {}) ELSE SyncedBoxes
<1>1. /\ Alone /\ slots < MaxSlots /\ slots' = made /\ nodes' = ms /\ boxes' = more /\ Sync
      /\ UNCHANGED <<any_held, geometry, reads, shapes, since>> /\ UNCHANGED sharing
  BY DEF Insert
<1>2. /\ Graph(nodes, slots, Len(boxes)) /\ Ordered(nodes) /\ slots \in Nat
      /\ DOMAIN nodes \subseteq 1..slots /\ made \notin DOMAIN nodes /\ made \in Nat
      /\ made \in 1..MaxSlots /\ slots <= made /\ Len(boxes) \in Nat /\ made \notin 1..slots
  BY <1>1, GraphFacts, KeptAssumption DEF IInv, Graph
<1>3. new \in Node /\ new.kind = kind /\ new.children = children /\ new.box = place /\ ~new.held
  <2>1. Len(boxes) < MaxSlots
    <3>1. /\ FacesOf(nodes) \subseteq 1..slots /\ IsFiniteSet(1..slots) /\ Cardinality(1..slots) = slots
      <4>1. FacesOf(nodes) \subseteq 1..slots
        BY <1>2 DEF FacesOf
      <4>2. IsFiniteSet(1..slots) /\ Cardinality(1..slots) = slots
        BY <1>2, FS_Interval
      <4> QED BY <4>1, <4>2
    <3>2. Cardinality(FacesOf(nodes)) <= slots
      BY <3>1, FS_Subset
    <3> QED BY <1>1, <1>2, <3>2, KeptAssumption DEF Graph, Placed
  <2>2. place \in 0..MaxSlots
    BY <1>2, <2>1, KeptAssumption
  <2>3. children \subseteq 1..MaxSlots
    BY <1>1, <1>2, KeptAssumption DEF MadeOf
  <2> QED BY <2>2, <2>3 DEF Node
<1>4. \A i \in DOMAIN nodes :
         /\ ms[i] \in Node /\ Untouched(nodes, ms, i) /\ ms[i].box = nodes[i].box
         /\ ms[i].held = nodes[i].held /\ ms[i].held_by = nodes[i].held_by \cup links(i)
  <2> SUFFICES ASSUME NEW i \in DOMAIN nodes
               PROVE  /\ ms[i] \in Node /\ Untouched(nodes, ms, i) /\ ms[i].box = nodes[i].box
                      /\ ms[i].held = nodes[i].held /\ ms[i].held_by = nodes[i].held_by \cup links(i)
    OBVIOUS
  <2>1. PICK node : node = nodes[i]
    OBVIOUS
  <2>2. node \in Node
    BY <1>2, <2>1 DEF Graph
  <2>3. PICK L : L = links(i)
    OBVIOUS
  <2>4. L \subseteq 1..MaxSlots
    BY <1>2, <2>3
  <2>5. ms[i] = [node EXCEPT !.held_by = node.held_by \cup L]
    BY <1>2, <2>1, <2>3
  <2> HIDE DEF ms, links
  <2> QED BY <2>1, <2>2, <2>3, <2>4, <2>5 DEF Node, Untouched
<1>5. /\ DOMAIN ms = DOMAIN nodes \cup {made} /\ ms[made] = new
      /\ \A i : made \in links(i) <=> (kind # "shell" /\ i \in children)
  BY <1>2
<1> HIDE DEF ms, new, links
<1>6. Grown(nodes, ms, slots)
  BY <1>2, <1>4, <1>5 DEF Longer, Grown, Untouched
<1>7. Ordered(ms)
  <2> SUFFICES ASSUME NEW i \in DOMAIN ms
               PROVE  /\ ms[i].kind \in Kinds
                      /\ ms[i].children \subseteq DOMAIN ms
                      /\ ms[i].kind = "vertex" => ms[i].children = {}
                      /\ ms[i].kind = "edge" => \A c \in ms[i].children : ms[c].kind = "vertex"
                      /\ ms[i].kind = "face" => \A c \in ms[i].children : ms[c].kind = "edge"
                      /\ ms[i].kind = "shell" => \A c \in ms[i].children : ms[c].kind = "face"
    BY DEF Ordered
  <2>1. CASE i = made
    <3>1. \A c \in children : c \in DOMAIN ms /\ ms[c].kind = nodes[c].kind
      BY <1>4, <1>5 DEF MadeOf, Untouched
    <3> QED BY <1>3, <1>5, <2>1, <3>1 DEF MadeOf
  <2>2. CASE i # made
    <3>1. i \in DOMAIN nodes /\ ms[i].kind = nodes[i].kind /\ ms[i].children = nodes[i].children
      BY <1>4, <1>5, <2>2 DEF Untouched
    <3>2. \A c \in nodes[i].children : c \in DOMAIN ms /\ ms[c].kind = nodes[c].kind
      BY <1>2, <1>4, <1>5, <3>1 DEF Ordered, Untouched
    <3> QED BY <1>2, <3>1, <3>2 DEF Ordered
  <2> QED BY <2>1, <2>2
<1>8. Linked(ms)
  <2> SUFFICES ASSUME NEW i \in DOMAIN ms, Linkable(ms[i]), NEW c \in ms[i].children
               PROVE  i \in ms[c].held_by
    BY DEF Linked
  <2>1. CASE i = made
    <3>1. c \in children /\ c \in DOMAIN nodes /\ kind # "shell"
      BY <1>3, <1>5, <2>1 DEF MadeOf, Linkable
    <3> QED BY <1>4, <1>5, <2>1, <3>1
  <2>2. CASE i # made
    <3>1. i \in DOMAIN nodes /\ Linkable(nodes[i]) /\ c \in nodes[i].children
      BY <1>4, <1>5, <2>2 DEF Untouched, Linkable
    <3>2. i \in nodes[c].held_by /\ c \in DOMAIN nodes
      BY <1>2, <3>1 DEF Graph, Linked, Ordered
    <3> QED BY <1>4, <3>2
  <2> QED BY <2>1, <2>2
<1>9. /\ faces = FacesOf(ms) \ FacesOf(nodes)
      /\ ms[made].box = IF ms[made].kind = "face" THEN Len(boxes) + 1 ELSE 0
  <2>1. faces = FacesOf(ms) \ FacesOf(nodes)
    BY <1>2, <1>3, <1>4, <1>5 DEF FacesOf, Untouched
  <2> QED BY <1>3, <1>5, <2>1
<1>10. /\ Cardinality(faces) = IF kind = "face" THEN 1 ELSE 0
  BY <1>2, FS_Singleton, FS_EmptySet
<1> HIDE DEF faces
<1>11. Added(nodes, ms, slots, made, faces, Len(boxes))
  <2>1. \A i \in DOMAIN ms : ms[i] \in Node
    BY <1>3, <1>4, <1>5
  <2>2. made \in 0..MaxSlots /\ DOMAIN ms \subseteq 1..made
    BY <1>2, <1>5
  <2>3. ms[made].box \in IF ms[made].kind = "face"
                         THEN Len(boxes) + 1..Len(boxes) + Cardinality(faces) ELSE {0}
    BY <1>2, <1>3, <1>5, <1>9, <1>10
  <2>4. DOMAIN ms \ DOMAIN nodes = {made} /\ faces \subseteq {made}
    BY <1>2, <1>5 DEF faces
  <2> QED BY <1>2, <1>6, <1>7, <1>8, <1>9, <2>1, <2>2, <2>3, <2>4 DEF Added, Grown
<1>12. /\ Graph(ms, made, Len(boxes) + Cardinality(faces))
       /\ Cardinality(FacesOf(ms)) = Len(boxes) + Cardinality(faces)
  BY <1>2, <1>11, AddedGraph
<1>13. /\ Drawn(nodes, SyncedBoxes, SyncedAny, revision) /\ IsList(SyncedBoxes)
       /\ Len(SyncedBoxes) = Len(boxes) /\ DOMAIN SyncedBoxes = 1..Len(boxes)
  BY SyncedDrawn, ListLen DEF Drawn
<1>14. More(nodes, ms, SyncedBoxes, more, SyncedAny, revision) /\ Len(more) = Len(boxes) + Cardinality(faces)
  <2>1. CASE kind = "face"
    <3>1. /\ more = Append(SyncedBoxes, {}) /\ faces = {made}
      BY <2>1 DEF faces
    <3>2. /\ IsList(more) /\ Len(more) = Len(boxes) + 1 /\ DOMAIN more = 1..Len(boxes) + 1
          /\ \A k \in DOMAIN SyncedBoxes : more[k] = SyncedBoxes[k]
          /\ more[Len(boxes) + 1] = {}
      BY <1>13, <3>1, ListAppend, ListLen
    <3>3. \A k \in DOMAIN more \ DOMAIN SyncedBoxes : more[k] = {}
      BY <1>2, <1>13, <3>2
    <3>4. \A f \in FacesOf(ms) \ FacesOf(nodes) : more[ms[f].box] = {}
      BY <1>3, <1>5, <1>9, <2>1, <3>1, <3>2
    <3>5. Len(boxes) + Cardinality(faces) = Len(boxes) + 1 /\ Len(SyncedBoxes) <= Len(more)
      BY <1>2, <1>10, <1>13, <2>1, <3>2
    <3>6. Cardinality({}) <= 1
      BY FS_EmptySet
    <3> QED BY <1>12, <3>2, <3>3, <3>4, <3>5, <3>6 DEF More
  <2>2. CASE kind # "face"
    <3>1. more = SyncedBoxes /\ faces = {}
      BY <2>2 DEF faces
    <3>2. Len(boxes) + Cardinality(faces) = Len(boxes)
      BY <1>2, <1>10, <2>2
    <3>3. FacesOf(ms) \ FacesOf(nodes) = {}
      BY <1>9, <3>1
    <3>4. IsList(more) /\ Len(more) = Len(boxes) /\ Len(SyncedBoxes) <= Len(more)
      <4>1. IsList(more) /\ Len(more) = Len(boxes) /\ Len(SyncedBoxes) = Len(more)
        BY <1>13, <3>1, Zenon
      <4>2. Len(more) \in Nat
        BY <1>2, <4>1, Zenon
      <4> HIDE DEF more
      <4> QED BY <4>1, <4>2
    <3>5. \A k \in DOMAIN SyncedBoxes : more[k] = SyncedBoxes[k]
      BY <3>1
    <3>6. DOMAIN more \ DOMAIN SyncedBoxes = {}
      BY <3>1
    <3> HIDE DEF more
    <3> QED BY <1>12, <3>2, <3>3, <3>4, <3>5, <3>6 DEF More
  <2> QED BY <2>1, <2>2
<1> HIDE DEF more
<1>15. Drawn(ms, more, SyncedAny, revision)
  <2>1. \A f \in FacesOf(nodes) : Meanings(ms)[f] = Meanings(nodes)[f]
    BY <1>2, <1>6, <1>7, GrownMeans DEF FacesOf
  <2>2. Longer(nodes, ms, slots)
    BY <1>6 DEF Grown
  <2> QED BY <1>2, <1>13, <1>14, <2>1, <2>2, DrawnMore
<1>16. ReadsStand(ms, made, reads)
  BY <1>2, <1>6, <1>7, GrownReads DEF IInv
<1>17. ReadersStand' /\ ClonesStand'
  BY <1>1, AloneStands
<1>18. Books'
  <2>1. any_held' = (\E i \in DOMAIN nodes' : nodes'[i].held)
    <3>1. any_held = (\E i \in DOMAIN nodes : nodes[i].held)
      BY DEF IInv, Books
    <3>2. (\E i \in DOMAIN nodes : nodes[i].held) <=> (\E i \in DOMAIN ms : ms[i].held)
      BY <1>3, <1>4, <1>5
    <3> QED BY <1>1, <3>1, <3>2, Zenon
  <2>2. shapes' \subseteq DOMAIN nodes'
    BY <1>1, <1>5 DEF IInv, Books
  <2>3. since' \in {NoOperation} \cup 0..slots'
    BY <1>1, <1>2 DEF IInv, Books
  <2>4. box_revision' \in Nat /\ box_revision' <= revision' /\ box_any' \in BOOLEAN
    BY <1>1, SyncBooks DEF geometry
  <2>5. revision' \in Nat /\ edits' \in Nat /\ revision' <= edits' /\ readers' \in [Readers -> Reader]
    BY <1>1 DEF IInv, Books, geometry, sharing
  <2> QED BY <2>1, <2>2, <2>3, <2>4, <2>5 DEF Books
<1> QED BY <1>1, <1>6, <1>12, <1>14, <1>15, <1>16, <1>17, <1>18, SyncBooks DEF IInv

-----------------------------------------------------------------------------
(* Steps that copy nodes, and have some of those there were point at the   *)
(* copies.                                                                 *)
Pointed(cp, S) == {cp[c] : c \in S}

Copying(ns, n, m, C, cp) ==
    /\ C \subseteq DOMAIN ns /\ DOMAIN cp = DOMAIN ns
    /\ \A i \in C : cp[i] \in n + 1..m
    /\ \A i \in DOMAIN ns \ C : cp[i] = i
    /\ \A i, j \in C : cp[i] = cp[j] => i = j

AsCopied(ns, ms, P, cp, i) ==
    /\ ms[i].kind = ns[i].kind /\ ms[i].data = ns[i].data /\ ms[i].tolerance = ns[i].tolerance
    /\ ms[i].box = ns[i].box
    /\ ms[i].children = IF i \in P THEN Pointed(cp, ns[i].children) ELSE ns[i].children

Copy(ns, ms, cp, i) ==
    /\ ms[cp[i]].kind = ns[i].kind /\ ms[cp[i]].data = ns[i].data
    /\ ms[cp[i]].tolerance = ns[i].tolerance
    /\ ms[cp[i]].children = Pointed(cp, ns[i].children)

CopiedInto(ns, ms, C, P, cp) ==
    /\ DOMAIN ms = DOMAIN ns \cup Pointed(cp, C)
    /\ \A i \in DOMAIN ns : AsCopied(ns, ms, P, cp, i)
    /\ \A i \in C : Copy(ns, ms, cp, i)

CopyStep(ns, ms, n, m, C, P, cp) ==
    /\ n \in Nat /\ m \in Nat /\ n <= m /\ DOMAIN ns \subseteq 1..n
    /\ Copying(ns, n, m, C, cp) /\ CopiedInto(ns, ms, C, P, cp)

Laid(ns, ms, n, m, C, cp) ==
    /\ DOMAIN ms \subseteq 1..m /\ DOMAIN ns \subseteq DOMAIN ms /\ DOMAIN ms \cap 1..n = DOMAIN ns
    /\ \A i \in DOMAIN ns : cp[i] \in DOMAIN ms /\ (cp[i] \in DOMAIN ns => i \notin C /\ cp[i] = i)
    /\ \A k \in DOMAIN ms \ DOMAIN ns : \E i \in C : k = cp[i]

(* Where the copies are.                                                   *)
LEMMA CopyFacts ==
    ASSUME NEW ns, NEW ms, NEW n, NEW m, NEW C, NEW P, NEW cp,
           CopyStep(ns, ms, n, m, C, P, cp)
    PROVE  Laid(ns, ms, n, m, C, cp)
<1>1. \A i \in C : cp[i] \in n + 1..m /\ cp[i] \notin 1..n /\ cp[i] \in 1..m
  BY DEF CopyStep, Copying
<1>2. DOMAIN ms = DOMAIN ns \cup {cp[c] : c \in C}
  BY DEF CopyStep, CopiedInto, Pointed
<1>3. C \subseteq DOMAIN ns /\ \A i \in DOMAIN ns \ C : cp[i] = i
  BY DEF CopyStep, Copying
<1>4. 1..n \subseteq 1..m /\ DOMAIN ns \subseteq 1..n
  BY DEF CopyStep
<1>5. DOMAIN ms \subseteq 1..m /\ DOMAIN ns \subseteq DOMAIN ms /\ DOMAIN ms \cap 1..n = DOMAIN ns
  BY <1>1, <1>2, <1>4
<1>6. \A i \in DOMAIN ns : cp[i] \in DOMAIN ms /\ (cp[i] \in DOMAIN ns => i \notin C /\ cp[i] = i)
  BY <1>1, <1>2, <1>3, <1>4
<1>7. \A k \in DOMAIN ms \ DOMAIN ns : \E i \in C : k = cp[i]
  BY <1>2
<1> QED BY <1>5, <1>6, <1>7 DEF Laid

(* Copies are of the kinds of their originals, and so are their parts.     *)
LEMMA CopiedIsOrdered ==
    ASSUME NEW ns, NEW ms, NEW n, NEW m, NEW C, NEW P, NEW cp,
           CopyStep(ns, ms, n, m, C, P, cp), Ordered(ns)
    PROVE  Ordered(ms)
<1>1. /\ DOMAIN ns \subseteq DOMAIN ms
      /\ \A i \in DOMAIN ns : cp[i] \in DOMAIN ms
      /\ \A k \in DOMAIN ms \ DOMAIN ns : \E i \in C : k = cp[i]
  <2>1. Laid(ns, ms, n, m, C, cp)
    BY CopyFacts
  <2> QED BY <2>1 DEF Laid
<1>2. \A i \in DOMAIN ns : ms[i].kind = ns[i].kind /\ ms[cp[i]].kind = ns[i].kind
  BY DEF CopyStep, CopiedInto, Copying, AsCopied, Copy
<1>3. ASSUME NEW i \in DOMAIN ns, NEW k \in DOMAIN ms, ms[k].kind = ns[i].kind,
             ms[k].children = ns[i].children \/ ms[k].children = Pointed(cp, ns[i].children)
      PROVE  /\ ms[k].kind \in Kinds
             /\ ms[k].children \subseteq DOMAIN ms
             /\ ms[k].kind = "vertex" => ms[k].children = {}
             /\ ms[k].kind = "edge" => \A c \in ms[k].children : ms[c].kind = "vertex"
             /\ ms[k].kind = "face" => \A c \in ms[k].children : ms[c].kind = "edge"
             /\ ms[k].kind = "shell" => \A c \in ms[k].children : ms[c].kind = "face"
  <2>1. \A c \in ms[k].children : \E d \in ns[i].children : c = d \/ c = cp[d]
    BY <1>3 DEF Pointed
  <2>2. ns[i].children \subseteq DOMAIN ns
    BY DEF Ordered
  <2>3. \A c \in ms[k].children : \E d \in ns[i].children : c \in DOMAIN ms /\ ms[c].kind = ns[d].kind
    BY <1>1, <1>2, <2>1, <2>2
  <2> QED BY <1>3, <2>3 DEF Ordered
<1>4. ASSUME NEW k \in DOMAIN ms
      PROVE  \E i \in DOMAIN ns : /\ ms[k].kind = ns[i].kind
                                  /\ \/ ms[k].children = ns[i].children
                                     \/ ms[k].children = Pointed(cp, ns[i].children)
  <2>1. CASE k \in DOMAIN ns
    BY <2>1 DEF CopyStep, CopiedInto, AsCopied
  <2>2. CASE k \notin DOMAIN ns
    BY <1>1, <2>2 DEF CopyStep, CopiedInto, Copy, Copying
  <2> QED BY <2>1, <2>2
<1> QED BY <1>3, <1>4 DEF Ordered

(* The copies mean what the originals do, and so does what points at them. *)
LEMMA CopiesMeanSame ==
    ASSUME NEW ns, NEW ms, NEW n, NEW m, NEW C, NEW P, NEW cp,
           CopyStep(ns, ms, n, m, C, P, cp), Ordered(ns)
    PROVE  /\ \A i \in DOMAIN ns : Meanings(ms)[i] = Meanings(ns)[i]
           /\ \A i \in DOMAIN ns : Meanings(ms)[cp[i]] = Meanings(ns)[i]
<1> DEFINE R == {<<i, i>> : i \in DOMAIN ns} \cup {<<i, cp[i]>> : i \in DOMAIN ns}
<1>1. /\ DOMAIN ns \subseteq DOMAIN ms
      /\ \A i \in DOMAIN ns : cp[i] \in DOMAIN ms
  <2>1. Laid(ns, ms, n, m, C, cp)
    BY CopyFacts
  <2> QED BY <2>1 DEF Laid
<1>2. Ordered(ms)
  BY CopiedIsOrdered
<1>3. \A i, j : <<i, j>> \in R <=> i \in DOMAIN ns /\ (j = i \/ j = cp[i])
  OBVIOUS
<1> HIDE DEF R
<1>4. ASSUME NEW i \in DOMAIN ns, NEW j \in DOMAIN ms, <<i, j>> \in R
      PROVE  /\ ns[i].kind = ms[j].kind /\ ns[i].data = ms[j].data
             /\ ms[j].children = ns[i].children \/ ms[j].children = Pointed(cp, ns[i].children)
  <2>1. CASE j = i
    BY <2>1 DEF CopyStep, CopiedInto, AsCopied
  <2>2. CASE j = cp[i] /\ i \in C
    BY <2>2 DEF CopyStep, CopiedInto, Copy
  <2>3. CASE j = cp[i] /\ i \notin C
    BY <2>1, <2>3 DEF CopyStep, Copying
  <2> QED BY <1>3, <1>4, <2>1, <2>2, <2>3
<1>5. Corresponds(ns, ms, R)
  <2> SUFFICES ASSUME NEW i \in DOMAIN ns, NEW j \in DOMAIN ms, <<i, j>> \in R
               PROVE  /\ ns[i].kind = ms[j].kind
                      /\ \A c \in ns[i].children : \E d \in ms[j].children : <<c, d>> \in R
                      /\ \A d \in ms[j].children : \E c \in ns[i].children : <<c, d>> \in R
    BY DEF Corresponds
  <2>1. ns[i].children \subseteq DOMAIN ns
    BY DEF Ordered
  <2>2. \A c \in ns[i].children : <<c, c>> \in R /\ <<c, cp[c]>> \in R
    BY <1>3, <2>1
  <2>3. CASE ms[j].children = ns[i].children
    BY <1>4, <2>2, <2>3
  <2>4. CASE ms[j].children = Pointed(cp, ns[i].children)
    <3>1. ms[j].children = {cp[c] : c \in ns[i].children}
      BY <2>4 DEF Pointed
    <3> QED BY <1>4, <2>2, <3>1
  <2> QED BY <1>4, <2>3, <2>4
<1>6. SameData(ns, ms, R)
  BY <1>4 DEF SameData
<1>7. Same(ns, ms, R, Meanings(ns), Meanings(ms))
  BY <1>2, <1>5, <1>6, SameMeaning, Zenon
<1>8. PICK a : a = Meanings(ns)
  OBVIOUS
<1>9. PICK b : b = Meanings(ms)
  OBVIOUS
<1>10. Same(ns, ms, R, a, b)
  BY <1>7, <1>8, <1>9, Zenon
<1>11. \A i \in DOMAIN ns : b[i] = a[i] /\ b[cp[i]] = a[i]
  BY <1>1, <1>3, <1>10 DEF Same
<1> QED BY <1>8, <1>9, <1>11

(* The faces among the copies are as many as among what was copied.        *)
LEMMA CopiedFaces ==
    ASSUME NEW ns, NEW ms, NEW n, NEW m, NEW C, NEW P, NEW cp,
           CopyStep(ns, ms, n, m, C, P, cp),
           NEW F, F = C \cap FacesOf(ns)
    PROVE  /\ FacesOf(ms) \ FacesOf(ns) = Pointed(cp, F)
           /\ FacesOf(ns) \subseteq FacesOf(ms)
           /\ F \in SUBSET Nat /\ IsFiniteSet(F) /\ Cardinality(F) \in Nat
           /\ Cardinality(Pointed(cp, F)) = Cardinality(F)
<1>1. /\ DOMAIN ns \subseteq DOMAIN ms
      /\ \A i \in DOMAIN ns : cp[i] \in DOMAIN ms /\ (cp[i] \in DOMAIN ns => i \notin C)
      /\ \A k \in DOMAIN ms \ DOMAIN ns : \E i \in C : k = cp[i]
  <2>1. Laid(ns, ms, n, m, C, cp)
    BY CopyFacts
  <2> QED BY <2>1 DEF Laid
<1>2. \A i \in DOMAIN ns : ms[i].kind = ns[i].kind
  BY DEF CopyStep, CopiedInto, AsCopied
<1>3. C \subseteq DOMAIN ns /\ \A i \in C : ms[cp[i]].kind = ns[i].kind
  BY DEF CopyStep, CopiedInto, Copy, Copying
<1>4. FacesOf(ns) \subseteq FacesOf(ms)
  BY <1>1, <1>2 DEF FacesOf
<1>5. FacesOf(ms) \ FacesOf(ns) = {cp[i] : i \in F}
  BY <1>1, <1>2, <1>3 DEF FacesOf
<1>6. F \in SUBSET Nat /\ IsFiniteSet(F)
  <2>1. F \subseteq 1..n /\ 1..n \subseteq Nat /\ n \in Nat
    BY DEF FacesOf, CopyStep
  <2> QED BY <2>1, FS_Subset, FS_Interval
<1>7. Cardinality(Pointed(cp, F)) = Cardinality(F)
  <2> DEFINE g == [i \in F |-> cp[i]]
             T == {cp[i] : i \in F}
  <2>1. \A i, j \in F : g[i] = g[j] => i = j
    BY DEF CopyStep, Copying
  <2>2. g \in [F -> T] /\ \A t \in T : \E i \in F : g[i] = t
    OBVIOUS
  <2> HIDE DEF g, T
  <2>3. g \in Surjection(F, T) /\ g \in Injection(F, T)
    BY <2>1, <2>2 DEF Surjection, Injection, IsInjective
  <2>4. Cardinality(T) = Cardinality(F)
    BY <1>6, <2>3, FS_Surjection
  <2> QED BY <2>4 DEF Pointed, T
<1> QED BY <1>4, <1>5, <1>6, <1>7, FS_CardinalityType DEF Pointed

Moved(C) == [i \in DOMAIN nodes |-> CopyOf(C, i)]

(* Copies take the slots after those handed out, each its own.             *)
LEMMA MovedFacts ==
    ASSUME IInv, NEW C \in SUBSET DOMAIN nodes
    PROVE  /\ C \in SUBSET Nat /\ IsFiniteSet(C) /\ Cardinality(C) \in Nat
           /\ Copying(nodes, slots, slots + Cardinality(C), C, Moved(C))
           /\ \A i \in C : Original(C, Moved(C)[i]) = i
           /\ \A S \in SUBSET DOMAIN nodes : Copies(C, S) = Pointed(Moved(C), S)
<1>1. DOMAIN nodes \in SUBSET Nat /\ IsFiniteSet(DOMAIN nodes) /\ slots \in Nat
  BY GraphFacts DEF IInv
<1>2. C \in SUBSET Nat /\ IsFiniteSet(C) /\ Cardinality(C) \in Nat
  BY <1>1, FS_Subset, FS_CardinalityType
<1>3. \A i \in C : Moved(C)[i] = slots + Rank(C, i) /\ Rank(C, i) \in 1..Cardinality(C)
  BY <1>2, RankAtMost DEF Moved, CopyOf, Ranks
<1>4. \A i \in DOMAIN nodes \ C : Moved(C)[i] = i
  BY DEF Moved, CopyOf
<1>5. \A i \in C : Moved(C)[i] \in slots + 1..slots + Cardinality(C)
                   /\ Moved(C)[i] - slots = Rank(C, i)
  BY <1>1, <1>2, <1>3
<1>6. \A i, j \in C : Moved(C)[i] = Moved(C)[j] => i = j
  <2> SUFFICES ASSUME NEW i \in C, NEW j \in C, Moved(C)[i] = Moved(C)[j] PROVE i = j
    OBVIOUS
  <2>1. Rank(C, i) = Rank(C, j)
    BY <1>1, <1>3
  <2> QED BY <1>2, <2>1, RankIsOneToOne
<1>7. \A i \in C : Original(C, Moved(C)[i]) = i
  <2> SUFFICES ASSUME NEW i \in C PROVE Original(C, Moved(C)[i]) = i
    OBVIOUS
  <2>1. Original(C, Moved(C)[i]) = At(C, Rank(C, i))
    BY <1>5 DEF Original
  <2> QED BY <1>2, <2>1, AtOfRank
<1>8. \A S \in SUBSET DOMAIN nodes : Copies(C, S) = Pointed(Moved(C), S)
  BY DEF Copies, Pointed, Moved
<1>9. DOMAIN Moved(C) = DOMAIN nodes
  BY DEF Moved
<1> QED BY <1>2, <1>4, <1>5, <1>6, <1>7, <1>8, <1>9 DEF Copying

(* So do the boxes of the faces among them.                                *)
LEMMA PlaceFacts ==
    ASSUME IInv, NEW F \in SUBSET Nat, IsFiniteSet(F)
    PROVE  /\ \A i \in F : /\ PlaceOf(F, i) = Len(boxes) + Rank(F, i)
                           /\ Rank(F, i) \in 1..Cardinality(F)
                           /\ PlaceOf(F, i) \in Len(boxes) + 1..Len(boxes) + Cardinality(F)
                           /\ At(F, Rank(F, i)) = i
           /\ \A i, j \in F : PlaceOf(F, i) = PlaceOf(F, j) => i = j
           /\ \A i : i \notin F => PlaceOf(F, i) = 0
<1>1. Len(boxes) \in Nat /\ Cardinality(F) \in Nat
  BY GraphFacts, FS_CardinalityType DEF IInv
<1>2. \A i \in F : PlaceOf(F, i) = Len(boxes) + Rank(F, i) /\ Rank(F, i) \in 1..Cardinality(F)
  BY RankAtMost DEF PlaceOf, Ranks
<1>3. \A i \in F : PlaceOf(F, i) \in Len(boxes) + 1..Len(boxes) + Cardinality(F)
  BY <1>1, <1>2
<1>4. \A i, j \in F : PlaceOf(F, i) = PlaceOf(F, j) => i = j
  <2> SUFFICES ASSUME NEW i \in F, NEW j \in F, PlaceOf(F, i) = PlaceOf(F, j) PROVE i = j
    OBVIOUS
  <2>1. Rank(F, i) = Rank(F, j)
    BY <1>1, <1>2
  <2> QED BY <2>1, RankIsOneToOne
<1> QED BY <1>2, <1>3, <1>4, AtOfRank DEF PlaceOf

CopyStands(ms, C, P, any, more) ==
    /\ Graph(ms, slots + Cardinality(C), Len(more))
    /\ Drawn(ms, more, any, revision)
    /\ Longer(nodes, ms, slots)
    /\ CopyStep(nodes, ms, slots, slots + Cardinality(C), C, P, Moved(C))
    /\ Ordered(ms)

CopyGiven(C, P, F, ms, extra, any) ==
    /\ C \subseteq DOMAIN nodes /\ F = C \cap FacesOf(nodes)
    /\ CopiedInto(nodes, ms, C, P, Moved(C)) /\ slots + Cardinality(C) <= MaxSlots
    /\ \A k \in DOMAIN ms : ms[k] \in Node
    /\ Linked(ms)
    /\ \A i \in C : ms[Moved(C)[i]].box = PlaceOf(F, i)
    /\ IsList(extra) /\ Len(extra) = Cardinality(F)
    /\ \A i \in F : extra[Rank(F, i)] \subseteq SyncedBoxes[nodes[i].box]
    /\ SyncedAny => any
    /\ \A k \in DOMAIN extra : Cardinality(extra[k]) <= 1 /\ (extra[k] # {} => any)

(* A place past the first ones is a place among those joined to them.      *)
LEMMA ShiftedBack ==
    ASSUME NEW a \in Nat, NEW b \in Nat, NEW k \in 1..a + b, k \notin 1..a
    PROVE  k - a \in 1..b /\ k = a + (k - a)
OBVIOUS

(* Copies with boxes of their own keep the graph and the boxes.            *)
LEMMA CopyingStands ==
    ASSUME IInv, NEW C, NEW P, NEW F, NEW ms, NEW extra, NEW any, CopyGiven(C, P, F, ms, extra, any)
    PROVE  CopyStands(ms, C, P, any, SyncedBoxes \o extra)
<1> DEFINE m == slots + Cardinality(C)
           cp == Moved(C)
           faces == Pointed(cp, F)
           more == SyncedBoxes \o extra
<1>1. /\ Graph(nodes, slots, Len(boxes)) /\ Ordered(nodes) /\ slots \in Nat
      /\ DOMAIN nodes \subseteq 1..slots /\ Len(boxes) \in Nat
  BY GraphFacts, KeptAssumption DEF IInv, Graph
<1>2. Cardinality(C) \in Nat /\ m \in Nat /\ slots <= m /\ m \in 0..MaxSlots
  BY <1>1, MovedFacts, KeptAssumption DEF CopyGiven
<1>3. CopyStep(nodes, ms, slots, m, C, P, cp)
  BY <1>1, <1>2, MovedFacts DEF CopyStep, CopyGiven
<1> HIDE DEF m, cp
<1>4. Laid(nodes, ms, slots, m, C, cp)
  BY <1>3, CopyFacts
<1>5. Ordered(ms)
  BY <1>1, <1>3, CopiedIsOrdered
<1>6. /\ \A i \in DOMAIN nodes : Meanings(ms)[i] = Meanings(nodes)[i]
      /\ \A i \in DOMAIN nodes : Meanings(ms)[cp[i]] = Meanings(nodes)[i]
  BY <1>1, <1>3, CopiesMeanSame
<1>7. /\ FacesOf(ms) \ FacesOf(nodes) = faces /\ FacesOf(nodes) \subseteq FacesOf(ms)
      /\ F \in SUBSET Nat /\ IsFiniteSet(F) /\ Cardinality(F) \in Nat
      /\ Cardinality(faces) = Cardinality(F)
  BY <1>3, CopiedFaces DEF CopyGiven
<1>8. Longer(nodes, ms, slots)
  BY <1>3, <1>4 DEF Laid, Longer, CopyStep, CopiedInto, AsCopied
<1>9. /\ \A i \in F : ms[cp[i]].box = Len(boxes) + Rank(F, i) /\ Rank(F, i) \in 1..Cardinality(F)
      /\ \A i \in F : ms[cp[i]].box \in Len(boxes) + 1..Len(boxes) + Cardinality(F)
      /\ \A i, j \in F : ms[cp[i]].box = ms[cp[j]].box => i = j
      /\ \A i \in C \ F : ms[cp[i]].box = 0
  <2>1. F \subseteq C /\ \A i \in C : ms[cp[i]].box = PlaceOf(F, i)
    BY DEF cp, CopyGiven
  <2>2. /\ \A i \in F : /\ PlaceOf(F, i) = Len(boxes) + Rank(F, i)
                         /\ Rank(F, i) \in 1..Cardinality(F)
                         /\ PlaceOf(F, i) \in Len(boxes) + 1..Len(boxes) + Cardinality(F)
        /\ \A i, j \in F : PlaceOf(F, i) = PlaceOf(F, j) => i = j
        /\ \A i : i \notin F => PlaceOf(F, i) = 0
    BY <1>7, PlaceFacts
  <2> QED BY <2>1, <2>2
<1>10. Added(nodes, ms, slots, m, faces, Len(boxes))
  <2>1. ASSUME NEW k \in DOMAIN ms \ DOMAIN nodes
        PROVE  ms[k].box \in IF ms[k].kind = "face"
                             THEN Len(boxes) + 1..Len(boxes) + Cardinality(faces) ELSE {0}
    <3>1. PICK i \in C : k = cp[i]
      BY <1>4 DEF Laid
    <3>2. ms[k].kind = nodes[i].kind /\ i \in DOMAIN nodes
      BY <1>3, <3>1 DEF CopyStep, CopiedInto, Copy, CopyGiven
    <3>3. (ms[k].kind = "face") <=> (i \in F)
      BY <3>2 DEF FacesOf, CopyGiven, CopyGiven
    <3> QED BY <1>7, <1>9, <3>1, <3>3
  <2>2. ASSUME NEW f \in faces, NEW g \in faces, ms[f].box = ms[g].box PROVE f = g
    BY <1>9, <2>2 DEF Pointed
  <2>3. DOMAIN ms \subseteq 1..m
    BY <1>4 DEF Laid
  <2> QED BY <1>2, <1>5, <1>7, <1>8, <2>1, <2>2, <2>3 DEF Added, CopyGiven
<1>11. /\ Graph(ms, m, Len(boxes) + Cardinality(faces))
       /\ Cardinality(FacesOf(ms)) = Len(boxes) + Cardinality(faces)
  <2> HIDE DEF faces
  <2> QED BY <1>1, <1>10, AddedGraph
<1>12. /\ Drawn(nodes, SyncedBoxes, SyncedAny, revision) /\ IsList(SyncedBoxes)
       /\ Len(SyncedBoxes) = Len(boxes) /\ DOMAIN SyncedBoxes = 1..Len(boxes)
  BY SyncedDrawn, ListLen DEF Drawn
<1>13. /\ IsList(more) /\ Len(more) = Len(boxes) + Cardinality(F)
       /\ \A k \in DOMAIN SyncedBoxes : more[k] = SyncedBoxes[k]
       /\ \A k \in DOMAIN extra : more[Len(boxes) + k] = extra[k]
       /\ DOMAIN extra = 1..Cardinality(F) /\ DOMAIN more = 1..(Len(boxes) + Cardinality(F))
  <2>1. PICK synced : synced = SyncedBoxes
    OBVIOUS
  <2>2. IsList(synced) /\ Len(synced) = Len(boxes) /\ DOMAIN synced = 1..Len(boxes)
    BY <1>12, <2>1
  <2>3. /\ IsList(synced \o extra) /\ Len(synced \o extra) = Len(synced) + Len(extra)
        /\ \A k \in DOMAIN synced : (synced \o extra)[k] = synced[k]
        /\ \A k \in DOMAIN extra : (synced \o extra)[Len(synced) + k] = extra[k]
    <3>1. IsList(extra) /\ IsList(synced)
      BY <2>2 DEF CopyGiven
    <3>2. Joins(synced, extra)
      BY <3>1, ListConcat
    <3> QED BY <3>2 DEF Joins
  <2>4. more = synced \o extra
    BY <2>1
  <2> HIDE DEF more
  <2>5. DOMAIN extra = 1..Cardinality(F)
    BY ListLen DEF CopyGiven
  <2>6. DOMAIN more = 1..Len(more) /\ Len(more) = Len(boxes) + Cardinality(F)
    BY <2>2, <2>3, <2>4, ListLen DEF CopyGiven
  <2> QED BY <2>1, <2>2, <2>3, <2>4, <2>5, <2>6
<1> HIDE DEF more
<1>14. More(nodes, ms, SyncedBoxes, more, any, revision)
  <2>1. ASSUME NEW k \in DOMAIN more \ DOMAIN SyncedBoxes
        PROVE  Cardinality(more[k]) <= 1 /\ (more[k] # {} => any)
    <3>1. k - Len(boxes) \in DOMAIN extra /\ k = Len(boxes) + (k - Len(boxes))
      <4>1. k \in 1..(Len(boxes) + Cardinality(F)) /\ k \notin 1..Len(boxes)
        BY <1>12, <1>13
      <4>2. k - Len(boxes) \in 1..Cardinality(F) /\ k = Len(boxes) + (k - Len(boxes))
        BY <1>1, <1>7, <4>1, ShiftedBack
      <4> QED BY <1>13, <4>2
    <3>2. more[k] = extra[k - Len(boxes)]
      BY <1>13, <3>1, Zenon
    <3> QED BY <3>1, <3>2 DEF CopyGiven
  <2>2. ASSUME NEW f \in FacesOf(ms) \ FacesOf(nodes), NEW b \in more[ms[f].box]
        PROVE  b = [face |-> Meanings(ms)[f], revision |-> revision]
    <3>1. PICK i \in F : f = cp[i]
      BY <1>7, <2>2 DEF Pointed
    <3>2. more[ms[f].box] = extra[Rank(F, i)]
      BY <1>9, <1>13, <3>1
    <3>3. b \in SyncedBoxes[nodes[i].box] /\ i \in FacesOf(nodes) /\ i \in DOMAIN nodes
      BY <2>2, <3>2 DEF FacesOf, CopyGiven
    <3>4. PICK a : a = Meanings(nodes)[i]
      OBVIOUS
    <3>5. Meanings(ms)[f] = a
      BY <1>6, <3>1, <3>3, <3>4
    <3>6. b = [face |-> a, revision |-> revision]
      BY <1>12, <3>3, <3>4 DEF Drawn
    <3> QED BY <3>5, <3>6
  <2>3. Len(more) = Cardinality(FacesOf(ms)) /\ Len(SyncedBoxes) <= Len(more)
    <3>1. Len(more) = Cardinality(FacesOf(ms))
      BY <1>7, <1>11, <1>13
    <3>2. Len(SyncedBoxes) <= Len(boxes) + Cardinality(F)
      BY <1>1, <1>7, <1>12
    <3> QED BY <1>13, <3>1, <3>2
  <2> QED BY <1>13, <2>1, <2>2, <2>3 DEF More
<1>15. Drawn(ms, more, any, revision)
  <2>1. \A f \in FacesOf(nodes) : Meanings(ms)[f] = Meanings(nodes)[f]
    BY <1>6 DEF FacesOf
  <2>2. SyncedAny => any
    BY DEF CopyGiven
  <2>3. PICK synced : synced = SyncedBoxes
    OBVIOUS
  <2>4. PICK was : was = SyncedAny
    OBVIOUS
  <2>5. Drawn(nodes, synced, was, revision) /\ More(nodes, ms, synced, more, any, revision) /\ (was => any)
    BY <1>12, <1>14, <2>2, <2>3, <2>4
  <2> QED BY <1>1, <1>8, <2>1, <2>5, DrawnMore
<1>16. Graph(ms, m, Len(more))
  BY <1>7, <1>11, <1>13
<1> QED BY <1>3, <1>5, <1>8, <1>15, <1>16 DEF CopyStands, m, cp, more

(* The boxes of the copies are the originals', in order.                   *)
BoxesCopied(F) == [k \in 1..Cardinality(F) |-> SyncedBoxes[nodes[At(F, k)].box]]

(* The boxes of the copies stand in the order of the originals.            *)
LEMMA CopiedBoxes ==
    ASSUME IInv, NEW F \in SUBSET FacesOf(nodes), NEW any,
           any = (SyncedAny \/ \E i \in F : SyncedBoxes[nodes[i].box] # {})
    PROVE  /\ IsList(BoxesCopied(F)) /\ Len(BoxesCopied(F)) = Cardinality(F)
           /\ \A i \in F : BoxesCopied(F)[Rank(F, i)] \subseteq SyncedBoxes[nodes[i].box]
           /\ \A k \in DOMAIN BoxesCopied(F) :
                 Cardinality(BoxesCopied(F)[k]) <= 1 /\ (BoxesCopied(F)[k] # {} => any)
<1> DEFINE extra == BoxesCopied(F)
<1>1. F \in SUBSET Nat /\ IsFiniteSet(F) /\ Cardinality(F) \in Nat
  <2>1. /\ FacesOf(nodes) \subseteq DOMAIN nodes /\ IsFiniteSet(FacesOf(nodes))
        /\ DOMAIN nodes \in SUBSET Nat
    BY GraphFacts DEF IInv, FacesOf
  <2> QED BY <2>1, FS_Subset, FS_CardinalityType
<1>2. /\ extra = [k \in 1..Cardinality(F) |-> extra[k]]
      /\ \A k \in 1..Cardinality(F) : extra[k] = SyncedBoxes[nodes[At(F, k)].box]
  BY DEF BoxesCopied
<1> HIDE DEF extra
<1>3. IsList(extra) /\ Len(extra) = Cardinality(F) /\ DOMAIN extra = 1..Cardinality(F)
  BY <1>1, <1>2, ListMade
<1>4. \A i \in F : extra[Rank(F, i)] = SyncedBoxes[nodes[i].box]
  <2> SUFFICES ASSUME NEW i \in F PROVE extra[Rank(F, i)] = SyncedBoxes[nodes[i].box]
    OBVIOUS
  <2>1. Rank(F, i) \in 1..Cardinality(F) /\ At(F, Rank(F, i)) = i
    BY <1>1, RankAtMost, AtOfRank DEF Ranks
  <2> QED BY <1>2, <2>1
<1>5. ASSUME NEW k \in 1..Cardinality(F)
      PROVE  Cardinality(extra[k]) <= 1 /\ (extra[k] # {} => any)
  <2>1. PICK i : i = At(F, k)
    OBVIOUS
  <2>2. i \in F
    BY <1>1, <2>1, AtIsThere DEF Ranks
  <2>3. nodes[i].box \in DOMAIN SyncedBoxes
    <3>1. Drawn(nodes, SyncedBoxes, SyncedAny, revision)
          /\ Len(SyncedBoxes) = Len(boxes)
      BY SyncedDrawn
    <3>2. DOMAIN SyncedBoxes = 1..Len(boxes)
      BY <3>1, ListLen DEF Drawn
    <3> QED BY <2>2, <3>2 DEF IInv, Graph, Placed, FacesOf
  <2>4. Cardinality(SyncedBoxes[nodes[i].box]) <= 1
    BY <2>3, SyncedDrawn DEF Drawn
  <2>5. extra[k] = SyncedBoxes[nodes[i].box]
    BY <1>2, <2>1
  <2> QED BY <2>2, <2>4, <2>5
<1> QED BY <1>3, <1>4, <1>5 DEF extra

CopyMade(C, P, noted, ms) ==
    /\ CopiedInto(nodes, ms, C, P, Moved(C)) /\ Linked(ms)
    /\ \A k \in DOMAIN ms : ms[k] \in Node
    /\ \A i \in C : ms[Moved(C)[i]].box = PlaceOf(C \cap Faces, i) /\ ms[Moved(C)[i]].held = FALSE
    /\ \A i \in DOMAIN nodes : ms[i].held = (nodes[i].held \/ i \in noted)

(* copy_below makes the copies, links them and notes what it is told to.   *)
LEMMA CopyBelowMakes ==
    ASSUME IInv, NEW C \in SUBSET DOMAIN nodes, NEW P \in SUBSET DOMAIN nodes, NEW noted,
           CopyBelow(C, P, noted)
    PROVE  CopyMade(C, P, noted, nodes')
<1> DEFINE cp == Moved(C)
           F == C \cap Faces
           made == Copies(C, C)
           copy(i) == [nodes[i] EXCEPT !.children = Copies(C, @), !.data = nodes[i].data,
                          !.held_by = {}, !.held = FALSE, !.box = PlaceOf(F, i)]
           old(i) == [nodes[i] EXCEPT !.held = @ \/ i \in noted,
                                      !.children = IF i \in P THEN Copies(C, @) ELSE @]
           after == [i \in DOMAIN nodes \cup made |->
                        IF i \in made THEN copy(Original(C, i)) ELSE old(i)]
           links(i) == Parents(after, made \cup P, i)
           ms == [i \in DOMAIN after |-> [after[i] EXCEPT !.held_by = @ \cup links(i)]]
           m == slots + Cardinality(C)
<1>1. made = Pointed(cp, C)
  BY MovedFacts
<1>2. nodes' = ms /\ slots + Cardinality(C) <= MaxSlots
  BY DEF CopyBelow, CopiedData, Relinked
<1> HIDE DEF made
<1>3. /\ Graph(nodes, slots, Len(boxes)) /\ Ordered(nodes) /\ slots \in Nat
      /\ DOMAIN nodes \subseteq 1..slots /\ DOMAIN nodes \in SUBSET Nat /\ Len(boxes) \in Nat
      /\ IsFiniteSet(FacesOf(nodes)) /\ Faces = FacesOf(nodes)
  BY GraphFacts DEF IInv, Graph, Faces, FacesOf
<1>4. /\ Cardinality(C) \in Nat /\ IsFiniteSet(C)
      /\ Copying(nodes, slots, m, C, cp)
      /\ \A i \in C : Original(C, cp[i]) = i
      /\ \A S \in SUBSET DOMAIN nodes : Copies(C, S) = Pointed(cp, S)
  BY MovedFacts
<1> HIDE DEF cp
<1>5. /\ m \in Nat /\ m <= MaxSlots /\ slots <= m /\ 1..m \subseteq 1..MaxSlots
      /\ 1..slots \subseteq 1..m
  <2>1. m \in Nat /\ m <= MaxSlots /\ slots <= m /\ MaxSlots \in Nat
    <3>1. slots \in Nat /\ Cardinality(C) \in Nat /\ slots + Cardinality(C) <= MaxSlots
      BY <1>2, <1>3, <1>4
    <3> QED BY <3>1, KeptAssumption
  <2> HIDE DEF m
  <2> QED BY <1>3, <2>1
<1>6. /\ \A i \in C : cp[i] \in 1..m /\ cp[i] \notin DOMAIN nodes /\ cp[i] \in made
      /\ \A i \in DOMAIN nodes : i \notin made /\ cp[i] \in 1..m
  <2>1. \A i \in C : cp[i] \in slots + 1..m
    BY <1>4 DEF Copying
  <2>2. \A i \in C : cp[i] \in 1..m /\ cp[i] \notin 1..slots
    BY <1>3, <1>5, <2>1
  <2> QED BY <1>1, <1>3, <1>4, <1>5, <2>2 DEF Copying, Pointed
<1>7. \A i \in DOMAIN nodes : nodes[i].children \subseteq DOMAIN nodes
  BY <1>3 DEF Ordered
<1>8. \A i \in DOMAIN nodes : Copies(C, nodes[i].children) = Pointed(cp, nodes[i].children)
                              /\ Pointed(cp, nodes[i].children) \subseteq 1..MaxSlots
  BY <1>4, <1>5, <1>6, <1>7 DEF Pointed
<1>9. ASSUME NEW i \in C
      PROVE  /\ copy(i) \in Node /\ copy(i).kind = nodes[i].kind /\ copy(i).data = nodes[i].data
             /\ copy(i).tolerance = nodes[i].tolerance
             /\ copy(i).children = Pointed(cp, nodes[i].children)
             /\ copy(i).box = PlaceOf(F, i) /\ copy(i).held = FALSE
  <2>1. PICK node : node = nodes[i]
    OBVIOUS
  <2>2. node \in Node
    BY <1>3, <2>1 DEF Graph
  <2>3. PICK kids : kids = Pointed(cp, nodes[i].children)
    OBVIOUS
  <2>4. PICK place : place = PlaceOf(F, i)
    OBVIOUS
  <2>5. place \in 0..MaxSlots
    <3>1. F \in SUBSET Nat /\ IsFiniteSet(F)
      BY <1>3, FS_Subset DEF FacesOf
    <3>2. Len(boxes) + Cardinality(F) <= m /\ Cardinality(F) \in Nat
      <4>1. F \subseteq C /\ FacesOf(nodes) \subseteq 1..slots
        BY <1>3 DEF FacesOf
      <4>2. Cardinality(F) <= Cardinality(C) /\ Cardinality(F) \in Nat
        BY <1>4, <3>1, <4>1, FS_Subset, FS_CardinalityType
      <4>3. Cardinality(FacesOf(nodes)) <= slots
        <5>1. IsFiniteSet(1..slots) /\ Cardinality(1..slots) = slots
          BY <1>3, FS_Interval
        <5> QED BY <4>1, <5>1, FS_Subset
      <4> QED BY <1>3, <1>4, <4>2, <4>3 DEF Graph, Placed
    <3>3. CASE i \in F
      <4>1. place \in Len(boxes) + 1..Len(boxes) + Cardinality(F)
        BY <2>4, <3>1, <3>3, PlaceFacts
      <4> QED BY <1>3, <1>5, <3>2, <4>1, KeptAssumption
    <3>4. CASE i \notin F
      <4>1. place = 0
        BY <2>4, <3>4 DEF PlaceOf
      <4> QED BY <4>1, KeptAssumption
    <3> QED BY <3>3, <3>4
  <2>6. kids \subseteq 1..MaxSlots
    BY <1>8, <2>3
  <2>7. copy(i) = [node EXCEPT !.children = kids, !.data = node.data, !.held_by = {},
                               !.held = FALSE, !.box = place]
    BY <1>8, <2>1, <2>3, <2>4
  <2> HIDE DEF copy
  <2> QED BY <2>1, <2>2, <2>3, <2>4, <2>5, <2>6, <2>7 DEF Node
<1>10. ASSUME NEW i \in DOMAIN nodes
       PROVE  /\ old(i) \in Node /\ old(i).kind = nodes[i].kind /\ old(i).data = nodes[i].data
              /\ old(i).tolerance = nodes[i].tolerance /\ old(i).box = nodes[i].box
              /\ old(i).children = IF i \in P THEN Pointed(cp, nodes[i].children)
                                              ELSE nodes[i].children
              /\ old(i).held_by = nodes[i].held_by
              /\ old(i).held = (nodes[i].held \/ i \in noted)
  <2>1. PICK node : node = nodes[i]
    OBVIOUS
  <2>2. node \in Node
    BY <1>3, <2>1 DEF Graph
  <2>3. PICK kids : kids = IF i \in P THEN Pointed(cp, nodes[i].children) ELSE nodes[i].children
    OBVIOUS
  <2>4. kids \subseteq 1..MaxSlots
    BY <1>8, <2>1, <2>2, <2>3 DEF Node
  <2>5. PICK held \in BOOLEAN : held = (nodes[i].held \/ i \in noted)
    OBVIOUS
  <2>6. old(i) = [node EXCEPT !.held = held, !.children = kids]
    BY <1>8, <2>1, <2>3, <2>5
  <2> HIDE DEF old
  <2> QED BY <2>1, <2>2, <2>3, <2>4, <2>5, <2>6 DEF Node
<1> HIDE DEF copy, old
<1>11. /\ DOMAIN after = DOMAIN nodes \cup made
       /\ \A i \in DOMAIN nodes : after[i] = old(i)
       /\ \A i \in C : after[cp[i]] = copy(i)
       /\ \A k \in DOMAIN after \ DOMAIN nodes : \E i \in C : k = cp[i]
  <2>1. \A i \in C : cp[i] \in made /\ Original(C, cp[i]) = i
    BY <1>4, <1>6
  <2>2. \A k \in made : \E i \in C : k = cp[i]
    BY <1>1 DEF Pointed
  <2> QED BY <1>6, <2>1, <2>2
<1> HIDE DEF after
<1>12. \A k \in DOMAIN after : after[k] \in Node
  <2> SUFFICES ASSUME NEW k \in DOMAIN after PROVE after[k] \in Node
    OBVIOUS
  <2>1. CASE k \in DOMAIN nodes
    <3>1. old(k) \in Node
      BY <1>10, <2>1
    <3> QED BY <1>11, <2>1, <3>1
  <2>2. CASE k \notin DOMAIN nodes
    <3>1. PICK i \in C : k = cp[i]
      BY <1>11, <2>2
    <3>2. copy(i) \in Node
      BY <1>9
    <3> QED BY <1>11, <3>1, <3>2
  <2> QED BY <2>1, <2>2
<1>13. made \cup P \subseteq 1..MaxSlots
  BY <1>1, <1>3, <1>5, <1>6 DEF Pointed
<1>14. ASSUME NEW k \in DOMAIN after
       PROVE  /\ ms[k] \in Node /\ ms[k].kind = after[k].kind /\ ms[k].data = after[k].data
              /\ ms[k].tolerance = after[k].tolerance /\ ms[k].box = after[k].box
              /\ ms[k].children = after[k].children /\ ms[k].held = after[k].held
              /\ ms[k].held_by = after[k].held_by \cup links(k)
  <2>1. PICK node : node = after[k]
    OBVIOUS
  <2>2. node \in Node
    BY <1>12, <2>1
  <2>3. PICK L : L = links(k)
    OBVIOUS
  <2>4. L \subseteq 1..MaxSlots
    <3>1. L \subseteq made \cup P
      BY <2>3 DEF Parents
    <3> QED BY <1>13, <3>1
  <2>5. ms[k] = [node EXCEPT !.held_by = node.held_by \cup L]
    BY <2>1, <2>3
  <2> HIDE DEF ms, links
  <2> QED BY <2>1, <2>2, <2>3, <2>4, <2>5 DEF Node
<1>15. DOMAIN ms = DOMAIN after
  OBVIOUS
<1> HIDE DEF ms
<1>16. CopiedInto(nodes, ms, C, P, cp)
  <2>1. ASSUME NEW i \in DOMAIN nodes PROVE AsCopied(nodes, ms, P, cp, i)
    <3>1. i \in DOMAIN after /\ after[i] = old(i)
      BY <1>11
    <3> QED BY <1>10, <1>14, <3>1 DEF AsCopied
  <2>2. ASSUME NEW i \in C PROVE Copy(nodes, ms, cp, i)
    <3>1. cp[i] \in DOMAIN after /\ after[cp[i]] = copy(i)
      BY <1>6, <1>11
    <3>2. /\ copy(i).kind = nodes[i].kind /\ copy(i).data = nodes[i].data
          /\ copy(i).tolerance = nodes[i].tolerance
          /\ copy(i).children = Pointed(cp, nodes[i].children)
      BY <1>9
    <3>3. /\ ms[cp[i]].kind = after[cp[i]].kind /\ ms[cp[i]].data = after[cp[i]].data
          /\ ms[cp[i]].tolerance = after[cp[i]].tolerance
          /\ ms[cp[i]].children = after[cp[i]].children
      BY <1>14, <3>1
    <3> QED BY <3>1, <3>2, <3>3 DEF Copy
  <2>3. DOMAIN ms = DOMAIN nodes \cup Pointed(cp, C)
    BY <1>1, <1>11, <1>15
  <2> QED BY <2>1, <2>2, <2>3 DEF CopiedInto
<1>17. Linked(ms)
  <2> SUFFICES ASSUME NEW i \in DOMAIN ms, Linkable(ms[i]), NEW c \in ms[i].children
               PROVE  i \in ms[c].held_by
    BY DEF Linked
  <2>1. Ordered(ms)
    <3>1. CopyStep(nodes, ms, slots, m, C, P, cp)
      BY <1>3, <1>4, <1>5, <1>16 DEF CopyStep
    <3> QED BY <1>3, <3>1, CopiedIsOrdered
  <2>2. c \in DOMAIN ms /\ c \in DOMAIN after /\ i \in DOMAIN after
    BY <1>15, <2>1 DEF Ordered
  <2>3. Linkable(after[i]) /\ c \in after[i].children
    BY <1>14, <2>2 DEF Linkable
  <2>4. CASE i \in made \cup P
    <3>1. i \in links(c)
      BY <2>3, <2>4 DEF Parents
    <3> QED BY <1>14, <2>2, <3>1
  <2>5. CASE i \notin made \cup P
    <3>1. i \in DOMAIN nodes
      BY <1>11, <2>2, <2>5
    <3>2. Linkable(nodes[i]) /\ c \in nodes[i].children
      BY <1>10, <1>11, <2>3, <2>5, <3>1 DEF Linkable
    <3>3. c \in DOMAIN nodes /\ i \in nodes[c].held_by
      BY <1>3, <1>7, <3>1, <3>2 DEF Graph, Linked
    <3> QED BY <1>10, <1>11, <1>14, <2>2, <3>3
  <2> QED BY <2>4, <2>5
<1>18. \A i \in C : ms[cp[i]].box = PlaceOf(F, i) /\ ms[cp[i]].held = FALSE
  <2> SUFFICES ASSUME NEW i \in C PROVE ms[cp[i]].box = PlaceOf(F, i) /\ ms[cp[i]].held = FALSE
    OBVIOUS
  <2>1. cp[i] \in DOMAIN after /\ after[cp[i]] = copy(i)
    BY <1>6, <1>11
  <2>2. ms[cp[i]].box = after[cp[i]].box /\ ms[cp[i]].held = after[cp[i]].held
    BY <1>14, <2>1
  <2>3. copy(i).box = PlaceOf(F, i) /\ copy(i).held = FALSE
    BY <1>9
  <2> QED BY <2>1, <2>2, <2>3, Zenon
<1>19. \A i \in DOMAIN nodes : ms[i].held = (nodes[i].held \/ i \in noted)
  <2> SUFFICES ASSUME NEW i \in DOMAIN nodes PROVE ms[i].held = (nodes[i].held \/ i \in noted)
    OBVIOUS
  <2>1. i \in DOMAIN after /\ after[i] = old(i)
    BY <1>11
  <2>2. ms[i].held = after[i].held
    BY <1>14, <2>1
  <2>3. old(i).held = (nodes[i].held \/ i \in noted)
    BY <1>10
  <2> QED BY <2>1, <2>2, <2>3, Zenon
<1>20. \A k \in DOMAIN ms : ms[k] \in Node
  BY <1>14, <1>15
<1> QED BY <1>2, <1>16, <1>17, <1>18, <1>19, <1>20 DEF CopyMade, cp

(* It keeps the graph, the boxes, and the reads it does not drop.          *)
LEMMA CopyBelowStands ==
    ASSUME IInv, NEW C \in SUBSET DOMAIN nodes, NEW P \in SUBSET DOMAIN nodes, NEW noted,
           CopyBelow(C, P, noted)
    PROVE  /\ CopyStands(nodes', C, P, box_any', boxes')
           /\ ReadsStand(nodes', slots', reads')
           /\ box_revision' = revision /\ box_any' \in BOOLEAN
           /\ slots' = slots + Cardinality(C) /\ slots \in Nat /\ slots <= slots'
<1> DEFINE F == C \cap Faces
<1>1. /\ slots' = slots + Cardinality(C) /\ slots + Cardinality(C) <= MaxSlots
      /\ boxes' = SyncedBoxes \o BoxesCopied(F)
      /\ box_revision' = revision
      /\ box_any' = (SyncedAny \/ \E i \in F : SyncedBoxes[nodes[i].box] # {})
      /\ reads' = ReadsWithout(P)
  BY DEF CopyBelow, BoxesCopied
<1>2. F = C \cap FacesOf(nodes) /\ F \in SUBSET FacesOf(nodes)
  BY DEF Faces, FacesOf
<1>3. PICK ms : ms = nodes'
  OBVIOUS
<1>4. CopyMade(C, P, noted, ms)
  BY <1>3, CopyBelowMakes
<1>5. PICK any : any = box_any'
  OBVIOUS
<1>6. box_any' \in BOOLEAN /\ (SyncedAny => any)
  BY <1>1, <1>5, Zenon
<1>7. PICK extra : extra = BoxesCopied(F)
  OBVIOUS
<1>8. /\ IsList(extra) /\ Len(extra) = Cardinality(F)
      /\ \A i \in F : extra[Rank(F, i)] \subseteq SyncedBoxes[nodes[i].box]
      /\ \A k \in DOMAIN extra : Cardinality(extra[k]) <= 1 /\ (extra[k] # {} => any)
  BY <1>1, <1>2, <1>5, <1>7, CopiedBoxes
<1>9. CopyGiven(C, P, F, ms, extra, any)
  BY <1>1, <1>2, <1>4, <1>6, <1>8 DEF CopyGiven, CopyMade
<1>10. CopyStands(ms, C, P, any, SyncedBoxes \o extra)
  BY <1>9, CopyingStands
<1>11. CopyStands(nodes', C, P, box_any', boxes')
  BY <1>1, <1>3, <1>5, <1>7, <1>10, Zenon
<1>12. /\ slots \in Nat /\ slots' \in Nat /\ slots <= slots'
       /\ Ordered(ms) /\ Longer(nodes, ms, slots) /\ CopiedInto(nodes, ms, C, P, Moved(C))
  BY <1>1, <1>10 DEF CopyStands, CopyStep
<1>13. ReadsStand(ms, slots', ReadsWithout(P))
  <2>1. \A x \in 1..slots \cap DOMAIN ms : x \notin P => Untouched(nodes, ms, x)
    BY <1>12 DEF Longer, CopiedInto, AsCopied, Untouched
  <2>2. DOMAIN nodes \subseteq DOMAIN ms
    BY <1>12 DEF Longer
  <2>3. PICK m \in Nat : m = slots'
    BY <1>12
  <2>4. ReadsStand(ms, m, ReadsWithout(P))
    BY <1>12, <2>1, <2>2, <2>3, ReadsWithoutStand
  <2> QED BY <2>3, <2>4
<1> QED BY <1>1, <1>3, <1>6, <1>11, <1>12, <1>13

(* What the two copying operations have in common.                         *)
LEMMA CopiesStand ==
    ASSUME IInv, Alone, NEW C \in SUBSET DOMAIN nodes, NEW P \in SUBSET DOMAIN nodes, NEW noted,
           CopyBelow(C, P, noted), noted = {} \/ any_held,
           UNCHANGED <<any_held, geometry, shapes>>, UNCHANGED sharing,
           since' = since \/ since' = slots
    PROVE  IInv'
<1>1. /\ CopyStands(nodes', C, P, box_any', boxes')
      /\ ReadsStand(nodes', slots', reads')
      /\ box_revision' = revision /\ box_any' \in BOOLEAN
      /\ slots' = slots + Cardinality(C) /\ slots \in Nat /\ slots <= slots'
  BY CopyBelowStands
<1>2. /\ Graph(nodes', slots', Len(boxes')) /\ Drawn(nodes', boxes', box_any', revision)
      /\ DOMAIN nodes \subseteq DOMAIN nodes'
  BY <1>1 DEF CopyStands, Longer
<1>3. ReadersStand' /\ ClonesStand'
  BY AloneStands
<1>4. CopyMade(C, P, noted, nodes')
  BY CopyBelowMakes
<1>5. any_held' = (\E i \in DOMAIN nodes' : nodes'[i].held)
  <2>1. any_held = (\E i \in DOMAIN nodes : nodes[i].held) /\ any_held' = any_held
    BY DEF IInv, Books
  <2>2. \A i \in DOMAIN nodes : nodes'[i].held = (nodes[i].held \/ i \in noted)
    BY <1>4 DEF CopyMade
  <2>3. \A k \in DOMAIN nodes' \ DOMAIN nodes : nodes'[k].held = FALSE
    <3>1. DOMAIN nodes' = DOMAIN nodes \cup {Moved(C)[i] : i \in C}
      BY <1>4 DEF CopyMade, CopiedInto, Pointed
    <3> QED BY <1>4, <3>1 DEF CopyMade
  <2>4. (\E i \in DOMAIN nodes : nodes[i].held) => \E i \in DOMAIN nodes' : nodes'[i].held
    BY <1>2, <2>2
  <2>5. (\E i \in DOMAIN nodes' : nodes'[i].held) => \E i \in DOMAIN nodes : nodes[i].held
    <3>1. CASE noted = {}
      BY <2>2, <2>3, <3>1
    <3>2. CASE any_held
      BY <2>1, <3>2
    <3> QED BY <3>1, <3>2
  <2> QED BY <2>1, <2>4, <2>5, Zenon
<1>6. Books'
  <2>1. shapes' \subseteq DOMAIN nodes'
    BY <1>2 DEF IInv, Books
  <2>2. since' \in {NoOperation} \cup 0..slots'
    <3>1. since \in {NoOperation} \cup 0..slots /\ slots' \in Nat
      BY <1>2, GraphFacts DEF IInv, Books
    <3> QED BY <1>1, <3>1
  <2>3. /\ box_revision' \in Nat /\ revision' \in Nat /\ edits' \in Nat
        /\ box_revision' <= revision' /\ revision' <= edits'
    BY <1>1 DEF IInv, Books, geometry
  <2>4. readers' \in [Readers -> Reader]
    BY DEF IInv, Books, sharing
  <2> QED BY <1>1, <1>5, <2>1, <2>2, <2>3, <2>4 DEF Books
<1>7. revision' = revision
  BY DEF geometry
<1> QED BY <1>1, <1>2, <1>3, <1>6, <1>7 DEF IInv

(* What is held or on the way to it is live.                               *)
LEMMA HeldAreLive ==
    ASSUME IInv, NEW roots \in SUBSET shapes
    PROVE  /\ Below(roots) \subseteq DOMAIN nodes /\ Held(roots) \subseteq DOMAIN nodes
           /\ OnTheWay(roots) \subseteq DOMAIN nodes
<1>1. roots \subseteq DOMAIN nodes /\ Ordered(nodes)
  BY DEF IInv, Books, Graph
<1>2. Below(roots) \subseteq DOMAIN nodes
  BY <1>1, BelowIs, BelowIsLeast
<1>3. PICK S : S = {i \in Below(roots) : nodes[i].held}
  OBVIOUS
<1>4. S \subseteq DOMAIN nodes
  BY <1>2, <1>3
<1>5. Below(S) \subseteq DOMAIN nodes
  BY <1>1, <1>4, BelowIs, BelowIsLeast
<1> QED BY <1>2, <1>3, <1>5 DEF Held, OnTheWay

(* unshare keeps the invariant ...                                         *)
LEMMA UnshareStands ==
    ASSUME IInv, NEW root \in shapes, Unshare(root)
    PROVE  IInv'
<1> DEFINE C == Held({root})
           P == {i \in Below({root}) \ C : nodes[i].children \cap C # {}}
<1>1. /\ Alone /\ CopyBelow(C, P, {}) /\ since' = since
      /\ UNCHANGED <<any_held, geometry, shapes>> /\ UNCHANGED sharing
  BY DEF Unshare
<1>2. C \in SUBSET DOMAIN nodes /\ P \in SUBSET DOMAIN nodes
  BY HeldAreLive
<1> HIDE DEF C, P
<1>3. {} = {} \/ any_held
  OBVIOUS
<1> QED BY <1>1, <1>2, <1>3, CopiesStand

(* ... and so does unshare_each.                                           *)
LEMMA UnshareEachStands ==
    ASSUME IInv, NEW roots \in SUBSET shapes, UnshareEach(roots)
    PROVE  IInv'
<1> DEFINE C == OnTheWay(roots)
           noted == SharedBy(C)
<1>1. /\ Alone /\ CopyBelow(C, {}, noted) /\ since' = slots /\ any_held
      /\ UNCHANGED <<any_held, geometry, shapes>> /\ UNCHANGED sharing
  BY DEF UnshareEach
<1>2. C \in SUBSET DOMAIN nodes /\ {} \in SUBSET DOMAIN nodes
  BY HeldAreLive
<1> HIDE DEF C, noted
<1> QED BY <1>1, <1>2, CopiesStand

(* As many places with no box as there are faces read.                     *)
LEMMA NoBoxes ==
    ASSUME NEW n \in Nat, NEW extra, extra = [k \in 1..n |-> {}]
    PROVE  /\ IsList(extra) /\ Len(extra) = n /\ \A k : extra[k] = {} \/ k \notin DOMAIN extra
           /\ \A k \in 1..n : extra[k] = {}
           /\ \A k \in DOMAIN extra : Cardinality(extra[k]) <= 1 /\ extra[k] = {}
<1>1. extra = [k \in 1..n |-> extra[k]] /\ \A k \in 1..n : extra[k] = {}
  OBVIOUS
<1>2. IsList(extra) /\ Len(extra) = n /\ DOMAIN extra = 1..n
  BY <1>1, ListMade
<1>3. Cardinality({}) <= 1
  BY FS_EmptySet
<1> QED BY <1>1, <1>2, <1>3

(* absorb makes nodes as those of the document, marked by nobody.          *)
LEMMA ReadIntoMakes ==
    ASSUME IInv, NEW root \in shapes, ReadInto(root), NEW C, C = Below({root})
    PROVE  CopyMade(C, {}, {}, nodes') /\ C \subseteq DOMAIN nodes
<1> DEFINE cp == Moved(C)
           F == C \cap Faces
           made == Copies(C, C)
           links(i) == Copies(C, Parents(nodes, C, i))
           copy(i) == [nodes[i] EXCEPT !.children = Copies(C, @), !.held = FALSE,
                          !.held_by = links(i), !.box = PlaceOf(F, i)]
           ms == [k \in DOMAIN nodes \cup made |->
                     IF k \in made THEN copy(Original(C, k)) ELSE nodes[k]]
           m == slots + Cardinality(C)
<1>1. nodes' = ms /\ slots + Cardinality(C) <= MaxSlots
  BY DEF ReadInto
<1>2. C \in SUBSET DOMAIN nodes /\ Closed(nodes, C)
  <2>1. Ordered(nodes) /\ {root} \subseteq DOMAIN nodes
    BY DEF IInv, Graph, Books
  <2> QED BY <2>1, BelowIs, BelowIsLeast
<1>3. /\ Graph(nodes, slots, Len(boxes)) /\ Ordered(nodes) /\ slots \in Nat
      /\ DOMAIN nodes \subseteq 1..slots /\ DOMAIN nodes \in SUBSET Nat /\ Len(boxes) \in Nat
      /\ IsFiniteSet(FacesOf(nodes)) /\ Faces = FacesOf(nodes)
  BY GraphFacts DEF IInv, Graph, Faces, FacesOf
<1>4. /\ Cardinality(C) \in Nat /\ IsFiniteSet(C)
      /\ Copying(nodes, slots, m, C, cp)
      /\ \A i \in C : Original(C, cp[i]) = i
      /\ \A S \in SUBSET DOMAIN nodes : Copies(C, S) = Pointed(cp, S)
  BY <1>2, MovedFacts
<1>5. made = Pointed(cp, C)
  BY <1>2, <1>4
<1> HIDE DEF cp, made
<1>6. /\ m \in Nat /\ m <= MaxSlots /\ slots <= m /\ 1..m \subseteq 1..MaxSlots
      /\ 1..slots \subseteq 1..m
  <2>1. m \in Nat /\ m <= MaxSlots /\ slots <= m /\ MaxSlots \in Nat
    <3>1. slots \in Nat /\ Cardinality(C) \in Nat /\ slots + Cardinality(C) <= MaxSlots
      BY <1>1, <1>3, <1>4
    <3> QED BY <3>1, KeptAssumption
  <2> HIDE DEF m
  <2> QED BY <1>3, <2>1
<1>7. /\ \A i \in C : cp[i] \in 1..m /\ cp[i] \notin DOMAIN nodes /\ cp[i] \in made
      /\ \A i \in DOMAIN nodes : i \notin made /\ cp[i] \in 1..m
  <2>1. \A i \in C : cp[i] \in slots + 1..m
    BY <1>4 DEF Copying
  <2>2. \A i \in C : cp[i] \in 1..m /\ cp[i] \notin 1..slots
    <3> HIDE DEF m
    <3>1. slots \in Nat /\ m \in Nat
      BY <1>3, <1>6
    <3> QED BY <2>1, <3>1
  <2>3. \A i \in C : cp[i] \in made
    BY <1>5 DEF Pointed
  <2>4. \A k \in made : k \notin DOMAIN nodes
    BY <1>3, <1>5, <2>2 DEF Pointed
  <2>5. \A i \in DOMAIN nodes : cp[i] \in 1..m
    <3> HIDE DEF m
    <3>1. \A i \in DOMAIN nodes \ C : cp[i] = i
      BY <1>4 DEF Copying
    <3> QED BY <1>3, <1>6, <2>2, <3>1
  <2> QED BY <1>3, <2>2, <2>3, <2>4, <2>5
<1>8. \A S \in SUBSET DOMAIN nodes : Copies(C, S) = Pointed(cp, S) /\ Pointed(cp, S) \subseteq 1..MaxSlots
  BY <1>4, <1>6, <1>7 DEF Pointed
<1>9. ASSUME NEW i \in C
      PROVE  /\ copy(i) \in Node /\ copy(i).kind = nodes[i].kind /\ copy(i).data = nodes[i].data
             /\ copy(i).tolerance = nodes[i].tolerance
             /\ copy(i).children = Pointed(cp, nodes[i].children)
             /\ copy(i).box = PlaceOf(F, i) /\ copy(i).held = FALSE
             /\ copy(i).held_by = Pointed(cp, Parents(nodes, C, i))
  <2>1. PICK node : node = nodes[i]
    OBVIOUS
  <2>2. node \in Node /\ nodes[i].children \in SUBSET DOMAIN nodes
    BY <1>2, <1>3, <2>1 DEF Graph, Ordered
  <2>3. PICK kids : kids = Pointed(cp, nodes[i].children)
    OBVIOUS
  <2>4. PICK place : place = PlaceOf(F, i)
    OBVIOUS
  <2>5. place \in 0..MaxSlots
    <3>1. F \in SUBSET Nat /\ IsFiniteSet(F)
      BY <1>3, FS_Subset DEF FacesOf
    <3>2. Len(boxes) + Cardinality(F) <= m /\ Cardinality(F) \in Nat
      <4>1. F \subseteq C /\ FacesOf(nodes) \subseteq 1..slots
        BY <1>3 DEF FacesOf
      <4>2. Cardinality(F) <= Cardinality(C) /\ Cardinality(F) \in Nat
        BY <1>4, <3>1, <4>1, FS_Subset, FS_CardinalityType
      <4>3. Cardinality(FacesOf(nodes)) <= slots
        <5>1. IsFiniteSet(1..slots) /\ Cardinality(1..slots) = slots
          BY <1>3, FS_Interval
        <5> QED BY <4>1, <5>1, FS_Subset
      <4> QED BY <1>3, <1>4, <4>2, <4>3 DEF Graph, Placed
    <3>3. CASE i \in F
      <4>1. place \in Len(boxes) + 1..Len(boxes) + Cardinality(F)
        BY <2>4, <3>1, <3>3, PlaceFacts
      <4> QED BY <1>3, <1>6, <3>2, <4>1, KeptAssumption
    <3>4. CASE i \notin F
      <4>1. place = 0
        BY <2>4, <3>4 DEF PlaceOf
      <4> QED BY <4>1, KeptAssumption
    <3> QED BY <3>3, <3>4
  <2>6. PICK L : L = Pointed(cp, Parents(nodes, C, i))
    OBVIOUS
  <2>7. Parents(nodes, C, i) \in SUBSET DOMAIN nodes
    BY <1>2 DEF Parents
  <2>8. kids \subseteq 1..MaxSlots /\ L \subseteq 1..MaxSlots
    BY <1>8, <2>2, <2>3, <2>6, <2>7
  <2>9. copy(i) = [node EXCEPT !.children = kids, !.held = FALSE, !.held_by = L, !.box = place]
    BY <1>8, <2>1, <2>2, <2>3, <2>4, <2>6, <2>7
  <2> HIDE DEF copy
  <2>10. copy(i) \in Node
    BY <2>2, <2>5, <2>8, <2>9 DEF Node
  <2>11. /\ copy(i).kind = node.kind /\ copy(i).data = node.data
         /\ copy(i).tolerance = node.tolerance /\ copy(i).children = kids
         /\ copy(i).box = place /\ copy(i).held = FALSE /\ copy(i).held_by = L
    BY <2>2, <2>9 DEF Node
  <2> QED BY <2>1, <2>3, <2>4, <2>6, <2>10, <2>11
<1> HIDE DEF copy
<1>10. /\ DOMAIN ms = DOMAIN nodes \cup made
       /\ \A i \in DOMAIN nodes : ms[i] = nodes[i]
       /\ \A i \in C : ms[cp[i]] = copy(i)
       /\ \A k \in DOMAIN ms \ DOMAIN nodes : \E i \in C : k = cp[i]
  <2>1. \A i \in C : cp[i] \in made /\ Original(C, cp[i]) = i
    BY <1>4, <1>7
  <2>2. \A k \in made : \E i \in C : k = cp[i]
    BY <1>5 DEF Pointed
  <2> QED BY <1>7, <2>1, <2>2
<1> HIDE DEF ms
<1>11. \A k \in DOMAIN ms : ms[k] \in Node
  <2> SUFFICES ASSUME NEW k \in DOMAIN ms PROVE ms[k] \in Node
    OBVIOUS
  <2>1. CASE k \in DOMAIN nodes
    BY <1>3, <1>10, <2>1 DEF Graph
  <2>2. CASE k \notin DOMAIN nodes
    <3>1. PICK i \in C : k = cp[i]
      BY <1>10, <2>2
    <3>2. copy(i) \in Node
      BY <1>9
    <3> QED BY <1>10, <3>1, <3>2
  <2> QED BY <2>1, <2>2
<1>12. CopiedInto(nodes, ms, C, {}, cp)
  <2>1. ASSUME NEW i \in DOMAIN nodes PROVE AsCopied(nodes, ms, {}, cp, i)
    BY <1>10 DEF AsCopied
  <2>2. ASSUME NEW i \in C PROVE Copy(nodes, ms, cp, i)
    <3>1. ms[cp[i]] = copy(i)
      BY <1>10
    <3>2. /\ copy(i).kind = nodes[i].kind /\ copy(i).data = nodes[i].data
          /\ copy(i).tolerance = nodes[i].tolerance
          /\ copy(i).children = Pointed(cp, nodes[i].children)
      BY <1>9
    <3> QED BY <3>1, <3>2 DEF Copy
  <2> QED BY <1>5, <1>10, <2>1, <2>2 DEF CopiedInto
<1>13. Linked(ms)
  <2> SUFFICES ASSUME NEW k \in DOMAIN ms, Linkable(ms[k]), NEW c \in ms[k].children
               PROVE  k \in ms[c].held_by
    BY DEF Linked
  <2>1. CASE k \in DOMAIN nodes
    <3>1. Linkable(nodes[k]) /\ c \in nodes[k].children /\ ms[k] = nodes[k]
      BY <1>10, <2>1 DEF Linkable
    <3>2. c \in DOMAIN nodes /\ k \in nodes[c].held_by
      BY <1>3, <2>1, <3>1 DEF Graph, Linked, Ordered
    <3> QED BY <1>10, <3>2
  <2>2. CASE k \notin DOMAIN nodes
    <3>1. PICK i \in C : k = cp[i]
      BY <1>10, <2>2
    <3>2. /\ ms[k].kind = nodes[i].kind /\ ms[k].children = Pointed(cp, nodes[i].children)
      BY <1>12, <3>1 DEF CopiedInto, Copy
    <3>3. PICK d \in nodes[i].children : c = cp[d]
      BY <3>2 DEF Pointed
    <3>4. d \in C /\ i \in Parents(nodes, C, d)
      BY <1>2, <3>2, <3>3 DEF Closed, Parents, Linkable
    <3>5. copy(d).held_by = Pointed(cp, Parents(nodes, C, d)) /\ ms[c] = copy(d)
      BY <1>9, <1>10, <3>3, <3>4
    <3>6. k \in Pointed(cp, Parents(nodes, C, d))
      BY <3>1, <3>4 DEF Pointed
    <3> QED BY <3>5, <3>6
  <2> QED BY <2>1, <2>2
<1>14. \A i \in C : ms[cp[i]].box = PlaceOf(F, i) /\ ms[cp[i]].held = FALSE
  <2> SUFFICES ASSUME NEW i \in C PROVE ms[cp[i]].box = PlaceOf(F, i) /\ ms[cp[i]].held = FALSE
    OBVIOUS
  <2>1. ms[cp[i]] = copy(i)
    BY <1>10
  <2>2. copy(i).box = PlaceOf(F, i) /\ copy(i).held = FALSE
    BY <1>9
  <2> QED BY <2>1, <2>2, Zenon
<1>15. \A i \in DOMAIN nodes : ms[i].held = (nodes[i].held \/ i \in {})
  <2> SUFFICES ASSUME NEW i \in DOMAIN nodes PROVE ms[i].held = (nodes[i].held \/ i \in {})
    OBVIOUS
  <2>1. PICK node \in Node : node = nodes[i]
    BY <1>3 DEF Graph
  <2>2. node.held \in BOOLEAN
    BY DEF Node
  <2>3. PICK held \in BOOLEAN : held = node.held
    BY <2>2
  <2>4. held = (held \/ i \in {})
    OBVIOUS
  <2> QED BY <1>10, <2>1, <2>3, <2>4, Zenon
<1> QED BY <1>1, <1>2, <1>11, <1>12, <1>13, <1>14, <1>15 DEF CopyMade, cp

(* They are copies of what lies below the root, and nothing points at them *)
(* that was there.                                                         *)
LEMMA ReadIntoCopies ==
    ASSUME IInv, NEW root \in shapes, ReadInto(root), NEW C, C = Below({root})
    PROVE  /\ CopyStands(nodes', C, {}, SyncedAny, boxes')
           /\ slots' = slots + Cardinality(C) /\ slots \in Nat /\ slots' \in Nat /\ slots <= slots'
           /\ Grown(nodes, nodes', slots)
           /\ shapes' = shapes \cup {Moved(C)[root]}
<1> DEFINE F == C \cap Faces
           none == [k \in 1..Cardinality(F) |-> {}]
<1>1. /\ slots' = slots + Cardinality(C) /\ slots + Cardinality(C) <= MaxSlots
      /\ boxes' = SyncedBoxes \o none /\ shapes' = shapes \cup {CopyOf(C, root)}
  BY DEF ReadInto
<1>2. F = C \cap FacesOf(nodes) /\ F \in SUBSET FacesOf(nodes) /\ root \in DOMAIN nodes
  BY DEF Faces, FacesOf, IInv, Books
<1>3. PICK ms : ms = nodes'
  OBVIOUS
<1>4. CopyMade(C, {}, {}, ms) /\ C \subseteq DOMAIN nodes
  BY <1>3, ReadIntoMakes
<1>5. PICK any : any = SyncedAny
  OBVIOUS
<1>6. PICK extra : extra = none
  OBVIOUS
<1>7. F \in SUBSET Nat /\ IsFiniteSet(F) /\ Cardinality(F) \in Nat
  <2>1. /\ FacesOf(nodes) \subseteq DOMAIN nodes /\ IsFiniteSet(FacesOf(nodes))
        /\ DOMAIN nodes \in SUBSET Nat
    BY GraphFacts DEF IInv, FacesOf
  <2> QED BY <1>2, <2>1, FS_Subset, FS_CardinalityType
<1>8. /\ IsList(extra) /\ Len(extra) = Cardinality(F)
      /\ \A k \in 1..Cardinality(F) : extra[k] = {}
      /\ \A k \in DOMAIN extra : Cardinality(extra[k]) <= 1 /\ extra[k] = {}
  BY <1>6, <1>7, NoBoxes
<1>9. \A i \in F : extra[Rank(F, i)] = {}
  BY <1>7, <1>8, RankAtMost DEF Ranks
<1>10. CopyGiven(C, {}, F, ms, extra, any)
  BY <1>1, <1>2, <1>4, <1>5, <1>8, <1>9 DEF CopyGiven, CopyMade
<1>11. CopyStands(ms, C, {}, any, SyncedBoxes \o extra)
  BY <1>10, CopyingStands
<1>12. CopyStands(nodes', C, {}, SyncedAny, boxes')
  BY <1>1, <1>3, <1>5, <1>6, <1>11, Zenon
<1>13. /\ slots \in Nat /\ slots' \in Nat /\ slots <= slots'
       /\ Longer(nodes, ms, slots) /\ CopiedInto(nodes, ms, C, {}, Moved(C))
  BY <1>1, <1>11 DEF CopyStands, CopyStep
<1>14. Grown(nodes, ms, slots)
  BY <1>13 DEF Grown, CopiedInto, AsCopied, Untouched
<1>15. Moved(C)[root] = CopyOf(C, root)
  BY <1>2 DEF Moved
<1> QED BY <1>1, <1>3, <1>12, <1>13, <1>14, <1>15

(* So absorb keeps the invariant.                                          *)
LEMMA ReadIntoStands ==
    ASSUME IInv, NEW root \in shapes, ReadInto(root)
    PROVE  IInv'
<1>1. PICK C : C = Below({root})
  OBVIOUS
<1>2. /\ CopyStands(nodes', C, {}, SyncedAny, boxes')
      /\ slots' = slots + Cardinality(C) /\ slots \in Nat /\ slots' \in Nat /\ slots <= slots'
      /\ Grown(nodes, nodes', slots)
      /\ shapes' = shapes \cup {Moved(C)[root]}
  BY <1>1, ReadIntoCopies
<1>3. /\ Alone /\ Sync /\ UNCHANGED <<any_held, geometry, reads, since>> /\ UNCHANGED sharing
  BY DEF ReadInto
<1>4. /\ Graph(nodes', slots', Len(boxes')) /\ Drawn(nodes', boxes', SyncedAny, revision)
      /\ CopyStep(nodes, nodes', slots, slots', C, {}, Moved(C)) /\ Ordered(nodes')
  BY <1>2 DEF CopyStands
<1>5. ReadsStand(nodes', slots', reads)
  <2>1. PICK ms : ms = nodes'
    OBVIOUS
  <2>2. PICK n \in Nat : n = slots'
    BY <1>2
  <2>3. Ordered(nodes) /\ ReadsStand(nodes, slots, reads)
    BY DEF IInv, Graph
  <2>4. ReadsStand(ms, n, reads)
    BY <1>2, <1>4, <2>1, <2>2, <2>3, GrownReads
  <2> QED BY <2>1, <2>2, <2>4
<1>6. ReadersStand' /\ ClonesStand'
  BY <1>3, AloneStands
<1>7. CopyMade(C, {}, {}, nodes')
  BY <1>1, ReadIntoMakes
<1>8. DOMAIN nodes \subseteq DOMAIN nodes' /\ root \in DOMAIN nodes
  BY <1>2 DEF Grown, Longer, IInv, Books
<1>9. any_held' = (\E i \in DOMAIN nodes' : nodes'[i].held)
  <2>1. any_held = (\E i \in DOMAIN nodes : nodes[i].held) /\ any_held' = any_held
    BY <1>3 DEF IInv, Books
  <2>2. \A i \in DOMAIN nodes : nodes'[i].held = (nodes[i].held \/ i \in {})
    BY <1>7 DEF CopyMade
  <2>3. \A k \in DOMAIN nodes' \ DOMAIN nodes : nodes'[k].held = FALSE
    <3>1. DOMAIN nodes' = DOMAIN nodes \cup {Moved(C)[i] : i \in C}
      BY <1>7 DEF CopyMade, CopiedInto, Pointed
    <3> QED BY <1>7, <3>1 DEF CopyMade
  <2>4. (\E i \in DOMAIN nodes : nodes[i].held) <=> \E i \in DOMAIN nodes' : nodes'[i].held
    BY <1>8, <2>2, <2>3
  <2> QED BY <2>1, <2>4, Zenon
<1>10. shapes' \subseteq DOMAIN nodes'
  <2>1. PICK ms : ms = nodes'
    OBVIOUS
  <2>2. Laid(nodes, ms, slots, slots', C, Moved(C))
    BY <1>4, <2>1, CopyFacts
  <2>3. Moved(C)[root] \in DOMAIN ms
    BY <1>8, <2>2 DEF Laid
  <2> QED BY <1>2, <1>8, <2>1, <2>3 DEF IInv, Books
<1>11. Books'
  <2>1. since' \in {NoOperation} \cup 0..slots'
    BY <1>2, <1>3 DEF IInv, Books
  <2>2. /\ box_revision' \in Nat /\ revision' \in Nat /\ edits' \in Nat
        /\ box_revision' <= revision' /\ revision' <= edits' /\ box_any' \in BOOLEAN
    BY <1>3, SyncBooks DEF IInv, Books, geometry
  <2>3. readers' \in [Readers -> Reader]
    BY <1>3 DEF IInv, Books, sharing
  <2> QED BY <1>9, <1>10, <2>1, <2>2, <2>3 DEF Books
<1>12. box_revision' = revision /\ box_any' = SyncedAny /\ reads' = reads
  BY <1>3, SyncBooks
<1> QED BY <1>4, <1>5, <1>6, <1>11, <1>12 DEF IInv

-----------------------------------------------------------------------------
(* Steps that drop nodes.                                                  *)

(* What retain_reachable leaves: a node with what lies below it, in a      *)
(* place for its box among the faces that stay.                            *)
Retained(K, F, ms) ==
    /\ K \subseteq DOMAIN nodes /\ Closed(nodes, K) /\ DOMAIN ms = K
    /\ F = K \cap FacesOf(nodes) /\ F \in SUBSET Nat /\ IsFiniteSet(F)
    /\ \A i \in K :
          /\ Untouched(nodes, ms, i) /\ ms[i] \in Node /\ ms[i].held = nodes[i].held
          /\ ms[i].held_by = nodes[i].held_by \cap K
          /\ ms[i].box = IF i \in F THEN Rank(F, i) ELSE 0

(* retain_reachable keeps nodes as they are, and renumbers the boxes.      *)
LEMMA RetainMakes ==
    ASSUME IInv, NEW roots \in SUBSET shapes, RetainReachable(roots),
           NEW K, K = Below(roots)
    PROVE  Retained(K, K \cap FacesOf(nodes), nodes')
<1> DEFINE F == K \cap FacesOf(nodes)
           ms == [i \in K |-> [nodes[i] EXCEPT !.held_by = @ \cap K,
                                  !.box = IF @ = 0 THEN 0 ELSE Place(i, F)]]
<1>1. nodes' = ms
  BY DEF RetainReachable, Faces, FacesOf
<1>2. K \in SUBSET DOMAIN nodes /\ Closed(nodes, K)
  <2>1. Ordered(nodes) /\ roots \subseteq DOMAIN nodes
    BY DEF IInv, Graph, Books
  <2> QED BY <2>1, BelowIs, BelowIsLeast
<1>3. /\ Graph(nodes, slots, Len(boxes)) /\ slots \in Nat /\ DOMAIN nodes \in SUBSET Nat
      /\ IsFiniteSet(FacesOf(nodes)) /\ slots <= MaxSlots /\ DOMAIN nodes \subseteq 1..slots
  BY GraphFacts DEF IInv
<1>4. F \in SUBSET Nat /\ IsFiniteSet(F)
  BY <1>3, FS_Subset DEF FacesOf
<1>5. Cardinality(F) \in Nat /\ Cardinality(F) <= MaxSlots
  <2>1. F \subseteq 1..slots
    BY <1>3 DEF FacesOf
  <2>2. IsFiniteSet(1..slots) /\ Cardinality(1..slots) = slots
    BY <1>3, FS_Interval
  <2>3. Cardinality(F) <= slots /\ Cardinality(F) \in Nat
    BY <2>1, <2>2, FS_Subset, FS_CardinalityType
  <2> QED BY <1>3, <2>3, KeptAssumption
<1>6. ASSUME NEW i \in K
      PROVE  /\ Untouched(nodes, ms, i) /\ ms[i] \in Node /\ ms[i].held = nodes[i].held
             /\ ms[i].held_by = nodes[i].held_by \cap K
             /\ ms[i].box = IF i \in F THEN Rank(F, i) ELSE 0
  <2>1. PICK node : node = nodes[i]
    OBVIOUS
  <2>2. node \in Node /\ i \in DOMAIN nodes
    BY <1>2, <1>3, <2>1 DEF Graph
  <2>3. PICK L : L = nodes[i].held_by \cap K
    OBVIOUS
  <2>4. L \subseteq 1..MaxSlots
    BY <2>1, <2>2, <2>3 DEF Node
  <2>5. PICK place : place = IF i \in F THEN Rank(F, i) ELSE 0
    OBVIOUS
  <2>6. place \in 0..MaxSlots
    <3>1. i \in F => Rank(F, i) \in 1..Cardinality(F)
      BY <1>4, RankAtMost DEF Ranks
    <3> QED BY <1>5, <2>5, <3>1, KeptAssumption
  <2>7. (node.box = 0) <=> (i \notin F)
    BY <1>2, <1>3, <2>1, <2>2 DEF Graph, Placed, FacesOf
  <2>8. place = IF node.box = 0 THEN 0 ELSE Place(i, F)
    BY <2>5, <2>7 DEF Place
  <2>9. ms[i] = [node EXCEPT !.held_by = L, !.box = place]
    BY <2>1, <2>3, <2>8
  <2> HIDE DEF ms
  <2>10. ms[i] \in Node
    BY <2>2, <2>4, <2>6, <2>9 DEF Node
  <2>11. /\ ms[i].kind = node.kind /\ ms[i].data = node.data /\ ms[i].tolerance = node.tolerance
         /\ ms[i].children = node.children /\ ms[i].held = node.held
         /\ ms[i].held_by = L /\ ms[i].box = place
    BY <2>2, <2>9 DEF Node
  <2> QED BY <2>1, <2>2, <2>3, <2>5, <2>10, <2>11 DEF Untouched
<1>7. DOMAIN ms = K
  OBVIOUS
<1> HIDE DEF ms
<1> QED BY <1>1, <1>2, <1>4, <1>6, <1>7 DEF Retained

(* What is left is a graph, and means what it did.                         *)
LEMMA RetainedGraph ==
    ASSUME NEW K, NEW F, NEW ms, IInv, Retained(K, F, ms)
    PROVE  /\ Graph(ms, slots, Cardinality(F)) /\ FacesOf(ms) = F
           /\ \A i \in K : Meanings(ms)[i] = Meanings(nodes)[i]
<1>1. /\ Graph(nodes, slots, Len(boxes)) /\ Ordered(nodes) /\ slots \in Nat
      /\ DOMAIN nodes \subseteq 1..slots
  BY GraphFacts DEF IInv, Graph
<1>2. FacesOf(ms) = F
  BY DEF Retained, FacesOf, Untouched
<1>3. Ordered(ms)
  <2> SUFFICES ASSUME NEW i \in DOMAIN ms
               PROVE  /\ ms[i].kind \in Kinds
                      /\ ms[i].children \subseteq DOMAIN ms
                      /\ ms[i].kind = "vertex" => ms[i].children = {}
                      /\ ms[i].kind = "edge" => \A c \in ms[i].children : ms[c].kind = "vertex"
                      /\ ms[i].kind = "face" => \A c \in ms[i].children : ms[c].kind = "edge"
                      /\ ms[i].kind = "shell" => \A c \in ms[i].children : ms[c].kind = "face"
    BY DEF Ordered
  <2>1. /\ i \in DOMAIN nodes /\ ms[i].kind = nodes[i].kind /\ ms[i].children = nodes[i].children
        /\ nodes[i].children \subseteq K
    BY DEF Retained, Untouched, Closed
  <2>2. \A c \in nodes[i].children : c \in DOMAIN ms /\ ms[c].kind = nodes[c].kind
    BY <2>1 DEF Retained, Untouched
  <2> QED BY <1>1, <2>1, <2>2 DEF Ordered
<1>4. Linked(ms)
  <2> SUFFICES ASSUME NEW i \in DOMAIN ms, Linkable(ms[i]), NEW c \in ms[i].children
               PROVE  i \in ms[c].held_by
    BY DEF Linked
  <2>1. i \in K /\ i \in DOMAIN nodes /\ Linkable(nodes[i]) /\ c \in nodes[i].children /\ c \in K
    BY DEF Retained, Untouched, Closed, Linkable
  <2>2. i \in nodes[c].held_by
    BY <1>1, <2>1 DEF Graph, Linked
  <2> QED BY <2>1, <2>2 DEF Retained
<1>5. Placed(ms, Cardinality(F))
  <2>1. ASSUME NEW i \in DOMAIN ms
        PROVE  ms[i].box \in IF ms[i].kind = "face" THEN 1..Cardinality(F) ELSE {0}
    <3>1. (i \in F) <=> (ms[i].kind = "face")
      BY <1>2 DEF FacesOf
    <3>2. ms[i].box = IF i \in F THEN Rank(F, i) ELSE 0
      BY DEF Retained
    <3>3. i \in F => Rank(F, i) \in 1..Cardinality(F)
      BY RankAtMost DEF Retained, Ranks
    <3> QED BY <3>1, <3>2, <3>3
  <2>2. ASSUME NEW i \in F, NEW j \in F, ms[i].box = ms[j].box PROVE i = j
    <3>1. Rank(F, i) = Rank(F, j) /\ F \in SUBSET Nat /\ IsFiniteSet(F)
      BY <2>2 DEF Retained
    <3> QED BY <3>1, RankIsOneToOne
  <2> QED BY <1>2, <2>1, <2>2 DEF Placed
<1>6. \A i \in K : Meanings(ms)[i] = Meanings(nodes)[i]
  <2>1. AlikeIn(nodes, ms, K) /\ \A i \in K : ms[i].data = nodes[i].data
    BY DEF AlikeIn, Retained, Untouched
  <2> QED BY <1>1, <1>3, <2>1, AlikeMeansSame
<1>7. DOMAIN ms \subseteq 1..slots /\ \A i \in DOMAIN ms : ms[i] \in Node
  BY <1>1 DEF Retained
<1> QED BY <1>1, <1>2, <1>3, <1>4, <1>5, <1>6, <1>7 DEF Graph

(* The boxes left are those of the faces left, in order.                   *)
LEMMA RetainedBoxes ==
    ASSUME NEW K, NEW F, NEW ms, IInv, Retained(K, F, ms), NEW kept,
           kept = [k \in 1..Cardinality(F) |-> boxes[nodes[At(F, k)].box]]
    PROVE  Drawn(ms, kept, box_any, box_revision) /\ Len(kept) = Cardinality(F)
<1>1. /\ Graph(ms, slots, Cardinality(F)) /\ FacesOf(ms) = F
      /\ \A i \in K : Meanings(ms)[i] = Meanings(nodes)[i]
  BY RetainedGraph
<1>2. F \in SUBSET Nat /\ IsFiniteSet(F) /\ Cardinality(F) \in Nat
      /\ F \subseteq FacesOf(nodes) /\ F \subseteq K
  BY FS_CardinalityType DEF Retained
<1>3. /\ kept = [k \in 1..Cardinality(F) |-> kept[k]]
      /\ \A k \in 1..Cardinality(F) : kept[k] = boxes[nodes[At(F, k)].box]
  OBVIOUS
<1>4. IsList(kept) /\ Len(kept) = Cardinality(F) /\ DOMAIN kept = 1..Cardinality(F)
  BY <1>2, <1>3, ListMade
<1>5. \A i \in F : nodes[i].box \in DOMAIN boxes
  <2>1. DOMAIN boxes = 1..Len(boxes)
    BY ListLen DEF IInv, Drawn
  <2> QED BY <1>2, <2>1 DEF IInv, Graph, Placed, FacesOf
<1>6. ASSUME NEW k \in DOMAIN kept
      PROVE  Cardinality(kept[k]) <= 1 /\ (kept[k] # {} => box_any)
  <2>1. PICK i : i = At(F, k)
    OBVIOUS
  <2>2. i \in F
    BY <1>2, <1>4, <2>1, AtIsThere DEF Ranks
  <2>3. kept[k] = boxes[nodes[i].box]
    BY <1>3, <1>4, <2>1
  <2> QED BY <1>5, <2>2, <2>3 DEF IInv, Drawn
<1>7. ASSUME NEW f \in FacesOf(ms), NEW b \in kept[ms[f].box]
      PROVE  b = [face |-> Meanings(ms)[f], revision |-> box_revision]
  <2>1. f \in F /\ f \in FacesOf(nodes) /\ f \in K
    BY <1>1, <1>2
  <2>2. Rank(F, f) \in 1..Cardinality(F) /\ At(F, Rank(F, f)) = f /\ ms[f].box = Rank(F, f)
    BY <1>2, <2>1, RankAtMost, AtOfRank DEF Ranks, Retained
  <2>3. b \in boxes[nodes[f].box]
    BY <1>3, <1>7, <2>2
  <2>4. PICK a : a = Meanings(nodes)[f]
    OBVIOUS
  <2>5. Meanings(ms)[f] = a
    BY <1>1, <2>1, <2>4
  <2>6. b = [face |-> a, revision |-> box_revision]
    BY <2>1, <2>3, <2>4 DEF IInv, Drawn
  <2> QED BY <2>5, <2>6
<1> QED BY <1>1, <1>4, <1>6, <1>7 DEF Drawn

(* So retain_reachable keeps the invariant.                                *)
LEMMA RetainStands ==
    ASSUME IInv, NEW roots \in SUBSET shapes, RetainReachable(roots)
    PROVE  IInv'
<1>1. PICK K : K = Below(roots)
  OBVIOUS
<1>2. PICK F : F = K \cap FacesOf(nodes)
  OBVIOUS
<1>3. PICK P : P = {k \in DOMAIN reads : reads[k].shape \in K}
  OBVIOUS
<1>4. /\ Alone
      /\ boxes' = [k \in 1..Cardinality(F) |-> boxes[nodes[At(F, k)].box]]
      /\ any_held' = (\E i \in K : nodes[i].held)
      /\ reads' = Those(reads, P)
      /\ shapes' = shapes \cap K
      /\ UNCHANGED <<slots, box_revision, box_any, geometry, since>> /\ UNCHANGED sharing
  BY <1>1, <1>2, <1>3 DEF RetainReachable, Faces, FacesOf
<1>5. Retained(K, F, nodes')
  BY <1>1, <1>2, RetainMakes
<1>6. PICK ms : ms = nodes'
  OBVIOUS
<1>7. /\ Graph(ms, slots, Cardinality(F)) /\ FacesOf(ms) = F
  BY <1>5, <1>6, RetainedGraph
<1>8. PICK kept : kept = boxes'
  OBVIOUS
<1>9. Drawn(ms, kept, box_any, box_revision) /\ Len(kept) = Cardinality(F)
  BY <1>4, <1>5, <1>6, <1>8, RetainedBoxes
<1>10. ReadsStand(ms, slots, Those(reads, P))
  <2>1. Ordered(nodes) /\ Ordered(ms) /\ slots \in Nat /\ ReadsStand(nodes, slots, reads) /\ slots <= slots
    BY <1>7, GraphFacts DEF IInv, Graph
  <2>2. P \in SUBSET DOMAIN reads
    BY <1>3
  <2>3. \A k \in P : /\ reads[k].shape \in DOMAIN ms
                     /\ \A x \in reads[k].below \cap DOMAIN ms : Untouched(nodes, ms, x)
    BY <1>3, <1>5, <1>6 DEF Retained
  <2> QED BY <2>1, <2>2, <2>3, ThoseStand
<1>11. ReadersStand' /\ ClonesStand'
  BY <1>4, AloneStands
<1>12. Books'
  <2>1. any_held' = (\E i \in DOMAIN nodes' : nodes'[i].held)
    <3>1. (\E i \in K : nodes[i].held) <=> \E i \in DOMAIN ms : ms[i].held
      BY <1>5, <1>6 DEF Retained
    <3> QED BY <1>4, <1>6, <3>1, Zenon
  <2>2. shapes' \subseteq DOMAIN nodes'
    BY <1>4, <1>5 DEF Retained
  <2> QED BY <1>4, <2>1, <2>2 DEF IInv, Books, geometry, sharing
<1> QED BY <1>4, <1>6, <1>7, <1>8, <1>9, <1>10, <1>11, <1>12 DEF IInv

-----------------------------------------------------------------------------
(* The theorems about what is kept.                                        *)

(* The invariant holds of every reachable state: the graph is sound, the   *)
(* boxes and reads kept stand, and what readers and clones are in the      *)
(* middle of will.                                                         *)
THEOREM Inductive == Spec => []IInv
<1>1. Init => IInv
  BY InitIsSound
<1>2. IInv /\ [Next]_vars => IInv'
  <2> SUFFICES ASSUME IInv, [Next]_vars PROVE IInv'
    OBVIOUS
  <2>1. CASE Begin
    BY <2>1, BeginStands
  <2>2. CASE AddVertex
    <3>1. MadeOf(nodes, "vertex", {}) /\ "vertex" \in Kinds
      BY DEF MadeOf, Kinds
    <3> QED BY <2>2, <3>1, InsertStands DEF AddVertex
  <2>3. ASSUME NEW ends \in SUBSET OfKind("vertex"), AddEdge(ends) PROVE IInv'
    <3>1. MadeOf(nodes, "edge", ends) /\ "edge" \in Kinds
      BY OfKindAre DEF MadeOf, Kinds
    <3>2. Insert("edge", ends)
      BY <2>3 DEF AddEdge
    <3> QED BY <3>1, <3>2, InsertStands
  <2>4. ASSUME NEW edges \in SUBSET OfKind("edge"), AddFace(edges) PROVE IInv'
    <3>1. MadeOf(nodes, "face", edges) /\ "face" \in Kinds
      BY OfKindAre DEF MadeOf, Kinds
    <3>2. Insert("face", edges)
      BY <2>4 DEF AddFace
    <3> QED BY <3>1, <3>2, InsertStands
  <2>5. ASSUME NEW faces \in SUBSET OfKind("face"), AddShell(faces) PROVE IInv'
    <3>1. MadeOf(nodes, "shell", faces) /\ "shell" \in Kinds
      BY OfKindAre DEF MadeOf, Kinds
    <3>2. Insert("shell", faces)
      BY <2>5 DEF AddShell
    <3> QED BY <3>1, <3>2, InsertStands
  <2>6. ASSUME NEW result \in Made \cup Below(shapes), End(result) PROVE IInv'
    BY <2>6, EndStands
  <2>7. ASSUME NEW i \in DOMAIN nodes, NodeMut(i) PROVE IInv'
    BY <2>7, NodeMutStands
  <2>8. ASSUME NEW i \in DOMAIN nodes, NEW to \in 1..MaxChanges, Widen(i, to) PROVE IInv'
    BY <2>8, WidenStands
  <2>9. ASSUME NEW S \in SUBSET {i \in DOMAIN nodes : nodes[i].tolerance > 0}, UndoWidened(S)
        PROVE  IInv'
    BY <2>9, UndoWidenedStands
  <2>10. CASE RewriteSurface \/ RewritePcurve
    BY <2>10, RewriteStands
  <2>11. ASSUME NEW root \in shapes, Unshare(root) PROVE IInv'
    BY <2>11, UnshareStands
  <2>12. ASSUME NEW root \in shapes, ReadInto(root) PROVE IInv'
    BY <2>12, ReadIntoStands
  <2>13. ASSUME NEW roots \in SUBSET shapes, UnshareEach(roots) PROVE IInv'
    BY <2>13, UnshareEachStands
  <2>14. ASSUME NEW r \in Readers, NEW i \in Below(shapes), i \in Faces, AskBox(r, i) PROVE IInv'
    BY <2>14, AskBoxStands
  <2>15. ASSUME NEW r \in Readers, NEW i \in Below(shapes), AskRead(r, i) PROVE IInv'
    BY <2>15, AskReadStands, ShapesAreLive
  <2>16. ASSUME NEW r \in Readers, StoreAny(r) \/ InitBox(r) \/ Walk(r) \/ KeepRead(r) PROVE IInv'
    BY <2>16, StoreAnyStands, InitBoxStands, WalkStands, KeepReadStands
  <2>17. CASE CloneBoxes
    BY <2>17, CloneBoxesStands
  <2>18. CASE CloneRest
    BY <2>18, CloneRestStands
  <2>19. ASSUME NEW roots \in SUBSET shapes, RetainReachable(roots) PROVE IInv'
    BY <2>19, RetainStands
  <2>20. CASE UNCHANGED vars
    <3>1. UNCHANGED <<nodes, slots, any_held, kept_boxes, geometry, reads, shapes, since, clone>>
          /\ readers' = readers
      BY <2>20 DEF vars, sharing
    <3>2. ReadersStand' /\ readers' \in [Readers -> Reader]
      BY <3>1 DEF IInv, Books, ReadersStand, Faces, Stale, kept_boxes, geometry
    <3> QED BY <3>1, <3>2, ReaderMoves
  <2> QED
    BY <2>1, <2>2, <2>3, <2>4, <2>5, <2>6, <2>7, <2>8, <2>9, <2>10, <2>11, <2>12, <2>13, <2>14,
       <2>15, <2>16, <2>17, <2>18, <2>19, <2>20 DEF Next
<1> QED BY <1>1, <1>2, PTL DEF Spec

(* Nodes, places of boxes, reads and readers have their types throughout:  *)
(* each face has a place for its box that is its own, through inserts,     *)
(* copies, reads and drops.                                                *)
THEOREM TypeCorrect == Spec => []TypeOK
BY Inductive, IInvTypes, PTL

(* A box kept for a face is the one a reader would find now                *)
(* (face_box_slot, forget_boxes_above), for any number of readers and any  *)
(* order of their steps with a clone's.                                    *)
THEOREM BoxesAreFresh == Spec => []KeptBoxesAreFresh
<1>1. IInv => KeptBoxesAreFresh
  <2> SUFFICES ASSUME IInv, ~Stale, NEW i \in Faces, NEW b \in boxes[nodes[i].box]
               PROVE  b = Box(i)
    BY DEF KeptBoxesAreFresh
  <2>1. i \in FacesOf(nodes) /\ box_revision = revision
    BY DEF Faces, FacesOf, Stale
  <2>2. b = [face |-> Meanings(nodes)[i], revision |-> revision]
    BY <2>1 DEF IInv, Drawn
  <2> QED BY <2>2 DEF Box
<1> QED BY Inductive, <1>1, PTL

(* A read kept for a shape is what reading it now would find (find,        *)
(* indices_below_kept), although sets of slots are put together from sets  *)
(* kept for other shapes.                                                  *)
THEOREM ReadsAreFresh == Spec => []KeptReadsAreFresh
<1>1. IInv => KeptReadsAreFresh
  <2> SUFFICES ASSUME IInv, NEW k \in DOMAIN reads, reads[k].edits = edits
               PROVE  reads[k].found = Read(reads[k].shape)
    BY DEF KeptReadsAreFresh
  <2>1. PICK read : read = reads[k]
    OBVIOUS
  <2>2. ReadStands(nodes, slots, read)
    BY <2>1 DEF IInv, ReadsStand
  <2>3. PICK a : a = Meanings(nodes)[read.shape]
    OBVIOUS
  <2>4. PICK b : b = Tolerances(nodes)[read.shape]
    OBVIOUS
  <2>5. read.found = [shape |-> a, tolerances |-> b, edits |-> edits]
    BY <2>1, <2>2, <2>3, <2>4 DEF ReadStands
  <2> QED BY <2>1, <2>3, <2>4, <2>5 DEF Read
<1> QED BY Inductive, <1>1, PTL

-----------------------------------------------------------------------------
(* Steps that edit no node leave the shapes they leave as they were.       *)
SameShapes == \A i \in shapes \cap shapes' : Meanings(nodes')[i] = Meanings(nodes)[i]

(* Shapes mean what they did where what lies below them stays.             *)
LEMMA MeanTheSame ==
    ASSUME IInv, IInv', NEW ms, ms = nodes', NEW T,
           AlikeIn(nodes, ms, T), \A i \in T : ms[i].data = nodes[i].data, shapes \cap shapes' \subseteq T
    PROVE  SameShapes
<1>1. Ordered(nodes) /\ Ordered(ms)
  BY DEF IInv, Graph
<1>2. \A i \in T : Meanings(ms)[i] = Meanings(nodes)[i]
  BY <1>1, AlikeMeansSame
<1> QED BY <1>2 DEF SameShapes

(* They do where no node changes,                                          *)
LEMMA SameNodesMeanSame == ASSUME UNCHANGED nodes PROVE SameShapes
BY DEF SameShapes

(* Steps that leave each node's kind, data and parts.                      *)
LEMMA MarkedMeanSame ==
    ASSUME IInv, IInv', DOMAIN nodes' = DOMAIN nodes,
           \A i \in DOMAIN nodes : /\ nodes'[i].kind = nodes[i].kind
                                   /\ nodes'[i].children = nodes[i].children
                                   /\ nodes'[i].data = nodes[i].data
    PROVE  SameShapes
<1>1. PICK ms : ms = nodes'
  OBVIOUS
<1>2. PICK T : T = DOMAIN nodes
  OBVIOUS
<1>3. shapes \cap shapes' \subseteq T /\ Ordered(nodes)
  BY <1>2 DEF IInv, Books, Graph
<1>4. AlikeIn(nodes, ms, T) /\ \A i \in T : ms[i].data = nodes[i].data
  BY <1>1, <1>2, <1>3 DEF AlikeIn, Closed, Ordered
<1> QED BY <1>1, <1>3, <1>4, MeanTheSame

(* where nodes are only added,                                             *)
LEMMA GrownMeanSame ==
    ASSUME IInv, IInv', Grown(nodes, nodes', slots)
    PROVE  SameShapes
<1>1. PICK ms : ms = nodes'
  OBVIOUS
<1>2. Ordered(nodes) /\ Ordered(ms) /\ shapes \subseteq DOMAIN nodes
  BY <1>1 DEF IInv, Graph, Books
<1>3. \A i \in DOMAIN nodes : Meanings(ms)[i] = Meanings(nodes)[i]
  BY <1>1, <1>2, GrownMeans
<1> QED BY <1>1, <1>2, <1>3 DEF SameShapes

(* and where some are pointed at copies.                                   *)
LEMMA CopiesKeepShapes ==
    ASSUME IInv, NEW C \in SUBSET DOMAIN nodes, NEW P \in SUBSET DOMAIN nodes, NEW noted,
           CopyBelow(C, P, noted)
    PROVE  SameShapes
<1>1. PICK ms : ms = nodes'
  OBVIOUS
<1>2. PICK m : m = slots + Cardinality(C)
  OBVIOUS
<1>3. CopyStep(nodes, ms, slots, m, C, P, Moved(C))
  BY <1>1, <1>2, CopyBelowStands DEF CopyStands
<1>4. Ordered(nodes) /\ shapes \subseteq DOMAIN nodes
  BY DEF IInv, Graph, Books
<1>5. \A i \in DOMAIN nodes : Meanings(ms)[i] = Meanings(nodes)[i]
  BY <1>3, <1>4, CopiesMeanSame
<1> QED BY <1>1, <1>4, <1>5 DEF SameShapes

(* Every step that edits no data leaves every shape as it is.              *)
LEMMA EditsAlone ==
    ASSUME IInv, IInv', Next, \A i \in DOMAIN nodes \cap DOMAIN nodes' : nodes'[i].data = nodes[i].data
    PROVE  SameShapes
<1>1. CASE Begin
  BY <1>1, SameNodesMeanSame DEF Begin
<1>2. CASE AddVertex
  <2>1. MadeOf(nodes, "vertex", {}) /\ "vertex" \in Kinds
    BY DEF MadeOf, Kinds
  <2> QED BY <1>2, <2>1, InsertStands, GrownMeanSame DEF AddVertex
<1>3. ASSUME NEW ends \in SUBSET OfKind("vertex"), AddEdge(ends) PROVE SameShapes
  <2>1. MadeOf(nodes, "edge", ends) /\ "edge" \in Kinds
    BY OfKindAre DEF MadeOf, Kinds
  <2>2. Insert("edge", ends)
    BY <1>3 DEF AddEdge
  <2> QED BY <2>1, <2>2, InsertStands, GrownMeanSame
<1>4. ASSUME NEW edges \in SUBSET OfKind("edge"), AddFace(edges) PROVE SameShapes
  <2>1. MadeOf(nodes, "face", edges) /\ "face" \in Kinds
    BY OfKindAre DEF MadeOf, Kinds
  <2>2. Insert("face", edges)
    BY <1>4 DEF AddFace
  <2> QED BY <2>1, <2>2, InsertStands, GrownMeanSame
<1>5. ASSUME NEW faces \in SUBSET OfKind("face"), AddShell(faces) PROVE SameShapes
  <2>1. MadeOf(nodes, "shell", faces) /\ "shell" \in Kinds
    BY OfKindAre DEF MadeOf, Kinds
  <2>2. Insert("shell", faces)
    BY <1>5 DEF AddShell
  <2> QED BY <2>1, <2>2, InsertStands, GrownMeanSame
<1>6. ASSUME NEW result \in Made \cup Below(shapes), End(result) PROVE SameShapes
  <2>1. \A i \in DOMAIN nodes : nodes[i] \in Node
    BY DEF IInv, Graph
  <2>2. PICK noted : noted = NotedHeld(result)
    OBVIOUS
  <2>3. nodes' = [i \in DOMAIN nodes |-> [nodes[i] EXCEPT !.held = @ \/ i \in noted]]
    BY <1>6, <2>2 DEF End
  <2>4. /\ DOMAIN nodes' = DOMAIN nodes
        /\ \A i \in DOMAIN nodes : nodes'[i] = [nodes[i] EXCEPT !.held = @ \/ i \in noted]
    BY <2>3
  <2>5. \A i \in DOMAIN nodes : /\ nodes'[i].kind = nodes[i].kind
                                /\ nodes'[i].children = nodes[i].children
                                /\ nodes'[i].data = nodes[i].data
    BY <2>1, <2>4 DEF Node
  <2> QED BY <2>4, <2>5, MarkedMeanSame
<1>7. ASSUME NEW i \in DOMAIN nodes, NodeMut(i) PROVE SameShapes
  <2>1. nodes[i] \in Node /\ nodes[i].data \in Nat
    BY DEF IInv, Graph, Node
  <2>2. DOMAIN nodes' = DOMAIN nodes /\ nodes'[i] = [nodes[i] EXCEPT !.data = @ + 1]
    BY <1>7 DEF NodeMut
  <2>3. nodes'[i].data = nodes[i].data + 1
    BY <2>1, <2>2 DEF Node
  <2>4. nodes'[i].data = nodes[i].data
    BY <2>2
  <2> QED BY <2>1, <2>3, <2>4
<1>8. ASSUME NEW S, NEW to,
             nodes' = [j \in DOMAIN nodes |->
                          IF j \in S THEN [nodes[j] EXCEPT !.tolerance = to] ELSE nodes[j]]
      PROVE  SameShapes
  <2>1. \A i \in DOMAIN nodes : nodes[i] \in Node
    BY DEF IInv, Graph
  <2>2. DOMAIN nodes' = DOMAIN nodes
    BY <1>8
  <2>3. \A i \in DOMAIN nodes : /\ nodes'[i].kind = nodes[i].kind
                                /\ nodes'[i].children = nodes[i].children
                                /\ nodes'[i].data = nodes[i].data
    <3> SUFFICES ASSUME NEW i \in DOMAIN nodes
                 PROVE  /\ nodes'[i].kind = nodes[i].kind
                        /\ nodes'[i].children = nodes[i].children
                        /\ nodes'[i].data = nodes[i].data
      OBVIOUS
    <3>1. nodes'[i] = nodes[i] \/ nodes'[i] = [nodes[i] EXCEPT !.tolerance = to]
      BY <1>8
    <3> QED BY <2>1, <3>1 DEF Node
  <2> QED BY <2>2, <2>3, MarkedMeanSame
<1>9. ASSUME NEW i \in DOMAIN nodes, NEW to \in 1..MaxChanges, Widen(i, to) PROVE SameShapes
  <2>1. PICK S : S = {j \in Below({i}) : nodes[j].kind # "shell" /\ nodes[j].tolerance < to}
    OBVIOUS
  <2> QED BY <1>8, <1>9, <2>1 DEF Widen
<1>10. ASSUME NEW S, UndoWidened(S) PROVE SameShapes
  BY <1>8, <1>10 DEF UndoWidened
<1>11. CASE RewriteSurface \/ RewritePcurve
  BY <1>11, SameNodesMeanSame DEF RewriteSurface, RewritePcurve
<1>12. ASSUME NEW root \in shapes, Unshare(root) PROVE SameShapes
  <2> DEFINE C == Held({root})
             P == {i \in Below({root}) \ C : nodes[i].children \cap C # {}}
  <2>1. CopyBelow(C, P, {})
    BY <1>12 DEF Unshare
  <2>2. C \in SUBSET DOMAIN nodes /\ P \in SUBSET DOMAIN nodes
    BY HeldAreLive
  <2> HIDE DEF C, P
  <2> QED BY <2>1, <2>2, CopiesKeepShapes
<1>13. ASSUME NEW root \in shapes, ReadInto(root) PROVE SameShapes
  BY <1>13, ReadIntoCopies, GrownMeanSame
<1>14. ASSUME NEW roots \in SUBSET shapes, UnshareEach(roots) PROVE SameShapes
  <2>1. PICK C : C = OnTheWay(roots)
    OBVIOUS
  <2>2. PICK noted : noted = SharedBy(C)
    OBVIOUS
  <2>3. CopyBelow(C, {}, noted) /\ C \in SUBSET DOMAIN nodes /\ {} \in SUBSET DOMAIN nodes
    BY <1>14, <2>1, <2>2, HeldAreLive DEF UnshareEach
  <2> QED BY <2>3, CopiesKeepShapes
<1>15. ASSUME NEW r \in Readers, NEW i \in Below(shapes), AskBox(r, i) \/ AskRead(r, i) PROVE SameShapes
  BY <1>15, SameNodesMeanSame DEF AskBox, AskRead
<1>16. ASSUME NEW r \in Readers, StoreAny(r) \/ InitBox(r) \/ Walk(r) \/ KeepRead(r) PROVE SameShapes
  BY <1>16, SameNodesMeanSame DEF StoreAny, InitBox, Walk, KeepRead
<1>17. CASE CloneBoxes
  BY <1>17, SameNodesMeanSame DEF CloneBoxes
<1>18. CASE CloneRest
  BY <1>18, SameNodesMeanSame DEF CloneRest
<1>19. ASSUME NEW roots \in SUBSET shapes, RetainReachable(roots) PROVE SameShapes
  <2>1. PICK K : K = Below(roots)
    OBVIOUS
  <2>2. PICK ms : ms = nodes'
    OBVIOUS
  <2>3. PICK F : F = K \cap FacesOf(nodes)
    OBVIOUS
  <2>4. Retained(K, F, ms)
    BY <1>19, <2>1, <2>2, <2>3, RetainMakes
  <2>5. \A i \in K : Meanings(ms)[i] = Meanings(nodes)[i]
    BY <2>4, RetainedGraph
  <2>6. shapes' = shapes \cap K
    BY <1>19, <2>1 DEF RetainReachable
  <2> QED BY <2>2, <2>5, <2>6 DEF SameShapes
<1> QED
  BY <1>1, <1>2, <1>3, <1>4, <1>5, <1>6, <1>7, <1>9, <1>10, <1>11, <1>12, <1>13, <1>14, <1>15,
     <1>16, <1>17, <1>18, <1>19 DEF Next

(* Adding, marking, widening, copying, reading, dropping and cloning       *)
(* change no shape a caller still holds: only an edit of a node does       *)
(* (node_mut).                                                             *)
THEOREM ShapesOutliveSteps == Spec => OnlyEditsChangeShapes
<1>1. IInv /\ IInv' /\ [Next]_vars =>
        [(\A i \in DOMAIN nodes \cap DOMAIN nodes' : nodes'[i].data = nodes[i].data) =>
            \A i \in shapes \cap shapes' : Meanings(nodes')[i] = Meanings(nodes)[i]]_vars
  BY EditsAlone DEF SameShapes
<1> QED BY Inductive, <1>1, PTL DEF Spec, OnlyEditsChangeShapes

-----------------------------------------------------------------------------
(* What is shared is held.                                                 *)

(* Node x lies below one that is marked, itself below r.                   *)
HeldOver(ns, r, x) == \E h \in BelowIn(ns, {r}) : ns[h].held /\ x \in BelowIn(ns, {h})

(* What two shapes share lies, in either of them, below a marked node.     *)
Sharing(ns, held) ==
    \A r, s \in held : r # s =>
        \A x \in BelowIn(ns, {r}) \cap BelowIn(ns, {s}) : HeldOver(ns, r, x)

(* What an operation makes, it makes of what it made and of what lies      *)
(* below the shapes it began with.                                         *)
MakingOf(ns, held, at) ==
    /\ held \subseteq 1..at
    /\ \A i \in DOMAIN ns : i <= at => ns[i].children \subseteq 1..at
    /\ \A i \in DOMAIN ns : i > at =>
          \A c \in ns[i].children : c > at \/ c \in BelowIn(ns, held)

Making(ns, held, at) == at # NoOperation => MakingOf(ns, held, at)

Shared == Sharing(nodes, shapes) /\ Making(nodes, shapes, since)

(* Marks that stay, and nodes that stay.                                   *)
StillHeld(ns, ms, T) == AlikeIn(ns, ms, T) /\ \A i \in T : ns[i].held => ms[i].held

(* What lies below a node of a closed set lies in it.                      *)
LEMMA BelowOne ==
    ASSUME NEW ns, Ordered(ns), NEW T, T \subseteq DOMAIN ns, Closed(ns, T), NEW i \in T
    PROVE  /\ i \in BelowIn(ns, {i}) /\ BelowIn(ns, {i}) \subseteq T
           /\ Closed(ns, BelowIn(ns, {i})) /\ BelowIn(ns, {i}) \subseteq DOMAIN ns
<1>1. {i} \subseteq DOMAIN ns /\ {i} \subseteq T
  OBVIOUS
<1> QED BY <1>1, BelowIsLeast

(* Below each node that stays lies what did.                               *)
LEMMA AlikeBelowEach ==
    ASSUME NEW ns, NEW ms, Ordered(ns), Ordered(ms), NEW T, AlikeIn(ns, ms, T)
    PROVE  \A i \in T : BelowIn(ms, {i}) = BelowIn(ns, {i}) /\ BelowIn(ns, {i}) \subseteq T
<1> SUFFICES ASSUME NEW i \in T
             PROVE  BelowIn(ms, {i}) = BelowIn(ns, {i}) /\ BelowIn(ns, {i}) \subseteq T
  OBVIOUS
<1>1. {i} \subseteq DOMAIN ns /\ T \subseteq DOMAIN ns /\ Closed(ns, T)
  BY DEF AlikeIn
<1>2. PICK B : B = BelowIn(ns, {i})
  OBVIOUS
<1>3. B \subseteq T /\ Closed(ns, B)
  BY <1>1, <1>2, BelowOne
<1>4. AlikeIn(ns, ms, B)
  BY <1>3 DEF AlikeIn
<1> QED BY <1>1, <1>2, <1>3, <1>4, AlikeBelow

(* Sharing outlives what changes neither a shape nor its marks.            *)
LEMMA SharingStill ==
    ASSUME NEW ns, NEW ms, Ordered(ns), Ordered(ms), NEW T, StillHeld(ns, ms, T),
           NEW held, Sharing(ns, held), NEW left, left \subseteq held, left \subseteq T
    PROVE  Sharing(ms, left)
<1>1. \A i \in T : BelowIn(ms, {i}) = BelowIn(ns, {i}) /\ BelowIn(ns, {i}) \subseteq T
  BY AlikeBelowEach DEF StillHeld
<1> SUFFICES ASSUME NEW r \in left, NEW s \in left, r # s,
                    NEW x \in BelowIn(ms, {r}) \cap BelowIn(ms, {s})
             PROVE  HeldOver(ms, r, x)
  BY DEF Sharing
<1>2. PICK h \in BelowIn(ns, {r}) : ns[h].held /\ x \in BelowIn(ns, {h})
  BY <1>1 DEF Sharing, HeldOver
<1>3. h \in T /\ h \in BelowIn(ms, {r}) /\ x \in BelowIn(ms, {h})
  BY <1>1, <1>2
<1>4. ms[h].held
  BY <1>2, <1>3 DEF StillHeld
<1> QED BY <1>3, <1>4 DEF HeldOver

(* What an operation made and goes on with outlives what only adds nodes.  *)
LEMMA MakingStill ==
    ASSUME NEW ns, NEW ms, Ordered(ns), Ordered(ms), AlikeIn(ns, ms, DOMAIN ns),
           NEW held, held \subseteq DOMAIN ns, NEW at, MakingOf(ns, held, at),
           \A k \in DOMAIN ms \ DOMAIN ns :
              k > at /\ \A c \in ms[k].children : c > at \/ c \in BelowIn(ns, held),
           \A k \in DOMAIN ms \ DOMAIN ns : ~(k <= at)
    PROVE  MakingOf(ms, held, at)
<1>1. PICK B : B = BelowIn(ns, held)
  OBVIOUS
<1>2. B \subseteq DOMAIN ns /\ Closed(ns, B)
  BY <1>1, BelowIsLeast
<1>3. AlikeIn(ns, ms, B)
  BY <1>2 DEF AlikeIn
<1>4. BelowIn(ms, held) = B
  BY <1>1, <1>3, AlikeBelow
<1>5. \A i \in DOMAIN ns : ms[i].children = ns[i].children
  BY DEF AlikeIn
<1> QED BY <1>1, <1>4, <1>5 DEF MakingOf

-----------------------------------------------------------------------------
(* An operation ends: on the way down from its result, the first node it   *)
(* did not make is noted.                                                  *)
Own(ns, at) ==
    [i \in DOMAIN ns |-> [ns[i] EXCEPT !.children = IF i > at THEN ns[i].children ELSE {}]]

OwnNodes(ns, ms, at) ==
    /\ DOMAIN ms = DOMAIN ns
    /\ \A i \in DOMAIN ns : /\ ms[i].kind = ns[i].kind
                            /\ ms[i].children = IF i > at THEN ns[i].children ELSE {}

(* The nodes with only what the operation made pointing down.              *)
LEMMA OwnIsOrdered ==
    ASSUME NEW ns, Ordered(ns), \A i \in DOMAIN ns : ns[i] \in Node, NEW at, NEW ms, ms = Own(ns, at)
    PROVE  OwnNodes(ns, ms, at) /\ Ordered(ms)
<1>1. DOMAIN ms = DOMAIN ns
  BY DEF Own
<1>2. ASSUME NEW i \in DOMAIN ns
      PROVE  ms[i].kind = ns[i].kind /\ ms[i].children = IF i > at THEN ns[i].children ELSE {}
  <2>1. PICK node : node = ns[i]
    OBVIOUS
  <2>2. PICK below : below = IF i > at THEN ns[i].children ELSE {}
    OBVIOUS
  <2>3. ms[i] = [node EXCEPT !.children = below] /\ node \in Node
    BY <2>1, <2>2 DEF Own
  <2>4. ms[i].kind = node.kind /\ ms[i].children = below
    BY <2>3 DEF Node
  <2> QED BY <2>1, <2>2, <2>4
<1>3. OwnNodes(ns, ms, at)
  BY <1>1, <1>2 DEF OwnNodes
<1> QED BY <1>3 DEF OwnNodes, Ordered

(* The way down from a result passes from what was made to what was there  *)
(* at a node that is noted.                                                *)
FirstMet(ns, held, at, M, result, x) ==
    \E h \in M : /\ h <= at /\ h \in BelowIn(ns, {result}) /\ h \in BelowIn(ns, held)
                 /\ x \in BelowIn(ns, {h})

(* Whatever older node lies below the result, one noted is met on the way  *)
(* to it.                                                                  *)
LEMMA MetOnTheWay ==
    ASSUME NEW ns, NEW ms, Ordered(ns), Ordered(ms), NEW at \in Nat, OwnNodes(ns, ms, at),
           DOMAIN ns \in SUBSET Nat, NEW held, held \subseteq DOMAIN ns, MakingOf(ns, held, at),
           NEW result \in DOMAIN ns, result > at \/ result \in BelowIn(ns, held),
           NEW x \in BelowIn(ns, {result}), x <= at,
           NEW M, M = BelowIn(ms, {result})
    PROVE  FirstMet(ns, held, at, M, result, x)
<1> DEFINE old == {h \in M : h <= at}
           Q == M \cup BelowIn(ns, old)
           B == BelowIn(ns, held)
           R == BelowIn(ns, {result})
<1>1. {result} \subseteq DOMAIN ns /\ {result} \subseteq DOMAIN ms
  BY DEF OwnNodes
<1>2. /\ result \in M /\ M \subseteq DOMAIN ns /\ Closed(ms, M)
      /\ \A T : {result} \subseteq T /\ Closed(ms, T) => M \subseteq T
  <2>1. /\ {result} \subseteq M /\ M \subseteq DOMAIN ms /\ Closed(ms, M)
        /\ \A T : {result} \subseteq T /\ Closed(ms, T) => M \subseteq T
    BY <1>1, BelowIsLeast
  <2> QED BY <2>1 DEF OwnNodes
<1>3. old \subseteq DOMAIN ns
  BY <1>2
<1>4. PICK O : O = BelowIn(ns, old)
  OBVIOUS
<1>5. old \subseteq O /\ Closed(ns, O) /\ O \subseteq DOMAIN ns
  BY <1>3, <1>4, BelowIsLeast
<1>6. Closed(ns, M \cup O)
  <2> SUFFICES ASSUME NEW y \in M \cup O PROVE ns[y].children \subseteq M \cup O
    BY DEF Closed
  <2>1. CASE y \in O
    BY <1>5, <2>1 DEF Closed
  <2>2. CASE y \in M /\ y > at
    BY <1>2, <2>2 DEF Closed, OwnNodes
  <2>3. CASE y \in M /\ ~(y > at)
    <3>1. y \in Nat
      BY <1>2, <2>3
    <3>2. y \in old
      BY <2>3, <3>1
    <3> QED BY <1>5, <3>2 DEF Closed
  <2> QED BY <2>1, <2>2, <2>3
<1>7. x \in M \cup O
  <2>1. {result} \subseteq M \cup O
    BY <1>2
  <2> QED BY <1>1, <1>6, <2>1, BelowIsLeast
<1>8. M \subseteq R
  <2>1. {result} \subseteq R /\ Closed(ns, R)
    BY <1>1, BelowIsLeast
  <2>2. Closed(ms, R)
    <3>1. R \subseteq DOMAIN ns
      BY <1>1, BelowIsLeast
    <3> HIDE DEF R
    <3> QED BY <2>1, <3>1 DEF Closed, OwnNodes
  <2> HIDE DEF R
  <2> QED BY <1>2, <2>1, <2>2
<1>9. \A h \in M : h > at \/ h \in B
  <2> DEFINE T == {h \in DOMAIN ns : h > at \/ h \in B}
  <2>1. B \subseteq DOMAIN ns /\ Closed(ns, B)
    BY BelowIsLeast
  <2>2. {result} \subseteq T
    BY <1>1
  <2>3. Closed(ms, T)
    <3> SUFFICES ASSUME NEW y \in T PROVE ms[y].children \subseteq T
      BY DEF Closed
    <3>1. y \in DOMAIN ns
      OBVIOUS
    <3>2. CASE y > at
      <4>1. ms[y].children = ns[y].children /\ ns[y].children \subseteq DOMAIN ns
        BY <3>1, <3>2 DEF OwnNodes, Ordered
      <4>2. \A c \in ns[y].children : c > at \/ c \in B
        BY <3>1, <3>2 DEF MakingOf
      <4> QED BY <4>1, <4>2
    <3>3. CASE ~(y > at)
      BY <3>1, <3>3 DEF OwnNodes
    <3> QED BY <3>2, <3>3
  <2> HIDE DEF T
  <2>4. M \subseteq T
    BY <1>2, <2>2, <2>3
  <2> QED BY <2>4 DEF T
<1>10. \E h \in M : h <= at /\ x \in BelowIn(ns, {h})
  <2>1. CASE x \in O
    <3>1. x \in BelowIn(ns, old)
      BY <1>4, <2>1
    <3> HIDE DEF old
    <3>2. \E h \in old : x \in BelowIn(ns, {h})
      BY <1>3, <3>1, BelowEach
    <3> QED BY <3>2 DEF old
  <2>2. CASE x \in M
    <3>1. {x} \subseteq DOMAIN ns
      BY <1>2, <2>2
    <3>2. x \in BelowIn(ns, {x})
      BY <3>1, BelowIsLeast
    <3> QED BY <2>2, <3>2
  <2> QED BY <1>7, <2>1, <2>2
<1>11. PICK h \in M : h <= at /\ x \in BelowIn(ns, {h})
  BY <1>10
<1>12. h \in B
  <2>1. h \in Nat
    BY <1>2
  <2>2. ~(h > at)
    BY <1>11, <2>1
  <2> QED BY <1>9, <2>2
<1>13. h \in R
  BY <1>8
<1> QED BY <1>11, <1>12, <1>13 DEF FirstMet

(* Once noted, all the result shares with another shape is held.           *)
LEMMA NotedSharing ==
    ASSUME NEW ns, NEW ms, Ordered(ns), Ordered(ms), StillHeld(ns, ms, DOMAIN ns),
           NEW held, held \subseteq DOMAIN ns, Sharing(ns, held), NEW at, NEW M,
           MakingOf(ns, held, at), NEW result \in DOMAIN ns,
           \A x \in BelowIn(ns, {result}) : x <= at => FirstMet(ns, held, at, M, result, x),
           \A h \in M : h <= at /\ h \in DOMAIN ns => ms[h].held
    PROVE  Sharing(ms, held \cup {result})
<1>1. AlikeIn(ns, ms, DOMAIN ns) /\ \A i \in DOMAIN ns : ns[i].held => ms[i].held
  BY DEF StillHeld
<1>2. \A i \in DOMAIN ns : BelowIn(ms, {i}) = BelowIn(ns, {i}) /\ BelowIn(ns, {i}) \subseteq DOMAIN ns
  BY <1>1, AlikeBelowEach
<1>3. Sharing(ms, held)
  BY SharingStill
<1>4. ASSUME NEW s \in held, NEW x \in BelowIn(ns, {s}) PROVE x <= at
  <2> DEFINE T == {i \in DOMAIN ns : i \in 1..at}
  <2>1. {s} \subseteq T /\ {s} \subseteq DOMAIN ns
    BY DEF MakingOf
  <2>2. Closed(ns, T)
    <3>1. ASSUME NEW i \in DOMAIN ns, i \in 1..at PROVE ns[i].children \subseteq T
      <4>1. i <= at
        BY <3>1
      <4> QED BY <3>1, <4>1 DEF MakingOf, Ordered
    <3> QED BY <3>1 DEF Closed
  <2> HIDE DEF T
  <2>3. x \in T
    BY <2>1, <2>2, BelowIsLeast
  <2> QED BY <2>3 DEF T
<1>5. ASSUME NEW s \in held, NEW x \in BelowIn(ns, {result}) \cap BelowIn(ns, {s}), s # result
      PROVE  HeldOver(ms, result, x) /\ HeldOver(ms, s, x)
  <2>1. x <= at
    BY <1>4
  <2>2. FirstMet(ns, held, at, M, result, x)
    BY <2>1
  <2>3. PICK h \in M : /\ h <= at /\ h \in BelowIn(ns, {result}) /\ h \in BelowIn(ns, held)
                       /\ x \in BelowIn(ns, {h})
    BY <2>2 DEF FirstMet
  <2>4. h \in DOMAIN ns /\ ms[h].held
    BY <1>2, <2>3
  <2>5. HeldOver(ms, result, x)
    BY <1>2, <2>3, <2>4 DEF HeldOver
  <2>6. PICK t \in held : h \in BelowIn(ns, {t})
    BY <2>3, BelowEach
  <2>7. CASE t = s
    BY <1>2, <2>3, <2>4, <2>6, <2>7 DEF HeldOver
  <2>8. CASE t # s
    <3>1. {t} \subseteq DOMAIN ns
      OBVIOUS
    <3>2. BelowIn(ns, {h}) \subseteq BelowIn(ns, {t})
      BY <2>6, <3>1, BelowGrows
    <3>3. x \in BelowIn(ms, {s}) \cap BelowIn(ms, {t})
      BY <1>2, <2>3, <3>2
    <3> QED BY <1>3, <2>5, <2>8, <3>3 DEF Sharing
  <2> QED BY <2>5, <2>7, <2>8
<1>6. ASSUME NEW r \in held \cup {result}, NEW s \in held \cup {result}, r # s,
             NEW x \in BelowIn(ms, {r}) \cap BelowIn(ms, {s})
      PROVE  HeldOver(ms, r, x)
  <2>1. CASE r \in held /\ s \in held
    BY <1>3, <1>6, <2>1 DEF Sharing
  <2>2. x \in BelowIn(ns, {r}) \cap BelowIn(ns, {s})
    BY <1>2
  <2>3. CASE r = result /\ s \in held
    BY <1>5, <1>6, <2>2, <2>3
  <2>4. CASE s = result /\ r \in held
    BY <1>5, <1>6, <2>2, <2>4
  <2> QED BY <1>6, <2>1, <2>3, <2>4
<1> QED BY <1>6 DEF Sharing

(* What is noted is what is met going down through nodes the operation     *)
(* made alone.                                                             *)
LEMMA NotedIsMet ==
    ASSUME IInv, NEW result \in DOMAIN nodes, NEW ms, ms = Own(nodes, since), Ordered(ms),
           OwnNodes(nodes, ms, since)
    PROVE  NotedHeld(result) = BelowIn(ms, {result}) \ Made
<1>1. ASSUME NEW S, S \subseteq DOMAIN nodes
      PROVE  Met(S) = WithKids(ms, S) /\ Met(S) \subseteq DOMAIN nodes
  <2>1. Children(S \cap Made) = Kids(ms, S)
    BY <1>1 DEF Children, Kids, Made, OwnNodes
  <2>2. Kids(ms, S) \subseteq DOMAIN nodes
    BY <1>1 DEF Kids, OwnNodes, Ordered
  <2> QED BY <1>1, <2>1, <2>2 DEF Met, WithKids
<1>2. {result} \subseteq DOMAIN nodes
  OBVIOUS
<1>3. Met(Met(Met({result}))) = WithKids(ms, WithKids(ms, WithKids(ms, {result})))
  BY <1>1, <1>2
<1> QED BY <1>3 DEF NotedHeld, BelowIn

(* What the invariant says of the nodes.                                   *)
LEMMA NodesAreWell ==
    ASSUME IInv
    PROVE  /\ Ordered(nodes) /\ shapes \subseteq DOMAIN nodes /\ \A i \in DOMAIN nodes : nodes[i] \in Node
           /\ slots \in Nat /\ DOMAIN nodes \subseteq 1..slots /\ DOMAIN nodes \in SUBSET Nat
           /\ since \in {NoOperation} \cup 0..slots /\ AlikeIn(nodes, nodes, DOMAIN nodes)
<1>1. /\ Ordered(nodes) /\ shapes \subseteq DOMAIN nodes /\ \A i \in DOMAIN nodes : nodes[i] \in Node
      /\ slots \in Nat /\ DOMAIN nodes \subseteq 1..slots /\ DOMAIN nodes \in SUBSET Nat
      /\ since \in {NoOperation} \cup 0..slots
  BY GraphFacts DEF IInv, Graph, Books
<1> QED BY <1>1 DEF AlikeIn, Closed, Ordered

(* An operation that ends has noted what its result shares.                *)
LEMMA EndShares ==
    ASSUME IInv, IInv', Shared, NEW result \in Made \cup Below(shapes), End(result)
    PROVE  Shared'
<1>1. /\ Ordered(nodes) /\ shapes \subseteq DOMAIN nodes /\ \A i \in DOMAIN nodes : nodes[i] \in Node
      /\ DOMAIN nodes \in SUBSET Nat /\ since \in Nat
  BY NodesAreWell DEF End, NoOperation
<1>2. PICK own : own = Own(nodes, since)
  OBVIOUS
<1>3. OwnNodes(nodes, own, since) /\ Ordered(own)
  BY <1>1, <1>2, OwnIsOrdered
<1>4. result \in DOMAIN nodes /\ (result > since \/ result \in BelowIn(nodes, shapes))
  BY ShapesAreLive DEF Made
<1>5. PICK M : M = BelowIn(own, {result})
  OBVIOUS
<1>6. MakingOf(nodes, shapes, since)
  BY DEF Shared, Making, End
<1>7. ASSUME NEW x \in BelowIn(nodes, {result}), x <= since
      PROVE  FirstMet(nodes, shapes, since, M, result, x)
  BY <1>1, <1>3, <1>4, <1>5, <1>6, <1>7, MetOnTheWay
<1>8. PICK noted : noted = NotedHeld(result)
  OBVIOUS
<1>9. noted = M \ Made
  BY <1>2, <1>3, <1>4, <1>5, <1>8, NotedIsMet
<1>10. PICK ms : ms = nodes'
  OBVIOUS
<1>11. ms = [i \in DOMAIN nodes |-> [nodes[i] EXCEPT !.held = @ \/ i \in noted]]
  BY <1>8, <1>10 DEF End
<1>12. \A i \in DOMAIN nodes : /\ ms[i].kind = nodes[i].kind /\ ms[i].children = nodes[i].children
                               /\ ms[i].held <=> nodes[i].held \/ i \in noted
  <2> SUFFICES ASSUME NEW i \in DOMAIN nodes
               PROVE  /\ ms[i].kind = nodes[i].kind /\ ms[i].children = nodes[i].children
                      /\ ms[i].held <=> nodes[i].held \/ i \in noted
    OBVIOUS
  <2>1. PICK mark \in BOOLEAN : mark = (nodes[i].held \/ i \in noted)
    OBVIOUS
  <2>2. ms[i] = [nodes[i] EXCEPT !.held = mark] /\ nodes[i] \in Node
    BY <1>1, <1>11, <2>1
  <2>3. ms[i].held = mark /\ ms[i].kind = nodes[i].kind /\ ms[i].children = nodes[i].children
    BY <2>2 DEF Node
  <2> QED BY <2>1, <2>3
<1>13. DOMAIN ms = DOMAIN nodes
  BY <1>11
<1>14. StillHeld(nodes, ms, DOMAIN nodes)
  BY <1>1, <1>12, <1>13 DEF StillHeld, AlikeIn, Closed, Ordered
<1>15. \A h \in M : h <= since /\ h \in DOMAIN nodes => ms[h].held
  <2> SUFFICES ASSUME NEW h \in M, h <= since, h \in DOMAIN nodes PROVE ms[h].held
    OBVIOUS
  <2>1. h \in Nat /\ ~(h > since)
    BY <1>1
  <2>2. h \in noted
    BY <1>9, <2>1 DEF Made
  <2> QED BY <1>12, <2>2
<1>16. Ordered(ms)
  BY <1>10 DEF IInv, Graph
<1>17. Sharing(nodes, shapes)
  BY DEF Shared
<1>18. Sharing(ms, shapes \cup {result})
  BY <1>1, <1>4, <1>6, <1>7, <1>14, <1>15, <1>16, <1>17, NotedSharing
<1>19. shapes' = shapes \cup {result} /\ since' = NoOperation
  BY DEF End
<1> QED BY <1>10, <1>18, <1>19 DEF Shared, Making

(* Steps that add to the nodes at most, and change no shape.               *)
LEMMA AddedShares ==
    ASSUME IInv, IInv', Shared, AlikeIn(nodes, nodes', DOMAIN nodes),
           \A i \in DOMAIN nodes : nodes[i].held => nodes'[i].held,
           shapes' = shapes, since' = since,
           since # NoOperation => \A k \in DOMAIN nodes' \ DOMAIN nodes :
              k > since /\ \A c \in nodes'[k].children : c > since \/ c \in BelowIn(nodes, shapes)
    PROVE  Shared'
<1>1. PICK ms : ms = nodes'
  OBVIOUS
<1>2. Ordered(nodes) /\ Ordered(ms) /\ shapes \subseteq DOMAIN nodes
  BY <1>1 DEF IInv, Graph, Books
<1>3. StillHeld(nodes, ms, DOMAIN nodes)
  BY <1>1 DEF StillHeld
<1>4. Sharing(nodes, shapes)
  BY DEF Shared
<1>5. Sharing(ms, shapes)
  BY <1>2, <1>3, <1>4, SharingStill
<1>6. Making(ms, shapes, since)
  <2> SUFFICES ASSUME since # NoOperation PROVE MakingOf(ms, shapes, since)
    BY DEF Making
  <2>1. MakingOf(nodes, shapes, since) /\ AlikeIn(nodes, ms, DOMAIN nodes)
    BY <1>1 DEF Shared, Making
  <2>2. since \in Nat
    BY NodesAreWell DEF NoOperation
  <2>3. DOMAIN ms \in SUBSET Nat
    BY <1>1, GraphFacts DEF IInv
  <2>4. \A k \in DOMAIN ms \ DOMAIN nodes :
           k > since /\ \A c \in ms[k].children : c > since \/ c \in BelowIn(nodes, shapes)
    BY <1>1
  <2>5. \A k \in DOMAIN ms \ DOMAIN nodes : ~(k <= since)
    BY <2>2, <2>3, <2>4
  <2> QED BY <1>2, <2>1, <2>4, <2>5, MakingStill
<1> QED BY <1>1, <1>5, <1>6 DEF Shared

(* A node inserted lies below no shape yet.                                *)
LEMMA InsertShares ==
    ASSUME IInv, IInv', Shared, NEW kind, NEW children, children \subseteq Made \cup Below(shapes),
           Insert(kind, children)
    PROVE  Shared'
<1> DEFINE made == slots + 1
           place == IF kind = "face" THEN Len(boxes) + 1 ELSE 0
           new == [kind |-> kind, data |-> 0, tolerance |-> 0, children |-> children,
                   held_by |-> {}, held |-> FALSE, box |-> place]
           links(i) == {j \in {made} : kind # "shell" /\ i \in children}
           ms == [i \in DOMAIN nodes \cup {made} |->
                     IF i = made THEN new ELSE [nodes[i] EXCEPT !.held_by = @ \cup links(i)]]
<1>1. nodes' = ms /\ shapes' = shapes /\ since' = since /\ since # NoOperation
  BY DEF Insert
<1>2. /\ \A i \in DOMAIN nodes : nodes[i] \in Node
      /\ DOMAIN nodes \subseteq 1..slots /\ slots \in Nat /\ since \in 0..slots
      /\ AlikeIn(nodes, nodes, DOMAIN nodes)
  BY <1>1, NodesAreWell
<1>3. made \notin DOMAIN nodes /\ made > since
  BY <1>2
<1>4. ASSUME NEW i \in DOMAIN nodes
      PROVE  /\ ms[i].kind = nodes[i].kind /\ ms[i].children = nodes[i].children
             /\ ms[i].held = nodes[i].held
  <2>1. PICK L : L = nodes[i].held_by \cup links(i)
    OBVIOUS
  <2>2. ms[i] = [nodes[i] EXCEPT !.held_by = L] /\ nodes[i] \in Node
    BY <1>2, <1>3, <2>1
  <2> HIDE DEF ms
  <2> QED BY <2>2 DEF Node
<1>5. DOMAIN ms = DOMAIN nodes \cup {made} /\ ms[made].children = children
  OBVIOUS
<1>6. \A c \in children : c > since \/ c \in BelowIn(nodes, shapes)
  BY ShapesAreLive DEF Made
<1> HIDE DEF ms
<1>7. AlikeIn(nodes, ms, DOMAIN nodes)
  BY <1>2, <1>4, <1>5 DEF AlikeIn
<1>8. \A k \in DOMAIN ms \ DOMAIN nodes :
         k > since /\ \A c \in ms[k].children : c > since \/ c \in BelowIn(nodes, shapes)
  BY <1>3, <1>5, <1>6
<1> QED BY <1>1, <1>4, <1>7, <1>8, AddedShares

(* Steps that change no more of a node than its data, its tolerance and    *)
(* where its box is.                                                       *)
LEMMA UnchangedShares ==
    ASSUME IInv, IInv', Shared, shapes' = shapes, since' = since,
           DOMAIN nodes' = DOMAIN nodes,
           \A i \in DOMAIN nodes : /\ nodes'[i].kind = nodes[i].kind
                                   /\ nodes'[i].children = nodes[i].children
                                   /\ nodes'[i].held = nodes[i].held
    PROVE  Shared'
<1>1. AlikeIn(nodes, nodes', DOMAIN nodes)
  BY NodesAreWell DEF AlikeIn
<1> QED BY <1>1, AddedShares

-----------------------------------------------------------------------------
(* What copies are made of lies apart.                                     *)
Settles(ns, C, P, R) == \A i \in R : i \in C \/ i \in P \/ ns[i].children \cap C = {}

AllCopies(cp, R, S) == \A x \in S : \E i \in R : x = cp[i]

(* Where all that lies below a node is copied, pointed at copies or above  *)
(* none, what lies below its copy is the copy of it.                       *)
LEMMA CopiedApart ==
    ASSUME NEW ns, NEW ms, NEW n, NEW m, NEW C, NEW P, NEW cp,
           CopyStep(ns, ms, n, m, C, P, cp), Ordered(ns), Ordered(ms),
           NEW root \in DOMAIN ns, NEW R, R = BelowIn(ns, {root}),
           Settles(ns, C, P, R), NEW k, k = cp[root]
    PROVE  AllCopies(cp, R, BelowIn(ms, {k}))
<1> DEFINE Q == {cp[i] : i \in R}
<1>1. {root} \subseteq DOMAIN ns /\ R \subseteq DOMAIN ns /\ root \in R /\ Closed(ns, R)
  BY BelowIsLeast
<1>2. Laid(ns, ms, n, m, C, cp)
  BY CopyFacts
<1>3. {k} \subseteq DOMAIN ms /\ {k} \subseteq Q
  <2>1. cp[root] \in DOMAIN ms
    BY <1>2 DEF Laid
  <2>2. cp[root] \in Q
    BY <1>1
  <2> QED BY <2>1, <2>2
<1>4. ASSUME NEW i \in R PROVE ms[cp[i]].children \subseteq Q
  <2>1. ns[i].children \subseteq R /\ i \in DOMAIN ns
    BY <1>1 DEF Closed
  <2>2. Pointed(cp, ns[i].children) \subseteq Q
    BY <2>1 DEF Pointed
  <2>3. CASE i \in C
    BY <2>2, <2>3 DEF CopyStep, CopiedInto, Copy
  <2>4. CASE i \notin C /\ i \in P
    <3>1. cp[i] = i
      BY <2>1, <2>4 DEF CopyStep, Copying
    <3>2. ms[i].children = Pointed(cp, ns[i].children)
      BY <2>1, <2>4 DEF CopyStep, CopiedInto, AsCopied
    <3> HIDE DEF Q
    <3> QED BY <2>2, <3>1, <3>2
  <2>5. CASE i \notin C /\ i \notin P
    <3>1. cp[i] = i /\ \A c \in ns[i].children : cp[c] = c
      BY <1>1, <2>1, <2>5 DEF CopyStep, Copying, Settles
    <3>2. ns[i].children \subseteq Q
      BY <2>1, <3>1
    <3> HIDE DEF Q
    <3> QED BY <2>1, <2>5, <3>1, <3>2 DEF CopyStep, CopiedInto, AsCopied
  <2> QED BY <2>3, <2>4, <2>5
<1>5. Closed(ms, Q)
  BY <1>4 DEF Closed
<1>6. BelowIn(ms, {k}) \subseteq Q
  <2> HIDE DEF Q
  <2> QED BY <1>3, <1>5, BelowIsLeast
<1> QED BY <1>6 DEF AllCopies

(* What lies below nodes none of which is repointed stays as it is.        *)
LEMMA CopiedAlike ==
    ASSUME NEW ns, NEW ms, NEW n, NEW m, NEW C, NEW P, NEW cp,
           CopyStep(ns, ms, n, m, C, P, cp),
           NEW T, T \subseteq DOMAIN ns, Closed(ns, T), T \cap P = {}
    PROVE  AlikeIn(ns, ms, T)
<1>1. DOMAIN ns \subseteq DOMAIN ms
  BY CopyFacts DEF Laid
<1>2. \A i \in T : ms[i].kind = ns[i].kind /\ ms[i].children = ns[i].children
  BY DEF CopyStep, CopiedInto, AsCopied
<1> QED BY <1>1, <1>2 DEF AlikeIn

(* No node lies below what it is made of.                                  *)
LowerThan(kind) ==
    IF kind = "shell" THEN {"vertex", "edge", "face"}
    ELSE IF kind = "face" THEN {"vertex", "edge"}
    ELSE IF kind = "edge" THEN {"vertex"} ELSE {}

(* What lies below a node is of a lower kind.                              *)
LEMMA BelowIsLower ==
    ASSUME NEW ns, Ordered(ns), NEW h \in DOMAIN ns, NEW x \in BelowIn(ns, {h}), x # h
    PROVE  ns[x].kind \in LowerThan(ns[h].kind)
<1> DEFINE T == {h} \cup {i \in DOMAIN ns : ns[i].kind \in LowerThan(ns[h].kind)}
<1>1. {h} \subseteq T /\ {h} \subseteq DOMAIN ns
  OBVIOUS
<1>2. ASSUME NEW i \in T PROVE ns[i].children \subseteq T
  <2>1. i \in DOMAIN ns /\ ns[i].kind \in {"vertex", "edge", "face", "shell"}
    BY DEF Ordered, Kinds
  <2>2. i = h \/ ns[i].kind \in LowerThan(ns[h].kind)
    OBVIOUS
  <2>3. ASSUME NEW c \in ns[i].children PROVE c \in DOMAIN ns /\ ns[c].kind \in LowerThan(ns[i].kind)
    BY <2>1 DEF Ordered, LowerThan
  <2>4. \A c \in ns[i].children : ns[c].kind \in LowerThan(ns[h].kind)
    BY <2>1, <2>2, <2>3 DEF LowerThan
  <2> QED BY <2>3, <2>4
<1>3. Closed(ns, T)
  BY <1>2 DEF Closed
<1>4. x \in T
  <2> HIDE DEF T
  <2> QED BY <1>1, <1>3, BelowIsLeast
<1> QED BY <1>4

(* So no node lies below what lies below it.                               *)
LEMMA NotBelowItsParts ==
    ASSUME NEW ns, Ordered(ns), NEW r \in DOMAIN ns, NEW h \in BelowIn(ns, {r}), h # r
    PROVE  r \notin BelowIn(ns, {h})
<1>1. {r} \subseteq DOMAIN ns
  OBVIOUS
<1>2. h \in DOMAIN ns
  BY <1>1, BelowIsLeast
<1>3. ns[h].kind \in LowerThan(ns[r].kind)
  BY BelowIsLower
<1> SUFFICES ASSUME r \in BelowIn(ns, {h}) PROVE FALSE
  OBVIOUS
<1>4. ns[r].kind \in LowerThan(ns[h].kind)
  BY <1>2, BelowIsLower
<1> QED BY <1>3, <1>4 DEF LowerThan

(* What a shape unshared shares with another is held, and a node held is   *)
(* copied: none is repointed that lies below another shape.                *)
Apart(ms, root) ==
    \A s \in shapes \ {root} : BelowIn(ms, {root}) \cap BelowIn(ms, {s}) = {}

(* What is held below a root: the marked nodes below it, and what is below *)
(* those.                                                                  *)
LEMMA HeldIs ==
    ASSUME IInv, NEW root \in shapes, NEW C, C = Held({root})
    PROVE  /\ \A x : HeldOver(nodes, root, x) => x \in C
           /\ \A x \in C : x \in BelowIn(nodes, {root}) /\ HeldOver(nodes, root, x)
           /\ Closed(nodes, C) /\ C \subseteq DOMAIN nodes
<1>1. Ordered(nodes) /\ shapes \subseteq DOMAIN nodes /\ {root} \subseteq DOMAIN nodes
  BY NodesAreWell
<1>2. PICK R : R = BelowIn(nodes, {root})
  OBVIOUS
<1>3. PICK S : S = {i \in R : nodes[i].held}
  OBVIOUS
<1>4. C = BelowIn(nodes, S)
  BY <1>2, <1>3, BelowIs DEF Held
<1>5. R \subseteq DOMAIN nodes /\ Closed(nodes, R)
  BY <1>1, <1>2, BelowIsLeast
<1>6. S \subseteq DOMAIN nodes /\ S \subseteq R
  BY <1>3, <1>5
<1>7. S \subseteq C /\ Closed(nodes, C) /\ C \subseteq DOMAIN nodes /\ C \subseteq R
  BY <1>1, <1>4, <1>5, <1>6, BelowIsLeast
<1>8. ASSUME NEW x, HeldOver(nodes, root, x) PROVE x \in C
  <2>1. PICK h \in R : nodes[h].held /\ x \in BelowIn(nodes, {h})
    BY <1>2, <1>8 DEF HeldOver
  <2>2. h \in C
    BY <1>3, <1>7, <2>1
  <2>3. BelowIn(nodes, {h}) \subseteq C
    BY <1>1, <1>7, <2>2, BelowOne
  <2> QED BY <2>1, <2>3
<1>9. ASSUME NEW x \in C PROVE x \in R /\ HeldOver(nodes, root, x)
  <2>1. \E h \in S : x \in BelowIn(nodes, {h})
    BY <1>1, <1>4, <1>6, BelowEach
  <2> QED BY <1>2, <1>3, <1>7, <2>1 DEF HeldOver
<1> QED BY <1>2, <1>7, <1>8, <1>9

(* A root unshared lies apart from every other shape, and the others share *)
(* as they did.                                                            *)
LEMMA UnsharedApart ==
    ASSUME IInv, IInv', Shared, NEW root \in shapes, Unshare(root)
    PROVE  Apart(nodes', root) /\ Sharing(nodes', shapes \ {root})
<1>1. PICK ms : ms = nodes'
  OBVIOUS
<1> DEFINE C0 == Held({root})
           P0 == {i \in Below({root}) \ C0 : nodes[i].children \cap C0 # {}}
<1>2. CopyBelow(C0, P0, {}) /\ ~nodes[root].held
  BY DEF Unshare
<1>3. C0 \in SUBSET DOMAIN nodes /\ P0 \in SUBSET DOMAIN nodes
  BY HeldAreLive
<1>4. PICK C \in SUBSET DOMAIN nodes : C = C0
  BY <1>3
<1>5. PICK P \in SUBSET DOMAIN nodes : P = P0
  BY <1>3
<1>6. PICK R : R = BelowIn(nodes, {root})
  OBVIOUS
<1>7. P = {i \in R \ C : nodes[i].children \cap C # {}} /\ CopyBelow(C, P, {}) /\ C = Held({root})
  BY <1>2, <1>4, <1>5, <1>6, BelowIs
<1> HIDE DEF C0, P0
<1>8. /\ Ordered(nodes) /\ shapes \subseteq DOMAIN nodes /\ root \in DOMAIN nodes
      /\ Ordered(ms) /\ slots \in Nat /\ DOMAIN nodes \subseteq 1..slots
  BY <1>1, NodesAreWell DEF IInv, Graph
<1>9. PICK m : m = slots + Cardinality(C)
  OBVIOUS
<1>10. PICK cp : cp = Moved(C)
  OBVIOUS
<1>11. CopyStep(nodes, ms, slots, m, C, P, cp)
  BY <1>7, <1>9, <1>10, <1>1, CopyBelowStands DEF CopyStands
<1>12. /\ \A x : HeldOver(nodes, root, x) => x \in C
       /\ \A x \in C : x \in R /\ HeldOver(nodes, root, x)
       /\ Closed(nodes, C)
  BY <1>6, <1>7, HeldIs
<1>13. root \notin C
  <2> SUFFICES ASSUME root \in C PROVE FALSE
    OBVIOUS
  <2>1. PICK h \in R : nodes[h].held /\ root \in BelowIn(nodes, {h})
    BY <1>6, <1>12 DEF HeldOver
  <2>2. h # root
    BY <1>2, <2>1
  <2> QED BY <1>6, <1>8, <2>1, <2>2, NotBelowItsParts
<1>14. ASSUME NEW s \in shapes, s # root, NEW x \in R \cap BelowIn(nodes, {s}) PROVE x \in C
  <2>1. x \in BelowIn(nodes, {root}) \cap BelowIn(nodes, {s})
    BY <1>6
  <2> QED BY <1>12, <1>14, <2>1 DEF Shared, Sharing
<1>15. PICK others : others = shapes \ {root}
  OBVIOUS
<1>16. PICK T : T = BelowIn(nodes, others)
  OBVIOUS
<1>17. others \subseteq DOMAIN nodes /\ others \subseteq T /\ T \subseteq DOMAIN nodes /\ Closed(nodes, T)
  BY <1>8, <1>15, <1>16, BelowIsLeast
<1>18. T \cap P = {}
  <2> SUFFICES ASSUME NEW x \in T \cap P PROVE FALSE
    OBVIOUS
  <2>1. PICK s \in others : x \in BelowIn(nodes, {s})
    BY <1>8, <1>16, <1>17, BelowEach
  <2>2. x \in R /\ x \notin C
    BY <1>7
  <2> QED BY <1>14, <1>15, <2>1, <2>2
<1>19. AlikeIn(nodes, ms, T)
  BY <1>11, <1>17, <1>18, CopiedAlike
<1>20. \A i \in DOMAIN nodes : ms[i].held = (nodes[i].held \/ i \in {})
  <2>1. CopyMade(C, P, {}, ms)
    BY <1>7, <1>1, CopyBelowMakes
  <2> QED BY <2>1 DEF CopyMade
<1>21. StillHeld(nodes, ms, T)
  BY <1>17, <1>19, <1>20 DEF StillHeld
<1>22. Sharing(nodes, shapes)
  BY DEF Shared
<1>23. Sharing(ms, others)
  BY <1>8, <1>15, <1>17, <1>21, <1>22, SharingStill
<1>24. cp[root] = root /\ \A i \in C : cp[i] \in slots + 1..m
  BY <1>8, <1>11, <1>13 DEF CopyStep, Copying
<1>25. AllCopies(cp, R, BelowIn(ms, {root}))
  <2>1. Settles(nodes, C, P, R)
    BY <1>7 DEF Settles
  <2>2. root = cp[root]
    BY <1>24
  <2> QED BY <1>6, <1>8, <1>11, <2>1, <2>2, CopiedApart
<1>26. \A s \in others : BelowIn(ms, {s}) = BelowIn(nodes, {s}) /\ BelowIn(nodes, {s}) \subseteq DOMAIN nodes
  <2>1. Ordered(nodes) /\ Ordered(ms)
    BY <1>8
  <2>2. \A i \in T : BelowIn(ms, {i}) = BelowIn(nodes, {i}) /\ BelowIn(nodes, {i}) \subseteq T
    BY <1>19, <2>1, AlikeBelowEach
  <2> QED BY <1>17, <2>2
<1>27. ASSUME NEW s \in others, NEW x \in BelowIn(ms, {root}) \cap BelowIn(ms, {s}) PROVE FALSE
  <2>1. PICK i \in R : x = cp[i]
    BY <1>25 DEF AllCopies
  <2>2. x \in BelowIn(nodes, {s}) /\ x \in DOMAIN nodes
    BY <1>26
  <2>3. i \notin C
    <3>1. \A k \in slots + 1..m : k \notin 1..slots
      BY <1>8, <1>11 DEF CopyStep
    <3> QED BY <1>8, <1>24, <2>1, <2>2, <3>1
  <2>4. i \in DOMAIN nodes
    <3>1. {root} \subseteq DOMAIN nodes
      BY <1>8
    <3> QED BY <1>6, <1>8, <3>1, BelowIsLeast
  <2>5. x = i
    BY <1>11, <2>1, <2>3, <2>4 DEF CopyStep, Copying
  <2> QED BY <1>14, <1>15, <2>2, <2>3, <2>5
<1>28. Apart(ms, root)
  BY <1>15, <1>27 DEF Apart
<1> QED BY <1>15, <1>23, <1>28, <1>1

(* So what is shared is still held.                                        *)
LEMMA UnshareShares ==
    ASSUME IInv, IInv', Shared, NEW root \in shapes, Unshare(root)
    PROVE  Shared'
<1>1. PICK ms : ms = nodes'
  OBVIOUS
<1>2. Apart(ms, root) /\ Sharing(ms, shapes \ {root})
  BY <1>1, UnsharedApart
<1>3. Sharing(ms, shapes)
  <2> SUFFICES ASSUME NEW r \in shapes, NEW s \in shapes, r # s,
                      NEW x \in BelowIn(ms, {r}) \cap BelowIn(ms, {s})
               PROVE  HeldOver(ms, r, x)
    BY DEF Sharing
  <2>1. r # root
    BY <1>2 DEF Apart
  <2>2. s # root
    BY <1>2 DEF Apart
  <2> QED BY <1>2, <2>1, <2>2 DEF Sharing
<1>4. shapes' = shapes /\ since' = NoOperation
  BY DEF Unshare
<1> QED BY <1>1, <1>3, <1>4 DEF Shared, Making

(* What is read in is shared with nothing.                                 *)
LEMMA ReadIntoShares ==
    ASSUME IInv, IInv', Shared, NEW root \in shapes, ReadInto(root)
    PROVE  Shared'
<1>1. PICK C : C = Below({root})
  OBVIOUS
<1>2. PICK ms : ms = nodes'
  OBVIOUS
<1>3. PICK m : m = slots + Cardinality(C)
  OBVIOUS
<1>4. PICK cp : cp = Moved(C)
  OBVIOUS
<1>5. CopyStep(nodes, ms, slots, m, C, {}, cp) /\ shapes' = shapes \cup {cp[root]}
  BY <1>1, <1>2, <1>3, <1>4, ReadIntoCopies DEF CopyStands
<1>6. /\ Ordered(nodes) /\ shapes \subseteq DOMAIN nodes /\ root \in DOMAIN nodes
      /\ Ordered(ms) /\ DOMAIN nodes \subseteq 1..slots /\ Closed(nodes, DOMAIN nodes)
  BY <1>2, NodesAreWell DEF IInv, Graph, AlikeIn
<1>7. C = BelowIn(nodes, {root}) /\ C \subseteq DOMAIN nodes /\ root \in C
  <2>1. C = BelowIn(nodes, {root}) /\ {root} \subseteq DOMAIN nodes
    BY <1>1, <1>6, BelowIs
  <2> QED BY <1>6, <2>1, BelowIsLeast
<1>8. AlikeIn(nodes, ms, DOMAIN nodes)
  <2>1. DOMAIN nodes \cap {} = {}
    OBVIOUS
  <2> QED BY <1>5, <1>6, <2>1, CopiedAlike
<1>9. CopyMade(C, {}, {}, ms)
  BY <1>1, <1>2, ReadIntoMakes
<1>10. \A i \in DOMAIN nodes : nodes[i].held => ms[i].held
  BY <1>9 DEF CopyMade
<1>11. StillHeld(nodes, ms, DOMAIN nodes) /\ Sharing(nodes, shapes)
  BY <1>8, <1>10 DEF StillHeld, Shared
<1>12. Sharing(ms, shapes)
  BY <1>6, <1>11, SharingStill
<1>13. \A i \in DOMAIN nodes : BelowIn(ms, {i}) = BelowIn(nodes, {i}) /\ BelowIn(nodes, {i}) \subseteq DOMAIN nodes
  BY <1>6, <1>8, AlikeBelowEach, Zenon
<1>14. PICK new : new = cp[root]
  OBVIOUS
<1>15. AllCopies(cp, C, BelowIn(ms, {new}))
  <2>1. Settles(nodes, C, {}, C)
    BY DEF Settles
  <2> QED BY <1>5, <1>6, <1>7, <1>14, <2>1, CopiedApart
<1>16. \A i \in C : cp[i] \notin DOMAIN nodes
  BY <1>5, <1>6 DEF CopyStep, Copying
<1>17. ASSUME NEW s \in shapes, NEW x \in BelowIn(ms, {new}) \cap BelowIn(ms, {s}) PROVE FALSE
  <2>1. x \in DOMAIN nodes
    BY <1>6, <1>13
  <2>2. PICK i \in C : x = cp[i]
    BY <1>15 DEF AllCopies
  <2> QED BY <1>16, <2>1, <2>2
<1>18. Sharing(ms, shapes \cup {new})
  <2> SUFFICES ASSUME NEW r \in shapes \cup {new}, NEW s \in shapes \cup {new}, r # s,
                      NEW x \in BelowIn(ms, {r}) \cap BelowIn(ms, {s})
               PROVE  HeldOver(ms, r, x)
    BY DEF Sharing
  <2>1. r \in shapes /\ s \in shapes
    BY <1>17
  <2> QED BY <1>12, <2>1 DEF Sharing
<1>19. since' = NoOperation
  BY DEF ReadInto
<1> QED BY <1>2, <1>5, <1>14, <1>18, <1>19 DEF Shared, Making

(* The copies an operation goes on with point at what lies below shapes,   *)
(* as nodes it made may.                                                   *)
LEMMA UnshareEachShares ==
    ASSUME IInv, IInv', Shared, NEW roots \in SUBSET shapes, UnshareEach(roots)
    PROVE  Shared'
<1>1. PICK C : C = OnTheWay(roots)
  OBVIOUS
<1>2. PICK noted : noted = SharedBy(C)
  OBVIOUS
<1>3. CopyBelow(C, {}, noted) /\ C \in SUBSET DOMAIN nodes /\ {} \in SUBSET DOMAIN nodes
  BY <1>1, <1>2, HeldAreLive DEF UnshareEach
<1>4. PICK ms : ms = nodes'
  OBVIOUS
<1>5. PICK m : m = slots + Cardinality(C)
  OBVIOUS
<1>6. PICK cp : cp = Moved(C)
  OBVIOUS
<1>7. CopyStep(nodes, ms, slots, m, C, {}, cp)
  BY <1>3, <1>4, <1>5, <1>6, CopyBelowStands DEF CopyStands
<1>8. Laid(nodes, ms, slots, m, C, cp)
  BY <1>7, CopyFacts
<1>9. /\ Ordered(nodes) /\ shapes \subseteq DOMAIN nodes /\ Ordered(ms)
      /\ DOMAIN nodes \subseteq 1..slots /\ Closed(nodes, DOMAIN nodes) /\ slots \in Nat
      /\ roots \subseteq DOMAIN nodes
  BY <1>4, NodesAreWell DEF IInv, Graph, AlikeIn
<1>10. AlikeIn(nodes, ms, DOMAIN nodes)
  <2>1. DOMAIN nodes \cap {} = {}
    OBVIOUS
  <2> QED BY <1>7, <1>9, <2>1, CopiedAlike
<1>11. \A i \in DOMAIN nodes : nodes[i].held => ms[i].held
  <2>1. CopyMade(C, {}, noted, ms)
    BY <1>3, <1>4, CopyBelowMakes
  <2> QED BY <2>1 DEF CopyMade
<1>12. StillHeld(nodes, ms, DOMAIN nodes) /\ Sharing(nodes, shapes)
  BY <1>10, <1>11 DEF StillHeld, Shared
<1>13. Sharing(ms, shapes)
  BY <1>9, <1>12, SharingStill
<1>14. PICK B : B = BelowIn(nodes, shapes)
  OBVIOUS
<1>15. B \subseteq DOMAIN nodes /\ Closed(nodes, B) /\ C \subseteq B
  <2>1. B \subseteq DOMAIN nodes /\ Closed(nodes, B) /\ shapes \subseteq B
    BY <1>9, <1>14, BelowIsLeast
  <2>2. BelowIn(nodes, roots) \subseteq B
    <3>1. roots \subseteq B
      BY <2>1
    <3> QED BY <1>9, <2>1, <3>1, BelowIsLeast
  <2>3. C \subseteq BelowIn(nodes, roots)
    BY <1>1, BelowIs DEF OnTheWay
  <2> QED BY <2>1, <2>2, <2>3
<1>16. BelowIn(ms, shapes) = B
  <2>1. AlikeIn(nodes, ms, B)
    BY <1>10, <1>15 DEF AlikeIn
  <2> QED BY <1>9, <1>14, <2>1, AlikeBelow
<1>17. MakingOf(ms, shapes, slots)
  <2>1. shapes \subseteq 1..slots
    BY <1>9
  <2>2. ASSUME NEW k \in DOMAIN ms \ DOMAIN nodes
        PROVE  \A c \in ms[k].children : c > slots \/ c \in B
    <3>1. PICK i \in C : k = cp[i]
      BY <1>8 DEF Laid
    <3>2. ms[k].children = Pointed(cp, nodes[i].children) /\ nodes[i].children \subseteq B
      BY <1>7, <1>15, <3>1 DEF CopyStep, CopiedInto, Copy, Closed
    <3>3. \A c \in B : cp[c] > slots \/ cp[c] = c
      <4>1. \A c \in C : cp[c] \in slots + 1..m /\ m \in Nat
        BY <1>7 DEF CopyStep, Copying
      <4>2. \A c \in DOMAIN nodes \ C : cp[c] = c
        BY <1>7 DEF CopyStep, Copying
      <4>3. \A c \in C : cp[c] > slots
        BY <1>9, <4>1
      <4> QED BY <1>15, <4>2, <4>3
    <3> QED BY <3>2, <3>3 DEF Pointed
  <2>3. ASSUME NEW k \in DOMAIN ms \ DOMAIN nodes PROVE k > slots
    <3>1. PICK i \in C : k = cp[i]
      BY <1>8 DEF Laid
    <3>2. k \in slots + 1..m /\ m \in Nat
      BY <1>7, <3>1 DEF CopyStep, Copying
    <3> QED BY <1>9, <3>2
  <2>4. ASSUME NEW k \in DOMAIN nodes
        PROVE  ms[k].children \subseteq 1..slots /\ ~(k > slots)
    <3>1. ms[k].children = nodes[k].children /\ nodes[k].children \subseteq DOMAIN nodes
      BY <1>9, <1>10 DEF AlikeIn, Ordered
    <3>2. k \in 1..slots
      BY <1>9
    <3> QED BY <1>9, <3>1, <3>2
  <2>5. ASSUME NEW i \in DOMAIN ms, i <= slots PROVE ms[i].children \subseteq 1..slots
    <3>1. CASE i \in DOMAIN nodes
      BY <2>4, <3>1
    <3>2. CASE i \notin DOMAIN nodes
      <4>1. PICK j \in C : i = cp[j]
        BY <1>8, <3>2 DEF Laid
      <4>2. i \in slots + 1..m /\ m \in Nat
        BY <1>7, <4>1 DEF CopyStep, Copying
      <4> QED BY <1>9, <2>5, <4>2
    <3> QED BY <3>1, <3>2
  <2>6. ASSUME NEW i \in DOMAIN ms, i > slots
        PROVE  \A c \in ms[i].children : c > slots \/ c \in B
    BY <2>2, <2>4, <2>6
  <2> QED BY <1>16, <2>1, <2>5, <2>6 DEF MakingOf
<1>18. shapes' = shapes /\ since' = slots
  BY DEF UnshareEach
<1> QED BY <1>4, <1>13, <1>17, <1>18 DEF Shared, Making

(* What is dropped is shared by nobody.                                    *)
LEMMA RetainShares ==
    ASSUME IInv, IInv', Shared, NEW roots \in SUBSET shapes, RetainReachable(roots)
    PROVE  Shared'
<1>1. PICK K : K = Below(roots)
  OBVIOUS
<1>2. PICK ms : ms = nodes'
  OBVIOUS
<1>3. PICK F : F = K \cap FacesOf(nodes)
  OBVIOUS
<1>4. Retained(K, F, ms)
  BY <1>1, <1>2, <1>3, RetainMakes
<1>5. Ordered(nodes) /\ Ordered(ms) /\ Sharing(nodes, shapes)
  BY <1>2 DEF IInv, Graph, Shared
<1>6. StillHeld(nodes, ms, K)
  BY <1>4 DEF Retained, StillHeld, AlikeIn, Untouched
<1>7. PICK left : left = shapes \cap K
  OBVIOUS
<1>8. Sharing(ms, left)
  BY <1>5, <1>6, <1>7, SharingStill
<1>9. shapes' = left /\ since' = NoOperation
  BY <1>1, <1>7 DEF RetainReachable
<1> QED BY <1>2, <1>8, <1>9 DEF Shared, Making

(* An operation begins with nothing made.                                  *)
LEMMA BeginShares == ASSUME IInv, Shared, Begin PROVE Shared'
<1>1. /\ nodes' = nodes /\ shapes' = shapes /\ since' = slots
      /\ slots \in Nat /\ DOMAIN nodes \subseteq 1..slots /\ shapes \subseteq DOMAIN nodes
      /\ Ordered(nodes)
  BY NodesAreWell DEF Begin
<1>2. \A i \in DOMAIN nodes : nodes[i].children \subseteq 1..slots /\ ~(i > slots)
  BY <1>1 DEF Ordered
<1>3. MakingOf(nodes, shapes, slots)
  BY <1>1, <1>2 DEF MakingOf
<1> QED BY <1>1, <1>3 DEF Shared, Making

-----------------------------------------------------------------------------
(* The theorems about what is shared.                                      *)

(* Steps that change neither nodes nor shapes.                             *)
LEMMA SameShares ==
    ASSUME IInv, IInv', Shared, nodes' = nodes, shapes' = shapes, since' = since
    PROVE  Shared'
BY UnchangedShares

(* No shapes, nothing shared.                                              *)
LEMMA InitShares == Init => Shared
<1> SUFFICES ASSUME Init PROVE Shared
  OBVIOUS
<1>1. shapes = {} /\ since = NoOperation
  BY DEF Init
<1> QED BY <1>1 DEF Shared, Sharing, Making

(* Every step leaves what is shared held.                                  *)
LEMMA StepShares ==
    ASSUME IInv, IInv', Shared, Next
    PROVE  Shared'
<1>1. CASE Begin
  BY <1>1, BeginShares
<1>2. CASE AddVertex
  <2>1. {} \subseteq Made \cup Below(shapes)
    OBVIOUS
  <2> QED BY <1>2, <2>1, InsertShares DEF AddVertex
<1>3. ASSUME NEW kind, NEW children \in SUBSET OfKind(kind) PROVE children \subseteq Made \cup Below(shapes)
  BY DEF OfKind
<1>4. ASSUME NEW ends \in SUBSET OfKind("vertex"), AddEdge(ends) PROVE Shared'
  <2>1. Insert("edge", ends) /\ ends \subseteq Made \cup Below(shapes)
    BY <1>3, <1>4 DEF AddEdge
  <2> QED BY <2>1, InsertShares
<1>5. ASSUME NEW edges \in SUBSET OfKind("edge"), AddFace(edges) PROVE Shared'
  <2>1. Insert("face", edges) /\ edges \subseteq Made \cup Below(shapes)
    BY <1>3, <1>5 DEF AddFace
  <2> QED BY <2>1, InsertShares
<1>6. ASSUME NEW faces \in SUBSET OfKind("face"), AddShell(faces) PROVE Shared'
  <2>1. Insert("shell", faces) /\ faces \subseteq Made \cup Below(shapes)
    BY <1>3, <1>6 DEF AddShell
  <2> QED BY <2>1, InsertShares
<1>7. ASSUME NEW result \in Made \cup Below(shapes), End(result) PROVE Shared'
  BY <1>7, EndShares
<1>8. \A i \in DOMAIN nodes : nodes[i] \in Node
  BY NodesAreWell
<1>9. ASSUME NEW i \in DOMAIN nodes, NodeMut(i) PROVE Shared'
  <2>1. PICK data : data = nodes[i].data + 1
    OBVIOUS
  <2>2. /\ nodes' = [nodes EXCEPT ![i].data = @ + 1] /\ shapes' = shapes /\ since' = since
    BY <1>9 DEF NodeMut
  <2>3. DOMAIN nodes' = DOMAIN nodes
    BY <2>2
  <2>4. \A j \in DOMAIN nodes : nodes'[j] = nodes[j] \/ nodes'[j] = [nodes[j] EXCEPT !.data = data]
    BY <2>1, <2>2
  <2>5. \A j \in DOMAIN nodes : /\ nodes'[j].kind = nodes[j].kind
                                /\ nodes'[j].children = nodes[j].children
                                /\ nodes'[j].held = nodes[j].held
    BY <1>8, <2>4 DEF Node
  <2> QED BY <2>2, <2>3, <2>5, UnchangedShares
<1>10. ASSUME NEW S, NEW to, shapes' = shapes, since' = since,
              nodes' = [j \in DOMAIN nodes |->
                           IF j \in S THEN [nodes[j] EXCEPT !.tolerance = to] ELSE nodes[j]]
       PROVE  Shared'
  <2>1. DOMAIN nodes' = DOMAIN nodes
    BY <1>10
  <2>2. \A j \in DOMAIN nodes : nodes'[j] = nodes[j] \/ nodes'[j] = [nodes[j] EXCEPT !.tolerance = to]
    BY <1>10
  <2>3. \A j \in DOMAIN nodes : /\ nodes'[j].kind = nodes[j].kind
                                /\ nodes'[j].children = nodes[j].children
                                /\ nodes'[j].held = nodes[j].held
    BY <1>8, <2>2 DEF Node
  <2> QED BY <1>10, <2>1, <2>3, UnchangedShares
<1>11. ASSUME NEW i \in DOMAIN nodes, NEW to \in 1..MaxChanges, Widen(i, to) PROVE Shared'
  <2>1. PICK S : S = {j \in Below({i}) : nodes[j].kind # "shell" /\ nodes[j].tolerance < to}
    OBVIOUS
  <2> QED BY <1>10, <1>11, <2>1 DEF Widen
<1>12. ASSUME NEW S, UndoWidened(S) PROVE Shared'
  BY <1>10, <1>12 DEF UndoWidened
<1>13. CASE RewriteSurface \/ RewritePcurve
  BY <1>13, SameShares DEF RewriteSurface, RewritePcurve
<1>14. ASSUME NEW root \in shapes, Unshare(root) PROVE Shared'
  BY <1>14, UnshareShares
<1>15. ASSUME NEW root \in shapes, ReadInto(root) PROVE Shared'
  BY <1>15, ReadIntoShares
<1>16. ASSUME NEW roots \in SUBSET shapes, UnshareEach(roots) PROVE Shared'
  BY <1>16, UnshareEachShares
<1>17. ASSUME NEW r \in Readers, NEW i \in Below(shapes), AskBox(r, i) \/ AskRead(r, i) PROVE Shared'
  BY <1>17, SameShares DEF AskBox, AskRead
<1>18. ASSUME NEW r \in Readers, StoreAny(r) \/ InitBox(r) \/ Walk(r) \/ KeepRead(r) PROVE Shared'
  BY <1>18, SameShares DEF StoreAny, InitBox, Walk, KeepRead
<1>19. CASE CloneBoxes
  BY <1>19, SameShares DEF CloneBoxes
<1>20. CASE CloneRest
  BY <1>20, SameShares DEF CloneRest
<1>21. ASSUME NEW roots \in SUBSET shapes, RetainReachable(roots) PROVE Shared'
  BY <1>21, RetainShares
<1> QED
  BY <1>1, <1>2, <1>4, <1>5, <1>6, <1>7, <1>9, <1>11, <1>12, <1>13, <1>14, <1>15, <1>16, <1>17,
     <1>18, <1>19, <1>20, <1>21 DEF Next

(* What two shapes share is held, through every operation: it notes the    *)
(* older nodes first met below its result, and copies what it edits.       *)
THEOREM SharedIsHeld == Spec => []Shared
<1>1. Init => Shared
  BY InitShares
<1>2. IInv /\ IInv' /\ Shared /\ [Next]_vars => Shared'
  <2> SUFFICES ASSUME IInv, IInv', Shared, [Next]_vars PROVE Shared'
    OBVIOUS
  <2>1. CASE Next
    BY <2>1, StepShares
  <2>2. CASE UNCHANGED vars
    BY <2>2, SameShares DEF vars
  <2> QED BY <2>1, <2>2
<1> QED BY <1>1, <1>2, Inductive, PTL DEF Spec

(* Once a shape is unshared no other shape callers hold has a node below   *)
(* it: what it shares is held, so it is copied, and what is repointed lies *)
(* below no other shape (unshare).                                         *)
THEOREM UnsharedStandsAlone == Spec => UnsharedIsAlone
<1>1. IInv /\ IInv' /\ Shared /\ [Next]_vars =>
        [\A root \in shapes : Unshare(root) =>
            \A other \in shapes \ {root} : (Below({root}))' \cap (Below({other}))' = {}]_vars
  <2> SUFFICES ASSUME IInv, IInv', Shared, NEW root \in shapes, Unshare(root),
                      NEW other \in shapes \ {root}
               PROVE  (Below({root}))' \cap (Below({other}))' = {}
    OBVIOUS
  <2>1. PICK ms : ms = nodes'
    OBVIOUS
  <2>2. Apart(ms, root)
    BY <2>1, UnsharedApart
  <2>3. (Below({root}))' = BelowIn(ms, {root}) /\ (Below({other}))' = BelowIn(ms, {other})
    BY <2>1 DEF Below, BelowIn, WithChildren, WithKids, Children, Kids
  <2> QED BY <2>2, <2>3 DEF Apart
<1> QED BY <1>1, Inductive, SharedIsHeld, PTL DEF Spec, UnsharedIsAlone
=============================================================================
