-------------------------- MODULE ProvenanceProofs --------------------------
(***************************************************************************)
(* Proofs about the modules Provenance and Operations: however many        *)
(* identities are recorded, forgotten and packed in whatever order, an     *)
(* identity answers with what it was recorded with until it is forgotten;  *)
(* and however many operations are chained, their histories compose alike  *)
(* in place, afresh and however bracketed, and lead back to the originals  *)
(* the table records.                                                      *)
(***************************************************************************)
EXTENDS Operations, FiniteSetTheorems, SequenceTheorems, WellFoundedInduction, TLAPS

-----------------------------------------------------------------------------
(* The entries ascend, and each is of an identity issued.                  *)
Ascend ==
    /\ \A i, j \in DOMAIN entries : i < j => entries[i].id < entries[j].id
    /\ \A i \in DOMAIN entries : entries[i].id <= issued

(* The tail is the gapless run found by arithmetic.                        *)
TailRuns == RunsToLast(entries, Len(entries) - tail_at)

(* Each entry holds what its identity was recorded with, or nothing.       *)
Hold ==
    \A i \in DOMAIN entries :
        entries[i].from = IF entries[i].id \in dropped THEN Forgotten
                          ELSE lineage[entries[i].id]

(* An identity without an entry was forgotten.                             *)
Complete == \A id \in (1..issued) \ dropped : \E i \in DOMAIN entries : entries[i].id = id

IInv == TypeOK /\ Ascend /\ TailRuns /\ Hold /\ Complete

LEMMA Basics ==
    ASSUME IInv
    PROVE  /\ Len(entries) \in Nat /\ tail_at \in Nat /\ tail_at <= Len(entries)
           /\ issued \in Nat /\ MaxId \in Nat /\ issued <= MaxId
           /\ DOMAIN entries = 1..Len(entries)
           /\ \A i \in 1..Len(entries) : /\ entries[i].id \in 1..issued
                                         /\ entries[i].id \in Nat
<1>1. /\ entries \in Seq([id : Ids, from : (SUBSET Ids) \cup {Forgotten}])
      /\ tail_at \in 0..Len(entries) /\ issued \in 0..MaxId
  BY DEF IInv, TypeOK
<1>2. /\ Len(entries) \in Nat /\ tail_at \in Nat /\ tail_at <= Len(entries)
      /\ issued \in Nat /\ MaxId \in Nat /\ issued <= MaxId
      /\ DOMAIN entries = 1..Len(entries)
  BY <1>1, MaxIdAssumption
<1>3. ASSUME NEW i \in 1..Len(entries) PROVE entries[i].id \in 1..issued /\ entries[i].id \in Nat
  <2> DEFINE S == [id : Ids, from : (SUBSET Ids) \cup {Forgotten}]
  <2>4. entries \in Seq(S)
    BY <1>1
  <2>3. entries[i] \in S
    <3> HIDE DEF S
    <3> QED BY <2>4, <1>3
  <2>1. entries[i].id \in Ids
    BY <2>3
  <2>2. entries[i].id <= issued
    BY <1>2, <1>3 DEF IInv, Ascend
  <2> QED BY <2>1, <2>2, <1>2 DEF Ids
<1> QED BY <1>2, <1>3

(* The entries of the tail, counted from its first.                        *)
LEMMA TailIs ==
    ASSUME IInv, NEW i \in (tail_at + 1)..Len(entries)
    PROVE  entries[i].id = TailFirst + (i - tail_at - 1)
<1> DEFINE k == Len(entries) + 1 - i
<1>1. k \in 1..(Len(entries) - tail_at) /\ Len(entries) + 1 - k = i
  BY Basics
<1>2. entries[i].id + k - 1 = issued
  BY <1>1 DEF IInv, TailRuns, RunsToLast
<1>3. entries[i].id \in Nat
  BY Basics
<1>4. issued \in Nat /\ Len(entries) \in Nat /\ tail_at \in Nat /\ i \in Int
  BY Basics
<1> QED BY <1>2, <1>3, <1>4 DEF TailFirst

(* What precedes the tail lies below it.                                   *)
LEMMA BeforeTail ==
    ASSUME IInv, NEW i \in 1..tail_at
    PROVE  entries[i].id < TailFirst
<1>1. CASE tail_at = Len(entries)
  BY <1>1, Basics DEF TailFirst
<1>2. CASE tail_at # Len(entries)
  <2>1. tail_at + 1 \in (tail_at + 1)..Len(entries) /\ tail_at + 1 \in 1..Len(entries)
    BY <1>2, Basics
  <2>2. entries[tail_at + 1].id = TailFirst
    BY <2>1, TailIs, Basics DEF TailFirst
  <2>3. i \in 1..Len(entries) /\ i < tail_at + 1
    BY Basics
  <2> QED BY <2>1, <2>2, <2>3, Basics DEF IInv, Ascend
<1> QED BY <1>1, <1>2

(* A position is of the identity's own entry, and there is one wherever    *)
(* there is such an entry.                                                 *)
LEMMA PositionIs ==
    ASSUME IInv, NEW id \in 1..(issued + 1)
    PROVE  /\ Position(id) # 0 => Position(id) \in DOMAIN entries /\ entries[Position(id)].id = id
           /\ Position(id) = 0 => \A i \in DOMAIN entries : entries[i].id # id
<1>0. id \in Nat /\ TailFirst \in Int
  BY Basics DEF TailFirst
<1>1. CASE id >= TailFirst
  <2> DEFINE at == tail_at + (id - TailFirst) + 1
  <2>1. at \in Nat /\ at >= tail_at + 1
    BY <1>0, <1>1, Basics
  <2>2. CASE at <= Len(entries)
    <3>1. Position(id) = at
      BY <1>1, <2>2 DEF Position, TailPosition
    <3>2. at \in (tail_at + 1)..Len(entries) /\ at \in 1..Len(entries) /\ at # 0
      BY <2>1, <2>2, Basics
    <3>3. entries[at].id = TailFirst + (at - tail_at - 1)
      BY <3>2, TailIs
    <3>4. TailFirst + (at - tail_at - 1) = id
      BY <1>0, Basics
    <3> QED BY <3>1, <3>2, <3>3, <3>4, Basics
  <2>3. CASE ~(at <= Len(entries))
    <3>1. Position(id) = 0
      BY <1>1, <2>3 DEF Position, TailPosition
    <3>2. ASSUME NEW i \in 1..Len(entries) PROVE entries[i].id # id
      <4>1. CASE i <= tail_at
        BY <4>1, <1>0, <1>1, BeforeTail, Basics
      <4>2. CASE i > tail_at
        <5>1. entries[i].id = TailFirst + (i - tail_at - 1)
          BY <4>2, TailIs, Basics
        <5> QED BY <5>1, <2>3, <1>0, Basics
      <4> QED BY <4>1, <4>2, Basics
    <3> QED BY <3>1, <3>2, Basics
  <2> QED BY <2>2, <2>3
<1>2. CASE ~(id >= TailFirst)
  <2>1. Position(id) = Search(id)
    BY <1>2 DEF Position
  <2>2. CASE \E i \in 1..tail_at : entries[i].id = id
    <3>1. Search(id) \in 1..tail_at /\ entries[Search(id)].id = id
      BY <2>2 DEF Search
    <3> QED BY <2>1, <3>1, Basics
  <2>3. CASE ~\E i \in 1..tail_at : entries[i].id = id
    <3>1. Search(id) = 0
      BY <2>3 DEF Search
    <3>2. ASSUME NEW i \in 1..Len(entries) PROVE entries[i].id # id
      <4>1. CASE i <= tail_at
        BY <4>1, <2>3, Basics
      <4>2. CASE i > tail_at
        <5>1. entries[i].id = TailFirst + (i - tail_at - 1)
          BY <4>2, TailIs, Basics
        <5> QED BY <5>1, <4>2, <1>2, <1>0, Basics
      <4> QED BY <4>1, <4>2, Basics
    <3> QED BY <2>1, <3>1, <3>2, Basics
  <2> QED BY <2>2, <2>3
<1> QED BY <1>1, <1>2

(* What an identity answers.                                               *)
LEMMA AnswerIs ==
    ASSUME IInv, NEW id \in 1..(issued + 1)
    PROVE  Get(id) = IF id \in DOMAIN lineage \ dropped THEN lineage[id] ELSE Forgotten
<1>1. /\ lineage \in [1..issued -> SUBSET Ids] /\ dropped \in SUBSET (1..issued)
      /\ DOMAIN lineage = 1..issued
  BY DEF IInv, TypeOK
<1>2. CASE Position(id) = 0
  <2>1. Get(id) = Forgotten
    BY <1>2 DEF Get
  <2>2. \A i \in DOMAIN entries : entries[i].id # id
    BY <1>2, PositionIs
  <2>3. id \notin (1..issued) \ dropped
    BY <2>2 DEF IInv, Complete
  <2> QED BY <1>1, <2>1, <2>3
<1>3. CASE Position(id) # 0
  <2> DEFINE at == Position(id)
  <2>1. Get(id) = entries[at].from /\ at \in DOMAIN entries /\ entries[at].id = id
    BY <1>3, PositionIs DEF Get
  <2> HIDE DEF at
  <2>2. entries[at].from = IF id \in dropped THEN Forgotten ELSE lineage[id]
    BY <2>1 DEF IInv, Hold
  <2>3. id \in 1..issued
    BY <2>1, Basics
  <2> QED BY <1>1, <2>1, <2>2, <2>3
<1> QED BY <1>2, <1>3

-----------------------------------------------------------------------------
(* Each operation keeps the invariant.                                     *)
LEMMA RecordKeeps ==
    ASSUME IInv, NEW from \in SUBSET (1..issued), Record(from)
    PROVE  IInv'
<1> DEFINE n == Len(entries)
           new == [id |-> NextId, from |-> from]
<1>1. /\ entries' = Append(entries, new) /\ issued' = issued + 1 /\ issued < MaxId
      /\ lineage' = Append(lineage, from) /\ tail_at' = tail_at /\ dropped' = dropped
  BY DEF Record
<1>2. /\ entries \in Seq([id : Ids, from : (SUBSET Ids) \cup {Forgotten}])
      /\ tail_at \in 0..Len(entries) /\ issued \in 0..MaxId
      /\ lineage \in [1..issued -> SUBSET Ids] /\ dropped \in SUBSET (1..issued)
  BY DEF IInv, TypeOK
<1>3. from \in SUBSET Ids /\ NextId \in Ids
  BY <1>1, Basics DEF Ids, NextId
<1>4. new \in [id : Ids, from : (SUBSET Ids) \cup {Forgotten}]
  BY <1>3
<1>5. /\ entries' \in Seq([id : Ids, from : (SUBSET Ids) \cup {Forgotten}])
      /\ Len(entries') = n + 1 /\ DOMAIN entries' = 1..(n + 1)
      /\ \A i \in 1..n : entries'[i] = entries[i]
      /\ entries'[n + 1] = new
  BY <1>1, <1>2, <1>4
<1>6. new.id = issued + 1 /\ new.from = from
  BY DEF NextId
<1> HIDE DEF new
<1>7. /\ lineage' \in [1..(issued + 1) -> SUBSET Ids]
      /\ \A id \in 1..issued : lineage'[id] = lineage[id]
      /\ lineage'[issued + 1] = from
  <2>1. lineage \in Seq(SUBSET Ids) /\ Len(lineage) = issued
    BY <1>2, Basics
  <2>2. /\ lineage' \in Seq(SUBSET Ids) /\ Len(lineage') = issued + 1
        /\ \A id \in 1..issued : lineage'[id] = lineage[id]
        /\ lineage'[issued + 1] = from
    BY <1>1, <1>3, <2>1
  <2> QED BY <2>2
<1>8. TypeOK'
  <2>1. tail_at' \in 0..Len(entries') /\ issued' \in 0..MaxId /\ dropped' \in SUBSET (1..issued')
    BY <1>1, <1>2, <1>5, Basics
  <2> QED BY <2>1, <1>1, <1>5, <1>7 DEF TypeOK
<1>9. Ascend'
  <2>1. ASSUME NEW i \in 1..(n + 1), NEW j \in 1..(n + 1), i < j
        PROVE  entries'[i].id < entries'[j].id
    <3>1. i \in 1..n
      BY <2>1, Basics
    <3>2. CASE j = n + 1
      BY <3>1, <3>2, <1>5, <1>6, Basics
    <3>3. CASE j # n + 1
      <4>1. j \in 1..n
        BY <3>3, Basics
      <4> QED BY <3>1, <4>1, <2>1, <1>5, Basics DEF IInv, Ascend
    <3> QED BY <3>2, <3>3
  <2>2. ASSUME NEW i \in 1..(n + 1) PROVE entries'[i].id <= issued + 1
    <3>1. CASE i = n + 1
      BY <3>1, <1>5, <1>6, Basics
    <3>2. CASE i # n + 1
      <4>1. i \in 1..n
        BY <3>2, Basics
      <4> QED BY <4>1, <1>5, Basics
    <3> QED BY <3>1, <3>2
  <2> QED BY <2>1, <2>2, <1>1, <1>5 DEF Ascend
<1>10. TailRuns'
  <2>1. Len(entries') = n + 1 /\ tail_at' = tail_at /\ issued' = issued + 1
    BY <1>1, <1>5
  <2>2. ASSUME NEW k \in 1..(Len(entries') - tail_at')
        PROVE  entries'[Len(entries') + 1 - k].id + k - 1 = issued'
    <3> DEFINE m == Len(entries') + 1 - k
    <3>1. k \in Int /\ m \in 1..(n + 1) /\ m = n + 2 - k
      BY <2>1, Basics
    <3>2. CASE k = 1
      <4>1. m = n + 1
        BY <2>1, <3>2, Basics
      <4> QED BY <2>1, <3>2, <4>1, <1>5, <1>6, Basics
    <3>3. CASE k # 1
      <4>1. k - 1 \in 1..(n - tail_at) /\ n + 1 - (k - 1) = m /\ m \in 1..n
        BY <2>1, <3>3, Basics
      <4>2. entries[n + 1 - (k - 1)].id + (k - 1) - 1 = issued
        BY <4>1 DEF IInv, TailRuns, RunsToLast
      <4>3. entries[m].id + (k - 1) - 1 = issued
        BY <4>1, <4>2
      <4> HIDE DEF m
      <4>4. entries'[m].id = entries[m].id /\ entries[m].id \in Nat
        BY <4>1, <1>5, Basics
      <4>5. entries'[m].id + k - 1 = issued + 1
        BY <3>1, <4>3, <4>4, Basics, SMTT(30)
      <4> QED BY <2>1, <4>5 DEF m
    <3> QED BY <3>2, <3>3
  <2> QED BY <2>2 DEF TailRuns, RunsToLast
<1>11. Hold'
  <2>1. ASSUME NEW i \in 1..(n + 1)
        PROVE  entries'[i].from = IF entries'[i].id \in dropped THEN Forgotten
                                  ELSE lineage'[entries'[i].id]
    <3>1. CASE i = n + 1
      <4>1. issued + 1 \notin dropped
        BY <1>2, Basics
      <4> QED BY <3>1, <4>1, <1>5, <1>6, <1>7
    <3>2. CASE i # n + 1
      <4>1. i \in 1..n
        BY <3>2, Basics
      <4>2. entries[i].from = IF entries[i].id \in dropped THEN Forgotten
                              ELSE lineage[entries[i].id]
        BY <4>1, Basics DEF IInv, Hold
      <4> QED BY <4>1, <4>2, <1>5, <1>7, Basics
    <3> QED BY <3>1, <3>2
  <2> QED BY <2>1, <1>1, <1>5 DEF Hold
<1>12. Complete'
  <2>1. ASSUME NEW id \in 1..(issued + 1), id \notin dropped
        PROVE  \E i \in 1..(n + 1) : entries'[i].id = id
    <3>1. CASE id = issued + 1
      BY <3>1, <1>5, <1>6, Basics
    <3>2. CASE id # issued + 1
      <4>1. id \in (1..issued) \ dropped
        BY <2>1, <3>2, Basics
      <4>2. PICK i \in 1..n : entries[i].id = id
        BY <4>1, Basics DEF IInv, Complete
      <4> QED BY <4>2, <1>5, Basics
    <3> QED BY <3>1, <3>2
  <2> QED BY <2>1, <1>1, <1>5 DEF Complete
<1> QED BY <1>8, <1>9, <1>10, <1>11, <1>12 DEF IInv

LEMMA ForgetKeeps ==
    ASSUME IInv, NEW id \in 1..issued, Forget(id)
    PROVE  IInv'
<1> DEFINE at == Position(id)
           S == [id : Ids, from : (SUBSET Ids) \cup {Forgotten}]
<1>1. /\ at # 0 /\ entries' = [entries EXCEPT ![at].from = Forgotten]
      /\ dropped' = dropped \cup {id} /\ UNCHANGED <<tail_at, issued, lineage>>
  BY DEF Forget
<1>2. at \in DOMAIN entries /\ entries[at].id = id
  BY <1>1, PositionIs, Basics
<1>3. /\ entries \in Seq(S) /\ tail_at \in 0..Len(entries) /\ issued \in 0..MaxId
      /\ lineage \in [1..issued -> SUBSET Ids] /\ dropped \in SUBSET (1..issued)
  BY DEF IInv, TypeOK
<1> HIDE DEF at
<1>4. entries[at] \in S
  <2> HIDE DEF S
  <2> QED BY <1>2, <1>3
<1>5. [entries[at] EXCEPT !.from = Forgotten] \in S
  BY <1>4
<1>6. /\ entries' \in Seq(S) /\ Len(entries') = Len(entries) /\ DOMAIN entries' = DOMAIN entries
      /\ \A i \in DOMAIN entries \ {at} : entries'[i] = entries[i]
      /\ entries'[at] = [entries[at] EXCEPT !.from = Forgotten]
  <2> HIDE DEF S
  <2> QED BY <1>1, <1>2, <1>3, <1>5
<1>7. /\ \A i \in DOMAIN entries : entries'[i].id = entries[i].id
      /\ \A i \in DOMAIN entries \ {at} : entries'[i].from = entries[i].from
      /\ entries'[at].from = Forgotten
  BY <1>2, <1>4, <1>6
<1>8. TypeOK'
  BY <1>1, <1>3, <1>6 DEF TypeOK
<1>9. Ascend'
  BY <1>1, <1>6, <1>7 DEF IInv, Ascend
<1>10. TailRuns'
  <2>1. ASSUME NEW k \in 1..(Len(entries) - tail_at)
        PROVE  entries'[Len(entries) + 1 - k].id + k - 1 = issued
    <3>1. Len(entries) + 1 - k \in DOMAIN entries
      BY Basics
    <3>2. entries[Len(entries) + 1 - k].id + k - 1 = issued
      BY DEF IInv, TailRuns, RunsToLast
    <3> QED BY <3>1, <3>2, <1>7
  <2>2. Len(entries') = Len(entries) /\ tail_at' = tail_at /\ issued' = issued
    BY <1>1, <1>6
  <2> QED BY <2>1, <2>2 DEF TailRuns, RunsToLast
<1>11. Hold'
  <2>1. ASSUME NEW i \in DOMAIN entries
        PROVE  entries'[i].from = IF entries'[i].id \in dropped' THEN Forgotten
                                  ELSE lineage'[entries'[i].id]
    <3>1. CASE i = at
      <4>1. entries'[i].id = id /\ entries'[i].from = Forgotten
        BY <3>1, <1>2, <1>7
      <4>2. id \in dropped'
        BY <1>1
      <4> QED BY <4>1, <4>2
    <3>2. CASE i # at
      <4>1. entries[i].id # id
        <5>1. i < at \/ at < i
          BY <3>2, <1>2, Basics
        <5> QED BY <5>1, <1>2, Basics DEF IInv, Ascend
      <4>2. entries[i].from = IF entries[i].id \in dropped THEN Forgotten
                              ELSE lineage[entries[i].id]
        BY DEF IInv, Hold
      <4>3. entries'[i].id = entries[i].id /\ entries'[i].from = entries[i].from
        BY <3>2, <1>7
      <4>4. entries[i].id \in dropped' <=> entries[i].id \in dropped
        BY <4>1, <1>1
      <4>5. lineage' = lineage
        BY <1>1
      <4> QED BY <4>2, <4>3, <4>4, <4>5
    <3> QED BY <3>1, <3>2
  <2> QED BY <2>1, <1>6 DEF Hold
<1>12. Complete'
  <2>1. ASSUME NEW other \in 1..issued, other \notin dropped'
        PROVE  \E i \in DOMAIN entries : entries'[i].id = other
    <3>1. other \in (1..issued) \ dropped
      BY <2>1, <1>1
    <3> QED BY <3>1, <1>7 DEF IInv, Complete
  <2> QED BY <2>1, <1>1, <1>6 DEF Complete
<1> QED BY <1>8, <1>9, <1>10, <1>11, <1>12 DEF IInv

LEMMA RetainKeeps ==
    ASSUME IInv, NEW keep \in SUBSET (1..issued), Retain(keep)
    PROVE  IInv'
<1> DEFINE S == [id : Ids, from : (SUBSET Ids) \cup {Forgotten}]
           kept == {i \in DOMAIN entries : entries[i].from # Forgotten /\ entries[i].id \in keep}
<1>1. PICK n \in 0..Len(entries) : \E p \in [1..n -> DOMAIN entries] :
        /\ Range(p) = kept
        /\ \A i, j \in 1..n : i < j => p[i] < p[j]
        /\ entries' = Packed(p)
        /\ \E run \in 0..n : RunsToLast(Packed(p), run) /\ tail_at' = n - run
  BY Zenon DEF Retain
<1>2. PICK p \in [1..n -> DOMAIN entries] :
        /\ Range(p) = kept
        /\ \A i, j \in 1..n : i < j => p[i] < p[j]
        /\ entries' = Packed(p)
        /\ \E run \in 0..n : RunsToLast(Packed(p), run) /\ tail_at' = n - run
  BY <1>1, Zenon
<1>3. PICK run \in 0..n : RunsToLast(entries', run) /\ tail_at' = n - run
  BY <1>2
<1>4. /\ dropped' = 1..issued \ {id \in keep : Get(id) # Forgotten}
      /\ issued' = issued /\ lineage' = lineage
  BY DEF Retain
<1>5. /\ entries \in Seq(S) /\ issued \in 0..MaxId
      /\ lineage \in [1..issued -> SUBSET Ids] /\ dropped \in SUBSET (1..issued)
  BY DEF IInv, TypeOK
<1>6. n \in Nat /\ run \in Nat /\ run <= n
  BY <1>1, <1>3, Basics
<1>7. /\ entries' \in Seq(S) /\ Len(entries') = n /\ DOMAIN entries' = 1..n
      /\ \A i \in 1..n : p[i] \in kept /\ entries'[i] = entries[p[i]]
      /\ \A x \in kept : \E i \in 1..n : p[i] = x
  <2>1. \A i \in 1..n : p[i] \in DOMAIN entries /\ entries[p[i]] \in S
    <3> HIDE DEF S, kept
    <3> QED BY <1>2, <1>5
  <2>2. entries' = [i \in 1..n |-> entries[p[i]]]
    BY <1>2 DEF Packed
  <2> HIDE DEF S, kept
  <2>3. entries' \in [1..n -> S]
    BY <2>1, <2>2
  <2>4. entries' \in Seq(S) /\ Len(entries') = n /\ DOMAIN entries' = 1..n
    BY <2>3, <1>6
  <2>5. \A i \in 1..n : p[i] \in Range(p)
    BY <1>2 DEF Range
  <2>6. \A x \in Range(p) : \E i \in 1..n : p[i] = x
    BY <1>2 DEF Range
  <2> QED BY <1>2, <2>2, <2>4, <2>5, <2>6
<1>8. \A i \in 1..n : /\ p[i] \in DOMAIN entries
                      /\ entries[p[i]].from # Forgotten /\ entries[p[i]].id \in keep
  BY <1>7
<1>9. \A id \in 1..issued : Get(id) # Forgotten =>
        \E x \in DOMAIN entries : entries[x].id = id /\ entries[x].from # Forgotten
  <2>1. ASSUME NEW id \in 1..issued, Get(id) # Forgotten
        PROVE  \E x \in DOMAIN entries : entries[x].id = id /\ entries[x].from # Forgotten
    <3>1. Position(id) # 0 /\ Get(id) = entries[Position(id)].from
      BY <2>1 DEF Get
    <3>2. Position(id) \in DOMAIN entries /\ entries[Position(id)].id = id
      BY <3>1, PositionIs, Basics
    <3> QED BY <2>1, <3>1, <3>2
  <2> QED BY <2>1
<1>10. \A i \in 1..n : Get(entries[p[i]].id) # Forgotten
  <2>1. ASSUME NEW i \in 1..n PROVE Get(entries[p[i]].id) # Forgotten
    <3> DEFINE x == p[i]
    <3>1. x \in DOMAIN entries /\ entries[x].from # Forgotten /\ entries[x].id \in 1..issued
      BY <1>8, Basics
    <3>2. entries[x].from = IF entries[x].id \in dropped THEN Forgotten
                            ELSE lineage[entries[x].id]
      BY <3>1 DEF IInv, Hold
    <3>3. Get(entries[x].id) = lineage[entries[x].id] /\ entries[x].from = lineage[entries[x].id]
      BY <3>1, <3>2, <1>5, AnswerIs, Basics
    <3> QED BY <3>1, <3>3
  <2> QED BY <2>1
<1>11. TypeOK'
  <2>1. tail_at' \in 0..Len(entries')
    BY <1>3, <1>6, <1>7
  <2>2. dropped' \in SUBSET (1..issued')
    BY <1>4
  <2> QED BY <2>1, <2>2, <1>4, <1>5, <1>7 DEF TypeOK
<1>12. Ascend'
  <2>1. ASSUME NEW i \in 1..n, NEW j \in 1..n, i < j
        PROVE  entries'[i].id < entries'[j].id
    <3>1. p[i] < p[j] /\ p[i] \in DOMAIN entries /\ p[j] \in DOMAIN entries
      BY <2>1, <1>2, <1>8
    <3>2. entries[p[i]].id < entries[p[j]].id
      BY <3>1 DEF IInv, Ascend
    <3>3. entries'[i] = entries[p[i]] /\ entries'[j] = entries[p[j]]
      BY <1>7
    <3> QED BY <3>2, <3>3
  <2>2. \A i \in 1..n : entries'[i].id <= issued
    BY <1>7, <1>8 DEF IInv, Ascend
  <2> QED BY <2>1, <2>2, <1>4, <1>7 DEF Ascend
<1>13. TailRuns'
  <2>1. Len(entries') - tail_at' = run
    BY <1>3, <1>6, <1>7
  <2>2. issued' = issued
    BY <1>4
  <2> QED BY <2>1, <2>2, <1>3 DEF TailRuns, RunsToLast
<1>14. Hold'
  <2>1. ASSUME NEW i \in 1..n
        PROVE  entries'[i].from = IF entries'[i].id \in dropped' THEN Forgotten
                                  ELSE lineage'[entries'[i].id]
    <3>1. entries'[i] = entries[p[i]] /\ p[i] \in DOMAIN entries
      BY <1>7, <1>8
    <3>2. entries[p[i]].id \notin dropped'
      BY <1>4, <1>8, <1>10
    <3>3. entries[p[i]].from = lineage[entries[p[i]].id]
      BY <3>1, <1>8 DEF IInv, Hold
    <3> QED BY <3>1, <3>2, <3>3, <1>4
  <2> QED BY <2>1, <1>7 DEF Hold
<1>15. Complete'
  <2>1. ASSUME NEW id \in 1..issued, id \notin dropped'
        PROVE  \E i \in 1..n : entries'[i].id = id
    <3>1. id \in keep /\ Get(id) # Forgotten
      BY <2>1, <1>4
    <3>2. PICK x \in DOMAIN entries : entries[x].id = id /\ entries[x].from # Forgotten
      BY <3>1, <1>9
    <3>3. x \in kept
      BY <3>1, <3>2
    <3>4. PICK i \in 1..n : p[i] = x
      BY <3>3, <1>7
    <3>5. entries'[i] = entries[x]
      BY <3>4, <1>7
    <3> QED BY <3>2, <3>4, <3>5
  <2> QED BY <2>1, <1>4, <1>7 DEF Complete
<1> QED BY <1>11, <1>12, <1>13, <1>14, <1>15 DEF IInv

LEMMA InitHolds == Init => IInv
  BY MaxIdAssumption
     DEF Init, IInv, TypeOK, Ascend, TailRuns, RunsToLast, Hold, Complete

LEMMA NextKeeps == IInv /\ [Next]_vars => IInv'
<1> SUFFICES ASSUME IInv, [Next]_vars PROVE IInv'
  OBVIOUS
<1>1. CASE UNCHANGED vars
  BY <1>1 DEF vars, table, IInv, TypeOK, Ascend, TailRuns, RunsToLast, Hold, Complete
<1> QED BY <1>1, RecordKeeps, ForgetKeeps, RetainKeeps DEF Next

(* The table stays well formed, at every number of identities.             *)
THEOREM TypeCorrect == Spec => []TypeOK
<1>1. IInv => TypeOK
  BY DEF IInv
<1> QED BY <1>1, InitHolds, NextKeeps, PTL DEF Spec

(* However many identities are recorded, forgotten and packed, an identity *)
(* answers with what it was recorded with until it is forgotten, and       *)
(* nothing after, whether it is found by arithmetic or by search.          *)
THEOREM EachAnswersForItself == Spec => []AnswersWithItsOwn
<1>1. IInv => AnswersWithItsOwn
  BY AnswerIs DEF AnswersWithItsOwn
<1> QED BY <1>1, InitHolds, NextKeeps, PTL DEF Spec

-----------------------------------------------------------------------------
(* Lineage.                                                                *)

(* What is derived from was issued before.                                 *)
SourcesOlder == \A a \in 1..issued : lineage[a] \subseteq 1..(a - 1)

LEMMA SourcesStayOlder == Spec => []SourcesOlder
<1>1. Init => SourcesOlder
  BY DEF Init, SourcesOlder
<1>2. IInv /\ SourcesOlder /\ [Next]_vars => SourcesOlder'
  <2> SUFFICES ASSUME IInv, SourcesOlder, [Next]_vars PROVE SourcesOlder'
    OBVIOUS
  <2>1. issued \in Nat /\ DOMAIN lineage = 1..issued
    BY Basics DEF IInv, TypeOK
  <2>2. ASSUME NEW from \in SUBSET (1..issued), Record(from) PROVE SourcesOlder'
    <3>1. issued' = issued + 1 /\ lineage' = Append(lineage, from)
      BY <2>2 DEF Record
    <3>2. lineage \in Seq(SUBSET Ids) /\ Len(lineage) = issued
      BY <2>1 DEF IInv, TypeOK
    <3>3. \A a \in 1..(issued + 1) : lineage'[a] = IF a = issued + 1 THEN from ELSE lineage[a]
      BY <2>1, <3>1, <3>2
    <3>4. 1..issued = 1..((issued + 1) - 1)
      BY <2>1
    <3>5. ASSUME NEW a \in 1..(issued + 1) PROVE lineage'[a] \subseteq 1..(a - 1)
      <4>1. a = issued + 1 \/ (a \in 1..issued /\ a # issued + 1)
        BY <2>1
      <4> QED BY <3>3, <3>4, <4>1 DEF SourcesOlder
    <3> QED BY <3>1, <3>5 DEF SourcesOlder
  <2>3. CASE UNCHANGED <<issued, lineage>>
    BY <2>3 DEF SourcesOlder
  <2> QED BY <2>2, <2>3 DEF Next, Forget, Retain, vars, table
<1> QED BY <1>1, <1>2, InitHolds, NextKeeps, PTL DEF Spec

(* What a step does to what identities answer: those it does not drop      *)
(* answer as before.                                                       *)
LEMMA OthersAnswerAsBefore ==
    ASSUME IInv, AnswersWithItsOwn, AnswersWithItsOwn', [Next]_vars
    PROVE  /\ issued \in Nat /\ issued' \in Nat /\ issued <= issued'
           /\ \A a \in 1..issued : a \notin dropped' \ dropped => Get(a)' = Get(a)
<1>1. /\ issued \in Nat /\ DOMAIN lineage = 1..issued /\ dropped \in SUBSET (1..issued)
      /\ lineage \in Seq(SUBSET Ids) /\ Len(lineage) = issued
  BY Basics DEF IInv, TypeOK
<1>2. /\ issued' \in Nat /\ issued <= issued'
      /\ \A a \in 1..issued : a \in DOMAIN lineage' /\ lineage'[a] = lineage[a]
      /\ \A a \in dropped : a \in dropped'
  <2>1. ASSUME NEW from, Record(from)
        PROVE  /\ issued' = issued + 1 /\ dropped' = dropped
               /\ \A a \in 1..issued : a \in DOMAIN lineage' /\ lineage'[a] = lineage[a]
    <3>1. /\ issued' = issued + 1 /\ lineage' = Append(lineage, from) /\ dropped' = dropped
      BY <2>1 DEF Record
    <3> QED BY <1>1, <3>1
  <2>2. ASSUME NEW id, Forget(id) PROVE UNCHANGED <<issued, lineage>> /\ dropped \subseteq dropped'
    BY <2>2 DEF Forget
  <2>3. ASSUME NEW keep, Retain(keep)
        PROVE  UNCHANGED <<issued, lineage>> /\ dropped \subseteq dropped'
    <3>1. /\ UNCHANGED <<issued, lineage>>
          /\ dropped' = 1..issued \ {id \in keep : Get(id) # Forgotten}
      BY <2>3 DEF Retain
    <3>2. \A a \in dropped : a \in 1..issued /\ a \in 1..(issued + 1)
      BY <1>1
    <3>3. \A a \in dropped : Get(a) = Forgotten
      BY <3>2 DEF AnswersWithItsOwn
    <3> QED BY <3>1, <3>2, <3>3
  <2>4. CASE UNCHANGED vars
    BY <1>1, <2>4 DEF vars, table
  <2> QED BY <1>1, <2>1, <2>2, <2>3, <2>4 DEF Next
<1>3. ASSUME NEW a \in 1..issued, a \notin dropped' \ dropped PROVE Get(a)' = Get(a)
  <2>1. issued \in Nat /\ issued' \in Nat /\ issued <= issued'
    BY <1>1, <1>2
  <2>2. a \in Nat /\ 1 <= a /\ a <= issued
    BY <2>1
  <2>3. PICK n, m : n = issued /\ m = issued'
    OBVIOUS
  <2>4. a \in 1..(n + 1) /\ a \in 1..(m + 1)
    <3>1. n \in Nat /\ m \in Nat /\ n <= m /\ a \in Nat /\ 1 <= a /\ a <= n
      BY <2>1, <2>2, <2>3
    <3> QED BY <3>1
  <2>5. a \in 1..(issued + 1) /\ a \in 1..(issued' + 1)
    BY <2>3, <2>4
  <2>6. Get(a) = IF a \in DOMAIN lineage \ dropped THEN lineage[a] ELSE Forgotten
    BY <2>5 DEF AnswersWithItsOwn
  <2>7. Get(a)' = IF a \in DOMAIN lineage' \ dropped' THEN lineage'[a] ELSE Forgotten
    BY <2>5 DEF AnswersWithItsOwn
  <2> QED BY <1>1, <1>2, <1>3, <2>6, <2>7
<1> QED BY <1>1, <1>2, <1>3

(* A set of naturals that has a member has a least one.                    *)
LEMMA HasLeast ==
    ASSUME NEW T \in SUBSET Nat, T # {}
    PROVE  \E x \in T : \A y \in T : ~(y < x)
<1>1. \E x \in T : \A y \in T : ~(<<y, x>> \in OpToRel(<, Nat))
  BY NatLessThanWellFounded, WFMin
<1> QED BY <1>1 DEF OpToRel

(* A walk of k steps back from an identity: what it has come by after each. *)
Grown(S) == S \cup UNION {Sources(a) : a \in S}

Walks(f, id, k) == f = [n \in 0..k |-> IF n = 0 THEN {id} ELSE Grown(f[n - 1])]

LEMMA WalkExists ==
    ASSUME NEW id, NEW k \in Nat
    PROVE  \E f : Walks(f, id, k)
<1> DEFINE T == {n \in Nat : ~\E f : Walks(f, id, n)}
<1> SUFFICES ASSUME T # {} PROVE FALSE
  OBVIOUS
<1>1. PICK n \in T : \A m \in T : ~(m < n)
  <2> HIDE DEF T
  <2>1. T \in SUBSET Nat
    BY DEF T
  <2> QED BY <2>1, HasLeast
<1>2. n # 0
  <2>1. Walks([m \in 0..0 |-> {id}], id, 0)
    BY DEF Walks
  <2> QED BY <2>1
<1>3. n \in Nat /\ n - 1 \in Nat /\ n - 1 < n
  BY <1>2
<1>4. PICK g : Walks(g, id, n - 1)
  BY <1>1, <1>3
<1> DEFINE f == [m \in 0..n |-> IF m = n THEN Grown(g[n - 1]) ELSE g[m]]
<1>5. \A m \in 0..(n - 1) : g[m] = IF m = 0 THEN {id} ELSE Grown(g[m - 1])
  BY <1>4, Zenon DEF Walks
<1>6. ASSUME NEW m \in 0..n
      PROVE  f[m] = IF m = 0 THEN {id} ELSE Grown(f[m - 1])
  <2>1. CASE m = n
    <3>1. f[m] = Grown(g[n - 1]) /\ f[m - 1] = g[n - 1]
      BY <1>3, <2>1
    <3> QED BY <1>2, <2>1, <3>1
  <2>2. CASE m # n
    <3>1. m \in 0..(n - 1) /\ f[m] = g[m] /\ (m # 0 => f[m - 1] = g[m - 1])
      BY <1>3, <2>2
    <3> QED BY <1>5, <3>1
  <2> QED BY <2>1, <2>2
<1>7. Walks(f, id, n)
  <2>1. f = [m \in 0..n |-> f[m]]
    OBVIOUS
  <2> HIDE DEF f
  <2> QED BY <1>6, <2>1 DEF Walks
<1> QED BY <1>7, Zenon

LEMMA AncestryEndsAWalk ==
    ASSUME NEW id, issued \in Nat
    PROVE  \E f : Walks(f, id, issued) /\ Ancestry(id) = f[issued]
<1> DEFINE f == CHOOSE f : Walks(f, id, issued)
<1>1. Walks(f, id, issued)
  BY WalkExists
<1>2. Ancestry(id) = f[issued]
  BY Zenon DEF Ancestry, Walks, Grown
<1> HIDE DEF f
<1> QED BY <1>1, <1>2

(* An ancestry is the least set that holds the identity and the sources of *)
(* each it holds.                                                          *)
AncestriesAreLeast ==
    \A id \in 1..issued :
        /\ id \in Ancestry(id) /\ Ancestry(id) \in SUBSET (1..issued)
        /\ \A a \in Ancestry(id) : Sources(a) \subseteq Ancestry(id)
        /\ \A S \in SUBSET (1..issued) :
              id \in S /\ (\A a \in S : Sources(a) \subseteq S) => Ancestry(id) \subseteq S

(* After n steps a walk holds the sources of every identity it holds but   *)
(* those n below where it began: derivation goes to the older.             *)
LEMMA AncestryIs ==
    ASSUME IInv, AnswersWithItsOwn, SourcesOlder
    PROVE  AncestriesAreLeast
<1> SUFFICES ASSUME NEW id \in 1..issued
             PROVE  /\ id \in Ancestry(id) /\ Ancestry(id) \in SUBSET (1..issued)
                    /\ \A a \in Ancestry(id) : Sources(a) \subseteq Ancestry(id)
                    /\ \A S \in SUBSET (1..issued) :
                         id \in S /\ (\A a \in S : Sources(a) \subseteq S) => Ancestry(id) \subseteq S
  BY DEF AncestriesAreLeast
<1>1. issued \in Nat /\ id \in Nat /\ 1 <= id /\ id <= issued
  BY Basics
<1>2. PICK f : Walks(f, id, issued) /\ Ancestry(id) = f[issued]
  BY <1>1, AncestryEndsAWalk
<1>3. /\ f[0] = {id}
      /\ \A n \in 0..issued : n # 0 => f[n] = Grown(f[n - 1])
  <2>1. \A n \in 0..issued : f[n] = IF n = 0 THEN {id} ELSE Grown(f[n - 1])
    BY <1>2, Zenon DEF Walks
  <2> QED BY <1>1, <2>1
<1>4. \A a \in 1..issued : Sources(a) \subseteq 1..(a - 1)
  <2> SUFFICES ASSUME NEW a \in 1..issued PROVE Sources(a) \subseteq 1..(a - 1)
    OBVIOUS
  <2>1. a \in 1..(issued + 1)
    BY <1>1
  <2>2. Get(a) = Forgotten \/ Get(a) \subseteq 1..(a - 1)
    BY <2>1 DEF AnswersWithItsOwn, SourcesOlder
  <2> QED BY <2>2 DEF Sources
<1>5. \A a \in 1..issued : Sources(a) \subseteq 1..issued
  <2>1. \A a \in 1..issued : 1..(a - 1) \subseteq 1..issued
    BY <1>1
  <2> QED BY <1>4, <2>1
(* What a set of identities that holds its sources and the first holds,    *)
(* every stage of the walk stays inside.                                   *)
<1>6. ASSUME NEW S \in SUBSET (1..issued), id \in S, \A a \in S : Sources(a) \subseteq S
      PROVE  \A n \in 0..issued : f[n] \subseteq S
  <2> DEFINE T == {n \in 0..issued : ~(f[n] \subseteq S)}
  <2> SUFFICES ASSUME T # {} PROVE FALSE
    OBVIOUS
  <2>1. PICK n \in T : \A m \in T : ~(m < n)
    <3>1. T \in SUBSET Nat
      BY <1>1
    <3> HIDE DEF T
    <3> QED BY <3>1, HasLeast
  <2>2. n # 0
    BY <1>3, <1>6
  <2>3. n - 1 \in 0..issued /\ n - 1 < n
    BY <1>1, <2>2
  <2>4. f[n - 1] \subseteq S
    BY <2>1, <2>3
  <2>5. f[n] \subseteq S
    <3>1. f[n] = Grown(f[n - 1])
      BY <1>3, <2>2
    <3>2. \A a \in f[n - 1] : Sources(a) \subseteq S
      BY <1>6, <2>4
    <3> QED BY <2>4, <3>1, <3>2 DEF Grown
  <2> QED BY <2>5
<1>7. \A n \in 0..issued : f[n] \in SUBSET (1..issued) /\ id \in f[n]
  <2>1. \A n \in 0..issued : f[n] \subseteq 1..issued
    BY <1>5, <1>6
  <2> DEFINE T == {n \in 0..issued : id \notin f[n]}
  <2>2. T = {}
    <3> SUFFICES ASSUME T # {} PROVE FALSE
      OBVIOUS
    <3>1. PICK n \in T : \A m \in T : ~(m < n)
      <4>1. T \in SUBSET Nat
        BY <1>1
      <4> HIDE DEF T
      <4> QED BY <4>1, HasLeast
    <3>2. n # 0
      BY <1>3
    <3>3. n - 1 \in 0..issued /\ n - 1 < n
      BY <1>1, <3>2
    <3>4. id \in f[n - 1]
      BY <3>1, <3>3
    <3> QED BY <1>3, <3>2, <3>4 DEF Grown
  <2> QED BY <2>1, <2>2
<1>8. \A n \in 0..issued : \A a \in f[n] : a > id - n => Sources(a) \subseteq f[n]
  <2> DEFINE Open(n) == \E a \in f[n] : a > id - n /\ ~(Sources(a) \subseteq f[n])
  <2> DEFINE T == {n \in 0..issued : Open(n)}
  <2> SUFFICES ASSUME T # {} PROVE FALSE
    OBVIOUS
  <2>1. PICK n \in T : \A m \in T : ~(m < n)
    <3>1. T \in SUBSET Nat
      BY <1>1
    <3> HIDE DEF T
    <3> QED BY <3>1, HasLeast
  <2>2. n \in 0..issued /\ Open(n)
    OBVIOUS
  <2>3. PICK a \in f[n] : a > id - n /\ ~(Sources(a) \subseteq f[n])
    BY <2>2
  <2>4. n \in Nat /\ a \in Nat
    BY <1>1, <1>7, <2>2
  <2>5. n # 0
    <3>1. n = 0 => a = id
      BY <1>3
    <3> QED BY <1>1, <2>3, <2>4, <3>1
  <2>6. n - 1 \in 0..issued /\ n - 1 < n
    BY <1>1, <2>4, <2>5
  <2>7. ~Open(n - 1)
    <3>1. n - 1 \notin T
      BY <2>1, <2>6
    <3> QED BY <2>6, <3>1
  <2>8. f[n] = Grown(f[n - 1])
    BY <1>3, <2>2, <2>5
  <2>9. a \notin f[n - 1]
    <3>1. \A b \in f[n - 1] : Sources(b) \subseteq f[n]
      BY <2>8 DEF Grown
    <3> QED BY <2>3, <3>1
  <2>10. PICK b \in f[n - 1] : a \in Sources(b)
    BY <2>8, <2>9 DEF Grown
  <2>11. b \in Nat /\ ~(b > id - (n - 1))
    <3>1. b \in Nat
      BY <1>1, <1>7, <2>6, <2>10
    <3> QED BY <2>7, <2>9, <2>10, <3>1
  <2>12. a \in Nat /\ a <= b - 1
    BY <1>4, <1>7, <2>4, <2>6, <2>10, <2>11
  <2> HIDE DEF Open, T
  <2> QED BY <1>1, <2>3, <2>4, <2>11, <2>12
<1>9. issued \in 0..issued /\ \A a \in f[issued] : a > id - issued
  <2>1. issued \in 0..issued
    BY <1>1
  <2> QED BY <1>1, <1>7, <2>1
<1>10. ASSUME NEW S \in SUBSET (1..issued), id \in S, \A a \in S : Sources(a) \subseteq S
       PROVE  f[issued] \subseteq S
  BY <1>6, <1>9, <1>10
<1> QED BY <1>2, <1>7, <1>8, <1>9, <1>10

(* The roots of an entity survive every operation that leaves its whole    *)
(* ancestry answering, whatever the table forgets and however it packs     *)
(* what it keeps.                                                          *)
THEOREM RootsAlwaysSurvive == Spec => RootsSurvive
<1>1. IInv /\ AnswersWithItsOwn /\ AnswersWithItsOwn' /\ AncestriesAreLeast /\ AncestriesAreLeast'
        /\ [Next]_vars =>
        [\A id \in 1..issued :
           (Ancestry(id) \cap (dropped' \ dropped) = {}) => Roots(id)' = Roots(id)]_vars
  <2> SUFFICES ASSUME IInv, AnswersWithItsOwn, AnswersWithItsOwn', AncestriesAreLeast,
                      AncestriesAreLeast', [Next]_vars,
                      NEW id \in 1..issued, Ancestry(id) \cap (dropped' \ dropped) = {}
               PROVE  Roots(id)' = Roots(id)
    OBVIOUS
  <2> DEFINE A == Ancestry(id)
  <2> DEFINE B == Ancestry(id)'
  <2>1. /\ id \in A /\ A \in SUBSET (1..issued) /\ \A a \in A : Sources(a) \subseteq A
        /\ \A S \in SUBSET (1..issued) :
              id \in S /\ (\A a \in S : Sources(a) \subseteq S) => A \subseteq S
    BY DEF AncestriesAreLeast
  <2>2. \A a \in A : Get(a)' = Get(a)
    BY <2>1, OthersAnswerAsBefore
  <2>3. \A a \in A : Sources(a)' = Sources(a)
    BY <2>2 DEF Sources
  <2>4. 1..issued \subseteq 1..issued'
    BY OthersAnswerAsBefore
  <2>5. /\ id \in B /\ B \in SUBSET (1..issued') /\ \A a \in B : Sources(a)' \subseteq B
        /\ \A S \in SUBSET (1..issued') :
              id \in S /\ (\A a \in S : Sources(a)' \subseteq S) => B \subseteq S
    BY <2>4 DEF AncestriesAreLeast
  <2> HIDE DEF A, B
  <2>6. B \subseteq A
    BY <2>1, <2>3, <2>4, <2>5
  <2>7. A \subseteq B
    <3>1. A \cap B \in SUBSET (1..issued) /\ id \in A \cap B
      BY <2>1, <2>5
    <3>2. \A a \in A \cap B : Sources(a) \subseteq A \cap B
      BY <2>1, <2>3, <2>5
    <3> QED BY <2>1, <3>1, <3>2
  <2>8. A = B
    BY <2>6, <2>7
  <2>9. Roots(id) = {a \in A : Get(a) = {}}
    BY DEF Roots, A
  <2>10. Roots(id)' = {a \in B : Get(a)' = {}}
    BY DEF Roots, B
  <2> QED BY <2>2, <2>8, <2>9, <2>10
<1>2. IInv /\ AnswersWithItsOwn /\ SourcesOlder => AncestriesAreLeast
  BY AncestryIs
<1> QED BY <1>1, <1>2, InitHolds, NextKeeps, SourcesStayOlder, EachAnswersForItself, PTL
    DEF Spec, RootsSurvive

-----------------------------------------------------------------------------
(* Histories of operations chained.                                        *)

(* Joining sequences end to end, as a function of how many are joined.     *)
Joins(f, n, seqs) ==
    f = [i \in 1..n |-> IF i = 1 THEN seqs[i] ELSE f[i - 1] \o seqs[i]]

LEMMA JoinsExist ==
    ASSUME NEW seqs, NEW n \in Nat
    PROVE  \E f : Joins(f, n, seqs)
<1> DEFINE T == {k \in 0..n : ~ \E f : Joins(f, k, seqs)}
<1> SUFFICES ASSUME T # {} PROVE FALSE
  OBVIOUS
<1>1. PICK k \in T : \A j \in T : ~(j < k)
  <2> T \in SUBSET Nat
    OBVIOUS
  <2> HIDE DEF T
  <2> QED BY HasLeast
<1>2. k # 0
  <2>1. Joins([i \in 1..0 |-> <<>>], 0, seqs)
    BY DEF Joins
  <2> QED BY <1>1, <2>1
<1>3. PICK f : Joins(f, k - 1, seqs)
  BY <1>1, <1>2
<1> DEFINE g == [i \in 1..k |-> IF i = k THEN IF k = 1 THEN seqs[k] ELSE f[k - 1] \o seqs[k]
                                ELSE f[i]]
<1>4. ASSUME NEW i \in 1..k
      PROVE  g[i] = IF i = 1 THEN seqs[i] ELSE g[i - 1] \o seqs[i]
  <2>1. i # k => f[i] = IF i = 1 THEN seqs[i] ELSE f[i - 1] \o seqs[i]
    <3>1. i # k => i \in 1..(k - 1)
      BY <1>1, <1>2
    <3> QED BY <1>3, <3>1 DEF Joins
  <2>2. i # 1 => i - 1 \in 1..k /\ i - 1 # k
    BY <1>1, <1>2
  <2>3. i # 1 => g[i - 1] = f[i - 1]
    BY <2>2
  <2> QED BY <2>1, <2>3
<1>5. Joins(g, k, seqs)
  BY <1>4 DEF Joins
<1> QED BY <1>1, <1>5

LEMMA FlattenIs ==
    ASSUME NEW seqs, Len(seqs) \in Nat \ {0}
    PROVE  \E f : /\ Joins(f, Len(seqs), seqs)
                  /\ FlattenSeq(seqs) = f[Len(seqs)]
<1>1. FlattenSeq(seqs) = (CHOOSE f : Joins(f, Len(seqs), seqs))[Len(seqs)]
  BY Zenon DEF FlattenSeq, Joins
<1>2. PICK n : n = Len(seqs) /\ n \in Nat
  OBVIOUS
<1>3. \E f : Joins(f, n, seqs)
  BY <1>2, JoinsExist
<1> QED BY <1>1, <1>2, <1>3

(* What holds of every join along the way.                                 *)
LEMMA FlattenInSeq ==
    ASSUME NEW S, NEW seqs \in Seq(Seq(S))
    PROVE  FlattenSeq(seqs) \in Seq(S)
<1>1. CASE Len(seqs) = 0
  BY <1>1 DEF FlattenSeq
<1>2. CASE Len(seqs) # 0
  <2>1. PICK n : n = Len(seqs) /\ n \in Nat \ {0}
    BY <1>2
  <2>2. PICK f : Joins(f, n, seqs) /\ FlattenSeq(seqs) = f[n]
    BY <2>1, FlattenIs
  <2> DEFINE T == {k \in 1..n : f[k] \notin Seq(S)}
  <2>3. ASSUME T # {} PROVE FALSE
    <3>1. PICK k \in T : \A j \in T : ~(j < k)
      <4> T \in SUBSET Nat
        OBVIOUS
      <4> HIDE DEF T
      <4> QED BY <2>3, HasLeast
    <3>2. seqs[k] \in Seq(S)
      BY <2>1
    <3>3. f[k] = IF k = 1 THEN seqs[k] ELSE f[k - 1] \o seqs[k]
      BY <2>2 DEF Joins
    <3>4. k # 1 => k - 1 \in 1..n /\ k - 1 < k
      BY <2>1
    <3>5. k # 1 => f[k - 1] \in Seq(S)
      BY <3>1, <3>4
    <3>6. f[k] \in Seq(S)
      <4> HIDE DEF T
      <4> QED BY <3>2, <3>3, <3>5
    <3> QED BY <3>1, <3>6
  <2> QED BY <2>1, <2>2, <2>3
<1> QED BY <1>1, <1>2

LEMMA FlattenSingles ==
    ASSUME NEW S, NEW xs \in Seq(S)
    PROVE  FlattenSeq([i \in DOMAIN xs |-> <<xs[i]>>]) = xs
<1> DEFINE seqs == [i \in DOMAIN xs |-> <<xs[i]>>]
<1>1. DOMAIN seqs = 1..Len(xs) /\ Len(seqs) = Len(xs)
  <2>1. \A i \in DOMAIN xs : <<xs[i]>> \in Seq(S)
    OBVIOUS
  <2>2. PICK n : n = Len(xs) /\ n \in Nat /\ DOMAIN xs = 1..n
    OBVIOUS
  <2>3. seqs \in [1..n -> Seq(S)]
    BY <2>1, <2>2
  <2> HIDE DEF seqs
  <2>4. seqs \in Seq(Seq(S)) /\ Len(seqs) = n
    BY <2>2, <2>3, IsASeq
  <2> QED BY <2>2, <2>3, <2>4
<1>2. CASE Len(xs) = 0
  <2>1. FlattenSeq(seqs) = seqs
    BY <1>1, <1>2 DEF FlattenSeq
  <2> QED BY <1>2, <2>1
<1>3. CASE Len(xs) # 0
  <2>1. PICK n : n = Len(xs) /\ n \in Nat \ {0} /\ n = Len(seqs) /\ DOMAIN xs = 1..n
    BY <1>1, <1>3
  <2>2. PICK f : Joins(f, n, seqs) /\ FlattenSeq(seqs) = f[n]
    BY <2>1, FlattenIs
  <2> DEFINE T == {k \in 1..n : f[k] # SubSeq(xs, 1, k)}
  <2>3. ASSUME T # {} PROVE FALSE
    <3>1. PICK k \in T : \A j \in T : ~(j < k)
      <4> T \in SUBSET Nat
        OBVIOUS
      <4> HIDE DEF T
      <4> QED BY <2>3, HasLeast
    <3>2. seqs[k] = <<xs[k]>>
      BY <2>1
    <3>3. f[k] = IF k = 1 THEN seqs[k] ELSE f[k - 1] \o seqs[k]
      BY <2>2 DEF Joins
    <3>4. k # 1 => k - 1 \in 1..n /\ k - 1 < k
      BY <2>1
    <3>5. k # 1 => f[k - 1] = SubSeq(xs, 1, k - 1)
      BY <3>1, <3>4
    <3>6. SubSeq(xs, 1, 1) = <<xs[1]>>
      <4>1. SubSeq(xs, 1, 1) \in Seq(S) /\ <<xs[1]>> \in Seq(S)
        BY <2>1
      <4>2. Len(SubSeq(xs, 1, 1)) = 1 /\ SubSeq(xs, 1, 1)[1] = xs[1]
        BY <2>1
      <4>3. Len(<<xs[1]>>) = 1 /\ <<xs[1]>>[1] = xs[1]
        OBVIOUS
      <4>4. PICK a, b : a = SubSeq(xs, 1, 1) /\ b = <<xs[1]>>
        OBVIOUS
      <4>5. a \in Seq(S) /\ b \in Seq(S) /\ Len(a) = Len(b)
            /\ \A i \in 1..Len(a) : a[i] = b[i]
        BY <4>1, <4>2, <4>3, <4>4
      <4>6. a = b
        BY <4>5, SeqEqual
      <4> QED BY <4>4, <4>6
    <3>7. k # 1 => SubSeq(xs, 1, k - 1) \o <<xs[k]>> = SubSeq(xs, 1, k)
      BY <2>1
    <3> QED BY <3>1, <3>2, <3>3, <3>5, <3>6, <3>7
  <2>4. SubSeq(xs, 1, n) = xs
    BY <2>1
  <2>5. f[n] = SubSeq(xs, 1, n)
    BY <2>1, <2>3
  <2> QED BY <2>2, <2>4, <2>5
<1> QED BY <1>2, <1>3

LEMMA FlattenNothing ==
    ASSUME NEW seqs, Len(seqs) \in Nat, \A i \in 1..Len(seqs) : seqs[i] = <<>>,
           Len(seqs) = 0 => seqs = <<>>
    PROVE  FlattenSeq(seqs) = <<>>
<1>1. CASE Len(seqs) = 0
  BY <1>1 DEF FlattenSeq
<1>2. CASE Len(seqs) # 0
  <2>1. PICK n : n = Len(seqs) /\ n \in Nat \ {0}
    BY <1>2
  <2>2. PICK f : Joins(f, n, seqs) /\ FlattenSeq(seqs) = f[n]
    BY <2>1, FlattenIs
  <2> DEFINE T == {k \in 1..n : f[k] # <<>>}
  <2>3. ASSUME T # {} PROVE FALSE
    <3>1. PICK k \in T : \A j \in T : ~(j < k)
      <4> T \in SUBSET Nat
        OBVIOUS
      <4> HIDE DEF T
      <4> QED BY <2>3, HasLeast
    <3>2. seqs[k] = <<>>
      BY <2>1
    <3>3. f[k] = IF k = 1 THEN seqs[k] ELSE f[k - 1] \o seqs[k]
      BY <2>2 DEF Joins
    <3>4. k # 1 => k - 1 \in 1..n /\ k - 1 < k
      BY <2>1
    <3>5. k # 1 => f[k - 1] = <<>>
      BY <3>1, <3>4
    <3> QED BY <3>1, <3>2, <3>3, <3>5
  <2> QED BY <2>1, <2>2, <2>3
<1> QED BY <1>1, <1>2

-----------------------------------------------------------------------------
(* A history tells of shapes, in sequences of them, and of none that it    *)
(* became something and that it is gone.                                   *)
Lists(f) == DOMAIN f \subseteq Nat /\ \A x \in DOMAIN f : f[x] \in Seq(Nat)

Tells(h) ==
    /\ h = [generated |-> h.generated, modified |-> h.modified,
            deleted |-> h.deleted, copied |-> h.copied]
    /\ Lists(h.generated) /\ Lists(h.modified) /\ h.deleted \subseteq Nat
    /\ h.modified = [x \in DOMAIN h.modified |-> h.modified[x]]
    /\ \A x \in DOMAIN h.modified : h.modified[x] # <<>> /\ x \notin h.deleted

(* One composed keeps no empty list, and counts as copied what has one     *)
(* image.                                                                  *)
Plain(h) ==
    /\ h.generated = [x \in DOMAIN h.generated |-> h.generated[x]]
    /\ \A x \in DOMAIN h.generated : h.generated[x] # <<>>
    /\ \A x \in h.copied : x \in DOMAIN h.modified /\ Len(h.modified[x]) = 1

LEMMA TraceType ==
    ASSUME NEW h, Tells(h), NEW x \in Nat
    PROVE  /\ generated(h, x) \in Seq(Nat) /\ modified(h, x) \in Seq(Nat)
           /\ trace(h, x) \in Seq(Nat)
<1>1. generated(h, x) \in Seq(Nat) /\ modified(h, x) \in Seq(Nat)
  BY DEF Tells, Lists, generated, modified, Listed
<1> QED BY <1>1 DEF trace

LEMMA TracedType ==
    ASSUME NEW h, Tells(h), NEW xs \in Seq(Nat)
    PROVE  Traced(h, xs) \in Seq(Nat)
<1> DEFINE seqs == [i \in DOMAIN xs |-> trace(h, xs[i])]
<1>1. PICK n : n = Len(xs) /\ n \in Nat /\ DOMAIN xs = 1..n
  OBVIOUS
<1>2. seqs \in [1..n -> Seq(Nat)]
  <2>1. \A i \in 1..n : xs[i] \in Nat
    BY <1>1
  <2>2. \A i \in 1..n : trace(h, xs[i]) \in Seq(Nat)
    BY <2>1, TraceType
  <2> QED BY <1>1, <2>2
<1> HIDE DEF seqs
<1>3. seqs \in Seq(Seq(Nat))
  BY <1>1, <1>2
<1>4. FlattenSeq(seqs) \in Seq(Nat)
  BY <1>3, FlattenInSeq
<1> QED BY <1>4 DEF Traced, seqs

LEMMA MadeType ==
    ASSUME NEW h, Tells(h), NEW later, Tells(later), NEW x \in Nat
    PROVE  MadeOf(h, later, x) \in Seq(Nat) /\ Finally(h, later, x) \in Seq(Nat)
<1> DEFINE seqs == [i \in DOMAIN trace(h, x) |-> generated(later, trace(h, x)[i])]
<1>1. PICK xs : xs = trace(h, x) /\ xs \in Seq(Nat)
  BY TraceType
<1>2. PICK n : n = Len(xs) /\ n \in Nat /\ DOMAIN xs = 1..n
  BY <1>1
<1>3. seqs \in [1..n -> Seq(Nat)]
  <2>1. \A i \in 1..n : xs[i] \in Nat
    BY <1>1, <1>2
  <2>2. \A i \in 1..n : generated(later, xs[i]) \in Seq(Nat)
    BY <2>1, TraceType
  <2> QED BY <1>1, <1>2, <2>2
<1> HIDE DEF seqs
<1>4. seqs \in Seq(Seq(Nat))
  BY <1>2, <1>3
<1>5. FlattenSeq(seqs) \in Seq(Nat)
  BY <1>4, FlattenInSeq
<1>6. generated(h, x) \in Seq(Nat)
  BY TraceType
<1>7. Traced(later, generated(h, x)) \in Seq(Nat) /\ Traced(later, xs) \in Seq(Nat)
  BY <1>1, <1>6, TracedType
<1>8. MadeOf(h, later, x) = Traced(later, generated(h, x)) \o FlattenSeq(seqs)
  BY DEF MadeOf, seqs
<1> QED BY <1>1, <1>5, <1>7, <1>8 DEF Finally

(* Composing tells of shapes, and plainly.                                 *)
LEMMA ThenForTells ==
    ASSUME NEW h, Tells(h), NEW later, Tells(later), NEW S \in SUBSET Nat
    PROVE  Tells(then_for(h, later, S)) /\ Plain(then_for(h, later, S))
<1> DEFINE gone == {x \in S : Gone(h, later, x)}
           became == {x \in S \ gone : Changed(h, later, x)}
           made == {s \in S : MadeOf(h, later, s) # <<>>}
           t == then_for(h, later, S)
<1>1. /\ t = [generated |-> t.generated, modified |-> t.modified,
              deleted |-> t.deleted, copied |-> t.copied]
      /\ t.generated = [x \in made |-> MadeOf(h, later, x)]
      /\ t.modified = [x \in became |-> Finally(h, later, x)]
      /\ t.deleted = gone
      /\ t.copied = {x \in became : Copied(h, later, x)}
  BY DEF then_for
<1>2. \A x \in S : MadeOf(h, later, x) \in Seq(Nat) /\ Finally(h, later, x) \in Seq(Nat)
  BY MadeType
<1> HIDE DEF t
<1>3. /\ DOMAIN t.generated = made /\ \A x \in made : t.generated[x] = MadeOf(h, later, x)
      /\ DOMAIN t.modified = became /\ \A x \in became : t.modified[x] = Finally(h, later, x)
  BY <1>1
<1>4. Tells(t)
  BY <1>1, <1>2, <1>3 DEF Tells, Lists, Gone
<1>5. Plain(t)
  BY <1>1, <1>3 DEF Plain, Gone, Copied
<1> QED BY <1>4, <1>5 DEF t

LEMMA ThenTells ==
    ASSUME NEW h, Tells(h), Plain(h), NEW later, Tells(later)
    PROVE  Tells(then(h, later)) /\ Plain(then(h, later))
<1>1. inputs(h) \cup inputs(later) \in SUBSET Nat
  BY DEF Tells, Lists, inputs
<1> QED BY <1>1, ThenForTells DEF then

(* Nothing a second step knows nothing of is changed by it.                *)
LEMMA UntouchedStays ==
    ASSUME NEW later, NEW xs \in Seq(Nat), \A y \in ToSet(xs) : ~is_affected(later, y)
    PROVE  /\ Traced(later, xs) = xs
           /\ FlattenSeq([i \in DOMAIN xs |-> generated(later, xs[i])]) = <<>>
<1>1. PICK n : n = Len(xs) /\ n \in Nat /\ DOMAIN xs = 1..n
  OBVIOUS
<1>2. ASSUME NEW i \in 1..n
      PROVE  trace(later, xs[i]) = <<xs[i]>> /\ generated(later, xs[i]) = <<>>
  <2>1. ~is_affected(later, xs[i])
    BY <1>1 DEF ToSet
  <2>2. /\ xs[i] \notin DOMAIN later.generated /\ xs[i] \notin DOMAIN later.modified
        /\ xs[i] \notin later.deleted
    BY <2>1 DEF is_affected, inputs
  <2> QED BY <2>2 DEF trace, generated, modified, is_deleted, Listed
<1>3. [i \in DOMAIN xs |-> trace(later, xs[i])] = [i \in DOMAIN xs |-> <<xs[i]>>]
  BY <1>1, <1>2
<1>4. Traced(later, xs) = xs
  BY <1>3, FlattenSingles DEF Traced
<1> DEFINE seqs == [i \in DOMAIN xs |-> generated(later, xs[i])]
<1>5. DOMAIN seqs = 1..n /\ \A i \in 1..n : seqs[i] = <<>>
  BY <1>1, <1>2
<1>6. seqs \in [1..n -> {<<>>}]
  BY <1>1, <1>2
<1> HIDE DEF seqs
<1>7. seqs \in Seq({<<>>}) /\ Len(seqs) = n
  BY <1>1, <1>6
<1>8. n = 0 => seqs = <<>>
  BY <1>7
<1>9. FlattenSeq(seqs) = <<>>
  BY <1>1, <1>5, <1>7, <1>8, FlattenNothing
<1> QED BY <1>4, <1>9 DEF seqs

(* Reworking only what the second step reaches composes as doing all       *)
(* afresh does, where the first history is plain.                          *)
LEMMA ReworksEnough ==
    ASSUME NEW h, Tells(h), Plain(h), NEW later, Tells(later)
    PROVE  followed_by(h, later) = then(h, later)
<1>1. CASE is_empty(later)
  BY <1>1 DEF followed_by, then
<1>2. CASE ~is_empty(later)
  <2> DEFINE all == inputs(h) \cup inputs(later)
             subjects == {x \in inputs(h) : Reached(h, later, x)}
                            \cup (inputs(later) \ inputs(h))
             r == then_for(h, later, subjects)
             t == then_for(h, later, all)
             GoneIn(S) == {x \in S : Gone(h, later, x)}
             BecameIn(S) == {x \in S \ GoneIn(S) : Changed(h, later, x)}
             MadeIn(S) == {s \in S : MadeOf(h, later, s) # <<>>}
             CopiedIn(S) == {x \in BecameIn(S) : Copied(h, later, x)}
             Extended(f, g) ==
                [x \in (DOMAIN f \ subjects) \cup DOMAIN g |->
                    IF x \in DOMAIN g THEN g[x] ELSE f[x]]
  <2>1. /\ r = [generated |-> [x \in MadeIn(subjects) |-> MadeOf(h, later, x)],
                modified |-> [x \in BecameIn(subjects) |-> Finally(h, later, x)],
                deleted |-> GoneIn(subjects), copied |-> CopiedIn(subjects)]
        /\ t = [generated |-> [x \in MadeIn(all) |-> MadeOf(h, later, x)],
                modified |-> [x \in BecameIn(all) |-> Finally(h, later, x)],
                deleted |-> GoneIn(all), copied |-> CopiedIn(all)]
    BY DEF then_for
  <2>2. /\ then(h, later) = t
        /\ followed_by(h, later) =
              [generated |-> Extended(h.generated, r.generated),
               modified |-> Extended(h.modified, r.modified),
               deleted |-> (h.deleted \ subjects) \cup r.deleted,
               copied |-> (h.copied \ subjects) \cup r.copied]
    BY <1>2 DEF then, followed_by
  <2>3. ASSUME NEW x \in all \ subjects
        PROVE  /\ Gone(h, later, x) <=> x \in h.deleted
               /\ x \notin h.deleted => (Changed(h, later, x) <=> x \in DOMAIN h.modified)
               /\ x \in DOMAIN h.modified => Finally(h, later, x) = h.modified[x]
               /\ MadeOf(h, later, x) # <<>> <=> x \in DOMAIN h.generated
               /\ x \in DOMAIN h.generated => MadeOf(h, later, x) = h.generated[x]
               /\ x \in DOMAIN h.modified => (Copied(h, later, x) <=> x \in h.copied)
    <3>1. x \in inputs(h) /\ ~Reached(h, later, x) /\ x \in Nat
      BY <2>3 DEF inputs, Tells, Lists
    <3>2. /\ \A y \in ToSet(trace(h, x)) : ~is_affected(later, y)
          /\ \A y \in ToSet(generated(h, x)) : ~is_affected(later, y)
      BY <3>1 DEF Reached
    <3>3. trace(h, x) \in Seq(Nat) /\ generated(h, x) \in Seq(Nat)
      BY <3>1, TraceType
    <3>4. /\ Finally(h, later, x) = trace(h, x)
          /\ MadeOf(h, later, x) = generated(h, x)
      <4>1. PICK xs, gs : xs = trace(h, x) /\ gs = generated(h, x)
        OBVIOUS
      <4>2. /\ Traced(later, xs) = xs /\ Traced(later, gs) = gs
            /\ FlattenSeq([i \in DOMAIN xs |-> generated(later, xs[i])]) = <<>>
        BY <3>2, <3>3, <4>1, UntouchedStays
      <4>3. MadeOf(h, later, x) = gs \o <<>>
        BY <4>1, <4>2 DEF MadeOf
      <4> QED BY <3>3, <4>1, <4>2, <4>3 DEF Finally
    <3>5. modified(h, x) = <<>> <=> x \notin DOMAIN h.modified
      BY DEF modified, Listed, Plain, Tells
    <3>6. x \in DOMAIN h.modified => /\ x \notin h.deleted
                                     /\ trace(h, x) = h.modified[x]
                                     /\ modified(h, x) = h.modified[x]
      BY <3>5 DEF trace, is_deleted, modified, Listed, Plain, Tells
    <3>7. trace(h, x) = <<>> <=> x \in h.deleted
      BY <3>5 DEF trace, is_deleted
    <3>8. \A y \in ToSet(trace(h, x)) : ~is_deleted(later, y) /\ modified(later, y) = <<>>
      BY <3>2 DEF is_affected, inputs, is_deleted, modified, Listed
    <3>9. Changed(h, later, x) <=> x \in DOMAIN h.modified
      BY <3>5, <3>8 DEF Changed
    <3>10. x \in DOMAIN h.modified => (Copied(h, later, x) <=> x \in h.copied)
      BY <3>2, <3>4, <3>5, <3>6 DEF Copied, copy_of, Plain
    <3>11. generated(h, x) # <<>> <=> x \in DOMAIN h.generated
      BY DEF generated, Listed, Plain, Tells
    <3>12. x \in DOMAIN h.generated => generated(h, x) = h.generated[x]
      BY DEF generated, Listed
    <3> QED BY <3>4, <3>6, <3>7, <3>9, <3>10, <3>11, <3>12 DEF Gone
  <2>4. /\ subjects \subseteq all
        /\ DOMAIN h.generated \subseteq all /\ DOMAIN h.modified \subseteq all
        /\ h.deleted \subseteq all /\ h.copied \subseteq DOMAIN h.modified
        /\ \A x \in DOMAIN h.modified : x \notin h.deleted
    BY DEF inputs, Plain, Tells
  <2> HIDE DEF all, subjects, r, t
  <2>5. Extended(h.generated, r.generated) = t.generated
    <3>1. (DOMAIN h.generated \ subjects) \cup MadeIn(subjects) = MadeIn(all)
      BY <2>3, <2>4
    <3>2. DOMAIN r.generated = MadeIn(subjects)
          /\ \A x \in MadeIn(subjects) : r.generated[x] = MadeOf(h, later, x)
      BY <2>1
    <3>3. \A x \in MadeIn(all) : x \notin subjects => h.generated[x] = MadeOf(h, later, x)
      BY <2>3
    <3> QED BY <2>1, <3>1, <3>2, <3>3
  <2>6. Extended(h.modified, r.modified) = t.modified
    <3>1. (DOMAIN h.modified \ subjects) \cup BecameIn(subjects) = BecameIn(all)
      BY <2>3, <2>4
    <3>2. DOMAIN r.modified = BecameIn(subjects)
          /\ \A x \in BecameIn(subjects) : r.modified[x] = Finally(h, later, x)
      BY <2>1
    <3>3. \A x \in BecameIn(all) : x \notin subjects => h.modified[x] = Finally(h, later, x)
      BY <2>3
    <3> QED BY <2>1, <3>1, <3>2, <3>3
  <2>7. (h.deleted \ subjects) \cup r.deleted = t.deleted
    BY <2>1, <2>3, <2>4
  <2>8. (h.copied \ subjects) \cup r.copied = t.copied
    <3>1. (h.copied \ subjects) \cup CopiedIn(subjects) = CopiedIn(all)
      BY <2>3, <2>4
    <3> QED BY <2>1, <3>1
  <2> QED BY <2>1, <2>2, <2>5, <2>6, <2>7, <2>8
<1> QED BY <1>1, <1>2

(* Chains.  Histories composed one after the other, as a function of the   *)
(* set of steps composed.                                                  *)
Composes(f, n, hs) ==
    f = [s \in SUBSET (1..n) |->
            IF s = {} THEN identity ELSE then(f[s \ {Max(s)}], hs[Max(s)])]

LEMMA LastOfRun ==
    ASSUME NEW k \in Nat \ {0}, NEW s \in SUBSET (1..k), k \in s
    PROVE  Max(s) = k /\ s \ {k} \in SUBSET (1..(k - 1))
<1>1. k \in s /\ \A y \in s : k >= y
  OBVIOUS
<1>2. \A x \in s : (\A y \in s : x >= y) => x = k
  OBVIOUS
<1>3. Max(s) \in s /\ \A y \in s : Max(s) >= y
  BY <1>1 DEF Max
<1>4. Max(s) = k
  BY <1>2, <1>3
<1>5. s \ {k} \in SUBSET (1..(k - 1))
  OBVIOUS
<1> QED BY <1>4, <1>5

LEMMA ComposesExist ==
    ASSUME NEW hs, NEW n \in Nat
    PROVE  \E f : Composes(f, n, hs)
<1> DEFINE T == {k \in 0..n : ~ \E f : Composes(f, k, hs)}
<1> SUFFICES ASSUME T # {} PROVE FALSE
  OBVIOUS
<1>1. PICK k \in T : \A j \in T : ~(j < k)
  <2> T \in SUBSET Nat
    OBVIOUS
  <2> HIDE DEF T
  <2> QED BY HasLeast
<1>2. k # 0
  <2> DEFINE g == [s \in SUBSET (1..0) |-> identity]
  <2>1. \A s \in SUBSET (1..0) : s = {}
    OBVIOUS
  <2>2. g = [s \in SUBSET (1..0) |->
                IF s = {} THEN identity ELSE then(g[s \ {Max(s)}], hs[Max(s)])]
    BY <2>1
  <2>3. Composes(g, 0, hs)
    BY <2>2 DEF Composes
  <2> QED BY <1>1, <2>3
<1>3. PICK f : Composes(f, k - 1, hs)
  BY <1>1, <1>2
<1> DEFINE g == [s \in SUBSET (1..k) |->
                    IF k \in s THEN then(f[s \ {k}], hs[k]) ELSE f[s]]
<1>4. ASSUME NEW s \in SUBSET (1..k)
      PROVE  g[s] = IF s = {} THEN identity ELSE then(g[s \ {Max(s)}], hs[Max(s)])
  <2>1. CASE k \in s
    <3>1. Max(s) = k /\ s \ {k} \in SUBSET (1..(k - 1)) /\ k \notin s \ {k}
      BY <1>1, <1>2, <2>1, LastOfRun
    <3>2. s \ {k} \in SUBSET (1..k)
      OBVIOUS
    <3>3. g[s \ {k}] = f[s \ {k}]
      BY <3>1, <3>2
    <3> QED BY <2>1, <3>1, <3>3
  <2>2. CASE k \notin s
    <3>1. s \in SUBSET (1..(k - 1))
      BY <1>1, <1>2, <2>2
    <3>2. f[s] = IF s = {} THEN identity ELSE then(f[s \ {Max(s)}], hs[Max(s)])
      BY <1>3, <3>1 DEF Composes
    <3>3. s \ {Max(s)} \in SUBSET (1..k) /\ k \notin s \ {Max(s)}
      BY <2>2
    <3>4. g[s \ {Max(s)}] = f[s \ {Max(s)}]
      BY <3>3
    <3> QED BY <2>2, <3>2, <3>4
  <2> QED BY <2>1, <2>2
<1>5. Composes(g, k, hs)
  BY <1>4 DEF Composes
<1> QED BY <1>1, <1>5

(* A chain of histories told is told plainly once composed.                *)
LEMMA ChainTells ==
    ASSUME NEW S, NEW hs \in Seq(S), \A i \in DOMAIN hs : Tells(hs[i])
    PROVE  Tells(FoldLeft(then, identity, hs)) /\ Plain(FoldLeft(then, identity, hs))
<1>1. PICK n : n = Len(hs) /\ n \in Nat /\ DOMAIN hs = 1..n
  OBVIOUS
<1>2. FoldLeft(then, identity, hs) = (CHOOSE f : Composes(f, n, hs))[1..n]
  <2>1. FoldLeft(then, identity, hs) =
           (CHOOSE f : f = [s \in SUBSET DOMAIN hs |->
                               IF s = {} THEN identity
                               ELSE then(f[s \ {Max(s)}], hs[Max(s)])])[DOMAIN hs]
    BY Zenon DEF FoldLeft, MapThenFoldSet
  <2> QED BY Zenon, <1>1, <2>1 DEF Composes
<1>3. PICK f : Composes(f, n, hs) /\ FoldLeft(then, identity, hs) = f[1..n]
  BY <1>1, <1>2, ComposesExist
<1> DEFINE T == {k \in 0..n : ~(Tells(f[1..k]) /\ Plain(f[1..k]))}
<1>4. ASSUME T # {} PROVE FALSE
  <2>1. PICK k \in T : \A j \in T : ~(j < k)
    <3> T \in SUBSET Nat
      OBVIOUS
    <3> HIDE DEF T
    <3> QED BY <1>4, HasLeast
  <2>2. 1..k \in SUBSET (1..n)
    BY <1>1
  <2>3. f[1..k] = IF 1..k = {} THEN identity ELSE then(f[(1..k) \ {Max(1..k)}], hs[Max(1..k)])
    BY <1>3, <2>2 DEF Composes
  <2>4. CASE k = 0
    <3>1. f[1..k] = identity
      BY <2>3, <2>4
    <3>2. Tells(identity) /\ Plain(identity)
      BY DEF Tells, Plain, Lists, identity
    <3> QED BY <3>1, <3>2
  <2>5. CASE k # 0
    <3>1. k \in 1..k /\ k \in Nat \ {0} /\ k \in 1..n
      BY <1>1, <2>5
    <3>2. Max(1..k) = k
      BY <3>1, LastOfRun
    <3>3. (1..k) \ {k} = 1..(k - 1)
      BY <3>1
    <3>4. f[1..k] = then(f[1..(k - 1)], hs[k])
      BY <2>3, <3>1, <3>2, <3>3
    <3>5. k - 1 \in 0..n /\ k - 1 < k
      BY <1>1, <3>1
    <3>6. Tells(f[1..(k - 1)]) /\ Plain(f[1..(k - 1)])
      BY <2>1, <3>5
    <3>7. Tells(hs[k])
      BY <1>1, <3>1
    <3>8. Tells(then(f[1..(k - 1)], hs[k])) /\ Plain(then(f[1..(k - 1)], hs[k]))
      BY <3>6, <3>7, ThenTells
    <3> QED BY <3>4, <3>8
  <2> QED BY <2>4, <2>5
<1>5. n \in 0..n
  BY <1>1
<1> QED BY <1>3, <1>4, <1>5

-----------------------------------------------------------------------------
(* What operations tell is well told.                                      *)
HistoriesStand ==
    /\ Tells(now)
    /\ \A i \in DOMAIN steps : Tells(steps[i])
    /\ \E S : steps \in Seq(S)
    /\ \E S : entity \in Seq(S)

LEMMA TellingTells ==
    ASSUME NEW h, Tells(h), NEW x \in Nat, NEW y \in Nat
    PROVE  /\ Tells(modify(h, x, y)) /\ Tells(copy(h, x, y))
           /\ Tells(generate(h, x, y)) /\ Tells(delete(h, x))
<1>1. ASSUME NEW f, Lists(f)
      PROVE  Lists(Listing(f, x, y)) /\ Lists(Without(f, {x}))
  <2>1. Listed(f, x) \in Seq(Nat)
    BY <1>1 DEF Listed, Lists
  <2>2. Append(Listed(f, x), y) \in Seq(Nat)
    BY <2>1
  <2> QED BY <1>1, <2>2 DEF Lists, Listing, Without
<1>2. /\ Lists(Listing(h.generated, x, y)) /\ Lists(Listing(h.modified, x, y))
      /\ Lists(Without(h.modified, {x}))
      /\ Lists(h.generated) /\ Lists(h.modified) /\ h.deleted \subseteq Nat
  BY <1>1 DEF Tells
<1>11. ASSUME NEW m, NEW d,
              \/ m = Listing(h.modified, x, y) /\ d = h.deleted \ {x}
              \/ m = Without(h.modified, {x}) /\ d = h.deleted \cup {x}
              \/ m = h.modified /\ d = h.deleted
       PROVE  /\ m = [z \in DOMAIN m |-> m[z]]
              /\ \A z \in DOMAIN m : m[z] # <<>> /\ z \notin d
  <2>1. /\ h.modified = [z \in DOMAIN h.modified |-> h.modified[z]]
        /\ \A z \in DOMAIN h.modified : h.modified[z] # <<>> /\ z \notin h.deleted
    BY DEF Tells
  <2>2. Append(Listed(h.modified, x), y) # <<>>
    <3>1. PICK xs : xs = Listed(h.modified, x) /\ xs \in Seq(Nat)
      <4>1. Listed(h.modified, x) \in Seq(Nat)
        BY <1>2 DEF Listed, Lists
      <4> QED BY <4>1
    <3>2. Len(Append(xs, y)) = Len(xs) + 1 /\ Len(xs) \in Nat
      BY <3>1
    <3>3. Len(Append(xs, y)) # Len(<<>>)
      BY <3>2
    <3> QED BY <3>1, <3>3
  <2> QED BY <1>11, <2>1, <2>2 DEF Listing, Without
<1>12. ASSUME NEW t, NEW a, NEW m, NEW d, NEW c,
              t = [generated |-> a, modified |-> m, deleted |-> d, copied |-> c],
              Lists(a), Lists(m), d \subseteq Nat,
              m = [z \in DOMAIN m |-> m[z]],
              \A z \in DOMAIN m : m[z] # <<>> /\ z \notin d
       PROVE  Tells(t)
  <2>1. t.generated = a /\ t.modified = m /\ t.deleted = d /\ t.copied = c
    BY <1>12
  <2> QED BY <1>12, <2>1 DEF Tells
<1>3. h = [generated |-> h.generated, modified |-> h.modified,
           deleted |-> h.deleted, copied |-> h.copied]
  BY DEF Tells
<1>8. PICK g, m, d, c : /\ g = h.generated /\ m = h.modified /\ d = h.deleted /\ c = h.copied
                       /\ h = [generated |-> g, modified |-> m, deleted |-> d, copied |-> c]
  BY <1>3
<1>10. h = [generated |-> g, modified |-> m, deleted |-> d, copied |-> c]
  BY <1>8
<1>9. modify(h, x, y) = [generated |-> h.generated, modified |-> Listing(h.modified, x, y),
                         deleted |-> h.deleted \ {x}, copied |-> h.copied]
  <2>1. PICK a, b : a = Listing(h.modified, x, y) /\ b = h.deleted \ {x}
    OBVIOUS
  <2>2. modify(h, x, y) = [h EXCEPT !.modified = a, !.deleted = b]
    BY <2>1 DEF modify
  <2>3. [h EXCEPT !.modified = a, !.deleted = b] =
           [generated |-> g, modified |-> a, deleted |-> b, copied |-> c]
    <3>1. PICK i : i = [h EXCEPT !.modified = a]
      OBVIOUS
    <3>2. i = [generated |-> g, modified |-> a, deleted |-> d, copied |-> c]
      BY <1>10, <3>1
    <3>3. [i EXCEPT !.deleted = b] =
             [generated |-> g, modified |-> a, deleted |-> b, copied |-> c]
      BY <3>2
    <3>4. [h EXCEPT !.modified = a, !.deleted = b] = [i EXCEPT !.deleted = b]
      BY <3>1
    <3> QED BY <3>3, <3>4
  <2> QED BY <1>8, <2>1, <2>2, <2>3
<1>4. Tells(modify(h, x, y))
  <2>2. PICK a, k, b, e : /\ a = h.generated /\ k = Listing(h.modified, x, y)
                          /\ b = h.deleted \ {x} /\ e = h.copied
    OBVIOUS
  <2>3. /\ Lists(a) /\ Lists(k) /\ b \subseteq Nat
        /\ k = [z \in DOMAIN k |-> k[z]]
        /\ \A z \in DOMAIN k : k[z] # <<>> /\ z \notin b
    <3>1. Lists(a) /\ Lists(k) /\ b \subseteq Nat
      BY <1>2, <2>2
    <3>2. \/ k = Listing(h.modified, x, y) /\ b = h.deleted \ {x}
          \/ k = Without(h.modified, {x}) /\ b = h.deleted \cup {x}
          \/ k = h.modified /\ b = h.deleted
      BY <2>2
    <3>3. /\ k = [z \in DOMAIN k |-> k[z]]
          /\ \A z \in DOMAIN k : k[z] # <<>> /\ z \notin b
      BY Zenon, <1>11, <3>2
    <3> QED BY <3>1, <3>3
  <2>4. modify(h, x, y) = [generated |-> a, modified |-> k, deleted |-> b, copied |-> e]
    BY <1>9, <2>2
  <2> QED BY <1>12, <2>3, <2>4
<1>5. Tells(copy(h, x, y))
  <2>1. copy(h, x, y) = [generated |-> h.generated, modified |-> Listing(h.modified, x, y),
                         deleted |-> h.deleted \ {x}, copied |-> h.copied \cup {x}]
    <3>1. PICK u, a, b, e : /\ u = modify(h, x, y) /\ a = Listing(h.modified, x, y)
                            /\ b = h.deleted \ {x} /\ e = h.copied \cup {x}
      OBVIOUS
    <3>2. u = [generated |-> g, modified |-> a, deleted |-> b, copied |-> c]
      BY <1>8, <1>9, <3>1
    <3>3. [u EXCEPT !.copied = e] = [generated |-> g, modified |-> a, deleted |-> b, copied |-> e]
      BY <3>2
    <3>4. copy(h, x, y) = [u EXCEPT !.copied = u.copied \cup {x}] /\ u.copied = c
      BY <3>1, <3>2 DEF copy
    <3> QED BY <1>8, <3>1, <3>3, <3>4
  <2>2. PICK a, k, b, e : /\ a = h.generated /\ k = Listing(h.modified, x, y)
                          /\ b = h.deleted \ {x} /\ e = h.copied \cup {x}
    OBVIOUS
  <2>3. /\ Lists(a) /\ Lists(k) /\ b \subseteq Nat
        /\ k = [z \in DOMAIN k |-> k[z]]
        /\ \A z \in DOMAIN k : k[z] # <<>> /\ z \notin b
    <3>1. Lists(a) /\ Lists(k) /\ b \subseteq Nat
      BY <1>2, <2>2
    <3>2. \/ k = Listing(h.modified, x, y) /\ b = h.deleted \ {x}
          \/ k = Without(h.modified, {x}) /\ b = h.deleted \cup {x}
          \/ k = h.modified /\ b = h.deleted
      BY <2>2
    <3>3. /\ k = [z \in DOMAIN k |-> k[z]]
          /\ \A z \in DOMAIN k : k[z] # <<>> /\ z \notin b
      BY Zenon, <1>11, <3>2
    <3> QED BY <3>1, <3>3
  <2>4. copy(h, x, y) = [generated |-> a, modified |-> k, deleted |-> b, copied |-> e]
    BY <2>1, <2>2
  <2> QED BY <1>12, <2>3, <2>4
<1>6. Tells(generate(h, x, y))
  <2>1. generate(h, x, y) = [generated |-> Listing(h.generated, x, y), modified |-> h.modified,
                             deleted |-> h.deleted, copied |-> h.copied]
    BY <1>8 DEF generate
  <2>2. PICK a, k, b, e : /\ a = Listing(h.generated, x, y) /\ k = h.modified
                          /\ b = h.deleted /\ e = h.copied
    OBVIOUS
  <2>3. /\ Lists(a) /\ Lists(k) /\ b \subseteq Nat
        /\ k = [z \in DOMAIN k |-> k[z]]
        /\ \A z \in DOMAIN k : k[z] # <<>> /\ z \notin b
    <3>1. Lists(a) /\ Lists(k) /\ b \subseteq Nat
      BY <1>2, <2>2
    <3>2. \/ k = Listing(h.modified, x, y) /\ b = h.deleted \ {x}
          \/ k = Without(h.modified, {x}) /\ b = h.deleted \cup {x}
          \/ k = h.modified /\ b = h.deleted
      BY <2>2
    <3>3. /\ k = [z \in DOMAIN k |-> k[z]]
          /\ \A z \in DOMAIN k : k[z] # <<>> /\ z \notin b
      BY Zenon, <1>11, <3>2
    <3> QED BY <3>1, <3>3
  <2>4. generate(h, x, y) = [generated |-> a, modified |-> k, deleted |-> b, copied |-> e]
    BY <2>1, <2>2
  <2> QED BY <1>12, <2>3, <2>4
<1>7. Tells(delete(h, x))
  <2>1. delete(h, x) = [generated |-> h.generated, modified |-> Without(h.modified, {x}),
                        deleted |-> h.deleted \cup {x}, copied |-> h.copied \ {x}]
    <3>1. PICK a, b, e : /\ a = Without(h.modified, {x})
                         /\ b = h.deleted \cup {x} /\ e = h.copied \ {x}
      OBVIOUS
    <3>2. delete(h, x) = [h EXCEPT !.modified = a, !.copied = e, !.deleted = b]
      BY <3>1 DEF delete
    <3>3. [h EXCEPT !.modified = a, !.copied = e, !.deleted = b] =
             [generated |-> g, modified |-> a, deleted |-> b, copied |-> e]
      <4>1. PICK i : i = [h EXCEPT !.modified = a]
        OBVIOUS
      <4>2. i = [generated |-> g, modified |-> a, deleted |-> d, copied |-> c]
        BY <1>10, <4>1
      <4>3. PICK j : j = [i EXCEPT !.copied = e]
        OBVIOUS
      <4>4. j = [generated |-> g, modified |-> a, deleted |-> d, copied |-> e]
        BY <4>2, <4>3
      <4>5. [j EXCEPT !.deleted = b] =
               [generated |-> g, modified |-> a, deleted |-> b, copied |-> e]
        BY <4>4
      <4>6. [h EXCEPT !.modified = a, !.copied = e, !.deleted = b] = [j EXCEPT !.deleted = b]
        BY <4>1, <4>3
      <4> QED BY <4>5, <4>6
    <3> QED BY <1>8, <3>1, <3>2, <3>3
  <2>2. PICK a, k, b, e : /\ a = h.generated /\ k = Without(h.modified, {x})
                          /\ b = h.deleted \cup {x} /\ e = h.copied \ {x}
    OBVIOUS
  <2>3. /\ Lists(a) /\ Lists(k) /\ b \subseteq Nat
        /\ k = [z \in DOMAIN k |-> k[z]]
        /\ \A z \in DOMAIN k : k[z] # <<>> /\ z \notin b
    <3>1. Lists(a) /\ Lists(k) /\ b \subseteq Nat
      BY <1>2, <2>2
    <3>2. \/ k = Listing(h.modified, x, y) /\ b = h.deleted \ {x}
          \/ k = Without(h.modified, {x}) /\ b = h.deleted \cup {x}
          \/ k = h.modified /\ b = h.deleted
      BY <2>2
    <3>3. /\ k = [z \in DOMAIN k |-> k[z]]
          /\ \A z \in DOMAIN k : k[z] # <<>> /\ z \notin b
      BY Zenon, <1>11, <3>2
    <3> QED BY <3>1, <3>3
  <2>4. delete(h, x) = [generated |-> a, modified |-> k, deleted |-> b, copied |-> e]
    BY <2>1, <2>2
  <2> QED BY <1>12, <2>3, <2>4
<1> QED BY <1>4, <1>5, <1>6, <1>7

LEMMA HistoriesAlwaysStand == OperationsSpec => []HistoriesStand
<1>1. OperationsInit => HistoriesStand
  <2> SUFFICES ASSUME OperationsInit PROVE HistoriesStand
    OBVIOUS
  <2>1. Tells(identity)
    BY DEF Tells, Lists, identity
  <2>2. steps \in Seq({}) /\ entity \in Seq({}) /\ DOMAIN steps = {}
    BY DEF OperationsInit
  <2>3. now = identity
    BY DEF OperationsInit
  <2> QED BY <2>1, <2>2, <2>3 DEF HistoriesStand
<1>2. HistoriesStand /\ [OperationsNext]_allvars => HistoriesStand'
  <2> SUFFICES ASSUME HistoriesStand, [OperationsNext]_allvars PROVE HistoriesStand'
    OBVIOUS
  <2>1. PICK S : entity \in Seq(S)
    BY DEF HistoriesStand
  <2>2. PICK H : steps \in Seq(H)
    BY DEF HistoriesStand
  <2>3. /\ Fresh \in Nat /\ Shapes \subseteq Nat
        /\ \A e : Append(entity, e) \in Seq(S \cup {e})
        /\ \A x \in Shapes : \A e : [entity EXCEPT ![x] = e] \in Seq(S \cup {e})
    <3>1. Len(entity) \in Nat /\ Shapes = 1..Len(entity)
      BY <2>1 DEF Shapes
    <3>2. ASSUME NEW e PROVE entity \in Seq(S \cup {e}) /\ e \in S \cup {e}
      BY <2>1, SeqMonotonic
    <3>3. \A e : Append(entity, e) \in Seq(S \cup {e})
      BY <3>2, AppendProperties
    <3>4. \A x \in Shapes : \A e : [entity EXCEPT ![x] = e] \in Seq(S \cup {e})
      BY <3>1, <3>2, ExceptSeq
    <3>5. Fresh \in Nat /\ Shapes \subseteq Nat
      BY <3>1 DEF Fresh
    <3> QED BY <3>3, <3>4, <3>5
  <2>4. ASSUME NEW h, Tells(h), Tell(h), (\E R : entity' \in Seq(R))
        PROVE  HistoriesStand'
    BY <2>2, <2>4 DEF Tell, HistoriesStand
  <2>5. ASSUME NEW ids, New(ids)
        PROVE  \E R : entity' \in Seq(R)
    BY <2>3, <2>5 DEF New
  <2>6. CASE UNCHANGED operations
    BY <2>6 DEF operations, HistoriesStand
  <2>7. CASE Make
    <3>1. \E R : entity' \in Seq(R)
      BY <2>5, <2>7 DEF Make
    <3> QED BY <2>7, <3>1 DEF Make, HistoriesStand
  <2>8. CASE EndOperation
    <3>1. Tells(identity)
      BY DEF Tells, Lists, identity
    <3>2. /\ steps \in Seq(H \cup {now})
          /\ steps' = Append(steps, now)
          /\ now' = identity /\ entity' = entity
      BY <2>2, <2>8, SeqMonotonic DEF EndOperation
    <3>3. /\ steps' \in Seq(H \cup {now})
          /\ Len(steps') = Len(steps) + 1 /\ DOMAIN steps' = 1..(Len(steps) + 1)
          /\ \A i \in 1..Len(steps) : steps'[i] = steps[i]
          /\ steps'[Len(steps) + 1] = now
          /\ Len(steps) \in Nat /\ DOMAIN steps = 1..Len(steps)
      BY <3>2
    <3>4. \A i \in DOMAIN steps' : Tells(steps'[i])
      BY <3>3 DEF HistoriesStand
    <3> QED BY <2>1, <3>1, <3>2, <3>3, <3>4 DEF HistoriesStand
  <2>9. ASSUME NEW x \in Shapes
        PROVE  /\ Rebuild(x) => HistoriesStand'
               /\ Settle(x) => HistoriesStand'
               /\ Sweep(x) => HistoriesStand'
               /\ Unshare(x) => HistoriesStand'
               /\ Lose(x) => HistoriesStand'
               /\ \A y \in Shapes : Join(x, y) => HistoriesStand'
    <3>1. Tells(now) /\ x \in Nat /\ Fresh \in Nat
      BY <2>3 DEF HistoriesStand
    <3>2. /\ Tells(modify(now, x, Fresh)) /\ Tells(copy(now, x, Fresh))
          /\ Tells(copy(now, x, x)) /\ Tells(generate(now, x, Fresh)) /\ Tells(delete(now, x))
      BY <3>1, TellingTells
    <3>3. Rebuild(x) => HistoriesStand'
      BY <2>4, <2>5, <3>2 DEF Rebuild
    <3>4. Settle(x) => HistoriesStand'
      <4> SUFFICES ASSUME Settle(x) PROVE HistoriesStand'
        OBVIOUS
      <4>1. entity' = [entity EXCEPT ![x] = NextId] /\ Tell(copy(now, x, x))
        BY DEF Settle
      <4>2. [entity EXCEPT ![x] = NextId] \in Seq(S \cup {NextId})
        BY <2>3
      <4> QED BY <2>4, <3>2, <4>1, <4>2
    <3>5. Sweep(x) => HistoriesStand'
      BY <2>4, <2>5, <3>2 DEF Sweep
    <3>6. Unshare(x) => HistoriesStand'
      BY <2>3, <2>4, <3>2 DEF Unshare
    <3>7. Lose(x) => HistoriesStand'
      BY <2>1, <2>4, <3>2 DEF Lose
    <3>8. ASSUME NEW y \in Shapes, Join(x, y) PROVE HistoriesStand'
      <4>1. Tells(modify(modify(now, x, Fresh), y, Fresh))
        BY <2>3, <3>1, <3>2, TellingTells
      <4> QED BY <2>4, <2>5, <3>8, <4>1 DEF Join
    <3> QED BY <3>3, <3>4, <3>5, <3>6, <3>7, <3>8
  <2>10. CASE Table
    BY <2>6, <2>10 DEF Table
  <2>11. CASE UNCHANGED allvars
    BY <2>6, <2>11 DEF allvars
  <2> QED BY <2>7, <2>8, <2>9, <2>10, <2>11 DEF OperationsNext
<1> QED BY <1>1, <1>2, PTL DEF OperationsSpec

(* Composing a history in place, reworking only what the next operation    *)
(* reaches, answers every question as composing afresh does, however many  *)
(* operations were chained before over however many shapes.                *)
THEOREM InPlaceAsAfresh == OperationsSpec => []FollowedByAnswersAsThen
<1>1. HistoriesStand => FollowedByAnswersAsThen
  <2> SUFFICES ASSUME HistoriesStand PROVE FollowedByAnswersAsThen
    OBVIOUS
  <2>1. PICK S : steps \in Seq(S)
    BY DEF HistoriesStand
  <2>2. PICK hs, first : hs = steps /\ first = FoldLeft(then, identity, hs)
    OBVIOUS
  <2>3. Tells(first) /\ Plain(first)
    BY <2>1, <2>2, ChainTells DEF HistoriesStand
  <2>4. followed_by(first, now) = then(first, now)
    BY <2>3, ReworksEnough DEF HistoriesStand
  <2> QED BY <2>2, <2>4 DEF FollowedByAnswersAsThen
<1> QED BY <1>1, HistoriesAlwaysStand, PTL

-----------------------------------------------------------------------------
(* The algebra of what is gathered along a list.                           *)
Gathered(g, xs) == FlattenSeq([i \in DOMAIN xs |-> g[xs[i]]])

Gatherers == [Nat -> Seq(Nat)]

LEMMA Shortest ==
    ASSUME NEW T \in SUBSET Seq(Nat), T # {}
    PROVE  \E t \in T : \A u \in T : ~(Len(u) < Len(t))
<1> DEFINE L == {Len(t) : t \in T}
<1>1. L \in SUBSET Nat /\ L # {}
  <2>1. \A t \in T : Len(t) \in Nat
    OBVIOUS
  <2> QED BY <2>1
<1> HIDE DEF L
<1>2. PICK n \in L : \A m \in L : ~(m < n)
  BY <1>1, HasLeast
<1> QED BY <1>2 DEF L

LEMMA LastApart ==
    ASSUME NEW xs \in Seq(Nat), xs # <<>>
    PROVE  \E ys \in Seq(Nat) : \E y \in Nat : xs = Append(ys, y) /\ Len(ys) < Len(xs)
<1>1. PICK n : n = Len(xs) /\ n \in Nat \ {0} /\ DOMAIN xs = 1..n
  OBVIOUS
<1>2. PICK ys : ys = SubSeq(xs, 1, n - 1)
  OBVIOUS
<1>3. ys \in Seq(Nat) /\ Len(ys) = n - 1 /\ \A i \in 1..(n - 1) : ys[i] = xs[i]
  BY <1>1, <1>2
<1>4. xs[n] \in Nat
  BY <1>1
<1>5. PICK zs : zs = Append(ys, xs[n])
  OBVIOUS
<1>6. zs \in Seq(Nat) /\ Len(zs) = n /\ zs[n] = xs[n] /\ \A i \in 1..(n - 1) : zs[i] = xs[i]
  BY <1>1, <1>3, <1>4, <1>5
<1>7. \A i \in 1..n : zs[i] = xs[i]
  BY <1>1, <1>6
<1>8. zs = xs
  BY <1>1, <1>6, <1>7, SeqEqual
<1> QED BY <1>1, <1>3, <1>4, <1>5, <1>8

LEMMA FlattenStep ==
    ASSUME NEW ss \in Seq(Seq(Nat)), NEW s \in Seq(Nat)
    PROVE  FlattenSeq(Append(ss, s)) = FlattenSeq(ss) \o s
<1>1. PICK n : n = Len(ss) /\ n \in Nat /\ DOMAIN ss = 1..n
  OBVIOUS
<1>2. PICK ts : ts = Append(ss, s)
  OBVIOUS
<1>3. /\ ts \in Seq(Seq(Nat)) /\ Len(ts) = n + 1 /\ ts[n + 1] = s
      /\ \A i \in 1..n : ts[i] = ss[i]
  BY <1>1, <1>2
<1>4. PICK f : Joins(f, n + 1, ts) /\ FlattenSeq(ts) = f[n + 1]
  <2>1. Len(ts) \in Nat \ {0}
    BY <1>1, <1>3
  <2>2. \E f : Joins(f, Len(ts), ts) /\ FlattenSeq(ts) = f[Len(ts)]
    BY <2>1, FlattenIs
  <2> QED BY <1>3, <2>2
<1>5. \A i \in 1..(n + 1) : f[i] = IF i = 1 THEN ts[i] ELSE f[i - 1] \o ts[i]
  BY <1>4 DEF Joins
<1>6. CASE n = 0
  <2>1. ss = <<>> /\ FlattenSeq(ss) = <<>>
    BY <1>1, <1>6 DEF FlattenSeq
  <2>2. f[1] = s
    BY <1>3, <1>5, <1>6
  <2> QED BY <1>2, <1>4, <1>6, <2>1, <2>2, ConcatEmptySeq
<1>7. CASE n # 0
  <2>1. PICK g : Joins(g, n, ss) /\ FlattenSeq(ss) = g[n]
    BY <1>1, <1>7, FlattenIs
  <2>2. \A i \in 1..n : g[i] = IF i = 1 THEN ss[i] ELSE g[i - 1] \o ss[i]
    BY <2>1 DEF Joins
  <2> DEFINE T == {k \in 1..n : f[k] # g[k]}
  <2>3. ASSUME T # {} PROVE FALSE
    <3>1. PICK k \in T : \A j \in T : ~(j < k)
      <4> T \in SUBSET Nat
        BY <1>1
      <4> HIDE DEF T
      <4> QED BY <2>3, HasLeast
    <3>2. k \in 1..(n + 1)
      BY <1>1
    <3>3. f[k] = (IF k = 1 THEN ts[k] ELSE f[k - 1] \o ts[k]) /\ ts[k] = ss[k]
      BY <1>3, <1>5, <3>2
    <3>4. k # 1 => k - 1 \in 1..n /\ k - 1 < k
      BY <1>1
    <3>5. k # 1 => f[k - 1] = g[k - 1]
      BY <3>1, <3>4
    <3> QED BY <2>2, <3>1, <3>3, <3>5
  <2>4. f[n] = g[n]
    BY <1>1, <1>7, <2>3
  <2>5. f[n + 1] = f[n] \o s
    <3>1. n + 1 \in 1..(n + 1) /\ n + 1 # 1 /\ (n + 1) - 1 = n
      BY <1>1, <1>7
    <3> QED BY <1>3, <1>5, <3>1
  <2> QED BY <1>2, <1>4, <2>1, <2>4, <2>5
<1> QED BY <1>6, <1>7

LEMMA GatheredStep ==
    ASSUME NEW g \in Gatherers
    PROVE  /\ Gathered(g, <<>>) = <<>>
           /\ \A xs \in Seq(Nat) : Gathered(g, xs) \in Seq(Nat)
           /\ \A xs \in Seq(Nat), y \in Nat : Gathered(g, Append(xs, y)) = Gathered(g, xs) \o g[y]
<1> DEFINE Along(xs) == [i \in DOMAIN xs |-> g[xs[i]]]
<1>1. ASSUME NEW xs \in Seq(Nat)
      PROVE  Along(xs) \in Seq(Seq(Nat)) /\ Len(Along(xs)) = Len(xs)
  <2>1. PICK n : n = Len(xs) /\ n \in Nat /\ DOMAIN xs = 1..n
    OBVIOUS
  <2>2. \A i \in 1..n : g[xs[i]] \in Seq(Nat)
    <3>1. \A i \in 1..n : xs[i] \in Nat
      BY <2>1
    <3> QED BY <3>1 DEF Gatherers
  <2>3. Along(xs) \in [1..n -> Seq(Nat)]
    BY <2>1, <2>2
  <2>4. PICK a : a = Along(xs)
    OBVIOUS
  <2>5. a \in Seq(Seq(Nat)) /\ Len(a) = n
    BY <2>1, <2>3, <2>4
  <2> QED BY <2>1, <2>4, <2>5
<1>2. \A xs \in Seq(Nat) : Gathered(g, xs) \in Seq(Nat)
  <2> SUFFICES ASSUME NEW xs \in Seq(Nat) PROVE Gathered(g, xs) \in Seq(Nat)
    OBVIOUS
  <2>1. FlattenSeq(Along(xs)) \in Seq(Nat)
    <3>1. PICK a : a = Along(xs) /\ a \in Seq(Seq(Nat))
      BY <1>1
    <3> QED BY <3>1, FlattenInSeq
  <2> QED BY <2>1 DEF Gathered
<1>3. Gathered(g, <<>>) = <<>>
  <2>1. <<>> \in Seq(Nat) /\ Len(<<>>) = 0
    OBVIOUS
  <2>2. PICK a : a = Along(<<>>) /\ a \in Seq(Seq(Nat)) /\ Len(a) = 0
    BY <1>1, <2>1
  <2>3. a = <<>> /\ FlattenSeq(a) = a
    BY <2>2 DEF FlattenSeq
  <2> QED BY <2>2, <2>3 DEF Gathered
<1>4. ASSUME NEW xs \in Seq(Nat), NEW y \in Nat
      PROVE  Gathered(g, Append(xs, y)) = Gathered(g, xs) \o g[y]
  <2>1. PICK n : n = Len(xs) /\ n \in Nat /\ DOMAIN xs = 1..n
    OBVIOUS
  <2>2. PICK zs : zs = Append(xs, y)
    OBVIOUS
  <2>3. /\ zs \in Seq(Nat) /\ Len(zs) = n + 1 /\ zs[n + 1] = y
        /\ \A i \in 1..n : zs[i] = xs[i]
    BY <2>1, <2>2
  <2>4. PICK a, b, s : a = Along(xs) /\ b = Along(zs) /\ s = g[y]
    OBVIOUS
  <2>5. /\ a \in Seq(Seq(Nat)) /\ Len(a) = n /\ b \in Seq(Seq(Nat)) /\ Len(b) = n + 1
        /\ s \in Seq(Nat)
    BY <1>1, <2>1, <2>3, <2>4 DEF Gatherers
  <2>6. DOMAIN zs = 1..(n + 1)
    BY <2>3
  <2>7. \A i \in 1..n : a[i] = g[xs[i]] /\ b[i] = g[xs[i]]
    BY <2>1, <2>3, <2>4, <2>6
  <2>8. b[n + 1] = s
    BY <2>1, <2>3, <2>4, <2>6
  <2>9. PICK c : c = Append(a, s)
    OBVIOUS
  <2>10. /\ c \in Seq(Seq(Nat)) /\ Len(c) = n + 1 /\ c[n + 1] = s
         /\ \A i \in 1..n : c[i] = a[i]
    BY <2>1, <2>5, <2>9
  <2>11. \A i \in 1..(n + 1) : b[i] = c[i]
    <3> SUFFICES ASSUME NEW i \in 1..(n + 1) PROVE b[i] = c[i]
      OBVIOUS
    <3>1. i \in 1..n \/ i = n + 1
      BY <2>1
    <3> QED BY <2>7, <2>8, <2>10, <3>1
  <2>12. b = c
    BY <2>5, <2>10, <2>11, SeqEqual
  <2>13. FlattenSeq(b) = FlattenSeq(a) \o s
    BY <2>5, <2>9, <2>12, FlattenStep
  <2> QED BY <2>2, <2>4, <2>13 DEF Gathered
<1> QED BY <1>2, <1>3, <1>4

LEMMA JoinsAppend ==
    ASSUME NEW xs \in Seq(Nat), NEW ys \in Seq(Nat), NEW y \in Nat
    PROVE  xs \o Append(ys, y) = Append(xs \o ys, y)
<1>1. <<y>> \in Seq(Nat) /\ xs \o ys \in Seq(Nat)
  OBVIOUS
<1>2. Append(ys, y) = ys \o <<y>> /\ Append(xs \o ys, y) = (xs \o ys) \o <<y>>
  BY <1>1, AppendIsConcat
<1>3. (xs \o ys) \o <<y>> = xs \o (ys \o <<y>>)
  BY <1>1, ConcatAssociative
<1> QED BY <1>2, <1>3

LEMMA JoinedAssociates ==
    ASSUME NEW u \in Seq(Nat), NEW v \in Seq(Nat), NEW w \in Seq(Nat)
    PROVE  (u \o v) \o w = u \o (v \o w)
  OBVIOUS

LEMMA GatheredJoined ==
    ASSUME NEW g \in Gatherers, NEW xs \in Seq(Nat), NEW ws \in Seq(Nat)
    PROVE  Gathered(g, xs \o ws) = Gathered(g, xs) \o Gathered(g, ws)
<1> DEFINE T == {ys \in Seq(Nat) : Gathered(g, xs \o ys) # Gathered(g, xs) \o Gathered(g, ys)}
<1>1. ASSUME T # {} PROVE FALSE
  <2>1. PICK zs \in T : \A u \in T : ~(Len(u) < Len(zs))
    <3>1. T \in SUBSET Seq(Nat)
      OBVIOUS
    <3> HIDE DEF T
    <3> QED BY <1>1, <3>1, Shortest
  <2>2. zs # <<>>
    <3>1. xs \o <<>> = xs /\ Gathered(g, xs) \o <<>> = Gathered(g, xs)
      BY GatheredStep, ConcatEmptySeq
    <3> QED BY <2>1, <3>1, GatheredStep
  <2>3. PICK ys \in Seq(Nat) : \E y \in Nat : zs = Append(ys, y) /\ Len(ys) < Len(zs)
    BY <2>1, <2>2, LastApart
  <2>4. PICK y \in Nat : zs = Append(ys, y) /\ Len(ys) < Len(zs)
    BY <2>3
  <2>5. Gathered(g, xs \o ys) = Gathered(g, xs) \o Gathered(g, ys)
    BY <2>1, <2>4
  <2>6. xs \o ys \in Seq(Nat)
    OBVIOUS
  <2>7. Gathered(g, xs \o zs) = Gathered(g, xs \o ys) \o g[y]
    <3>1. PICK w : w = xs \o ys
      OBVIOUS
    <3>2. xs \o zs = Append(w, y)
      BY <2>4, <3>1, JoinsAppend
    <3>3. w \in Seq(Nat)
      BY <2>6, <3>1
    <3>4. Gathered(g, Append(w, y)) = Gathered(g, w) \o g[y]
      BY <3>3, GatheredStep
    <3> QED BY <3>1, <3>2, <3>4
  <2>8. Gathered(g, zs) = Gathered(g, ys) \o g[y]
    BY <2>4, GatheredStep
  <2>9. /\ Gathered(g, xs) \in Seq(Nat) /\ Gathered(g, ys) \in Seq(Nat) /\ g[y] \in Seq(Nat)
    BY GatheredStep DEF Gatherers
  <2>10. (Gathered(g, xs) \o Gathered(g, ys)) \o g[y] = Gathered(g, xs) \o (Gathered(g, ys) \o g[y])
    <3>1. PICK a, b, c : a = Gathered(g, xs) /\ b = Gathered(g, ys) /\ c = g[y]
      OBVIOUS
    <3>2. a \in Seq(Nat)
      BY <2>9, <3>1
    <3>4. b \in Seq(Nat)
      BY <2>9, <3>1
    <3>5. c \in Seq(Nat)
      BY <2>9, <3>1
    <3> HIDE DEF T
    <3>3. (a \o b) \o c = a \o (b \o c)
      BY <3>2, <3>4, <3>5, JoinedAssociates
    <3> QED BY <3>1, <3>3
  <2> QED BY <2>1, <2>5, <2>7, <2>8, <2>10
<1> QED BY <1>1

LEMMA GatheredTwice ==
    ASSUME NEW f \in Gatherers, NEW g \in Gatherers, NEW h \in Gatherers,
           \A x \in Nat : h[x] = Gathered(g, f[x]), NEW xs \in Seq(Nat)
    PROVE  Gathered(g, Gathered(f, xs)) = Gathered(h, xs)
<1> DEFINE T == {ys \in Seq(Nat) : Gathered(g, Gathered(f, ys)) # Gathered(h, ys)}
<1>1. ASSUME T # {} PROVE FALSE
  <2>1. PICK zs \in T : \A u \in T : ~(Len(u) < Len(zs))
    <3>1. T \in SUBSET Seq(Nat)
      OBVIOUS
    <3> HIDE DEF T
    <3> QED BY <1>1, <3>1, Shortest
  <2>2. zs # <<>>
    BY <2>1, GatheredStep
  <2>3. PICK ys \in Seq(Nat) : \E y \in Nat : zs = Append(ys, y) /\ Len(ys) < Len(zs)
    BY <2>1, <2>2, LastApart
  <2>4. PICK y \in Nat : zs = Append(ys, y) /\ Len(ys) < Len(zs)
    BY <2>3
  <2>5. Gathered(g, Gathered(f, ys)) = Gathered(h, ys)
    BY <2>1, <2>4
  <2>6. Gathered(f, zs) = Gathered(f, ys) \o f[y] /\ Gathered(h, zs) = Gathered(h, ys) \o h[y]
    BY <2>4, GatheredStep
  <2>7. Gathered(f, ys) \in Seq(Nat) /\ f[y] \in Seq(Nat)
    BY GatheredStep DEF Gatherers
  <2>8. Gathered(g, Gathered(f, ys) \o f[y]) = Gathered(g, Gathered(f, ys)) \o Gathered(g, f[y])
    BY <2>7, GatheredJoined
  <2> QED BY <2>1, <2>5, <2>6, <2>8
<1> QED BY <1>1

LEMMA ToSetJoined ==
    ASSUME NEW s \in Seq(Nat), NEW t \in Seq(Nat)
    PROVE  ToSet(s \o t) = ToSet(s) \cup ToSet(t)
<1>a. PICK m : m = Len(s) /\ m \in Nat /\ DOMAIN s = 1..m
  OBVIOUS
<1>b. PICK n : n = Len(t) /\ n \in Nat /\ DOMAIN t = 1..n
  OBVIOUS
<1>1. /\ m = Len(s) /\ m \in Nat /\ DOMAIN s = 1..m
      /\ n = Len(t) /\ n \in Nat /\ DOMAIN t = 1..n
  BY <1>a, <1>b
<1>2. PICK w : w = s \o t
  OBVIOUS
<1>3. /\ DOMAIN w = 1..(m + n)
      /\ \A i \in 1..(m + n) : w[i] = IF i <= m THEN s[i] ELSE t[i - m]
  BY <1>1, <1>2
<1>4. \A i \in 1..m : i \in 1..(m + n) /\ w[i] = s[i]
  BY <1>1, <1>3
<1>5. ASSUME NEW i \in 1..n PROVE m + i \in 1..(m + n) /\ w[m + i] = t[i]
  <2>1. PICK k : k = m + i
    OBVIOUS
  <2>2. k \in 1..(m + n) /\ ~(k <= m) /\ k - m = i
    BY <1>1, <2>1
  <2>3. w[k] = t[k - m]
    BY <1>3, <2>2
  <2> QED BY <2>1, <2>2, <2>3
<1>6. \A i \in 1..(m + n) : (i \in 1..m /\ w[i] = s[i]) \/ (i - m \in 1..n /\ w[i] = t[i - m])
  BY <1>1, <1>3
<1>7. \A e \in ToSet(w) : e \in ToSet(s) \cup ToSet(t)
  BY <1>1, <1>3, <1>6 DEF ToSet
<1>8. \A e \in ToSet(s) : e \in ToSet(w)
  BY <1>1, <1>3, <1>4 DEF ToSet
<1>9. \A e \in ToSet(t) : e \in ToSet(w)
  <2>1. ASSUME NEW e \in ToSet(t) PROVE \E i \in 1..n : e = t[i]
    BY <1>1 DEF ToSet
  <2>2. ASSUME NEW i \in 1..n PROVE t[i] \in ToSet(w)
    <3>1. m + i \in DOMAIN w /\ w[m + i] = t[i]
      BY <1>1, <1>3, <1>5
    <3> QED BY <3>1 DEF ToSet
  <2> QED BY <2>1, <2>2
<1> QED BY <1>2, <1>7, <1>8, <1>9

LEMMA ToSetAppend ==
    ASSUME NEW ys \in Seq(Nat), NEW y \in Nat
    PROVE  ToSet(Append(ys, y)) = ToSet(ys) \cup {y}
<1>1. PICK m : m = Len(ys) /\ m \in Nat /\ DOMAIN ys = 1..m
  OBVIOUS
<1>2. PICK w : w = Append(ys, y)
  OBVIOUS
<1>3. /\ DOMAIN w = 1..(m + 1) /\ w[m + 1] = y
      /\ \A i \in 1..m : i \in 1..(m + 1) /\ w[i] = ys[i]
  BY <1>1, <1>2
<1>4. \A i \in 1..(m + 1) : i \in 1..m \/ i = m + 1
  BY <1>1
<1>5. m + 1 \in 1..(m + 1)
  BY <1>1
<1> QED BY <1>1, <1>2, <1>3, <1>4, <1>5 DEF ToSet

(* What is gathered is what is gathered of some member.                    *)
LEMMA GatheredMembers ==
    ASSUME NEW g \in Gatherers, NEW xs \in Seq(Nat)
    PROVE  ToSet(Gathered(g, xs)) = UNION {ToSet(g[y]) : y \in ToSet(xs)}
<1> DEFINE Of(ys) == UNION {ToSet(g[y]) : y \in ToSet(ys)}
           T == {ys \in Seq(Nat) : ToSet(Gathered(g, ys)) # Of(ys)}
<1>1. ASSUME T # {} PROVE FALSE
  <2>1. PICK zs \in T : \A u \in T : ~(Len(u) < Len(zs))
    <3>1. T \in SUBSET Seq(Nat)
      OBVIOUS
    <3> HIDE DEF T
    <3> QED BY <1>1, <3>1, Shortest
  <2>2. zs # <<>>
    BY <2>1, GatheredStep DEF ToSet
  <2>3. PICK ys \in Seq(Nat) : \E y \in Nat : zs = Append(ys, y) /\ Len(ys) < Len(zs)
    BY <2>1, <2>2, LastApart
  <2>4. PICK y \in Nat : zs = Append(ys, y) /\ Len(ys) < Len(zs)
    BY <2>3
  <2>5. ToSet(Gathered(g, ys)) = Of(ys)
    BY <2>1, <2>4
  <2>6. Gathered(g, zs) = Gathered(g, ys) \o g[y]
    BY <2>4, GatheredStep
  <2>7. Gathered(g, ys) \in Seq(Nat) /\ g[y] \in Seq(Nat)
    BY GatheredStep DEF Gatherers
  <2>8. ToSet(Gathered(g, zs)) = Of(ys) \cup ToSet(g[y])
    <3>1. PICK u, v : u = Gathered(g, ys) /\ v = g[y]
      OBVIOUS
    <3>2. u \in Seq(Nat) /\ v \in Seq(Nat)
      BY <2>7, <3>1
    <3>3. ToSet(u \o v) = ToSet(u) \cup ToSet(v)
      BY <3>2, ToSetJoined
    <3> QED BY <2>5, <2>6, <3>1, <3>3
  <2>9. ToSet(zs) = ToSet(ys) \cup {y}
    BY <2>4, ToSetAppend
  <2>10. Of(zs) = Of(ys) \cup ToSet(g[y])
    BY <2>9
  <2> QED BY <2>1, <2>8, <2>10
<1> QED BY <1>1

-----------------------------------------------------------------------------
(* Counting.                                                               *)
Counted(s, y) == Cardinality({i \in DOMAIN s : s[i] = y})

LEMMA CountedAppend ==
    ASSUME NEW s \in Seq(Nat), NEW e \in Nat, NEW y
    PROVE  /\ Counted(s, y) \in Nat
           /\ Counted(Append(s, e), y) = Counted(s, y) + IF e = y THEN 1 ELSE 0
<1>1. PICK m : m = Len(s) /\ m \in Nat /\ DOMAIN s = 1..m
  OBVIOUS
<1>2. PICK w : w = Append(s, e)
  OBVIOUS
<1>3. /\ DOMAIN w = 1..(m + 1) /\ w[m + 1] = e
      /\ \A i \in 1..m : i \in 1..(m + 1) /\ w[i] = s[i]
  BY <1>1, <1>2
<1> DEFINE A == {i \in DOMAIN s : s[i] = y}
           B == {i \in DOMAIN w : w[i] = y}
<1>4. IsFiniteSet(A) /\ Cardinality(A) \in Nat
  <2>1. IsFiniteSet(1..m)
    BY <1>1, FS_Interval
  <2>2. A \subseteq 1..m
    BY <1>1
  <2> HIDE DEF A
  <2> QED BY <2>1, <2>2, FS_Subset, FS_CardinalityType
<1>5. B = IF e = y THEN A \cup {m + 1} ELSE A
  <2>1. \A i \in 1..(m + 1) : i \in 1..m \/ i = m + 1
    BY <1>1
  <2>2. m + 1 \in 1..(m + 1) /\ m + 1 \notin 1..m
    BY <1>1
  <2> QED BY <1>1, <1>3, <2>1, <2>2
<1>6. m + 1 \notin A
  BY <1>1
<1> HIDE DEF A, B
<1>7. Cardinality(B) = Cardinality(A) + IF e = y THEN 1 ELSE 0
  <2>1. CASE e = y
    <3>1. B = A \cup {m + 1}
      BY <1>5, <2>1
    <3>2. Cardinality(A \cup {m + 1}) = Cardinality(A) + 1
      BY <1>4, <1>6, FS_AddElement
    <3> QED BY <2>1, <3>1, <3>2
  <2>2. CASE e # y
    BY <1>4, <1>5, <2>2
  <2> QED BY <2>1, <2>2
<1> QED BY <1>2, <1>4, <1>7 DEF Counted, A, B

LEMMA CountedJoined ==
    ASSUME NEW s \in Seq(Nat), NEW t \in Seq(Nat), NEW y
    PROVE  Counted(s \o t, y) = Counted(s, y) + Counted(t, y)
<1> DEFINE T == {u \in Seq(Nat) : Counted(s \o u, y) # Counted(s, y) + Counted(u, y)}
<1>1. ASSUME T # {} PROVE FALSE
  <2>1. PICK zs \in T : \A u \in T : ~(Len(u) < Len(zs))
    <3>1. T \in SUBSET Seq(Nat)
      OBVIOUS
    <3> HIDE DEF T
    <3> QED BY <1>1, <3>1, Shortest
  <2>2. zs # <<>>
    <3>1. s \o <<>> = s
      BY ConcatEmptySeq
    <3>2. Counted(<<>>, y) = 0
      <4>1. {i \in DOMAIN <<>> : <<>>[i] = y} = {}
        OBVIOUS
      <4> QED BY <4>1, FS_EmptySet DEF Counted
    <3>3. PICK c : c = Counted(s, y)
      OBVIOUS
    <3>4. c \in Nat
      BY <3>3, CountedAppend
    <3>5. Counted(s \o <<>>, y) = Counted(s, y) + Counted(<<>>, y)
      BY <3>1, <3>2, <3>3, <3>4
    <3> QED BY <2>1, <3>5
  <2>3. PICK ys \in Seq(Nat) : \E e \in Nat : zs = Append(ys, e) /\ Len(ys) < Len(zs)
    BY <2>1, <2>2, LastApart
  <2>4. PICK e \in Nat : zs = Append(ys, e) /\ Len(ys) < Len(zs)
    BY <2>3
  <2>5. Counted(s \o ys, y) = Counted(s, y) + Counted(ys, y)
    BY <2>1, <2>4
  <2>a. PICK w : w = s \o ys
    OBVIOUS
  <2>6. w \in Seq(Nat) /\ s \o zs = Append(w, e)
    BY <2>a, <2>4, JoinsAppend
  <2>b. Counted(Append(w, e), y) = Counted(w, y) + IF e = y THEN 1 ELSE 0
    BY <2>6, CountedAppend
  <2>7. /\ Counted(s \o zs, y) = Counted(s \o ys, y) + IF e = y THEN 1 ELSE 0
        /\ Counted(zs, y) = Counted(ys, y) + IF e = y THEN 1 ELSE 0
        /\ Counted(s, y) \in Nat /\ Counted(ys, y) \in Nat
    BY <2>a, <2>b, <2>4, <2>6, CountedAppend
  <2>8. Counted(s \o zs, y) = Counted(s, y) + Counted(zs, y)
    BY <2>5, <2>7
  <2> QED BY <2>1, <2>8
<1> QED BY <1>1

Alike(s, t) == Len(s) = Len(t) /\ \A y \in Nat : Counted(s, y) = Counted(t, y)

(* Gathering two things of each at once gathers the same as gathering the  *)
(* one of all and then the other, in another order.                        *)
LEMMA GatheredApart ==
    ASSUME NEW p \in Gatherers, NEW q \in Gatherers, NEW h \in Gatherers,
           \A x \in Nat : h[x] = p[x] \o q[x], NEW xs \in Seq(Nat)
    PROVE  Alike(Gathered(h, xs), Gathered(p, xs) \o Gathered(q, xs))
<1> DEFINE T == {ys \in Seq(Nat) : ~Alike(Gathered(h, ys), Gathered(p, ys) \o Gathered(q, ys))}
<1>1. ASSUME T # {} PROVE FALSE
  <2>1. PICK zs \in T : \A u \in T : ~(Len(u) < Len(zs))
    <3>1. T \in SUBSET Seq(Nat)
      OBVIOUS
    <3> HIDE DEF T
    <3> QED BY <1>1, <3>1, Shortest
  <2>2. zs # <<>>
    <3>1. <<>> \o <<>> = <<>>
      OBVIOUS
    <3> QED BY <2>1, <3>1, GatheredStep DEF Alike
  <2>3. PICK ys \in Seq(Nat) : \E e \in Nat : zs = Append(ys, e) /\ Len(ys) < Len(zs)
    BY <2>1, <2>2, LastApart
  <2>4. PICK e \in Nat : zs = Append(ys, e) /\ Len(ys) < Len(zs)
    BY <2>3
  <2>5. Alike(Gathered(h, ys), Gathered(p, ys) \o Gathered(q, ys))
    BY <2>1, <2>4
  <2>6. PICK H, P, Q, a, b : /\ H = Gathered(h, ys) /\ P = Gathered(p, ys) /\ Q = Gathered(q, ys)
                             /\ a = p[e] /\ b = q[e]
    OBVIOUS
  <2>7. H \in Seq(Nat) /\ P \in Seq(Nat) /\ Q \in Seq(Nat) /\ a \in Seq(Nat) /\ b \in Seq(Nat)
    BY <2>6, GatheredStep DEF Gatherers
  <2>8. /\ Gathered(h, zs) = H \o (a \o b)
        /\ Gathered(p, zs) = P \o a
        /\ Gathered(q, zs) = Q \o b
    <3>1. \A u \in Gatherers : Gathered(u, zs) = Gathered(u, ys) \o u[e]
      BY <2>4, GatheredStep
    <3>2. h[e] = a \o b
      BY <2>6
    <3> HIDE DEF T
    <3> QED BY <2>6, <3>1, <3>2
  <2>9. /\ P \o Q \in Seq(Nat) /\ a \o b \in Seq(Nat) /\ P \o a \in Seq(Nat) /\ Q \o b \in Seq(Nat)
    BY <2>7
  <2>10. Len(H \o (a \o b)) = Len((P \o a) \o (Q \o b))
    <3>1. Len(H) = Len(P) + Len(Q)
      BY <2>5, <2>6, <2>7 DEF Alike
    <3>2. Len(H \o (a \o b)) = Len(H) + (Len(a) + Len(b))
      BY <2>7, <2>9, ConcatProperties
    <3>3. Len((P \o a) \o (Q \o b)) = (Len(P) + Len(a)) + (Len(Q) + Len(b))
      BY <2>7, <2>9, ConcatProperties
    <3>4. Len(P) \in Nat /\ Len(Q) \in Nat /\ Len(a) \in Nat /\ Len(b) \in Nat
      BY <2>7
    <3> QED BY <3>1, <3>2, <3>3, <3>4
  <2>11. ASSUME NEW y \in Nat PROVE Counted(H \o (a \o b), y) = Counted((P \o a) \o (Q \o b), y)
    <3>1. Counted(H, y) = Counted(P, y) + Counted(Q, y)
      BY <2>5, <2>6, <2>7, CountedJoined DEF Alike
    <3>a. PICK c, pa, qb : c = a \o b /\ pa = P \o a /\ qb = Q \o b
      OBVIOUS
    <3>b. c \in Seq(Nat) /\ pa \in Seq(Nat) /\ qb \in Seq(Nat)
      BY <2>9, <3>a
    <3>c. Counted(H \o c, y) = Counted(H, y) + Counted(c, y)
      BY <2>7, <3>b, CountedJoined
    <3>d. Counted(pa \o qb, y) = Counted(pa, y) + Counted(qb, y)
      BY <3>b, CountedJoined
    <3>e. /\ Counted(c, y) = Counted(a, y) + Counted(b, y)
          /\ Counted(pa, y) = Counted(P, y) + Counted(a, y)
          /\ Counted(qb, y) = Counted(Q, y) + Counted(b, y)
      BY <2>7, <3>a, CountedJoined
    <3>2. Counted(H \o (a \o b), y) = Counted(H, y) + (Counted(a, y) + Counted(b, y))
      BY <3>a, <3>c, <3>e
    <3>3. Counted((P \o a) \o (Q \o b), y)
             = (Counted(P, y) + Counted(a, y)) + (Counted(Q, y) + Counted(b, y))
      BY <3>a, <3>d, <3>e
    <3>4. /\ Counted(P, y) \in Nat /\ Counted(Q, y) \in Nat
          /\ Counted(a, y) \in Nat /\ Counted(b, y) \in Nat
      BY <2>7, CountedAppend
    <3> QED BY <3>1, <3>2, <3>3, <3>4
  <2> QED BY <2>1, <2>8, <2>10, <2>11 DEF Alike
<1> QED BY <1>1

-----------------------------------------------------------------------------
(* What a history tells of each shape, as functions to gather with.        *)
TraceOf(h) == [x \in Nat |-> trace(h, x)]
MakeOf(h) == [x \in Nat |-> generated(h, x)]

LEMMA ToldGatherers ==
    ASSUME NEW h, Tells(h)
    PROVE  /\ TraceOf(h) \in Gatherers /\ MakeOf(h) \in Gatherers
           /\ \A x \in Nat : TraceOf(h)[x] = trace(h, x) /\ MakeOf(h)[x] = generated(h, x)
           /\ \A xs \in Seq(Nat) : Traced(h, xs) = Gathered(TraceOf(h), xs)
<1>1. /\ TraceOf(h) \in Gatherers /\ MakeOf(h) \in Gatherers
      /\ \A x \in Nat : TraceOf(h)[x] = trace(h, x) /\ MakeOf(h)[x] = generated(h, x)
  BY TraceType DEF TraceOf, MakeOf, Gatherers
<1>2. ASSUME NEW xs \in Seq(Nat) PROVE Traced(h, xs) = Gathered(TraceOf(h), xs)
  <2>1. \A i \in DOMAIN xs : xs[i] \in Nat
    OBVIOUS
  <2>2. [i \in DOMAIN xs |-> trace(h, xs[i])] = [i \in DOMAIN xs |-> TraceOf(h)[xs[i]]]
    BY <1>1, <2>1
  <2> QED BY <2>2 DEF Traced, Gathered
<1> QED BY <1>1, <1>2

LEMMA MadeIsGathered ==
    ASSUME NEW h, Tells(h), NEW later, Tells(later), NEW x \in Nat
    PROVE  MadeOf(h, later, x) =
             Gathered(TraceOf(later), generated(h, x)) \o Gathered(MakeOf(later), trace(h, x))
<1>1. PICK xs, gs : xs = trace(h, x) /\ gs = generated(h, x)
  OBVIOUS
<1>2. xs \in Seq(Nat) /\ gs \in Seq(Nat)
  BY <1>1, TraceType
<1>3. \A i \in DOMAIN xs : xs[i] \in Nat
  BY <1>2
<1>4. [i \in DOMAIN xs |-> generated(later, xs[i])] = [i \in DOMAIN xs |-> MakeOf(later)[xs[i]]]
  BY <1>3, ToldGatherers
<1>5. Traced(later, gs) = Gathered(TraceOf(later), gs)
  BY <1>2, ToldGatherers
<1> QED BY <1>1, <1>4, <1>5 DEF MadeOf, Gathered

(* A shape is gone exactly where nothing is left of it, and became         *)
(* something exactly where it is told of and something is left.            *)
Touched(h, x) == is_deleted(h, x) \/ modified(h, x) # <<>>

LEMMA ToldByTrace ==
    ASSUME NEW h, Tells(h), NEW x \in Nat
    PROVE  /\ is_deleted(h, x) <=> trace(h, x) = <<>>
           /\ modified(h, x) = IF Touched(h, x) THEN trace(h, x) ELSE <<>>
<1>1. is_deleted(h, x) => modified(h, x) = <<>>
  BY DEF Tells, is_deleted, modified, Listed
<1>2. <<x>> # <<>>
  OBVIOUS
<1> QED BY <1>1, <1>2 DEF Touched, trace

(* A shape told nothing of stays itself.                                   *)
LEMMA UntoldStays ==
    ASSUME NEW h, NEW x \in Nat, ~is_affected(h, x)
    PROVE  /\ trace(h, x) = <<x>> /\ generated(h, x) = <<>> /\ modified(h, x) = <<>>
           /\ ~is_deleted(h, x)
BY DEF is_affected, inputs, trace, generated, modified, is_deleted, Listed

LEMMA ThenTellsToo ==
    ASSUME NEW h, Tells(h), NEW later, Tells(later)
    PROVE  Tells(then(h, later))
<1>1. inputs(h) \cup inputs(later) \in SUBSET Nat
  BY DEF Tells, Lists, inputs
<1> QED BY <1>1, ThenForTells DEF then

(* What a composed history tells of a shape, whether or not either step    *)
(* tells anything of it.                                                   *)
LEMMA ThenForAnswers ==
    ASSUME NEW h, Tells(h), NEW later, Tells(later), NEW S \in SUBSET Nat, NEW x \in S
    PROVE  /\ is_deleted(then_for(h, later, S), x) <=> Finally(h, later, x) = <<>>
           /\ modified(then_for(h, later, S), x) =
                IF Changed(h, later, x) THEN Finally(h, later, x) ELSE <<>>
           /\ generated(then_for(h, later, S), x) = MadeOf(h, later, x)
<1> DEFINE gone == {z \in S : Gone(h, later, z)}
           became == {z \in S \ gone : Changed(h, later, z)}
           made == {s \in S : MadeOf(h, later, s) # <<>>}
<1>1. PICK t : t = then_for(h, later, S)
  OBVIOUS
<1>2. /\ t.generated = [z \in made |-> MadeOf(h, later, z)]
      /\ t.modified = [z \in became |-> Finally(h, later, z)]
      /\ t.deleted = gone
  BY <1>1 DEF then_for
<1>3. /\ DOMAIN t.generated = made /\ \A z \in made : t.generated[z] = MadeOf(h, later, z)
      /\ DOMAIN t.modified = became /\ \A z \in became : t.modified[z] = Finally(h, later, z)
  BY <1>2
<1>4. x \in gone <=> Finally(h, later, x) = <<>>
  BY DEF Gone
<1>5. is_deleted(t, x) <=> Finally(h, later, x) = <<>>
  BY <1>2, <1>4 DEF is_deleted
<1>6. generated(t, x) = MadeOf(h, later, x)
  BY <1>3 DEF generated, Listed
<1>7. modified(t, x) = IF Changed(h, later, x) THEN Finally(h, later, x) ELSE <<>>
  BY <1>3, <1>4 DEF modified, Listed
<1> QED BY <1>1, <1>5, <1>6, <1>7

LEMMA GatheredOfOne ==
    ASSUME NEW g \in Gatherers, NEW x \in Nat
    PROVE  Gathered(g, <<x>>) = g[x]
<1>1. <<x>> = Append(<<>>, x) /\ <<>> \in Seq(Nat)
  OBVIOUS
<1>2. Gathered(g, <<x>>) = Gathered(g, <<>>) \o g[x] /\ Gathered(g, <<>>) = <<>>
  BY <1>1, GatheredStep
<1>3. PICK s : s = g[x] /\ s \in Seq(Nat)
  BY DEF Gatherers
<1>4. <<>> \o s = s
  BY <1>3
<1> QED BY <1>2, <1>3, <1>4

LEMMA ThenAnswers ==
    ASSUME NEW h, Tells(h), NEW later, Tells(later), NEW x \in Nat
    PROVE  /\ trace(then(h, later), x) = Gathered(TraceOf(later), trace(h, x))
           /\ generated(then(h, later), x) = MadeOf(h, later, x)
           /\ Touched(then(h, later), x) <=>
                \/ Touched(h, x)
                \/ \E y \in ToSet(trace(h, x)) : Touched(later, y)
<1>1. PICK t : t = then(h, later) /\ Tells(t)
  BY ThenTellsToo
<1>2. PICK xs : xs = trace(h, x) /\ xs \in Seq(Nat)
  BY TraceType
<1>3. PICK gs : gs = generated(h, x) /\ gs \in Seq(Nat)
  BY TraceType
<1>4. /\ TraceOf(later) \in Gatherers /\ MakeOf(later) \in Gatherers
      /\ \A y \in Nat : TraceOf(later)[y] = trace(later, y) /\ MakeOf(later)[y] = generated(later, y)
      /\ Finally(h, later, x) = Gathered(TraceOf(later), xs)
  BY <1>2, ToldGatherers DEF Finally
<1>5. /\ is_deleted(t, x) <=> Finally(h, later, x) = <<>>
      /\ modified(t, x) = IF Changed(h, later, x) THEN Finally(h, later, x) ELSE <<>>
      /\ generated(t, x) = MadeOf(h, later, x)
  <2>1. CASE is_empty(later)
    <3>1. t = h
      BY <1>1, <2>1 DEF then
    <3>2. \A y \in ToSet(xs) \cup ToSet(gs) : ~is_affected(later, y)
      BY <2>1 DEF is_empty, is_affected
    <3>3. /\ Traced(later, xs) = xs /\ Traced(later, gs) = gs
          /\ FlattenSeq([i \in DOMAIN xs |-> generated(later, xs[i])]) = <<>>
      BY <1>2, <1>3, <3>2, UntouchedStays
    <3>4. Finally(h, later, x) = xs
      BY <1>2, <3>3 DEF Finally
    <3>5. MadeOf(h, later, x) = gs
      <4>1. MadeOf(h, later, x) = gs \o <<>>
        BY <1>2, <1>3, <3>3 DEF MadeOf
      <4> QED BY <1>3, <4>1
    <3>6. Changed(h, later, x) <=> modified(h, x) # <<>>
      BY <1>2, <3>2 DEF Changed, is_affected, inputs, is_deleted, modified, Listed
    <3>7. /\ is_deleted(h, x) <=> xs = <<>>
          /\ modified(h, x) # <<>> => modified(h, x) = xs
      BY <1>2, ToldByTrace DEF Touched
    <3> QED BY <1>3, <3>1, <3>4, <3>5, <3>6, <3>7
  <2>2. CASE ~is_empty(later) /\ x \in inputs(h) \cup inputs(later)
    <3>1. inputs(h) \cup inputs(later) \in SUBSET Nat
      BY DEF Tells, Lists, inputs
    <3>2. t = then_for(h, later, inputs(h) \cup inputs(later))
      BY <1>1, <2>2 DEF then
    <3> QED BY <2>2, <3>1, <3>2, ThenForAnswers
  <2>3. CASE ~is_empty(later) /\ x \notin inputs(h) \cup inputs(later)
    <3>1. /\ xs = <<x>> /\ gs = <<>> /\ modified(h, x) = <<>>
          /\ trace(later, x) = <<x>> /\ generated(later, x) = <<>>
          /\ modified(later, x) = <<>> /\ ~is_deleted(later, x)
      BY <1>2, <1>3, <2>3, UntoldStays DEF is_affected
    <3>2. Gathered(TraceOf(later), xs) = <<x>> /\ Gathered(MakeOf(later), xs) = <<>>
      BY <1>4, <3>1, GatheredOfOne
    <3>3. ~Changed(h, later, x)
      <4>1. ToSet(<<x>>) = {x}
        BY DEF ToSet
      <4> QED BY <1>2, <3>1, <4>1 DEF Changed
    <3>4. MadeOf(h, later, x) = <<>>
      <4>1. Gathered(TraceOf(later), gs) = <<>>
        BY <1>4, <3>1, GatheredStep
      <4>2. <<>> \o <<>> = <<>>
        OBVIOUS
      <4> QED BY <1>2, <1>3, <3>2, <4>1, <4>2, MadeIsGathered
    <3>5. x \notin inputs(t)
      <4> DEFINE S == inputs(h) \cup inputs(later)
      <4>1. t = then_for(h, later, S)
        BY <1>1, <2>3 DEF then
      <4>2. DOMAIN t.generated \subseteq S /\ DOMAIN t.modified \subseteq S /\ t.deleted \subseteq S
        BY <4>1 DEF then_for
      <4> QED BY <2>3, <4>2 DEF inputs
    <3>6. generated(t, x) = <<>> /\ modified(t, x) = <<>> /\ ~is_deleted(t, x)
      BY <3>5, UntoldStays DEF is_affected
    <3> QED BY <1>4, <3>2, <3>3, <3>4, <3>6
  <2> QED BY <2>1, <2>2, <2>3
<1>6. Finally(h, later, x) = <<>> =>
        is_deleted(h, x) \/ \E y \in ToSet(xs) : is_deleted(later, y)
  <2> SUFFICES ASSUME Finally(h, later, x) = <<>>, ~is_deleted(h, x)
               PROVE  \E y \in ToSet(xs) : is_deleted(later, y)
    OBVIOUS
  <2>1. xs # <<>>
    BY <1>2, ToldByTrace
  <2>2. PICK y : y \in ToSet(xs) /\ y \in Nat
    <3>1. 1 \in DOMAIN xs /\ xs[1] \in Nat
      BY <1>2, <2>1
    <3> QED BY <3>1 DEF ToSet
  <2>3. UNION {ToSet(TraceOf(later)[z]) : z \in ToSet(xs)} = {}
    <3>1. ToSet(<<>>) = {}
      BY DEF ToSet
    <3> QED BY <1>2, <1>4, <3>1, GatheredMembers
  <2>4. ToSet(trace(later, y)) = {}
    BY <1>4, <2>2, <2>3
  <2>5. trace(later, y) = <<>>
    <3>1. PICK s : s = trace(later, y) /\ s \in Seq(Nat)
      BY <2>2, TraceType
    <3>2. s # <<>> => 1 \in DOMAIN s
      BY <3>1
    <3> QED BY <2>4, <3>1, <3>2 DEF ToSet
  <2> QED BY <2>2, <2>5, ToldByTrace
<1>7. is_deleted(h, x) => Finally(h, later, x) = <<>>
  BY <1>2, <1>4, GatheredStep, ToldByTrace
<1>8. Changed(h, later, x) <=> modified(h, x) # <<>> \/ \E y \in ToSet(xs) : Touched(later, y)
  BY <1>2 DEF Changed, Touched
<1>9. Touched(t, x) <=> Finally(h, later, x) = <<>> \/ Changed(h, later, x)
  BY <1>5 DEF Touched
<1>10. Touched(t, x) <=> Touched(h, x) \/ \E y \in ToSet(xs) : Touched(later, y)
  BY <1>6, <1>7, <1>8, <1>9 DEF Touched
<1>11. trace(t, x) = Finally(h, later, x)
  <2>1. CASE Finally(h, later, x) = <<>>
    BY <1>5, <2>1 DEF trace
  <2>2. CASE Finally(h, later, x) # <<>> /\ Changed(h, later, x)
    BY <1>5, <2>2 DEF trace
  <2>3. CASE Finally(h, later, x) # <<>> /\ ~Changed(h, later, x)
    <3>1. trace(t, x) = <<x>>
      BY <1>5, <2>3 DEF trace
    <3>2. xs = <<x>>
      BY <1>2, <1>7, <1>8, <2>3 DEF trace
    <3>3. ~Touched(later, x)
      <4>1. ToSet(<<x>>) = {x}
        BY DEF ToSet
      <4> QED BY <1>8, <2>3, <3>2, <4>1
    <3>4. trace(later, x) = <<x>>
      BY <3>3 DEF Touched, trace
    <3> QED BY <1>4, <3>1, <3>2, <3>4, GatheredOfOne
  <2> QED BY <2>1, <2>2, <2>3
<1> QED BY <1>1, <1>2, <1>4, <1>5, <1>10, <1>11

-----------------------------------------------------------------------------
LEMMA SameTold ==
    ASSUME NEW h, Tells(h), NEW k, Tells(k),
           \A x \in Nat : trace(h, x) = trace(k, x) /\ (Touched(h, x) <=> Touched(k, x))
    PROVE  h.modified = k.modified /\ h.deleted = k.deleted
<1>1. ASSUME NEW x \in Nat
      PROVE  (is_deleted(h, x) <=> is_deleted(k, x)) /\ modified(h, x) = modified(k, x)
  BY ToldByTrace
<1>2. h.deleted = k.deleted
  BY <1>1 DEF Tells, is_deleted
<1>3. ASSUME NEW x \in Nat
      PROVE  /\ x \in DOMAIN h.modified <=> x \in DOMAIN k.modified
             /\ x \in DOMAIN h.modified => h.modified[x] = k.modified[x]
  <2>1. modified(h, x) = modified(k, x)
    BY <1>1
  <2>2. x \in DOMAIN h.modified <=> modified(h, x) # <<>>
    BY DEF Tells, modified, Listed
  <2>3. x \in DOMAIN k.modified <=> modified(k, x) # <<>>
    BY DEF Tells, modified, Listed
  <2> QED BY <2>1, <2>2, <2>3 DEF modified, Listed
<1>4. DOMAIN h.modified = DOMAIN k.modified
  BY <1>3 DEF Tells, Lists
<1>5. \A x \in DOMAIN h.modified : h.modified[x] = k.modified[x]
  BY <1>3 DEF Tells, Lists
<1>6. PICK f : f = h.modified
  OBVIOUS
<1>7. PICK g : g = k.modified
  OBVIOUS
<1>8. f = [x \in DOMAIN f |-> f[x]] /\ g = [x \in DOMAIN g |-> g[x]]
  BY <1>6, <1>7 DEF Tells
<1>9. f = g
  BY <1>4, <1>5, <1>6, <1>7, <1>8
<1> QED BY <1>2, <1>6, <1>7, <1>9

LEMMA TwiceTraced ==
    ASSUME NEW v, Tells(v), NEW w, Tells(w), NEW xs \in Seq(Nat)
    PROVE  Gathered(TraceOf(w), Gathered(TraceOf(v), xs)) = Gathered(TraceOf(then(v, w)), xs)
<1>1. PICK f, g, h : f = TraceOf(v) /\ g = TraceOf(w) /\ h = TraceOf(then(v, w))
  OBVIOUS
<1>2. Tells(then(v, w))
  BY ThenTellsToo
<1>3. f \in Gatherers /\ g \in Gatherers /\ h \in Gatherers
  BY <1>1, <1>2, ToldGatherers
<1>4. \A x \in Nat : h[x] = Gathered(g, f[x])
  BY <1>1, <1>2, ToldGatherers, ThenAnswers
<1>5. Gathered(g, Gathered(f, xs)) = Gathered(h, xs)
  BY <1>3, <1>4, GatheredTwice
<1> QED BY <1>1, <1>5

(* Traces and what is told of compose alike however they are bracketed.    *)
LEMMA TracesAssociate ==
    ASSUME NEW u, Tells(u), NEW v, Tells(v), NEW w, Tells(w), NEW x \in Nat
    PROVE  /\ trace(then(then(u, v), w), x) = trace(then(u, then(v, w)), x)
           /\ Touched(then(then(u, v), w), x) <=> Touched(then(u, then(v, w)), x)
<1>1. PICK a, b : a = then(u, v) /\ b = then(v, w)
  OBVIOUS
<1>2. Tells(a) /\ Tells(b)
  BY <1>1, ThenTellsToo
<1>3. PICK xs : xs = trace(u, x) /\ xs \in Seq(Nat)
  BY TraceType
<1>4. trace(a, x) = Gathered(TraceOf(v), xs)
  BY <1>1, <1>3, ThenAnswers
<1>5. trace(then(a, w), x) = Gathered(TraceOf(w), Gathered(TraceOf(v), xs))
  BY <1>2, <1>4, ThenAnswers
<1>6. trace(then(u, b), x) = Gathered(TraceOf(b), xs)
  BY <1>2, <1>3, ThenAnswers
<1>7. trace(then(a, w), x) = trace(then(u, b), x)
  BY <1>1, <1>3, <1>5, <1>6, TwiceTraced
<1>8. Touched(then(a, w), x) <=>
        \/ Touched(u, x) \/ \E y \in ToSet(xs) : Touched(v, y)
        \/ \E z \in ToSet(trace(a, x)) : Touched(w, z)
  BY <1>1, <1>2, <1>3, ThenAnswers
<1>9. \A y \in ToSet(xs) : y \in Nat
  BY <1>3 DEF ToSet
<1>10. Touched(then(u, b), x) <=>
        \/ Touched(u, x)
        \/ \E y \in ToSet(xs) : \/ Touched(v, y)
                                \/ \E z \in ToSet(trace(v, y)) : Touched(w, z)
  <2>1. Touched(then(u, b), x) <=> Touched(u, x) \/ \E y \in ToSet(xs) : Touched(b, y)
    BY <1>2, <1>3, ThenAnswers
  <2>2. \A y \in Nat : Touched(b, y) <=> \/ Touched(v, y)
                                         \/ \E z \in ToSet(trace(v, y)) : Touched(w, z)
    BY <1>1, ThenAnswers
  <2> QED BY <1>9, <2>1, <2>2
<1>11. ToSet(trace(a, x)) = UNION {ToSet(trace(v, y)) : y \in ToSet(xs)}
  <2>1. /\ TraceOf(v) \in Gatherers
        /\ \A y \in Nat : TraceOf(v)[y] = trace(v, y)
    BY ToldGatherers
  <2>2. ToSet(trace(a, x)) = UNION {ToSet(TraceOf(v)[y]) : y \in ToSet(xs)}
    BY <1>3, <1>4, <2>1, GatheredMembers
  <2>3. \A y \in ToSet(xs) : ToSet(TraceOf(v)[y]) = ToSet(trace(v, y))
    BY <1>9, <2>1
  <2> QED BY <2>2, <2>3
<1>12. (\E z \in ToSet(trace(a, x)) : Touched(w, z)) <=>
          \E y \in ToSet(xs) : \E z \in ToSet(trace(v, y)) : Touched(w, z)
  BY <1>11
<1> QED BY <1>1, <1>7, <1>8, <1>10, <1>12

LEMMA AlikeMembers ==
    ASSUME NEW s \in Seq(Nat), NEW t \in Seq(Nat), Alike(s, t)
    PROVE  SameMembers(s, t)
<1>1. ToSet(s) \subseteq Nat /\ ToSet(t) \subseteq Nat
  BY DEF ToSet
<1> QED BY <1>1 DEF SameMembers, Alike, Counted

(* What is alike stays so after the same beginning.                        *)
LEMMA AlikeJoined ==
    ASSUME NEW a \in Seq(Nat), NEW d \in Seq(Nat), NEW e \in Seq(Nat), Alike(d, e)
    PROVE  Alike(a \o d, a \o e) /\ Alike(a \o e, a \o d)
<1>1. Len(a \o d) = Len(a \o e)
  <2>1. Len(a \o d) = Len(a) + Len(d) /\ Len(a \o e) = Len(a) + Len(e)
    BY ConcatProperties
  <2> QED BY <2>1 DEF Alike
<1>2. ASSUME NEW y \in Nat PROVE Counted(a \o d, y) = Counted(a \o e, y)
  <2>1. /\ Counted(a \o d, y) = Counted(a, y) + Counted(d, y)
        /\ Counted(a \o e, y) = Counted(a, y) + Counted(e, y)
    BY CountedJoined
  <2> QED BY <2>1 DEF Alike
<1> QED BY <1>1, <1>2 DEF Alike

LEMMA MadeAssociates ==
    ASSUME NEW u, Tells(u), NEW v, Tells(v), NEW w, Tells(w), NEW x \in Nat
    PROVE  SameMembers(generated(then(then(u, v), w), x), generated(then(u, then(v, w)), x))
<1>1. PICK a, b : a = then(u, v) /\ b = then(v, w)
  OBVIOUS
<1>2. Tells(a) /\ Tells(b)
  BY <1>1, ThenTellsToo
<1>3. PICK xs : xs = trace(u, x) /\ xs \in Seq(Nat)
  BY TraceType
<1>4. PICK gs : gs = generated(u, x) /\ gs \in Seq(Nat)
  BY TraceType
<1> DEFINE p == [y \in Nat |-> Gathered(TraceOf(w), generated(v, y))]
           q == [y \in Nat |-> Gathered(MakeOf(w), trace(v, y))]
<1>5. /\ TraceOf(v) \in Gatherers /\ TraceOf(w) \in Gatherers /\ TraceOf(b) \in Gatherers
      /\ MakeOf(v) \in Gatherers /\ MakeOf(w) \in Gatherers /\ MakeOf(b) \in Gatherers
      /\ \A y \in Nat : /\ TraceOf(v)[y] = trace(v, y) /\ MakeOf(v)[y] = generated(v, y)
                        /\ MakeOf(b)[y] = generated(b, y)
  BY <1>2, ToldGatherers
<1>6. p \in Gatherers /\ q \in Gatherers
  <2>1. ASSUME NEW y \in Nat
        PROVE  /\ Gathered(TraceOf(w), generated(v, y)) \in Seq(Nat)
               /\ Gathered(MakeOf(w), trace(v, y)) \in Seq(Nat)
    BY <1>5, TraceType, GatheredStep
  <2> QED BY <2>1 DEF Gatherers
<1>7. /\ \A y \in Nat : p[y] = Gathered(TraceOf(w), MakeOf(v)[y])
      /\ \A y \in Nat : q[y] = Gathered(MakeOf(w), TraceOf(v)[y])
  BY <1>5
<1>8. \A y \in Nat : MakeOf(b)[y] = p[y] \o q[y]
  <2> SUFFICES ASSUME NEW y \in Nat PROVE MakeOf(b)[y] = p[y] \o q[y]
    OBVIOUS
  <2>1. generated(b, y) = MadeOf(v, w, y)
    BY <1>1, ThenAnswers
  <2>2. MadeOf(v, w, y) =
          Gathered(TraceOf(w), generated(v, y)) \o Gathered(MakeOf(w), trace(v, y))
    BY MadeIsGathered
  <2> QED BY <1>5, <2>1, <2>2
<1> HIDE DEF p, q
<1>9. PICK Tw, Tv, Gv, Gw, Tb, Gb :
        /\ Tw = TraceOf(w) /\ Tv = TraceOf(v) /\ Gv = MakeOf(v) /\ Gw = MakeOf(w)
        /\ Tb = TraceOf(b) /\ Gb = MakeOf(b)
  OBVIOUS
<1>10. /\ Tv \in Gatherers /\ Tw \in Gatherers /\ Tb \in Gatherers
       /\ Gv \in Gatherers /\ Gw \in Gatherers /\ Gb \in Gatherers
       /\ \A y \in Nat : p[y] = Gathered(Tw, Gv[y])
       /\ \A y \in Nat : q[y] = Gathered(Gw, Tv[y])
       /\ \A y \in Nat : Gb[y] = p[y] \o q[y]
  BY <1>5, <1>7, <1>8, <1>9
<1>11. PICK A, M, B, C, D : /\ A = Gathered(Tv, gs) /\ M = Gathered(Gv, xs)
                            /\ B = Gathered(p, xs) /\ C = Gathered(q, xs) /\ D = Gathered(Gb, xs)
  OBVIOUS
<1>12. PICK E : E = Gathered(Tw, A)
  OBVIOUS
<1>13. /\ A \in Seq(Nat) /\ M \in Seq(Nat) /\ B \in Seq(Nat) /\ C \in Seq(Nat)
       /\ D \in Seq(Nat) /\ E \in Seq(Nat)
  BY <1>3, <1>4, <1>6, <1>10, <1>11, <1>12, GatheredStep
<1>14. generated(then(a, w), x) = (E \o B) \o C
  <2>1. generated(a, x) = A \o M
    BY <1>1, <1>3, <1>4, <1>9, <1>11, ThenAnswers, MadeIsGathered
  <2>2. trace(a, x) = Gathered(Tv, xs)
    BY <1>1, <1>3, <1>9, ThenAnswers
  <2>3. generated(then(a, w), x) = Gathered(Tw, A \o M) \o Gathered(Gw, Gathered(Tv, xs))
    BY <1>2, <1>9, <2>1, <2>2, ThenAnswers, MadeIsGathered
  <2>4. Gathered(Tw, A \o M) = E \o Gathered(Tw, M)
    BY <1>10, <1>12, <1>13, GatheredJoined
  <2>5. Gathered(Tw, M) = B
    <3>1. Gathered(Tw, Gathered(Gv, xs)) = Gathered(p, xs)
      <4>1. Gv \in Gatherers /\ Tw \in Gatherers /\ p \in Gatherers
        BY <1>6, <1>10
      <4>2. \A y \in Nat : p[y] = Gathered(Tw, Gv[y])
        BY <1>10
      <4>3. xs \in Seq(Nat)
        BY <1>3
      <4> QED BY <4>1, <4>2, <4>3, GatheredTwice
    <3> QED BY <1>11, <3>1
  <2>6. Gathered(Gw, Gathered(Tv, xs)) = C
    <3>1. Gathered(Gw, Gathered(Tv, xs)) = Gathered(q, xs)
      <4>1. Tv \in Gatherers /\ Gw \in Gatherers /\ q \in Gatherers
        BY <1>6, <1>10
      <4>2. \A y \in Nat : q[y] = Gathered(Gw, Tv[y])
        BY <1>10
      <4>3. xs \in Seq(Nat)
        BY <1>3
      <4> QED BY <4>1, <4>2, <4>3, GatheredTwice
    <3> QED BY <1>11, <3>1
  <2> QED BY <2>3, <2>4, <2>5, <2>6
<1>15. generated(then(u, b), x) = E \o D
  <2>1. generated(then(u, b), x) = Gathered(Tb, gs) \o D
    BY <1>2, <1>3, <1>4, <1>9, <1>11, ThenAnswers, MadeIsGathered
  <2>2. Gathered(Tb, gs) = E
    BY <1>1, <1>4, <1>9, <1>11, <1>12, TwiceTraced
  <2> QED BY <2>1, <2>2
<1>16. Alike(D, B \o C)
  BY <1>3, <1>6, <1>10, <1>11, GatheredApart
<1>17. (E \o B) \o C = E \o (B \o C)
  BY <1>13, JoinedAssociates
<1>18. PICK F : F = B \o C /\ F \in Seq(Nat)
  <2>1. B \in Seq(Nat)
    BY <1>13
  <2>2. C \in Seq(Nat)
    BY <1>13
  <2>3. B \o C \in Seq(Nat)
    BY <2>1, <2>2
  <2> QED BY <2>3
<1>19. Alike(E \o F, E \o D)
  BY <1>13, <1>16, <1>18, AlikeJoined
<1>20. E \o F \in Seq(Nat) /\ E \o D \in Seq(Nat)
  BY <1>13, <1>18
<1>21. SameMembers(E \o F, E \o D)
  BY <1>19, <1>20, AlikeMembers
<1> QED BY <1>1, <1>14, <1>15, <1>17, <1>18, <1>21

(* However a chain of operations is bracketed, each shape is told to have  *)
(* become the same shapes, to be gone alike, and to have made the same     *)
(* ones, however many, whatever each operation told of.                    *)
THEOREM BracketsDoNotMatter == OperationsSpec => []ThenAssociates
<1>1. HistoriesStand => ThenAssociates
  <2> SUFFICES ASSUME HistoriesStand, Len(steps) = 2
               PROVE  LET left == then(then(steps[1], steps[2]), now)
                          right == then(steps[1], then(steps[2], now))
                      IN  /\ left.modified = right.modified /\ left.deleted = right.deleted
                          /\ \A x \in Shapes : SameMembers(generated(left, x), generated(right, x))
    BY DEF ThenAssociates
  <2>1. PICK u, v, w, S : /\ u = steps[1] /\ v = steps[2] /\ w = now
                          /\ S = Shapes
    OBVIOUS
  <2>2. Tells(u) /\ Tells(v) /\ Tells(w) /\ S \subseteq Nat
    <3>1. 1 \in DOMAIN steps /\ 2 \in DOMAIN steps
      BY DEF HistoriesStand
    <3>2. DOMAIN entity \subseteq Nat
      BY DEF HistoriesStand
    <3> QED BY <2>1, <3>1, <3>2 DEF HistoriesStand, Shapes
  <2>3. PICK left, right : left = then(then(u, v), w) /\ right = then(u, then(v, w))
    OBVIOUS
  <2>4. Tells(left) /\ Tells(right)
    BY <2>2, <2>3, ThenTellsToo
  <2>5. left.modified = right.modified /\ left.deleted = right.deleted
    BY <2>2, <2>3, <2>4, TracesAssociate, SameTold
  <2>6. \A x \in S : SameMembers(generated(left, x), generated(right, x))
    BY <2>2, <2>3, MadeAssociates
  <2> QED BY <2>1, <2>3, <2>5, <2>6
<1> QED BY <1>1, HistoriesAlwaysStand, PTL

-----------------------------------------------------------------------------
(* Shapes carry identities the table issued.                               *)
EntitiesStand == issued \in Nat /\ entity \in Seq(1..issued) /\ led \subseteq Shapes

(* What an operation does to the table.                                    *)
LEMMA OperationsRecord ==
    ASSUME EntitiesStand, [OperationsNext]_allvars
    PROVE  /\ [Next]_vars
           /\ issued' \in Nat /\ issued <= issued'
<1>1. ASSUME NEW x \in Shapes, NEW y \in Shapes
      PROVE  entity[x] \in 1..issued /\ IdsOf({x}) = {entity[x]}
  BY <1>1 DEF EntitiesStand, Shapes, IdsOf
<1>2. \A ids \in SUBSET (1..issued) : Record(ids) => Next
  BY DEF Next
<1>3. ASSUME Table PROVE [Next]_vars
  <2>1. ASSUME NEW id \in 1..issued, Retain(1..issued \ {id}) PROVE Next
    <3>1. (1..issued) \ {id} \in SUBSET (1..issued)
      OBVIOUS
    <3> QED BY <2>1, <3>1 DEF Next
  <2> QED BY <1>3, <2>1 DEF Table
<1>4. Make => Next
  <2>1. {} \in SUBSET (1..issued)
    OBVIOUS
  <2> QED BY <1>2, <2>1 DEF Make, New
<1>5. EndOperation \/ UNCHANGED allvars => UNCHANGED vars
  BY DEF EndOperation, allvars
<1>6. ASSUME NEW x \in Shapes,
             Rebuild(x) \/ Settle(x) \/ Sweep(x) \/ Unshare(x) \/ Lose(x)
                \/ \E y \in Shapes : Join(x, y)
      PROVE  [Next]_vars
  <2>1. IdsOf({x}) \in SUBSET (1..issued) /\ {} \in SUBSET (1..issued)
    BY <1>1
  <2>2. Rebuild(x) \/ Settle(x) \/ Sweep(x) => Next
    BY <1>2, <2>1 DEF Rebuild, Settle, Sweep, New
  <2>3. Unshare(x) \/ Lose(x) => UNCHANGED vars
    BY DEF Unshare, Lose
  <2>4. (\E y \in Shapes : Join(x, y)) => Next
    BY <1>2, <2>1 DEF Join, New
  <2> QED BY <1>6, <2>2, <2>3, <2>4
<1>7. [Next]_vars
  BY <1>3, <1>4, <1>5, <1>6 DEF OperationsNext
<1>8. issued' = issued \/ issued' = issued + 1
  BY <1>7 DEF Next, Record, Forget, Retain, vars, table
<1> QED BY <1>7, <1>8 DEF EntitiesStand

LEMMA EntitiesAlwaysStand == OperationsSpec => []EntitiesStand
<1>1. OperationsInit => EntitiesStand
  <2> SUFFICES ASSUME OperationsInit PROVE EntitiesStand
    OBVIOUS
  <2>1. issued = 0 /\ entity = <<>> /\ led = {}
    BY DEF OperationsInit, Init
  <2> QED BY <2>1 DEF EntitiesStand
<1>2. EntitiesStand /\ [OperationsNext]_allvars => EntitiesStand'
  <2> SUFFICES ASSUME EntitiesStand, [OperationsNext]_allvars PROVE EntitiesStand'
    OBVIOUS
  <2>1. issued' \in Nat /\ issued <= issued' /\ issued \in Nat
    BY OperationsRecord DEF EntitiesStand
  <2>2. 1..issued \subseteq 1..issued'
    BY <2>1
  <2>3. entity \in Seq(1..issued')
    BY <2>2, SeqMonotonic DEF EntitiesStand
  <2>4. PICK n : n = Len(entity) /\ n \in Nat /\ Shapes = 1..n /\ led \subseteq 1..n
    BY DEF EntitiesStand, Shapes
  <2>5. ASSUME NEW e \in 1..issued', entity' = Append(entity, e),
               led' = led \/ led' = led \cup {Fresh}
        PROVE  EntitiesStand'
    <3>1. PICK ens : ens = Append(entity, e)
      OBVIOUS
    <3>2. ens \in Seq(1..issued') /\ DOMAIN ens = 1..(n + 1)
      BY <2>3, <2>4, <3>1
    <3>3. led' \subseteq 1..(n + 1)
      <4>1. led \subseteq 1..(n + 1) /\ Fresh \in 1..(n + 1)
        BY <2>4 DEF Fresh
      <4> QED BY <2>5, <4>1
    <3> QED BY <2>1, <2>5, <3>1, <3>2, <3>3 DEF EntitiesStand, Shapes
  <2>6. ASSUME NEW ids, New(ids), led' = led \/ led' = led \cup {Fresh}
        PROVE  EntitiesStand'
    <3>1. NextId \in 1..issued'
      BY <2>1, <2>6 DEF New, Record, NextId
    <3> QED BY <2>5, <2>6, <3>1 DEF New
  <2>7. CASE Make
    BY <2>6, <2>7 DEF Make
  <2>8. entity' = entity /\ led' = led => EntitiesStand'
    BY <2>1, <2>3 DEF EntitiesStand, Shapes
  <2>10. CASE EndOperation
    BY <2>8, <2>10 DEF EndOperation
  <2>11. CASE Table
    BY <2>8, <2>11 DEF Table, operations
  <2>12. CASE UNCHANGED allvars
    BY <2>8, <2>12 DEF allvars, operations
  <2>9. ASSUME NEW x \in Shapes
        PROVE  /\ Rebuild(x) => EntitiesStand'
               /\ Settle(x) => EntitiesStand'
               /\ Sweep(x) => EntitiesStand'
               /\ Unshare(x) => EntitiesStand'
               /\ Lose(x) => EntitiesStand'
               /\ \A y \in Shapes : Join(x, y) => EntitiesStand'
    <3>1. Rebuild(x) => EntitiesStand'
      BY <2>6 DEF Rebuild, Lead
    <3>2. Sweep(x) => EntitiesStand'
      BY <2>6 DEF Sweep, Lead
    <3>3. ASSUME Settle(x) PROVE EntitiesStand'
      <4>1. entity' = [entity EXCEPT ![x] = NextId] /\ led' = led /\ NextId \in 1..issued'
        BY <2>1, <3>3 DEF Settle, Record, NextId
      <4>2. PICK e : e = NextId /\ e \in 1..issued'
        BY <4>1
      <4>3. PICK ens : ens = [entity EXCEPT ![x] = e]
        OBVIOUS
      <4>4. ens \in Seq(1..issued')
        <5>1. x \in 1..Len(entity)
          BY <2>4
        <5> QED BY <2>3, <4>2, <4>3, <5>1, ExceptSeq
      <4>5. DOMAIN ens = DOMAIN entity
        BY <4>3
      <4> QED BY <2>1, <2>4, <4>1, <4>2, <4>3, <4>4, <4>5 DEF EntitiesStand, Shapes
    <3>4. ASSUME Unshare(x) PROVE EntitiesStand'
      <4>1. entity[x] \in 1..issued'
        <5>1. PICK I : I = 1..issued'
          OBVIOUS
        <5>2. entity \in Seq(I) /\ x \in DOMAIN entity
          BY <2>3, <5>1 DEF Shapes
        <5>3. entity[x] \in I
          BY <5>2
        <5> QED BY <5>1, <5>3
      <4> QED BY <2>5, <3>4, <4>1 DEF Unshare, Lead
    <3>5. Lose(x) => EntitiesStand'
      BY <2>1, <2>3 DEF Lose, EntitiesStand, Shapes
    <3>6. \A y \in Shapes : Join(x, y) => EntitiesStand'
      BY <2>6 DEF Join
    <3> QED BY <3>1, <3>2, <3>3, <3>4, <3>5, <3>6
  <2> QED BY <2>7, <2>9, <2>10, <2>11, <2>12 DEF OperationsNext
<1> QED BY <1>1, <1>2, PTL DEF OperationsSpec

(* Whatever operations record of the shapes they make, the table they      *)
(* share goes through the steps of the table by itself.                    *)
THEOREM OperationsKeepTheTable == OperationsSpec => Spec
<1>1. OperationsInit => Init
  BY DEF OperationsInit
<1>2. EntitiesStand /\ [OperationsNext]_allvars => [Next]_vars
  BY OperationsRecord
<1> QED BY <1>1, <1>2, EntitiesAlwaysStand, PTL DEF OperationsSpec, Spec

-----------------------------------------------------------------------------
(* What a history relates.                                                 *)
Relates(h, R) ==
    \A x \in Nat : \A y \in ToSet(modified(h, x)) \cup ToSet(generated(h, x)) : <<x, y>> \in R

Preorder(R) ==
    /\ \A x \in Nat : <<x, x>> \in R
    /\ \A x, y, z \in Nat : <<x, y>> \in R /\ <<y, z>> \in R => <<x, z>> \in R

LEMMA RelatesNothing == ASSUME NEW R PROVE Relates(identity, R)
<1>1. ToSet(<<>>) = {}
  BY DEF ToSet
<1> QED BY <1>1 DEF Relates, identity, modified, generated, Listed

LEMMA ImagesAreNat ==
    ASSUME NEW h, Tells(h), NEW x \in Nat
    PROVE  /\ ToSet(modified(h, x)) \subseteq Nat /\ ToSet(generated(h, x)) \subseteq Nat
           /\ ToSet(trace(h, x)) \subseteq Nat
<1>1. \A s \in Seq(Nat) : ToSet(s) \subseteq Nat
  BY DEF ToSet
<1> QED BY <1>1, TraceType

LEMMA TraceRelates ==
    ASSUME NEW h, Tells(h), NEW R, Relates(h, R), Preorder(R), NEW x \in Nat,
           NEW y \in ToSet(trace(h, x))
    PROVE  <<x, y>> \in R
<1>1. ToSet(<<>>) = {} /\ ToSet(<<x>>) = {x}
  BY DEF ToSet
<1>2. trace(h, x) = <<>> \/ trace(h, x) = <<x>> \/ trace(h, x) = modified(h, x)
  BY DEF trace
<1> QED BY <1>1, <1>2 DEF Relates, Preorder

(* What two histories relate as a preorder does, so does their composition. *)
LEMMA ThenRelates ==
    ASSUME NEW h, Tells(h), NEW later, Tells(later), NEW R, Preorder(R),
           Relates(h, R), Relates(later, R)
    PROVE  Relates(then(h, later), R)
<1> SUFFICES ASSUME NEW x \in Nat
             PROVE  \A y \in ToSet(modified(then(h, later), x))
                               \cup ToSet(generated(then(h, later), x)) : <<x, y>> \in R
  BY DEF Relates
<1>1. PICK t : t = then(h, later) /\ Tells(t)
  BY ThenTellsToo
<1>2. PICK xs : xs = trace(h, x) /\ xs \in Seq(Nat)
  BY TraceType
<1>3. PICK gs : gs = generated(h, x) /\ gs \in Seq(Nat)
  BY TraceType
<1>4. PICK tl, ml : tl = TraceOf(later) /\ ml = MakeOf(later)
  OBVIOUS
<1>5. /\ tl \in Gatherers /\ ml \in Gatherers
      /\ \A y \in Nat : tl[y] = trace(later, y) /\ ml[y] = generated(later, y)
  BY <1>4, ToldGatherers
<1>6. trace(t, x) = Gathered(tl, xs)
  BY <1>1, <1>2, <1>4, ThenAnswers
<1>7. generated(t, x) = Gathered(tl, gs) \o Gathered(ml, xs)
  BY <1>1, <1>2, <1>3, <1>4, ThenAnswers, MadeIsGathered
<1>8. /\ \A y \in ToSet(xs) : y \in Nat /\ <<x, y>> \in R
      /\ \A y \in ToSet(gs) : y \in Nat /\ <<x, y>> \in R
  <2>1. \A y \in ToSet(xs) : <<x, y>> \in R
    BY <1>2, TraceRelates
  <2>2. \A y \in ToSet(gs) : <<x, y>> \in R
    BY <1>3 DEF Relates
  <2> QED BY <1>2, <1>3, <2>1, <2>2, ImagesAreNat
<1>9. ASSUME NEW y \in Nat, <<x, y>> \in R
      PROVE  /\ \A z \in ToSet(tl[y]) : <<x, z>> \in R
             /\ \A z \in ToSet(ml[y]) : <<x, z>> \in R
  <2>1. \A z \in ToSet(tl[y]) : z \in Nat /\ <<y, z>> \in R
    BY <1>5, <1>9, TraceRelates, ImagesAreNat
  <2>2. \A z \in ToSet(ml[y]) : z \in Nat /\ <<y, z>> \in R
    BY <1>5, <1>9, ImagesAreNat DEF Relates
  <2> QED BY <1>9, <2>1, <2>2 DEF Preorder
<1>10. /\ ToSet(Gathered(tl, xs)) = UNION {ToSet(tl[y]) : y \in ToSet(xs)}
       /\ ToSet(Gathered(tl, gs)) = UNION {ToSet(tl[y]) : y \in ToSet(gs)}
       /\ ToSet(Gathered(ml, xs)) = UNION {ToSet(ml[y]) : y \in ToSet(xs)}
  BY <1>2, <1>3, <1>5, GatheredMembers
<1>11. /\ \A z \in ToSet(Gathered(tl, xs)) : <<x, z>> \in R
       /\ \A z \in ToSet(Gathered(tl, gs)) : <<x, z>> \in R
       /\ \A z \in ToSet(Gathered(ml, xs)) : <<x, z>> \in R
  BY <1>8, <1>9, <1>10
<1>12. ToSet(generated(t, x)) = ToSet(Gathered(tl, gs)) \cup ToSet(Gathered(ml, xs))
  <2>1. PICK a, b : a = Gathered(tl, gs) /\ b = Gathered(ml, xs)
    OBVIOUS
  <2>2. a \in Seq(Nat) /\ b \in Seq(Nat)
    BY <1>2, <1>3, <1>5, <2>1, GatheredStep
  <2>3. ToSet(a \o b) = ToSet(a) \cup ToSet(b)
    BY <2>2, ToSetJoined
  <2> QED BY <1>7, <2>1, <2>3
<1>13. modified(t, x) = trace(t, x) \/ modified(t, x) = <<>>
  BY <1>1, ToldByTrace
<1>14. ToSet(<<>>) = {}
  BY DEF ToSet
<1> QED BY <1>1, <1>6, <1>11, <1>12, <1>13, <1>14

(* What is told of one thing more relates it.                              *)
LEMMA TellingRelates ==
    ASSUME NEW h, Tells(h), NEW R, Relates(h, R), NEW x \in Nat, NEW y \in Nat
    PROVE  /\ Relates(delete(h, x), R)
           /\ <<x, y>> \in R => /\ Relates(modify(h, x, y), R)
                                /\ Relates(copy(h, x, y), R)
                                /\ Relates(generate(h, x, y), R)
<1>1. ASSUME NEW z \in Nat
      PROVE  /\ modified(delete(h, x), z) = IF z = x THEN <<>> ELSE modified(h, z)
             /\ generated(delete(h, x), z) = generated(h, z)
             /\ modified(modify(h, x, y), z) =
                    IF z = x THEN Append(modified(h, x), y) ELSE modified(h, z)
             /\ generated(modify(h, x, y), z) = generated(h, z)
             /\ modified(generate(h, x, y), z) = modified(h, z)
             /\ generated(generate(h, x, y), z) =
                    IF z = x THEN Append(generated(h, x), y) ELSE generated(h, z)
             /\ modified(copy(h, x, y), z) = modified(modify(h, x, y), z)
             /\ generated(copy(h, x, y), z) = generated(modify(h, x, y), z)
  <2>1. PICK g, m, d, c : h = [generated |-> g, modified |-> m, deleted |-> d, copied |-> c]
    BY DEF Tells
  <2>2. h.generated = g /\ h.modified = m /\ h.deleted = d /\ h.copied = c
    BY <2>1
  <2>3. PICK a, b : a = Listing(m, x, y) /\ b = Listing(g, x, y)
    OBVIOUS
  <2>4. PICK n : n = Without(m, {x})
    OBVIOUS
  <2>5. /\ modify(h, x, y).modified = a /\ modify(h, x, y).generated = g
        /\ modify(h, x, y) = [generated |-> g, modified |-> a, deleted |-> d \ {x}, copied |-> c]
    <3>1. PICK k, e : k = [h EXCEPT !.modified = a] /\ e = d \ {x}
      OBVIOUS
    <3>2. k = [generated |-> g, modified |-> a, deleted |-> d, copied |-> c]
      BY <2>1, <3>1
    <3>3. modify(h, x, y) = [k EXCEPT !.deleted = e]
      BY <2>2, <2>3, <3>1 DEF modify
    <3>4. [k EXCEPT !.deleted = e] = [generated |-> g, modified |-> a, deleted |-> e, copied |-> c]
      BY <3>2
    <3> QED BY <3>1, <3>3, <3>4
  <2>6. /\ copy(h, x, y).modified = a /\ copy(h, x, y).generated = g
    <3>1. PICK k : k = modify(h, x, y)
      OBVIOUS
    <3>2. k = [generated |-> g, modified |-> a, deleted |-> d \ {x}, copied |-> c]
      BY <2>5, <3>1
    <3>3. copy(h, x, y) = [k EXCEPT !.copied = @ \cup {x}]
      BY <3>1 DEF copy
    <3> QED BY <3>2, <3>3
  <2>7. /\ generate(h, x, y).modified = m /\ generate(h, x, y).generated = b
    BY <2>1, <2>2, <2>3 DEF generate
  <2>8. /\ delete(h, x).modified = n /\ delete(h, x).generated = g
    <3>1. PICK k : k = [h EXCEPT !.modified = n]
      OBVIOUS
    <3>2. k = [generated |-> g, modified |-> n, deleted |-> d, copied |-> c]
      BY <2>1, <3>1
    <3>3. PICK e, f : e = c \ {x} /\ f = d \cup {x}
      OBVIOUS
    <3>4. PICK l : l = [k EXCEPT !.copied = e]
      OBVIOUS
    <3>5. l = [generated |-> g, modified |-> n, deleted |-> d, copied |-> e]
      BY <3>2, <3>4
    <3>6. delete(h, x) = [l EXCEPT !.deleted = f]
      BY <2>2, <2>4, <3>1, <3>3, <3>4 DEF delete
    <3> QED BY <3>5, <3>6
  <2>9. /\ Listed(a, z) = IF z = x THEN Append(Listed(m, x), y) ELSE Listed(m, z)
        /\ Listed(b, z) = IF z = x THEN Append(Listed(g, x), y) ELSE Listed(g, z)
        /\ Listed(n, z) = IF z = x THEN <<>> ELSE Listed(m, z)
    BY <2>3, <2>4 DEF Listing, Listed, Without
  <2> QED BY <2>2, <2>5, <2>6, <2>7, <2>8, <2>9 DEF modified, generated
<1>2. ToSet(<<>>) = {}
  BY DEF ToSet
<1>3. Relates(delete(h, x), R)
  BY <1>1, <1>2 DEF Relates
<1>4. /\ ToSet(Append(modified(h, x), y)) = ToSet(modified(h, x)) \cup {y}
      /\ ToSet(Append(generated(h, x), y)) = ToSet(generated(h, x)) \cup {y}
  <2>1. PICK s, t : s = modified(h, x) /\ t = generated(h, x)
    OBVIOUS
  <2>2. s \in Seq(Nat) /\ t \in Seq(Nat)
    BY <2>1, TraceType
  <2> QED BY <2>1, <2>2, ToSetAppend
<1>5. ASSUME <<x, y>> \in R
      PROVE  Relates(modify(h, x, y), R) /\ Relates(generate(h, x, y), R)
  BY <1>1, <1>4, <1>5 DEF Relates
<1>6. ASSUME <<x, y>> \in R
      PROVE  Relates(copy(h, x, y), R)
  BY <1>1, <1>5, <1>6 DEF Relates
<1> QED BY <1>3, <1>5, <1>6

(* Histories composed one after the other in place, as a function of the   *)
(* set of steps composed.                                                  *)
Follows(f, n, hs) ==
    f = [s \in SUBSET (1..n) |->
            IF s = {} THEN identity ELSE followed_by(f[s \ {Max(s)}], hs[Max(s)])]

LEMMA FollowsExist ==
    ASSUME NEW hs, NEW n \in Nat
    PROVE  \E f : Follows(f, n, hs)
<1> DEFINE T == {k \in 0..n : ~ \E f : Follows(f, k, hs)}
<1> SUFFICES ASSUME T # {} PROVE FALSE
  OBVIOUS
<1>1. PICK k \in T : \A j \in T : ~(j < k)
  <2> T \in SUBSET Nat
    OBVIOUS
  <2> HIDE DEF T
  <2> QED BY HasLeast
<1>2. k # 0
  <2> DEFINE g == [s \in SUBSET (1..0) |-> identity]
  <2>1. \A s \in SUBSET (1..0) : s = {}
    OBVIOUS
  <2>2. g = [s \in SUBSET (1..0) |->
                IF s = {} THEN identity ELSE followed_by(g[s \ {Max(s)}], hs[Max(s)])]
    BY <2>1
  <2>3. Follows(g, 0, hs)
    BY <2>2 DEF Follows
  <2> QED BY <1>1, <2>3
<1>3. PICK f : Follows(f, k - 1, hs)
  BY <1>1, <1>2
<1> DEFINE g == [s \in SUBSET (1..k) |->
                    IF k \in s THEN followed_by(f[s \ {k}], hs[k]) ELSE f[s]]
<1>4. ASSUME NEW s \in SUBSET (1..k)
      PROVE  g[s] = IF s = {} THEN identity ELSE followed_by(g[s \ {Max(s)}], hs[Max(s)])
  <2>1. CASE k \in s
    <3>1. Max(s) = k /\ s \ {k} \in SUBSET (1..(k - 1)) /\ k \notin s \ {k}
      BY <1>1, <1>2, <2>1, LastOfRun
    <3>2. s \ {k} \in SUBSET (1..k)
      OBVIOUS
    <3>3. g[s \ {k}] = f[s \ {k}]
      BY <3>1, <3>2
    <3> QED BY <2>1, <3>1, <3>3
  <2>2. CASE k \notin s
    <3>1. s \in SUBSET (1..(k - 1))
      BY <1>1, <1>2, <2>2
    <3>2. f[s] = IF s = {} THEN identity ELSE followed_by(f[s \ {Max(s)}], hs[Max(s)])
      BY <1>3, <3>1 DEF Follows
    <3>3. s \ {Max(s)} \in SUBSET (1..k) /\ k \notin s \ {Max(s)}
      BY <2>2
    <3>4. g[s \ {Max(s)}] = f[s \ {Max(s)}]
      BY <3>3
    <3> QED BY <2>2, <3>2, <3>4
  <2> QED BY <2>1, <2>2
<1>5. Follows(g, k, hs)
  BY <1>4 DEF Follows
<1> QED BY <1>1, <1>5

(* A chain composed in place relates what its steps do.                     *)
LEMMA ChainRelates ==
    ASSUME NEW S, NEW hs \in Seq(S), NEW R, Preorder(R),
           \A i \in DOMAIN hs : Tells(hs[i]) /\ Relates(hs[i], R)
    PROVE  Relates(FoldLeft(followed_by, identity, hs), R)
<1> DEFINE Fine(h) == Tells(h) /\ Plain(h) /\ Relates(h, R)
<1>1. PICK n : n = Len(hs) /\ n \in Nat /\ DOMAIN hs = 1..n
  OBVIOUS
<1>2. FoldLeft(followed_by, identity, hs) = (CHOOSE f : Follows(f, n, hs))[1..n]
  <2>1. FoldLeft(followed_by, identity, hs) =
           (CHOOSE f : f = [s \in SUBSET DOMAIN hs |->
                               IF s = {} THEN identity
                               ELSE followed_by(f[s \ {Max(s)}], hs[Max(s)])])[DOMAIN hs]
    BY Zenon DEF FoldLeft, MapThenFoldSet
  <2> QED BY Zenon, <1>1, <2>1 DEF Follows
<1>3. PICK f : Follows(f, n, hs) /\ FoldLeft(followed_by, identity, hs) = f[1..n]
  BY <1>1, <1>2, FollowsExist
<1> DEFINE T == {k \in 0..n : ~Fine(f[1..k])}
<1>4. ASSUME T # {} PROVE FALSE
  <2>1. PICK k \in T : \A j \in T : ~(j < k)
    <3> T \in SUBSET Nat
      OBVIOUS
    <3> HIDE DEF T
    <3> QED BY <1>4, HasLeast
  <2>2. 1..k \in SUBSET (1..n)
    BY <1>1
  <2>3. f[1..k] = IF 1..k = {} THEN identity
                  ELSE followed_by(f[(1..k) \ {Max(1..k)}], hs[Max(1..k)])
    BY <1>3, <2>2 DEF Follows
  <2>4. CASE k = 0
    <3>1. f[1..k] = identity
      BY <2>3, <2>4
    <3>2. Tells(identity) /\ Plain(identity)
      BY DEF Tells, Plain, Lists, identity
    <3>3. Fine(identity)
      BY <3>2, RelatesNothing
    <3> HIDE DEF Fine
    <3> QED BY <3>1, <3>3
  <2>5. CASE k # 0
    <3>1. k \in 1..k /\ k \in Nat \ {0} /\ k \in 1..n
      BY <1>1, <2>5
    <3>2. Max(1..k) = k
      BY <3>1, LastOfRun
    <3>3. (1..k) \ {k} = 1..(k - 1)
      BY <3>1
    <3>4. PICK before, h : before = f[1..(k - 1)] /\ h = hs[k]
      OBVIOUS
    <3>5. f[1..k] = followed_by(before, h)
      BY <2>3, <3>1, <3>2, <3>3, <3>4
    <3>6. k - 1 \in 0..n /\ k - 1 < k
      BY <1>1, <3>1
    <3>7. Fine(before)
      BY <2>1, <3>4, <3>6
    <3>8. Tells(h) /\ Relates(h, R)
      BY <1>1, <3>1, <3>4
    <3>9. followed_by(before, h) = then(before, h)
      BY <3>7, <3>8, ReworksEnough
    <3>10. Fine(then(before, h))
      BY <3>7, <3>8, ThenTells, ThenRelates
    <3> HIDE DEF Fine
    <3> QED BY <3>5, <3>9, <3>10
  <2> QED BY <2>4, <2>5
<1>5. n \in 0..n
  BY <1>1
<1> QED BY <1>3, <1>4, <1>5

-----------------------------------------------------------------------------
(* The originals an identity descends from, whatever was dropped since.    *)
Originals(id) ==
    {a \in 1..issued :
        /\ lineage[a] = {}
        /\ \A S \in SUBSET (1..issued) :
              (id \in S /\ \A b \in S : lineage[b] \subseteq S) => a \in S}

LEMMA LineageGrows ==
    ASSUME IInv, NEW from, Record(from)
    PROVE  /\ issued \in Nat /\ issued' = issued + 1 /\ lineage'[issued + 1] = from
           /\ \A a \in 1..issued : lineage'[a] = lineage[a]
<1>1. issued \in Nat /\ lineage \in Seq(SUBSET Ids) /\ Len(lineage) = issued
  BY Basics DEF IInv, TypeOK
<1>2. issued' = issued + 1 /\ lineage' = Append(lineage, from)
  BY DEF Record
<1> QED BY <1>1, <1>2

(* They never change.                                                      *)
LEMMA OriginalsStay ==
    ASSUME IInv, SourcesOlder, [Next]_vars, NEW id \in 1..issued
    PROVE  Originals(id)' = Originals(id)
<1>1. CASE UNCHANGED <<issued, lineage>>
  BY <1>1 DEF Originals
<1>2. ASSUME NEW from, Record(from) PROVE Originals(id)' = Originals(id)
  <2>1. /\ issued \in Nat /\ issued' = issued + 1
        /\ \A a \in 1..issued : lineage'[a] = lineage[a]
    BY <1>2, LineageGrows
  <2>2. PICK I, J : I = 1..issued /\ J = 1..issued'
    OBVIOUS
  <2>3. I \subseteq J /\ id \in I /\ (\A a \in I : lineage'[a] = lineage[a])
    BY <2>1, <2>2
  <2>4. \A a \in I : lineage[a] \subseteq I
    <3>1. \A a \in 1..issued : 1..(a - 1) \subseteq 1..issued
      BY <2>1
    <3> QED BY <2>2, <3>1 DEF SourcesOlder
  <2>5. /\ Originals(id) =
              {a \in I : /\ lineage[a] = {}
                         /\ \A S \in SUBSET I :
                               (id \in S /\ \A b \in S : lineage[b] \subseteq S) => a \in S}
        /\ Originals(id)' =
              {a \in J : /\ lineage'[a] = {}
                         /\ \A S \in SUBSET J :
                               (id \in S /\ \A b \in S : lineage'[b] \subseteq S) => a \in S}
    BY <2>2 DEF Originals
  <2>6. ASSUME NEW a \in Originals(id) PROVE a \in Originals(id)'
    <3>1. a \in I /\ a \in J /\ lineage'[a] = {}
      BY <2>3, <2>5
    <3>2. ASSUME NEW S \in SUBSET J, id \in S, \A b \in S : lineage'[b] \subseteq S
          PROVE  a \in S
      <4>1. S \cap I \in SUBSET I /\ id \in S \cap I
        BY <2>3, <3>2
      <4>2. \A b \in S \cap I : lineage[b] \subseteq S \cap I
        BY <2>3, <2>4, <3>2
      <4> QED BY <2>5, <4>1, <4>2
    <3> QED BY <2>5, <3>1, <3>2
  <2>7. ASSUME NEW a \in Originals(id)' PROVE a \in Originals(id)
    <3>1. a \in I
      <4>1. I \in SUBSET J /\ id \in I /\ (\A b \in I : lineage'[b] \subseteq I)
        BY <2>3, <2>4
      <4> QED BY <2>5, <4>1
    <3>2. lineage[a] = {}
      BY <2>3, <2>5, <3>1
    <3>3. ASSUME NEW S \in SUBSET I, id \in S, \A b \in S : lineage[b] \subseteq S
          PROVE  a \in S
      <4>1. S \in SUBSET J /\ \A b \in S : lineage'[b] \subseteq S
        BY <2>3, <3>3
      <4> QED BY <2>5, <3>3, <4>1
    <3> QED BY <2>5, <3>1, <3>2, <3>3
  <2> QED BY <2>6, <2>7
<1>3. [Next]_vars => UNCHANGED <<issued, lineage>> \/ \E from : Record(from)
  BY DEF Next, Forget, Retain, vars, table
<1> QED BY <1>1, <1>2, <1>3

(* An identity recorded as derived from another descends from the same     *)
(* originals; from several, from those of each.                            *)
LEMMA OriginalsPassedOn ==
    ASSUME IInv, SourcesOlder, NEW from \in SUBSET (1..issued), Record(from), NEW e \in from,
           NEW n, n = NextId
    PROVE  /\ Originals(e)' \subseteq Originals(n)'
           /\ from = {e} => Originals(n)' \subseteq Originals(e)'
<1>1. issued \in Nat /\ issued' = issued + 1 /\ n = issued + 1 /\ lineage'[n] = from
  BY LineageGrows DEF NextId
<1>2. PICK J : J = 1..issued'
  OBVIOUS
<1>3. n \in J /\ e \in J
  BY <1>1, <1>2
<1>4. /\ Originals(e)' = {a \in J : /\ lineage'[a] = {}
                                    /\ \A S \in SUBSET J :
                                       (e \in S /\ \A b \in S : lineage'[b] \subseteq S) => a \in S}
      /\ Originals(n)' = {a \in J : /\ lineage'[a] = {}
                                    /\ \A S \in SUBSET J :
                                       (n \in S /\ \A b \in S : lineage'[b] \subseteq S) => a \in S}
  BY <1>2 DEF Originals
<1>5. ASSUME NEW a \in Originals(e)' PROVE a \in Originals(n)'
  <2>1. a \in J /\ lineage'[a] = {}
    BY <1>4
  <2>2. ASSUME NEW S \in SUBSET J, n \in S, \A b \in S : lineage'[b] \subseteq S
        PROVE  a \in S
    <3>1. e \in S
      BY <1>1, <2>2
    <3> QED BY <1>4, <2>2, <3>1
  <2> QED BY <1>4, <2>1, <2>2
<1>6. ASSUME from = {e}, NEW a \in Originals(n)' PROVE a \in Originals(e)'
  <2>1. a \in J /\ lineage'[a] = {} /\ a # n
    BY <1>1, <1>4, <1>6
  <2>2. ASSUME NEW S \in SUBSET J, e \in S, \A b \in S : lineage'[b] \subseteq S
        PROVE  a \in S
    <3>1. S \cup {n} \in SUBSET J /\ n \in S \cup {n}
      BY <1>3
    <3>2. \A b \in S \cup {n} : lineage'[b] \subseteq S \cup {n}
      BY <1>1, <1>6, <2>2
    <3>3. a \in S \cup {n}
      BY <1>4, <3>1, <3>2
    <3> QED BY <2>1, <3>3
  <2> QED BY <1>4, <2>1, <2>2
<1> QED BY <1>5, <1>6

(* The roots that still answer are among the originals, and are all of     *)
(* them where nothing of the ancestry was dropped.                         *)
LEMMA RootsAreOriginals ==
    ASSUME IInv, AnswersWithItsOwn, SourcesOlder, NEW id \in 1..issued
    PROVE  /\ Roots(id) \subseteq Originals(id)
           /\ Ancestry(id) \cap dropped = {} => Originals(id) \subseteq Roots(id)
<1>1. issued \in Nat /\ DOMAIN lineage = 1..issued
  BY Basics DEF IInv, TypeOK
<1>2. ASSUME NEW a \in 1..issued
      PROVE  /\ Get(a) = IF a \in dropped THEN Forgotten ELSE lineage[a]
             /\ Sources(a) = IF a \in dropped THEN {} ELSE lineage[a]
             /\ Sources(a) \subseteq lineage[a]
  <2>1. a \in 1..(issued + 1)
    BY <1>1
  <2>2. Get(a) = IF a \in dropped THEN Forgotten ELSE lineage[a]
    BY <1>1, <2>1 DEF AnswersWithItsOwn
  <2>3. lineage[a] \subseteq 1..(a - 1)
    BY DEF SourcesOlder
  <2>4. 0 \notin 1..(a - 1)
    BY <1>1
  <2>5. lineage[a] \ Forgotten = lineage[a]
    BY <2>3, <2>4 DEF Forgotten
  <2> QED BY <2>2, <2>5 DEF Sources
<1>3. PICK A : A = Ancestry(id)
  OBVIOUS
<1>4. /\ id \in A /\ A \in SUBSET (1..issued) /\ \A a \in A : Sources(a) \subseteq A
      /\ \A S \in SUBSET (1..issued) :
            id \in S /\ (\A a \in S : Sources(a) \subseteq S) => A \subseteq S
  BY <1>3, AncestryIs DEF AncestriesAreLeast
<1>5. ASSUME NEW a \in Roots(id) PROVE a \in Originals(id)
  <2>1. a \in A /\ Get(a) = {} /\ a \in 1..issued
    BY <1>3, <1>4 DEF Roots
  <2>2. lineage[a] = {}
    BY <1>2, <2>1 DEF Forgotten
  <2>3. ASSUME NEW S \in SUBSET (1..issued), id \in S, \A b \in S : lineage[b] \subseteq S
        PROVE  a \in S
    <3>1. \A b \in S : Sources(b) \subseteq S
      BY <1>2, <2>3
    <3> QED BY <1>4, <2>1, <2>3, <3>1
  <2> QED BY <2>1, <2>2, <2>3 DEF Originals
<1>6. ASSUME A \cap dropped = {}, NEW a \in Originals(id) PROVE a \in Roots(id)
  <2>1. \A b \in A : lineage[b] \subseteq A
    BY <1>2, <1>4, <1>6
  <2>2. a \in A /\ a \in 1..issued /\ lineage[a] = {}
    BY <1>4, <1>6, <2>1 DEF Originals
  <2>3. Get(a) = {}
    BY <1>2, <1>6, <2>2
  <2> QED BY <1>3, <2>2, <2>3 DEF Roots
<1> QED BY <1>3, <1>5, <1>6

-----------------------------------------------------------------------------
(* A shape recorded all the way and told to come of another descends from  *)
(* the originals of that one, which is recorded all the way too.           *)
Leads(x, y) ==
    /\ x \in Shapes /\ y \in Shapes
    /\ y \in led => x \in led /\ Originals(entity[x]) \subseteq Originals(entity[y])

Leading == {p \in Nat \X Nat : p[1] = p[2] \/ Leads(p[1], p[2])}

PairsStand == Relates(now, Leading) /\ \A i \in DOMAIN steps : Relates(steps[i], Leading)

LEMMA LeadingIs ==
    /\ \A x, y \in Nat : <<x, y>> \in Leading <=> x = y \/ Leads(x, y)
    /\ Preorder(Leading)
<1>1. \A x, y \in Nat : <<x, y>> \in Leading <=> x = y \/ Leads(x, y)
  BY DEF Leading
<1>2. \A x, y, z \in Nat : Leads(x, y) /\ Leads(y, z) => Leads(x, z)
  BY DEF Leads
<1> QED BY <1>1, <1>2 DEF Preorder

LEMMA RelatesMore ==
    ASSUME NEW h, NEW R, NEW Q, Relates(h, R), R \subseteq Q
    PROVE  Relates(h, Q)
BY DEF Relates

(* What operations do to the shapes there are: their originals stay.       *)
Settled ==
    /\ Shapes \subseteq Shapes'
    /\ \A x \in Shapes : /\ Originals(entity[x])' = Originals(entity[x])
                         /\ x \in led' <=> x \in led

LEMMA PairsKept ==
    ASSUME Shapes \subseteq Nat, Settled
    PROVE  Leading \subseteq Leading'
<1> SUFFICES ASSUME NEW p \in Leading PROVE p \in Leading'
  OBVIOUS
<1>1. p \in Nat \X Nat /\ (p[1] = p[2] \/ Leads(p[1], p[2]))
  BY DEF Leading
<1>2. ASSUME NEW x \in Nat, NEW y \in Nat, Leads(x, y) PROVE Leads(x, y)'
  <2>1. x \in Shapes /\ y \in Shapes
    BY <1>2 DEF Leads
  <2>2. /\ x \in Shapes' /\ y \in Shapes'
        /\ x \in led' <=> x \in led
        /\ y \in led' <=> y \in led
        /\ Originals(entity[x])' = Originals(entity[x])
        /\ Originals(entity[y])' = Originals(entity[y])
    BY <2>1 DEF Settled
  <2> QED BY <1>2, <2>2 DEF Leads
<1> QED BY <1>1, <1>2 DEF Leading

(* Every operation settles the shapes there are.                           *)
LEMMA OperationsSettle ==
    ASSUME IInv, SourcesOlder, EntitiesStand, [OperationsNext]_allvars
    PROVE  Settled
<1>1. [Next]_vars /\ issued \in Nat
  BY OperationsRecord DEF EntitiesStand
<1>2. \A id \in 1..issued : Originals(id)' = Originals(id)
  BY <1>1, OriginalsStay
<1>3. PICK n : n = Len(entity) /\ n \in Nat /\ Shapes = 1..n /\ led \subseteq 1..n /\ Fresh = n + 1
               /\ \A x \in 1..n : entity[x] \in 1..issued
  BY DEF EntitiesStand, Shapes, Fresh
<1>4. ASSUME NEW x, NEW m, entity'[x] = m, Originals(m)' = Originals(entity[x])
      PROVE  Originals(entity[x])' = Originals(entity[x])
  <2>1. Originals(entity[x])' = Originals(m)'
    BY <1>4 DEF Originals
  <2> QED BY <1>4, <2>1
<1>5. ASSUME Shapes \subseteq Shapes', \A x \in Shapes : entity'[x] = entity[x],
             led' = led \/ led' = led \cup {Fresh}
      PROVE  Settled
  <2>1. ASSUME NEW x \in Shapes PROVE Originals(entity[x])' = Originals(entity[x])
    <3>1. PICK m : m = entity[x] /\ m \in 1..issued
      BY <1>3
    <3>2. Originals(m)' = Originals(m) /\ entity'[x] = m
      BY <1>2, <1>5, <3>1
    <3> QED BY <1>4, <3>1, <3>2
  <2>2. Fresh \notin Shapes
    BY <1>3
  <2> QED BY <1>5, <2>1, <2>2 DEF Settled
<1>6. ASSUME NEW e, entity' = Append(entity, e), led' = led \/ led' = led \cup {Fresh}
      PROVE  Settled
  <2>1. PICK ens : ens = Append(entity, e)
    OBVIOUS
  <2>2. entity \in Seq(1..issued) /\ Len(entity) = n
    BY <1>3 DEF EntitiesStand
  <2>3. DOMAIN ens = 1..(n + 1) /\ \A x \in 1..n : ens[x] = entity[x]
    BY <1>3, <2>1, <2>2
  <2>4. 1..n \subseteq 1..(n + 1)
    BY <1>3
  <2> QED BY <1>3, <1>5, <1>6, <2>1, <2>3, <2>4 DEF Shapes
<1>7. entity' = entity /\ led' = led => Settled
  BY <1>5 DEF Shapes
<1>8. CASE Make
  BY <1>6, <1>8 DEF Make, New
<1>9. CASE EndOperation
  BY <1>7, <1>9 DEF EndOperation
<1>10. CASE Table
  BY <1>7, <1>10 DEF Table, operations
<1>11. CASE UNCHANGED allvars
  BY <1>7, <1>11 DEF allvars, operations
<1>12. ASSUME NEW x \in Shapes
       PROVE  /\ Rebuild(x) => Settled
              /\ Settle(x) => Settled
              /\ Sweep(x) => Settled
              /\ Unshare(x) => Settled
              /\ Lose(x) => Settled
              /\ \A y \in Shapes : Join(x, y) => Settled
  <2>1. Rebuild(x) => Settled
    BY <1>6 DEF Rebuild, New, Lead
  <2>2. Sweep(x) => Settled
    BY <1>6 DEF Sweep, New, Lead
  <2>3. Unshare(x) => Settled
    BY <1>6 DEF Unshare, Lead
  <2>4. Lose(x) => Settled
    BY <1>7 DEF Lose
  <2>5. \A y \in Shapes : Join(x, y) => Settled
    BY <1>6 DEF Join, New
  <2>6. ASSUME Settle(x) PROVE Settled
    <3>1. PICK e, m : e = entity[x] /\ m = NextId
      OBVIOUS
    <3>2. /\ Record({e}) /\ entity' = [entity EXCEPT ![x] = m] /\ led' = led
          /\ {e} \in SUBSET (1..issued) /\ e \in 1..issued
      BY <1>3, <2>6, <3>1 DEF Settle, IdsOf
    <3>3. Shapes' = Shapes /\ entity'[x] = m /\ \A y \in Shapes : y # x => entity'[y] = entity[y]
      BY <3>2 DEF Shapes
    <3>4. Originals(e)' \subseteq Originals(m)' /\ Originals(m)' \subseteq Originals(e)'
      BY <3>1, <3>2, OriginalsPassedOn
    <3>5. Originals(m)' = Originals(entity[x])
      BY <1>2, <3>1, <3>2, <3>4
    <3>6. ASSUME NEW y \in Shapes PROVE Originals(entity[y])' = Originals(entity[y])
      <4>1. CASE y = x
        BY <1>4, <3>3, <3>5, <4>1
      <4>2. CASE y # x
        <5>1. PICK k : k = entity[y] /\ k \in 1..issued
          BY <1>3
        <5>2. Originals(k)' = Originals(k) /\ entity'[y] = k
          BY <1>2, <3>3, <4>2, <5>1
        <5> QED BY <1>4, <5>1, <5>2
      <4> QED BY <4>1, <4>2
    <3> QED BY <3>2, <3>3, <3>6 DEF Settled
  <2> QED BY <2>1, <2>2, <2>3, <2>4, <2>5, <2>6
<1> QED BY <1>8, <1>9, <1>10, <1>11, <1>12 DEF OperationsNext

LEMMA PairsAlwaysStand == OperationsSpec => []PairsStand
<1>1. OperationsInit => PairsStand
  <2> SUFFICES ASSUME OperationsInit PROVE PairsStand
    OBVIOUS
  <2>1. now = identity /\ DOMAIN steps = {}
    BY DEF OperationsInit
  <2> QED BY <2>1, RelatesNothing DEF PairsStand
<1>2. IInv /\ SourcesOlder /\ EntitiesStand /\ HistoriesStand /\ PairsStand
        /\ [OperationsNext]_allvars => PairsStand'
  <2> SUFFICES ASSUME IInv, SourcesOlder, EntitiesStand, HistoriesStand, PairsStand,
                      [OperationsNext]_allvars
               PROVE  PairsStand'
    OBVIOUS
  <2>1. Settled
    BY OperationsSettle
  <2>2. PICK n : n = Len(entity) /\ n \in Nat /\ Shapes = 1..n /\ led \subseteq 1..n /\ Fresh = n + 1
                 /\ \A x \in 1..n : entity[x] \in 1..issued
    BY DEF EntitiesStand, Shapes, Fresh
  <2>3. Shapes \subseteq Nat /\ Fresh \in Nat /\ Fresh \notin led
    BY <2>2
  <2>4. PICK R, Q : R = Leading /\ Q = Leading'
    OBVIOUS
  <2>5. R \subseteq Q
    BY <2>1, <2>3, <2>4, PairsKept
  <2>6. Relates(now, Q) /\ \A i \in DOMAIN steps : Relates(steps[i], Q)
    BY <2>4, <2>5, RelatesMore DEF PairsStand
  <2>7. ASSUME NEW h, Tell(h), Relates(h, Q) PROVE PairsStand'
    BY <2>4, <2>6, <2>7 DEF Tell, PairsStand
  <2>8. CASE UNCHANGED <<steps, now>>
    BY <2>4, <2>6, <2>8 DEF PairsStand
  <2>9. CASE Make
    BY <2>8, <2>9 DEF Make
  <2>10. CASE Table
    BY <2>8, <2>10 DEF Table, operations
  <2>11. CASE UNCHANGED allvars
    BY <2>8, <2>11 DEF allvars, operations
  <2>12. CASE EndOperation
    <3>1. steps' = Append(steps, now) /\ now' = identity
      BY <2>12 DEF EndOperation
    <3>2. PICK H : steps \in Seq(H)
      BY DEF HistoriesStand
    <3>3. steps \in Seq(H \cup {now}) /\ now \in H \cup {now}
      BY <3>2, SeqMonotonic
    <3>4. \A i \in DOMAIN steps' : steps'[i] = now \/ (i \in DOMAIN steps /\ steps'[i] = steps[i])
      BY <3>1, <3>3
    <3>5. \A i \in DOMAIN steps' : Relates(steps'[i], Q)
      BY <2>6, <3>4
    <3>6. Relates(now', Q)
      BY <3>1, RelatesNothing
    <3> QED BY <2>4, <3>5, <3>6 DEF PairsStand
  <2>13. ASSUME NEW x \in Shapes
         PROVE  /\ Rebuild(x) => PairsStand'
                /\ Settle(x) => PairsStand'
                /\ Sweep(x) => PairsStand'
                /\ Unshare(x) => PairsStand'
                /\ Lose(x) => PairsStand'
                /\ \A y \in Shapes : Join(x, y) => PairsStand'
    <3>1. Tells(now) /\ x \in Nat
      BY <2>3 DEF HistoriesStand
    <3>2. PICK e : e = entity[x] /\ e \in 1..issued
      BY <2>2
    <3>3. ASSUME NEW m, entity' = Append(entity, m)
          PROVE  /\ Fresh \in Shapes' /\ entity'[Fresh] = m
                 /\ \A y \in Shapes : y \in Shapes' /\ entity'[y] = entity[y]
      <4>1. entity \in Seq(1..issued)
        BY DEF EntitiesStand
      <4>2. PICK ens : ens = Append(entity, m)
        OBVIOUS
      <4>3. /\ DOMAIN ens = 1..(n + 1) /\ ens[n + 1] = m
            /\ \A y \in 1..n : y \in 1..(n + 1) /\ ens[y] = entity[y]
        BY <2>2, <4>1, <4>2
      <4>4. n + 1 \in 1..(n + 1)
        BY <2>2
      <4> QED BY <2>2, <3>3, <4>2, <4>3, <4>4 DEF Shapes
    <3>4. ASSUME NEW m, entity' = Append(entity, m), Lead(x),
                 Originals(e)' \subseteq Originals(m)'
          PROVE  <<x, Fresh>> \in Q
      <4>1. PICK f : f = Fresh
        OBVIOUS
      <4>2. /\ f \in Nat /\ f \in Shapes' /\ x \in Shapes' /\ entity'[f] = m /\ entity'[x] = e
        BY <2>3, <3>2, <3>3, <3>4, <4>1
      <4>3. Originals(entity[x])' \subseteq Originals(entity[f])'
        BY <3>4, <4>2 DEF Originals
      <4>4. f \in led' => x \in led'
        BY <2>3, <3>4, <4>1 DEF Lead
      <4>5. Leads(x, f)'
        BY <4>2, <4>3, <4>4 DEF Leads
      <4> QED BY <2>4, <3>1, <4>1, <4>2, <4>5 DEF Leading
    <3>5. ASSUME Record(IdsOf({x})), entity' = Append(entity, NextId), Lead(x)
          PROVE  <<x, Fresh>> \in Q
      <4>1. PICK m : m = NextId
        OBVIOUS
      <4>2. Record({e}) /\ {e} \in SUBSET (1..issued)
        BY <3>2, <3>5 DEF IdsOf
      <4>3. Originals(e)' \subseteq Originals(m)'
        BY <4>1, <4>2, OriginalsPassedOn
      <4> QED BY <3>4, <3>5, <4>1, <4>3
    <3>6. <<x, Fresh>> \in Q =>
            /\ Relates(modify(now, x, Fresh), Q)
            /\ Relates(copy(now, x, Fresh), Q)
            /\ Relates(generate(now, x, Fresh), Q)
      BY <2>3, <2>6, <3>1, TellingRelates
    <3>7. Rebuild(x) => PairsStand'
      BY <2>7, <3>5, <3>6 DEF Rebuild, New
    <3>8. Sweep(x) => PairsStand'
      BY <2>7, <3>5, <3>6 DEF Sweep, New
    <3>9. Unshare(x) => PairsStand'
      <4> SUFFICES ASSUME Unshare(x) PROVE PairsStand'
        OBVIOUS
      <4>1. entity' = Append(entity, e) /\ Lead(x) /\ Tell(copy(now, x, Fresh))
        BY <3>2 DEF Unshare
      <4> QED BY <2>7, <3>4, <3>6, <4>1
    <3>10. Settle(x) => PairsStand'
      <4> SUFFICES ASSUME Settle(x) PROVE PairsStand'
        OBVIOUS
      <4>1. <<x, x>> \in Q
        BY <2>4, <3>1 DEF Leading
      <4>2. Relates(copy(now, x, x), Q)
        BY <2>6, <3>1, <4>1, TellingRelates
      <4> QED BY <2>7, <4>2 DEF Settle
    <3>11. Lose(x) => PairsStand'
      <4>1. Relates(delete(now, x), Q)
        BY <2>6, <3>1, TellingRelates
      <4> QED BY <2>7, <4>1 DEF Lose
    <3>12. ASSUME NEW y \in Shapes, Join(x, y) PROVE PairsStand'
      <4>1. PICK f : f = Fresh
        OBVIOUS
      <4>2. /\ entity' = Append(entity, NextId) /\ led' = led
            /\ Tell(modify(modify(now, x, f), y, f))
        BY <3>12, <4>1 DEF Join, New
      <4>3. f \in Nat /\ f \in Shapes' /\ x \in Shapes' /\ y \in Shapes' /\ f \notin led'
        BY <2>3, <3>3, <4>1, <4>2
      <4>4. Leads(x, f)' /\ Leads(y, f)'
        BY <4>3 DEF Leads
      <4>5. <<x, f>> \in Q /\ <<y, f>> \in Q /\ y \in Nat
        BY <2>3, <2>4, <3>1, <4>3, <4>4 DEF Leading
      <4>6. PICK h : h = modify(now, x, f)
        OBVIOUS
      <4>7. Tells(h) /\ Relates(h, Q)
        BY <2>6, <3>1, <4>3, <4>5, <4>6, TellingTells, TellingRelates
      <4>8. Relates(modify(h, y, f), Q)
        BY <4>3, <4>5, <4>7, TellingRelates
      <4> QED BY <2>7, <4>2, <4>6, <4>8
    <3> QED BY <3>7, <3>8, <3>9, <3>10, <3>11, <3>12
  <2> QED BY <2>9, <2>10, <2>11, <2>12, <2>13 DEF OperationsNext
<1>3. Spec => []IInv
  BY InitHolds, NextKeeps, PTL DEF Spec
<1> QED BY <1>1, <1>2, <1>3, SourcesStayOlder, EntitiesAlwaysStand, HistoriesAlwaysStand,
           OperationsKeepTheTable, PTL DEF OperationsSpec

(* What a chain of operations says a shape became or made resolves to the  *)
(* shape's own originals, wherever every operation on the way recorded     *)
(* what it came from and nothing of it was dropped since: however long the *)
(* chain, whatever is made again of what was made before.                  *)
THEOREM ImagesAlwaysKeepTheirOriginals == OperationsSpec => []ImagesKeepTheirOriginals
<1>1. IInv /\ AnswersWithItsOwn /\ SourcesOlder /\ EntitiesStand /\ HistoriesStand /\ PairsStand
        => ImagesKeepTheirOriginals
  <2> SUFFICES ASSUME IInv, AnswersWithItsOwn, SourcesOlder, EntitiesStand, HistoriesStand,
                      PairsStand,
                      NEW x \in led,
                      NEW y \in ToSet(modified(Chained, x)) \cup ToSet(generated(Chained, x)),
                      y \in led, Ancestry(entity[y]) \cap dropped = {}
               PROVE  Roots(entity[x]) \subseteq Roots(entity[y])
    BY DEF ImagesKeepTheirOriginals
  <2>1. /\ led \subseteq Shapes /\ Shapes \subseteq Nat
        /\ \A z \in Shapes : entity[z] \in 1..issued
    BY DEF EntitiesStand, Shapes
  <2>2. PICK R : R = Leading
    OBVIOUS
  <2>3. Relates(Chained, R)
    <3>1. PICK H : steps \in Seq(H)
      BY DEF HistoriesStand
    <3>2. steps \in Seq(H \cup {now}) /\ now \in H \cup {now}
      BY <3>1, SeqMonotonic
    <3>3. PICK hs : hs = Append(steps, now)
      OBVIOUS
    <3>4. /\ hs \in Seq(H \cup {now})
          /\ \A i \in DOMAIN hs : hs[i] = now \/ (i \in DOMAIN steps /\ hs[i] = steps[i])
      BY <3>2, <3>3
    <3>5. \A i \in DOMAIN hs : Tells(hs[i]) /\ Relates(hs[i], R)
      BY <2>2, <3>4 DEF HistoriesStand, PairsStand
    <3>6. Preorder(R)
      BY <2>2, LeadingIs
    <3>7. Relates(FoldLeft(followed_by, identity, hs), R)
      BY <3>4, <3>5, <3>6, ChainRelates
    <3> QED BY <3>3, <3>7 DEF Chained
  <2>4. x \in Nat /\ y \in Nat /\ entity[x] \in 1..issued /\ entity[y] \in 1..issued
    BY <2>1
  <2>5. x = y \/ Leads(x, y)
    BY <2>2, <2>3, <2>4, LeadingIs DEF Relates
  <2>6. Originals(entity[x]) \subseteq Originals(entity[y])
    BY <2>5 DEF Leads
  <2>7. Roots(entity[x]) \subseteq Originals(entity[x])
    BY <2>4, RootsAreOriginals
  <2>8. Originals(entity[y]) \subseteq Roots(entity[y])
    BY <2>4, RootsAreOriginals
  <2> QED BY <2>6, <2>7, <2>8
<1>2. Spec => []IInv
  BY InitHolds, NextKeeps, PTL DEF Spec
<1> QED BY <1>1, <1>2, SourcesStayOlder, EachAnswersForItself, EntitiesAlwaysStand,
           HistoriesAlwaysStand, PairsAlwaysStand, OperationsKeepTheTable, PTL
=============================================================================
