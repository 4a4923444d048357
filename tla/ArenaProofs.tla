---------------------------- MODULE ArenaProofs ----------------------------
(***************************************************************************)
(* The packed arena keeps its promise for any number of slots, any limit   *)
(* on generations and any values: theorems over the specification of       *)
(* `Arena`, with the inductive invariant they rest on.                     *)
(***************************************************************************)
EXTENDS Arena, SequenceTheorems, TLAPS

(* The layout: the tail runs without a gap up to the last slot handed out, *)
(* every other live value is in the map at its own position, and the map   *)
(* holds nothing else.                                                     *)
Layout ==
    /\ next_slot + tail_at = tail + Len(entries)
    /\ tail_at <= Len(entries)
    /\ \A i \in (tail_at + 1)..Len(entries) : entries[i].slot + tail_at + 1 = tail + i
    /\ \A i \in 1..tail_at : /\ entries[i].slot < tail
                             /\ entries[i].slot \in DOMAIN scattered
                             /\ scattered[entries[i].slot] = i
    /\ \A s \in DOMAIN scattered : /\ scattered[s] \in 1..tail_at
                                   /\ entries[scattered[s]].slot = s

(* The slots waiting for reuse, and the keys given out.                    *)
FreeSlots ==
    /\ \A i \in DOMAIN free : free[i].slot < next_slot
    /\ \A i, j \in DOMAIN free : free[i].slot = free[j].slot => i = j
    /\ \A i \in DOMAIN free : \A j \in DOMAIN entries : free[i].slot # entries[j].slot

IssuedKeys ==
    /\ scope = UNSCOPED => next_slot = 0
    /\ \A k \in issued :
        /\ k.scope = scope
        /\ k.slot < next_slot
        /\ \A i \in DOMAIN free : free[i].slot = k.slot => k.gen < free[i].gen
        /\ \A j \in DOMAIN entries : entries[j].slot = k.slot => k.gen <= entries[j].gen

IInv == TypeOK /\ Layout /\ FreeSlots /\ IssuedKeys /\ OrderClaimHolds

-----------------------------------------------------------------------------
(* What the layout says of a lookup and of the helpers.                    *)

LEMMA Basics ==
    ASSUME TypeOK
    PROVE  /\ DOMAIN entries = 1..Len(entries) /\ Len(entries) \in Nat
           /\ DOMAIN free = 1..Len(free) /\ Len(free) \in Nat
           /\ tail \in Nat /\ tail_at \in Nat /\ next_slot \in Nat
           /\ \A i \in DOMAIN entries : /\ entries[i] \in Entry
                                       /\ entries[i].slot \in Nat
                                       /\ entries[i].gen \in Nat
           /\ \A i \in DOMAIN free : /\ free[i] \in Freed
                                    /\ free[i].slot \in Nat
                                    /\ free[i].gen \in Nat
  <1>1. /\ DOMAIN entries = 1..Len(entries) /\ Len(entries) \in Nat
        /\ DOMAIN free = 1..Len(free) /\ Len(free) \in Nat
    BY DEF TypeOK
  <1>2. tail \in Nat /\ tail_at \in Nat /\ next_slot \in Nat
    BY ArenaAssumption DEF TypeOK, Slots
  <1>3. \A i \in DOMAIN entries : entries[i] \in Entry
    BY <1>1 DEF TypeOK
  <1>4. \A i \in DOMAIN free : free[i] \in Freed
    BY <1>1 DEF TypeOK
  <1>5. Slots \subseteq Nat /\ Gens \subseteq Nat
    BY ArenaAssumption DEF Slots, Gens
  <1> QED BY <1>1, <1>2, <1>3, <1>4, <1>5 DEF Entry, Freed

LEMMA UniqueSlots ==
    ASSUME TypeOK, Layout
    PROVE  \A i, j \in DOMAIN entries : entries[i].slot = entries[j].slot => i = j
  <1> SUFFICES ASSUME NEW i \in DOMAIN entries, NEW j \in DOMAIN entries,
                      entries[i].slot = entries[j].slot
               PROVE  i = j
    OBVIOUS
  <1>1. DOMAIN entries = 1..Len(entries) /\ Len(entries) \in Nat
    BY Basics
  <1>2. entries[i].slot \in Nat /\ tail \in Nat /\ tail_at \in Nat
    BY Basics
  <1>3. CASE i <= tail_at /\ j <= tail_at
    BY <1>1, <1>2, <1>3 DEF Layout
  <1>4. CASE i > tail_at /\ j > tail_at
    BY <1>1, <1>2, <1>4 DEF Layout
  <1>5. CASE i <= tail_at /\ j > tail_at
    BY <1>1, <1>2, <1>5, SMTT(30) DEF Layout
  <1>6. CASE i > tail_at /\ j <= tail_at
    BY <1>1, <1>2, <1>6, SMTT(30) DEF Layout
  <1> QED BY <1>1, <1>2, <1>3, <1>4, <1>5, <1>6

LEMMA TailRuns ==
    ASSUME TypeOK, Layout, NEW i \in DOMAIN entries, i > tail_at
    PROVE  entries[i].slot + tail_at + 1 = tail + i
  <1>1. i \in (tail_at + 1)..Len(entries)
    BY Basics
  <1> QED BY <1>1 DEF Layout

LEMMA SlotsHandedOut ==
    ASSUME TypeOK, Layout
    PROVE  \A i \in DOMAIN entries : entries[i].slot < next_slot
  <1> SUFFICES ASSUME NEW i \in DOMAIN entries
               PROVE  entries[i].slot < next_slot
    OBVIOUS
  <1>1. CASE i <= tail_at
    BY <1>1, Basics DEF Layout
  <1>2. CASE i > tail_at
    BY <1>2, TailRuns, Basics DEF Layout
  <1> QED BY <1>1, <1>2, Basics

(* A lookup finds the one entry of its slot, where it is.                  *)
LEMMA PositionFinds ==
    ASSUME TypeOK, Layout
    PROVE  /\ \A i \in DOMAIN entries : Position(entries[i].slot) = i
           /\ \A s \in Slots : Position(s) \in Nat
  <1>3. ASSUME NEW i \in DOMAIN entries
        PROVE  Position(entries[i].slot) = i
    <2>1. CASE i <= tail_at
      BY <2>1, Basics DEF Layout, Position
    <2>2. CASE i > tail_at
      <3>1. entries[i].slot + tail_at + 1 = tail + i
        BY <2>2, TailRuns
      <3> QED BY <2>2, <3>1, Basics DEF Position
    <2> QED BY <2>1, <2>2, Basics
  <1>4. ASSUME NEW s \in Slots
        PROVE  Position(s) \in Nat
    <2>1. s \in Nat
      BY ArenaAssumption DEF Slots
    <2> QED BY <2>1, Basics DEF TypeOK, Position
  <1> QED BY <1>3, <1>4

LEMMA LookupFinds ==
    ASSUME TypeOK, Layout, NEW key \in Keys
    PROVE  /\ Live(key) <=> /\ key.scope = scope
                            /\ \E i \in DOMAIN entries : /\ entries[i].slot = key.slot
                                                         /\ entries[i].gen = key.gen
           /\ \A i \in DOMAIN entries :
                key.scope = scope /\ entries[i].slot = key.slot /\ entries[i].gen = key.gen
                    => Get(key) = entries[i].value
           /\ Get(key) # Absent <=> Live(key)
  <1>1. \A i \in DOMAIN entries : entries[i].value # Absent
    BY ArenaAssumption, Basics DEF Entry
  <1> QED BY <1>1, PositionFinds DEF Live, Get

LEMMA IndexFinds ==
    ASSUME NEW es, NEW lo \in Nat, NEW hi \in Nat,
           \A i, j \in lo..hi : es[i].slot = es[j].slot => i = j
    PROVE  /\ DOMAIN IndexOf(es, lo, hi) = {es[i].slot : i \in lo..hi}
           /\ \A i \in lo..hi : IndexOf(es, lo, hi)[es[i].slot] = i
  BY DEF IndexOf

(* scatter_tail leaves every live value in the map, at its position.       *)
LEMMA ScatterFinds ==
    ASSUME TypeOK, Layout
    PROVE  /\ DOMAIN ScatterTail = {entries[i].slot : i \in DOMAIN entries}
           /\ \A i \in DOMAIN entries : ScatterTail[entries[i].slot] = i
  <1> DEFINE lo == tail_at + 1
             top == IndexOf(entries, lo, Len(entries))
  <1>1. /\ DOMAIN entries = 1..Len(entries) /\ Len(entries) \in Nat
        /\ tail_at \in Nat /\ lo \in Nat /\ tail_at <= Len(entries)
    BY Basics DEF Layout
  <1>2. /\ DOMAIN top = {entries[i].slot : i \in lo..Len(entries)}
        /\ \A i \in lo..Len(entries) : top[entries[i].slot] = i
    <2>1. \A i, j \in lo..Len(entries) : entries[i].slot = entries[j].slot => i = j
      BY <1>1, UniqueSlots
    <2> HIDE DEF lo
    <2> QED BY <1>1, <2>1, IndexFinds
  <1>3. DOMAIN scattered = {entries[i].slot : i \in 1..tail_at}
    BY DEF Layout
  <1>4. DOMAIN ScatterTail = DOMAIN top \cup DOMAIN scattered
    BY DEF ScatterTail, Over
  <1>5. \A s \in DOMAIN ScatterTail :
            ScatterTail[s] = IF s \in DOMAIN top THEN top[s] ELSE scattered[s]
    BY DEF ScatterTail, Over
  <1> HIDE DEF top
  <1>6. DOMAIN ScatterTail = {entries[i].slot : i \in DOMAIN entries}
    BY <1>1, <1>2, <1>3, <1>4
  <1>7. ASSUME NEW i \in DOMAIN entries
        PROVE  ScatterTail[entries[i].slot] = i
    <2>1. CASE i > tail_at
      BY <1>1, <1>2, <1>5, <1>6, <2>1
    <2>2. CASE i <= tail_at
      <3>1. entries[i].slot \notin DOMAIN top
        BY <1>1, <1>2, <2>2, UniqueSlots
      <3> QED BY <1>1, <1>5, <1>6, <2>2, <3>1 DEF Layout
    <2> QED BY <1>1, <2>1, <2>2
  <1> QED BY <1>6, <1>7

-----------------------------------------------------------------------------
(* Each operation keeps the invariant.                                     *)

(* Where an operation leaves every value scattered, the map is all there   *)
(* is to check.                                                            *)
LEMMA AllScattered ==
    ASSUME TypeOK', tail' = next_slot', tail_at' = Len(entries)',
           DOMAIN scattered' = {entries'[i].slot : i \in DOMAIN entries'},
           \A i \in DOMAIN entries' : /\ scattered'[entries'[i].slot] = i
                                      /\ entries'[i].slot < next_slot'
    PROVE  Layout'
  <1>1. DOMAIN entries' = 1..Len(entries)' /\ Len(entries)' \in Nat /\ next_slot' \in Nat
    BY ArenaAssumption DEF TypeOK, Slots
  <1>2. \A s \in DOMAIN scattered' : /\ scattered'[s] \in 1..Len(entries)'
                                     /\ entries'[scattered'[s]].slot = s
    BY <1>1
  <1> QED BY <1>1, <1>2 DEF Layout

(* What each kind of operation does to the stored values.                  *)
Adds(slot, gen, v) ==
    /\ \E j \in DOMAIN entries' : entries'[j] = [slot |-> slot, gen |-> gen, value |-> v]
    /\ \A i \in DOMAIN entries : \E j \in DOMAIN entries' : entries'[j] = entries[i]
    /\ \A j \in DOMAIN entries' : \/ entries'[j] = [slot |-> slot, gen |-> gen, value |-> v]
                                  \/ \E i \in DOMAIN entries : entries'[j] = entries[i]

AddsNothing == \A j \in DOMAIN entries' : \E i \in DOMAIN entries : entries'[j] = entries[i]

SameKey(e, f) == e.slot = f.slot /\ e.gen = f.gen

KeepsKeys ==
    /\ \A j \in DOMAIN entries' : \E i \in DOMAIN entries : SameKey(entries'[j], entries[i])
    /\ \A i \in DOMAIN entries : \E j \in DOMAIN entries' : SameKey(entries'[j], entries[i])

LEMMA InsertReusedKeeps ==
    ASSUME IInv, NEW v \in Values, InsertReused(v)
    PROVE  /\ IInv'
           /\ free # <<>> /\ Adds(free[Len(free)].slot, free[Len(free)].gen, v)
           /\ scope' = scope
           /\ [slot |-> free[Len(free)].slot, gen |-> free[Len(free)].gen, scope |-> scope]
                    \in Keys \ issued
           /\ issued' = issued \cup {[slot |-> free[Len(free)].slot,
                                     gen |-> free[Len(free)].gen, scope |-> scope]}
  <1> DEFINE f == free[Len(free)]
             at == Len(entries) + 1
             e == [slot |-> f.slot, gen |-> f.gen, value |-> v]
             key == [slot |-> f.slot, gen |-> f.gen, scope |-> scope']
  <1> USE DEF IInv
  <1>1. /\ entries' = Append(entries, e)
        /\ ordered' = StillOrdered(f.slot)
        /\ scattered' = Inserted(ScatterTail, f.slot, at)
        /\ tail' = next_slot /\ next_slot' = next_slot
        /\ tail_at' = at
        /\ free' = SubSeq(free, 1, Len(free) - 1)
        /\ issued' = issued \cup {key}
        /\ scope' \in Scope
    BY DEF InsertReused
  <1>2. Len(free) \in DOMAIN free /\ Len(free) \in Nat \ {0}
    BY Basics DEF InsertReused, TypeOK
  <1>3. f \in Freed /\ f.slot \in Slots /\ f.gen \in Gens /\ f.slot < next_slot
    BY <1>2, Basics DEF Freed, FreeSlots
  <1>4. scope' = scope /\ scope # UNSCOPED
    <2>1. scope # UNSCOPED
      BY <1>3, ArenaAssumption DEF IssuedKeys, Slots
    <2> QED BY <1>1, <2>1 DEF Scope
  <1>5. e \in Entry /\ key \in Keys
    BY <1>3, <1>4 DEF Entry, Keys, TypeOK
  <1>6. /\ Len(entries') = at /\ at \in Nat
        /\ DOMAIN entries' = DOMAIN entries \cup {at}
        /\ entries'[at] = e
        /\ \A i \in DOMAIN entries : entries'[i] = entries[i] /\ i # at /\ i < at
        /\ entries' \in Seq(Entry)
    BY <1>1, <1>5, Basics DEF TypeOK
  <1>7. /\ \A i \in DOMAIN free' : i \in DOMAIN free /\ free'[i] = free[i] /\ i # Len(free)
        /\ free' \in Seq(Freed)
    BY <1>1, <1>2, Basics DEF TypeOK
  <1>8. /\ DOMAIN scattered' = DOMAIN ScatterTail \cup {f.slot}
        /\ \A s \in DOMAIN scattered' :
                scattered'[s] = IF s = f.slot THEN at ELSE ScatterTail[s]
    BY <1>1 DEF Inserted
  <1>9. \A i \in DOMAIN entries : entries[i].slot # f.slot
    BY <1>2 DEF FreeSlots
  <1>10. DOMAIN scattered' = {entries'[i].slot : i \in DOMAIN entries'}
    BY <1>6, <1>8, ScatterFinds
  <1>11. \A i \in DOMAIN entries' : scattered'[entries'[i].slot] = i
    BY <1>6, <1>8, <1>9, ScatterFinds
  <1>12. \A i \in DOMAIN entries' : entries'[i].slot < next_slot
    BY <1>3, <1>6, SlotsHandedOut
  <1>13. TypeOK'
    <2>1. DOMAIN scattered' \subseteq Slots /\ \A s \in DOMAIN scattered' : scattered'[s] \in Nat
      <3>1. \A i \in DOMAIN entries' : i \in Nat /\ entries'[i].slot \in Slots
        BY <1>6, Basics DEF TypeOK, Entry
      <3> QED BY <1>10, <1>11, <3>1
    <2>2. ordered' \in BOOLEAN
      BY <1>1 DEF StillOrdered, TypeOK
    <2> QED BY <1>1, <1>4, <1>5, <1>6, <1>7, <2>1, <2>2 DEF TypeOK
  <1>14. Layout'
    BY <1>1, <1>6, <1>10, <1>11, <1>12, <1>13, AllScattered
  <1>15. FreeSlots'
    BY <1>1, <1>2, <1>6, <1>7 DEF FreeSlots
  <1>16. IssuedKeys'
    <2>1. ASSUME NEW k \in issued'
          PROVE  /\ k.scope = scope'
                 /\ k.slot < next_slot'
                 /\ \A i \in DOMAIN free' : free'[i].slot = k.slot => k.gen < free'[i].gen
                 /\ \A j \in DOMAIN entries' : entries'[j].slot = k.slot => k.gen <= entries'[j].gen
      <3>1. CASE k \in issued
        <4>1. \A j \in DOMAIN entries' : entries'[j].slot = k.slot => k.gen <= entries'[j].gen
          <5>1. k.slot = f.slot => k.gen < f.gen
            BY <1>2, <3>1 DEF IssuedKeys
          <5>2. k.gen \in Nat /\ f.gen \in Nat
            BY <1>3, <3>1, ArenaAssumption DEF TypeOK, Keys, Gens
          <5> QED BY <1>6, <3>1, <5>1, <5>2 DEF IssuedKeys
        <4> QED BY <1>1, <1>4, <1>7, <3>1, <4>1 DEF IssuedKeys
      <3>2. CASE k = key
        <4>1. \A i \in DOMAIN free' : free'[i].slot # k.slot
          BY <1>2, <1>7, <3>2 DEF FreeSlots
        <4>2. \A j \in DOMAIN entries' : entries'[j].slot = k.slot => k.gen <= entries'[j].gen
          BY <1>3, <1>6, <1>9, <3>2, ArenaAssumption DEF Gens
        <4> QED BY <1>1, <1>3, <3>2, <4>1, <4>2
      <3> QED BY <1>1, <2>1, <3>1, <3>2
    <2> QED BY <1>4, <2>1 DEF IssuedKeys
  <1>17. OrderClaimHolds'
    <2> SUFFICES ASSUME ordered', NEW i \in DOMAIN entries', NEW j \in DOMAIN entries', i < j
                 PROVE  entries'[i].slot < entries'[j].slot
      BY DEF OrderClaimHolds
    <2>1. ordered /\ (entries = <<>> \/ entries[Len(entries)].slot < f.slot)
      BY <1>1 DEF StillOrdered
    <2>2. i \in DOMAIN entries
      BY <1>6, Basics
    <2>3. CASE j \in DOMAIN entries
      BY <1>6, <2>1, <2>2, <2>3 DEF OrderClaimHolds
    <2>4. CASE j = at
      <3>1. Len(entries) \in DOMAIN entries /\ entries[Len(entries)].slot < f.slot
        BY <2>1, <2>2, Basics
      <3>2. i = Len(entries) \/ entries[i].slot < entries[Len(entries)].slot
        BY <2>1, <2>2, <3>1, Basics DEF OrderClaimHolds
      <3>3. entries[i].slot \in Nat /\ entries[Len(entries)].slot \in Nat /\ f.slot \in Nat
        BY <1>2, <2>2, <3>1, Basics
      <3> QED BY <1>6, <2>2, <2>4, <3>1, <3>2, <3>3
    <2> QED BY <1>6, <2>3, <2>4
  <1>18. Adds(f.slot, f.gen, v)
    BY <1>6 DEF Adds
  <1>19. key \notin issued
    BY <1>2, <1>3, ArenaAssumption DEF IssuedKeys, Gens
  <1> QED BY <1>1, <1>4, <1>5, <1>13, <1>14, <1>15, <1>16, <1>17, <1>18, <1>19 DEF InsertReused

LEMMA InsertFreshKeeps ==
    ASSUME IInv, NEW v \in Values, InsertFresh(v)
    PROVE  /\ IInv'
           /\ Adds(next_slot, 0, v)
           /\ entries = <<>> \/ scope' = scope
           /\ [slot |-> next_slot, gen |-> 0, scope |-> scope'] \in Keys \ issued
           /\ issued' = issued \cup {[slot |-> next_slot, gen |-> 0, scope |-> scope']}
  <1> DEFINE at == Len(entries) + 1
             e == [slot |-> next_slot, gen |-> 0, value |-> v]
             key == [slot |-> next_slot, gen |-> 0, scope |-> scope']
  <1> USE DEF IInv
  <1>1. /\ entries' = Append(entries, e)
        /\ issued' = issued \cup {key}
        /\ next_slot' = next_slot + 1
        /\ tail' = tail /\ tail_at' = tail_at /\ scattered' = scattered
        /\ ordered' = ordered /\ free' = free /\ free = <<>>
        /\ scope' \in Scope /\ next_slot < MaxSlots
    BY DEF InsertFresh, HasRoom
  <1>2. next_slot \in Slots /\ next_slot + 1 \in Slots /\ 0 \in Gens
    BY <1>1, Basics, ArenaAssumption DEF Slots, Gens
  <1>3. scope' \in Scopes
    BY <1>1 DEF Scope, TypeOK
  <1>4. e \in Entry /\ key \in Keys
    BY <1>2, <1>3 DEF Entry, Keys
  <1>5. /\ Len(entries') = at /\ at \in Nat
        /\ DOMAIN entries' = DOMAIN entries \cup {at}
        /\ entries'[at] = e
        /\ \A i \in DOMAIN entries : entries'[i] = entries[i] /\ i < at
        /\ entries' \in Seq(Entry)
    BY <1>1, <1>4, Basics DEF TypeOK
  <1>6. DOMAIN free' = {}
    BY <1>1
  <1>7. \A k \in issued : scope' = scope
    <2> SUFFICES ASSUME NEW k \in issued
                 PROVE  scope' = scope
      OBVIOUS
    <2>1. k.slot < next_slot /\ k.slot \in Nat
      BY ArenaAssumption DEF IssuedKeys, TypeOK, Keys, Slots
    <2>2. scope # UNSCOPED
      BY <2>1, Basics DEF IssuedKeys
    <2> QED BY <1>1, <2>2 DEF Scope
  <1>8. TypeOK'
    BY <1>1, <1>2, <1>3, <1>4, <1>5 DEF TypeOK
  <1>9. Layout'
    <2>1. next_slot' + tail_at' = tail' + Len(entries') /\ tail_at' <= Len(entries')
      BY <1>1, <1>5, Basics DEF Layout
    <2>2. ASSUME NEW i \in (tail_at' + 1)..Len(entries')
          PROVE  entries'[i].slot + tail_at' + 1 = tail' + i
      <3>1. CASE i = at
        BY <1>1, <1>5, <3>1, Basics DEF Layout
      <3>2. CASE i # at
        <4>1. i \in DOMAIN entries /\ i > tail_at
          BY <1>1, <1>5, <2>2, <3>2, Basics
        <4> QED BY <1>1, <1>5, <4>1, TailRuns
      <3> QED BY <3>1, <3>2
    <2>3. 1..tail_at \subseteq DOMAIN entries
      BY Basics DEF Layout
    <2>4. \A i \in 1..tail_at' : /\ entries'[i].slot < tail'
                                 /\ entries'[i].slot \in DOMAIN scattered'
                                 /\ scattered'[entries'[i].slot] = i
      BY <1>1, <1>5, <2>3 DEF Layout
    <2>5. \A s \in DOMAIN scattered' : /\ scattered'[s] \in 1..tail_at'
                                       /\ entries'[scattered'[s]].slot = s
      BY <1>1, <1>5, <2>3 DEF Layout
    <2> QED BY <2>1, <2>2, <2>4, <2>5 DEF Layout
  <1>10. FreeSlots'
    BY <1>6 DEF FreeSlots
  <1>11. IssuedKeys'
    <2>1. ASSUME NEW k \in issued'
          PROVE  /\ k.scope = scope'
                 /\ k.slot < next_slot'
                 /\ \A j \in DOMAIN entries' : entries'[j].slot = k.slot => k.gen <= entries'[j].gen
      <3>1. CASE k \in issued
        <4>1. k.slot < next_slot /\ k.scope = scope /\ k.slot \in Nat
          BY <3>1, ArenaAssumption DEF IssuedKeys, TypeOK, Keys, Slots
        <4> QED BY <1>1, <1>5, <1>7, <3>1, <4>1, Basics DEF IssuedKeys
      <3>2. CASE k = key
        <4>1. \A j \in DOMAIN entries : entries[j].slot # k.slot
          BY <3>2, SlotsHandedOut, Basics
        <4> QED BY <1>1, <1>5, <3>2, <4>1, Basics
      <3> QED BY <1>1, <2>1, <3>1, <3>2
    <2>2. scope' # UNSCOPED
      BY <1>3, ArenaAssumption
    <2> QED BY <1>6, <2>1, <2>2 DEF IssuedKeys
  <1>12. OrderClaimHolds'
    <2> SUFFICES ASSUME ordered', NEW i \in DOMAIN entries', NEW j \in DOMAIN entries', i < j
                 PROVE  entries'[i].slot < entries'[j].slot
      BY DEF OrderClaimHolds
    <2>1. i \in DOMAIN entries
      BY <1>5, Basics
    <2>2. CASE j \in DOMAIN entries
      BY <1>1, <1>5, <2>1, <2>2 DEF OrderClaimHolds
    <2>3. CASE j = at
      BY <1>5, <2>1, <2>3, SlotsHandedOut
    <2> QED BY <1>5, <2>2, <2>3
  <1>13. Adds(next_slot, 0, v)
    BY <1>5 DEF Adds
  <1>14. entries = <<>> \/ scope' = scope
    <2>1. CASE scope = UNSCOPED
      <3>1. next_slot = 0
        BY <2>1 DEF IssuedKeys
      <3>2. \A i \in DOMAIN entries : FALSE
        <4>1. \A i \in DOMAIN entries : entries[i].slot < 0 /\ entries[i].slot \in Nat
          BY <3>1, SlotsHandedOut, Basics
        <4> QED BY <4>1
      <3> QED BY <3>2, Basics, EmptySeq DEF TypeOK
    <2>2. CASE scope # UNSCOPED
      BY <1>1, <2>2 DEF Scope
    <2> QED BY <2>1, <2>2
  <1>15. key \notin issued
    BY Basics DEF IssuedKeys
  <1> QED BY <1>1, <1>4, <1>8, <1>9, <1>10, <1>11, <1>12, <1>13, <1>14, <1>15

LEMMA SetValueKeeps ==
    ASSUME IInv, NEW key \in Keys, NEW v \in Values, SetValue(key, v)
    PROVE  IInv' /\ KeepsKeys /\ UNCHANGED <<scope, issued>>
  <1> DEFINE at == Position(key.slot)
  <1> USE DEF IInv
  <1>1. /\ entries' = [entries EXCEPT ![at].value = v]
        /\ at \in DOMAIN entries
        /\ UNCHANGED <<tail, tail_at, scattered, ordered, free, next_slot, scope, issued>>
    BY DEF SetValue, Live
  <1> HIDE DEF at
  <1>2. /\ DOMAIN entries' = DOMAIN entries /\ Len(entries') = Len(entries)
        /\ entries' \in Seq(Entry)
        /\ \A i \in DOMAIN entries : /\ entries'[i].slot = entries[i].slot
                                     /\ entries'[i].gen = entries[i].gen
    <2>1. \A i \in DOMAIN entries :
            entries'[i] = IF i = at THEN [entries[at] EXCEPT !.value = v] ELSE entries[i]
      BY <1>1
    <2>2. \A i \in DOMAIN entries :
            /\ entries'[i] \in Entry
            /\ entries'[i].slot = entries[i].slot
            /\ entries'[i].gen = entries[i].gen
      BY <1>1, <2>1, Basics DEF Entry
    <2>3. entries' \in Seq(Entry) /\ Len(entries') = Len(entries)
      <3>1. [entries[at] EXCEPT !.value = v] \in Entry
        BY <1>1, Basics DEF Entry
      <3>2. entries' = [entries EXCEPT ![at] = [entries[at] EXCEPT !.value = v]]
        BY <1>1
      <3> QED BY <1>1, <3>1, <3>2, ExceptSeq, Basics DEF TypeOK
    <2>4. DOMAIN entries' = DOMAIN entries
      BY <1>1
    <2> QED BY <2>2, <2>3, <2>4
  <1>3. TypeOK'
    BY <1>1, <1>2 DEF TypeOK
  <1>4. Layout'
    <2>1. 1..tail_at \subseteq DOMAIN entries /\ (tail_at + 1)..Len(entries) \subseteq DOMAIN entries
      BY Basics DEF Layout
    <2> QED BY <1>1, <1>2, <2>1 DEF Layout
  <1>5. KeepsKeys
    BY <1>2 DEF KeepsKeys, SameKey
  <1> QED BY <1>1, <1>2, <1>3, <1>4, <1>5 DEF FreeSlots, IssuedKeys, OrderClaimHolds

LEMMA FunctionIsSeq ==
    ASSUME NEW S, NEW n \in Nat, NEW g \in [1..n -> S]
    PROVE  g \in Seq(S) /\ Len(g) = n
  OBVIOUS

LEMMA RemoveKeeps ==
    ASSUME IInv, NEW key \in Keys, Remove(key)
    PROVE  IInv' /\ AddsNothing /\ UNCHANGED <<scope, issued>>
  <1> DEFINE n == Len(entries)
             at == ScatterTail[key.slot]
             kept == Restrict(ScatterTail, DOMAIN ScatterTail \ {key.slot})
             moved == at < n
             next == Bumped(entries[at].gen)
             freed == [slot |-> key.slot, gen |-> next]
  <1> USE DEF IInv
  <1>1. /\ Live(key)
        /\ entries' = SwapRemove(at)
        /\ scattered' = IF moved THEN Inserted(kept, entries[n].slot, at) ELSE kept
        /\ ordered' = (ordered /\ ~moved)
        /\ free' = IF next # MaxGen THEN Append(free, freed) ELSE free
        /\ tail' = next_slot /\ tail_at' = n - 1
        /\ next_slot' = next_slot /\ scope' = scope /\ issued' = issued
    BY DEF Remove
  <1>2. /\ at \in DOMAIN entries /\ entries[at].slot = key.slot
        /\ n \in DOMAIN entries /\ n \in Nat \ {0} /\ at \in 1..n
    BY <1>1, ScatterFinds, Basics, SMTT(30) DEF Live
  <1>3. entries' = [i \in 1..(n - 1) |-> IF i = at THEN entries[n] ELSE entries[i]]
    BY <1>1 DEF SwapRemove
  <1> HIDE DEF at
  <1>4. /\ DOMAIN entries' = 1..(n - 1) /\ Len(entries') = n - 1
        /\ entries' \in Seq(Entry)
        /\ \A i \in DOMAIN entries' : /\ i \in DOMAIN entries
                                      /\ entries'[i] = IF i = at THEN entries[n] ELSE entries[i]
    <2>1. entries' \in [1..(n - 1) -> Entry]
      BY <1>2, <1>3, Basics
    <2>2. n - 1 \in Nat
      BY <1>2
    <2>3. entries' \in Seq(Entry) /\ Len(entries') = n - 1
      BY <2>1, <2>2, FunctionIsSeq
    <2> QED BY <1>2, <1>3, <2>3, Basics
  <1>5. \A i \in DOMAIN entries' : \E j \in DOMAIN entries \ {at} : entries'[i] = entries[j]
    BY <1>2, <1>4, Basics
  <1>6. \A j \in DOMAIN entries \ {at} : \E i \in DOMAIN entries' : entries'[i] = entries[j]
    <2> SUFFICES ASSUME NEW j \in DOMAIN entries \ {at}
                 PROVE  \E i \in DOMAIN entries' : entries'[i] = entries[j]
      OBVIOUS
    <2>1. CASE j = n
      BY <1>2, <1>4, <2>1, Basics
    <2>2. CASE j # n
      BY <1>2, <1>4, <2>2, Basics
    <2> QED BY <2>1, <2>2
  <1>7. /\ DOMAIN kept = {entries[j].slot : j \in DOMAIN entries \ {at}}
        /\ \A s \in DOMAIN kept : kept[s] = ScatterTail[s]
    <2>1. DOMAIN kept = DOMAIN ScatterTail \ {key.slot}
      BY DEF Restrict
    <2>2. \A j \in DOMAIN entries : entries[j].slot = key.slot => j = at
      BY <1>2, UniqueSlots
    <2> QED BY <1>2, <2>1, <2>2, ScatterFinds DEF Restrict
  <1>8. /\ DOMAIN scattered' = DOMAIN kept
        /\ \A s \in DOMAIN kept :
                scattered'[s] = IF s = entries[n].slot /\ moved THEN at ELSE kept[s]
    <2>1. moved => entries[n].slot \in DOMAIN kept
      BY <1>2, <1>7
    <2> HIDE DEF kept
    <2> QED BY <1>1, <2>1 DEF Inserted
  <1> HIDE DEF kept
  <1>9. DOMAIN scattered' = {entries'[i].slot : i \in DOMAIN entries'}
    BY <1>5, <1>6, <1>7, <1>8
  <1>10. ASSUME NEW i \in DOMAIN entries'
         PROVE  scattered'[entries'[i].slot] = i /\ entries'[i].slot < next_slot
    <2>1. entries'[i].slot \in DOMAIN kept
      BY <1>8, <1>9
    <2>2. CASE i = at
      <3>1. moved /\ entries'[i].slot = entries[n].slot
        BY <1>2, <1>4, <2>2
      <3> QED BY <1>2, <1>8, <2>1, <2>2, <3>1, SlotsHandedOut
    <2>3. CASE i # at
      <3>1. entries'[i].slot = entries[i].slot /\ i \in DOMAIN entries /\ i # n
        BY <1>2, <1>4, <2>3
      <3>2. entries[i].slot # entries[n].slot
        BY <1>2, <3>1, UniqueSlots
      <3> QED BY <1>7, <1>8, <2>1, <3>1, <3>2, ScatterFinds, SlotsHandedOut
    <2> QED BY <2>2, <2>3
  <1>11. /\ key.slot \in Slots /\ entries[at].gen \in Gens /\ next \in Gens
         /\ next # MaxGen => next > entries[at].gen
    <2>1. entries[at].gen \in Gens
      BY <1>2, Basics DEF Entry
    <2> QED BY <2>1, ArenaAssumption DEF Keys, Gens, Bumped
  <1>12. /\ free' \in Seq(Freed)
         /\ \A i \in DOMAIN free' : \/ i \in DOMAIN free /\ free'[i] = free[i]
                                    \/ i = Len(free) + 1 /\ free'[i] = freed /\ next # MaxGen
    <2>1. freed \in Freed
      BY <1>11 DEF Freed
    <2> HIDE DEF freed, next
    <2> QED BY <1>1, <2>1, Basics DEF TypeOK
  <1>13. TypeOK'
    <2>1. DOMAIN scattered' \subseteq Slots
      BY <1>5, <1>9, Basics DEF Entry
    <2>2. \A s \in DOMAIN scattered' : scattered'[s] \in Nat
      BY <1>4, <1>9, <1>10
    <2> QED BY <1>1, <1>2, <1>4, <1>12, <2>1, <2>2 DEF TypeOK
  <1>14. Layout'
    BY <1>1, <1>4, <1>9, <1>10, <1>13, AllScattered
  <1>15. \A i \in DOMAIN free : free[i].slot # key.slot
    BY <1>2 DEF FreeSlots
  <1>16. FreeSlots'
    <2>1. \A i \in DOMAIN free' : free'[i].slot < next_slot'
      BY <1>1, <1>2, <1>12, SlotsHandedOut DEF FreeSlots
    <2>2. \A i, j \in DOMAIN free' : free'[i].slot = free'[j].slot => i = j
      BY <1>12, <1>15 DEF FreeSlots
    <2>3. \A j \in DOMAIN entries' : entries'[j].slot # key.slot
      BY <1>2, <1>5, UniqueSlots
    <2>4. \A i \in DOMAIN free' : \A j \in DOMAIN entries' : free'[i].slot # entries'[j].slot
      BY <1>5, <1>12, <2>3 DEF FreeSlots
    <2> QED BY <2>1, <2>2, <2>4 DEF FreeSlots
  <1>17. IssuedKeys'
    <2>1. ASSUME NEW k \in issued, NEW i \in DOMAIN free', free'[i].slot = k.slot
          PROVE  k.gen < free'[i].gen
      <3>1. CASE i \in DOMAIN free /\ free'[i] = free[i]
        BY <2>1, <3>1 DEF IssuedKeys
      <3>2. CASE free'[i] = freed /\ next # MaxGen
        <4>1. k.gen <= entries[at].gen
          BY <1>2, <2>1, <3>2 DEF IssuedKeys
        <4>2. k.gen \in Nat /\ entries[at].gen \in Nat /\ next \in Nat
          BY <1>11, <2>1, ArenaAssumption DEF TypeOK, Keys, Gens
        <4>3. free'[i].gen = next
          BY <3>2
        <4> HIDE DEF next
        <4> QED BY <1>11, <3>2, <4>1, <4>2, <4>3
      <3> QED BY <1>12, <3>1, <3>2
    <2>2. \A k \in issued : \A j \in DOMAIN entries' :
            entries'[j].slot = k.slot => k.gen <= entries'[j].gen
      BY <1>5 DEF IssuedKeys
    <2> QED BY <1>1, <2>1, <2>2 DEF IssuedKeys
  <1>18. OrderClaimHolds'
    <2>1. ordered' => ordered /\ ~moved
      BY <1>1
    <2>2. ASSUME ~moved
          PROVE  \A i \in DOMAIN entries' : i \in DOMAIN entries /\ entries'[i] = entries[i]
      <3>1. at = n
        BY <1>2, <2>2
      <3>2. \A i \in DOMAIN entries' : i # at
        BY <1>2, <1>4, <3>1
      <3> QED BY <1>4, <3>2
    <2> HIDE DEF moved
    <2> QED BY <2>1, <2>2 DEF OrderClaimHolds
  <1>19. AddsNothing
    BY <1>5 DEF AddsNothing
  <1> QED BY <1>1, <1>13, <1>14, <1>16, <1>17, <1>18, <1>19

(* The facts retain and the sort share: what they keep is kept once, in    *)
(* place or moved, with its slot and generation.                           *)
LEMMA SelectionKeepsKeys ==
    ASSUME IInv, TypeOK', NEW p,
           IsInjective(p), DOMAIN p = DOMAIN entries',
           \A i \in DOMAIN p : /\ p[i] \in DOMAIN entries
                               /\ entries'[i].slot = entries[p[i]].slot
                               /\ entries'[i].gen = entries[p[i]].gen,
           UNCHANGED <<free, next_slot, scope, issued>>
    PROVE  /\ \A i, j \in DOMAIN entries' : entries'[i].slot = entries'[j].slot => i = j
           /\ \A i \in DOMAIN entries' : entries'[i].slot < next_slot'
           /\ FreeSlots' /\ IssuedKeys'
  <1> USE DEF IInv
  <1>1. \A i, j \in DOMAIN entries' : entries'[i].slot = entries'[j].slot => i = j
    BY UniqueSlots DEF IsInjective
  <1>2. \A i \in DOMAIN entries' : entries'[i].slot < next_slot'
    BY SlotsHandedOut
  <1>3. FreeSlots'
    BY DEF FreeSlots
  <1>4. IssuedKeys'
    BY DEF IssuedKeys
  <1> QED BY <1>1, <1>2, <1>3, <1>4

LEMMA RearrangedIs ==
    ASSUME IInv, NEW n \in Nat, NEW p \in [1..n -> DOMAIN entries]
    PROVE  /\ Rearranged(p) \in Seq(Entry) /\ Len(Rearranged(p)) = n
           /\ DOMAIN Rearranged(p) = 1..n
           /\ \A i \in 1..n : Rearranged(p)[i] = entries[p[i]]
  <1>1. Rearranged(p) \in [1..n -> Entry]
    BY Basics DEF Rearranged, IInv
  <1>2. \A i \in 1..n : Rearranged(p)[i] = entries[p[i]]
    BY DEF Rearranged
  <1> HIDE DEF Rearranged
  <1> QED BY <1>1, <1>2, FunctionIsSeq

LEMMA RetainKeeps ==
    ASSUME IInv, NEW keep \in SUBSET Slots, Retain(keep)
    PROVE  IInv' /\ AddsNothing /\ UNCHANGED <<scope, issued>>
  <1> USE DEF IInv
  <1>1. PICK n \in 0..Len(entries) : \E p \in [1..n -> DOMAIN entries] :
            /\ Picks(p, {i \in DOMAIN entries : entries[i].slot \in keep})
            /\ IF ordered THEN ByPosition(p) ELSE BySlot(p)
            /\ entries' = Rearranged(p)
            /\ \E run \in 0..n :
                /\ TailRun(Rearranged(p), run)
                /\ tail' = next_slot - run
                /\ tail_at' = n - run
                /\ scattered' = IndexOf(Rearranged(p), 1, n - run)
    BY Zenon DEF Retain
  <1>2. PICK p \in [1..n -> DOMAIN entries] :
            /\ Picks(p, {i \in DOMAIN entries : entries[i].slot \in keep})
            /\ IF ordered THEN ByPosition(p) ELSE BySlot(p)
            /\ entries' = Rearranged(p)
            /\ \E run \in 0..n :
                /\ TailRun(Rearranged(p), run)
                /\ tail' = next_slot - run
                /\ tail_at' = n - run
                /\ scattered' = IndexOf(Rearranged(p), 1, n - run)
    BY <1>1, Zenon
  <1>3. PICK run \in 0..n : /\ TailRun(entries', run)
                            /\ tail' = next_slot - run
                            /\ tail_at' = n - run
                            /\ scattered' = IndexOf(entries', 1, n - run)
    BY <1>2
  <1>4. ordered' = TRUE /\ UNCHANGED <<free, next_slot, scope, issued>>
    BY DEF Retain
  <1>5. n \in Nat /\ run \in Nat /\ run <= n /\ n - run \in Nat /\ next_slot \in Nat
    BY <1>1, <1>3, Basics
  <1>a. tail' = next_slot - run /\ tail_at' = n - run /\ next_slot' = next_slot
    BY <1>3, <1>4
  <1>6. /\ entries' \in Seq(Entry) /\ Len(entries') = n /\ DOMAIN entries' = 1..n
        /\ \A i \in 1..n : entries'[i] = entries[p[i]] /\ p[i] \in DOMAIN entries
    BY <1>2, <1>5, RearrangedIs
  <1>b. Len(entries') = n /\ DOMAIN entries' = 1..n
    BY <1>6
  <1>7. IsInjective(p) /\ DOMAIN p = 1..n
    BY <1>2 DEF Picks
  <1>8. \A i, j \in 1..n : i < j => entries'[i].slot < entries'[j].slot
    <2>1. CASE ordered
      <3>1. ByPosition(p)
        BY <1>2, <2>1
      <3>2. \A i, j \in DOMAIN entries : i < j => entries[i].slot < entries[j].slot
        BY <2>1 DEF OrderClaimHolds
      <3> QED BY <1>6, <1>7, <3>1, <3>2 DEF ByPosition
    <2>2. CASE ~ordered
      <3>1. BySlot(p)
        BY <1>2, <2>2
      <3> QED BY <1>6, <1>7, <3>1 DEF BySlot
    <2> QED BY <2>1, <2>2
  <1>9. \A i \in 1..n : /\ entries'[i].slot \in Nat /\ entries'[i].slot < next_slot
                        /\ entries'[i].slot \in Slots
    BY <1>6, SlotsHandedOut, Basics DEF Entry
  <1>10. \A i, j \in 1..n : entries'[i].slot = entries'[j].slot => i = j
    BY <1>6, <1>7, UniqueSlots DEF IsInjective
  <1>11. \A k \in 1..run : n + 1 - k \in 1..n /\ entries'[n + 1 - k].slot + k = next_slot
    BY <1>3, <1>5, <1>6 DEF TailRun
  <1>12. tail' \in Nat /\ tail' <= next_slot
    <2>1. CASE run = 0
      BY <1>a, <1>5, <2>1
    <2>2. CASE run # 0
      <3>1. run \in 1..run
        BY <1>5, <2>2
      <3>2. entries'[n + 1 - run].slot + run = next_slot /\ entries'[n + 1 - run].slot \in Nat
        BY <3>1, <1>9, <1>11
      <3> QED BY <1>a, <1>5, <3>2
    <2> QED BY <2>1, <2>2
  <1>13. /\ DOMAIN scattered' = {entries'[i].slot : i \in 1..(n - run)}
         /\ \A i \in 1..(n - run) : scattered'[entries'[i].slot] = i
    <2>1. 1..(n - run) \subseteq 1..n
      BY <1>5
    <2>2. \A i, j \in 1..(n - run) : entries'[i].slot = entries'[j].slot => i = j
      BY <1>10, <2>1
    <2> DEFINE m == n - run
               es == entries'
    <2>3. scattered' = IndexOf(es, 1, m) /\ m \in Nat /\ 1 \in Nat
      BY <1>3, <1>5
    <2>4. \A i, j \in 1..m : es[i].slot = es[j].slot => i = j
      BY <2>2
    <2> HIDE DEF m, es
    <2>5. /\ DOMAIN IndexOf(es, 1, m) = {es[i].slot : i \in 1..m}
          /\ \A i \in 1..m : IndexOf(es, 1, m)[es[i].slot] = i
      BY <2>3, <2>4, IndexFinds
    <2> QED BY <2>3, <2>5 DEF m, es
  <1>14. TypeOK'
    <2>1. tail' \in Slots
      BY <1>12, Basics, ArenaAssumption DEF TypeOK, Slots
    <2>2. DOMAIN scattered' \subseteq Slots /\ \A s \in DOMAIN scattered' : scattered'[s] \in Nat
      BY <1>5, <1>9, <1>13
    <2> QED BY <1>3, <1>4, <1>5, <1>6, <2>1, <2>2 DEF TypeOK
  <1>15. Layout'
    <2>1. next_slot' + tail_at' = tail' + Len(entries') /\ tail_at' <= Len(entries')
      BY <1>a, <1>b, <1>5
    <2>2. ASSUME NEW i \in (tail_at' + 1)..Len(entries')
          PROVE  entries'[i].slot + tail_at' + 1 = tail' + i
      <3>1. i \in 1..n /\ n + 1 - i \in 1..run /\ n + 1 - (n + 1 - i) = i
        <4>1. i \in (n - run + 1)..n
          BY <1>a, <1>b, <2>2
        <4> QED BY <1>5, <4>1
      <3>2. entries'[i].slot + (n + 1 - i) = next_slot
        BY <1>11, <3>1
      <3>3. entries'[i].slot \in Nat
        BY <1>9, <3>1
      <3> DEFINE slot == entries'[i].slot
      <3>4. slot \in Nat /\ slot + (n + 1 - i) = next_slot /\ i \in Nat
        BY <3>1, <3>2, <3>3
      <3> HIDE DEF slot
      <3>5. slot + (n - run) + 1 = (next_slot - run) + i
        BY <1>5, <3>4
      <3> QED BY <1>a, <3>5 DEF slot
    <2>3. ASSUME NEW i \in 1..tail_at'
          PROVE  /\ entries'[i].slot < tail'
                 /\ entries'[i].slot \in DOMAIN scattered'
                 /\ scattered'[entries'[i].slot] = i
      <3>1. i \in 1..(n - run) /\ i \in 1..n
        <4>1. i \in 1..(n - run)
          BY <1>a, <2>3
        <4> QED BY <1>5, <4>1
      <3>2. CASE run = 0
        <4>1. tail' = next_slot
          BY <1>a, <1>5, <3>2
        <4> QED BY <1>9, <1>13, <3>1, <4>1
      <3>3. CASE run # 0
        <4>1. n + 1 - run \in 1..n /\ entries'[n + 1 - run].slot + run = next_slot
          <5>1. run \in 1..run /\ n + 1 - run \in 1..n
            BY <1>5, <3>3
          <5> QED BY <1>11, <5>1
        <4>2. entries'[i].slot < entries'[n + 1 - run].slot
          BY <1>5, <1>8, <3>1, <4>1
        <4>3. entries'[n + 1 - run].slot \in Nat /\ entries'[i].slot \in Nat
          BY <1>9, <3>1, <4>1
        <4>4. entries'[i].slot < tail'
          <5> DEFINE b == entries'[n + 1 - run].slot
          <5>1. b + run = next_slot /\ b \in Nat
            BY <4>1, <4>3
          <5>2. run \in Nat /\ next_slot \in Nat /\ tail' = next_slot - run
            BY <1>a, <1>5
          <5> HIDE DEF b
          <5>3. tail' = b
            BY <5>1, <5>2
          <5> QED BY <4>2, <5>3 DEF b
        <4> QED BY <1>13, <3>1, <4>4
      <3> QED BY <3>2, <3>3
    <2>4. \A s \in DOMAIN scattered' : /\ scattered'[s] \in 1..tail_at'
                                       /\ entries'[scattered'[s]].slot = s
      BY <1>a, <1>13
    <2> QED BY <2>1, <2>2, <2>3, <2>4 DEF Layout
  <1>16. FreeSlots' /\ IssuedKeys'
    BY <1>4, <1>6, <1>7, <1>14, SelectionKeepsKeys
  <1>17. OrderClaimHolds'
    BY <1>6, <1>8 DEF OrderClaimHolds
  <1>18. AddsNothing
    BY <1>6 DEF AddsNothing
  <1> QED BY <1>4, <1>14, <1>15, <1>16, <1>17, <1>18

LEMMA IterMutKeeps ==
    ASSUME IInv, NEW v \in Values, IterMut(v)
    PROVE  IInv' /\ KeepsKeys /\ UNCHANGED <<scope, issued>>
  <1> DEFINE n == Len(entries)
  <1> USE DEF IInv
  <1>1. UNCHANGED <<free, next_slot, scope, issued>>
    BY DEF IterMut
  <1>2. DOMAIN entries = 1..n /\ n \in Nat
    BY Basics
  <1>3. CASE ordered
    <2>1. /\ entries' = [i \in 1..n |-> [entries[i] EXCEPT !.value = v]]
          /\ UNCHANGED <<tail, tail_at, scattered, ordered>>
      BY <1>2, <1>3 DEF IterMut
    <2>2. \A i \in 1..n : /\ entries'[i] \in Entry
                          /\ entries'[i].slot = entries[i].slot
                          /\ entries'[i].gen = entries[i].gen
      BY <1>2, <2>1, Basics DEF Entry
    <2>3. entries' \in [1..n -> Entry]
      BY <2>1, <2>2
    <2>4. entries' \in Seq(Entry) /\ Len(entries') = n /\ DOMAIN entries' = 1..n
      BY <1>2, <2>3, FunctionIsSeq
    <2>5. TypeOK'
      BY <1>1, <2>1, <2>4 DEF TypeOK
    <2>6. Layout'
      <3>1. 1..tail_at \subseteq 1..n /\ (tail_at + 1)..n \subseteq 1..n
        BY Basics DEF Layout
      <3> QED BY <1>1, <2>1, <2>2, <2>4, <3>1 DEF Layout
    <2>7. KeepsKeys
      BY <1>2, <2>2, <2>4 DEF KeepsKeys, SameKey
    <2> QED BY <1>1, <1>2, <2>1, <2>2, <2>4, <2>5, <2>6, <2>7
            DEF FreeSlots, IssuedKeys, OrderClaimHolds
  <1>4. CASE ~ordered
    <2>1. PICK p \in [1..n -> 1..n] :
            /\ Picks(p, 1..n)
            /\ BySlot(p)
            /\ entries' = [i \in DOMAIN p |-> [entries[p[i]] EXCEPT !.value = v]]
            /\ scattered' = Over(IndexOf(Rearranged(p), 1, n), ScatterTail)
      BY <1>2, <1>4 DEF IterMut
    <2>2. tail' = next_slot /\ tail_at' = n /\ ordered' = TRUE
      BY <1>4 DEF IterMut
    <2>3. /\ DOMAIN p = 1..n /\ IsInjective(p)
          /\ \A i \in 1..n : p[i] \in 1..n
          /\ \A j \in 1..n : \E i \in 1..n : p[i] = j
      BY <2>1 DEF Picks
    <2>4. \A i \in 1..n : /\ entries'[i] \in Entry
                          /\ entries'[i].slot = entries[p[i]].slot
                          /\ entries'[i].gen = entries[p[i]].gen
      <3> SUFFICES ASSUME NEW i \in 1..n
                   PROVE  /\ entries'[i] \in Entry
                          /\ entries'[i].slot = entries[p[i]].slot
                          /\ entries'[i].gen = entries[p[i]].gen
        OBVIOUS
      <3>1. p[i] \in DOMAIN entries
        BY <1>2, <2>3
      <3>2. entries[p[i]] \in Entry
        BY <3>1, Basics
      <3>3. entries'[i] = [entries[p[i]] EXCEPT !.value = v]
        BY <2>1, <2>3
      <3> QED BY <3>2, <3>3 DEF Entry
    <2>5. /\ entries' \in Seq(Entry) /\ Len(entries') = n /\ DOMAIN entries' = 1..n
      <3>1. entries' \in [1..n -> Entry]
        BY <2>1, <2>3, <2>4
      <3> QED BY <1>2, <3>1, FunctionIsSeq
    <2>6. \A i, j \in 1..n : entries[p[i]].slot = entries[p[j]].slot => i = j
      <3> SUFFICES ASSUME NEW i \in 1..n, NEW j \in 1..n, entries[p[i]].slot = entries[p[j]].slot
                   PROVE  i = j
        OBVIOUS
      <3>1. p[i] \in DOMAIN entries /\ p[j] \in DOMAIN entries
        BY <1>2, <2>3
      <3>2. p[i] = p[j]
        BY <3>1, UniqueSlots
      <3> QED BY <2>3, <3>2 DEF IsInjective
    <2> DEFINE es == Rearranged(p)
    <2>7. \A i \in 1..n : es[i] = entries[p[i]]
      BY <2>3 DEF Rearranged
    <2> HIDE DEF es
    <2>8. /\ DOMAIN IndexOf(es, 1, n) = {es[i].slot : i \in 1..n}
          /\ \A i \in 1..n : IndexOf(es, 1, n)[es[i].slot] = i
      <3>1. \A i, j \in 1..n : es[i].slot = es[j].slot => i = j
        BY <2>6, <2>7
      <3> QED BY <1>2, <3>1, IndexFinds
    <2>9. {es[i].slot : i \in 1..n} = {entries[i].slot : i \in 1..n}
      <3>1. \A i \in 1..n : es[i].slot \in {entries[j].slot : j \in 1..n}
        BY <2>3, <2>7
      <3>2. \A j \in 1..n : entries[j].slot \in {es[i].slot : i \in 1..n}
        <4> SUFFICES ASSUME NEW j \in 1..n
                     PROVE  \E i \in 1..n : es[i].slot = entries[j].slot
          OBVIOUS
        <4>1. PICK i \in 1..n : p[i] = j
          BY <2>3
        <4> QED BY <2>7, <4>1
      <3> QED BY <3>1, <3>2
    <2>10. {entries'[i].slot : i \in 1..n} = {es[i].slot : i \in 1..n}
      BY <2>4, <2>7
    <2>11. /\ DOMAIN scattered' = {entries'[i].slot : i \in 1..n}
           /\ \A i \in 1..n : scattered'[entries'[i].slot] = i
      <3>1. DOMAIN ScatterTail = {entries[i].slot : i \in 1..n}
        BY <1>2, ScatterFinds
      <3>2. scattered' = Over(IndexOf(es, 1, n), ScatterTail)
        BY <2>1 DEF es
      <3>3. DOMAIN scattered' = {es[i].slot : i \in 1..n}
        BY <2>8, <2>9, <3>1, <3>2 DEF Over
      <3>4. \A s \in {es[i].slot : i \in 1..n} : scattered'[s] = IndexOf(es, 1, n)[s]
        BY <2>8, <3>2, <3>3 DEF Over
      <3>5. \A i \in 1..n : scattered'[es[i].slot] = i
        BY <2>8, <3>4
      <3> QED BY <2>4, <2>7, <2>10, <3>3, <3>5
    <2>12. TypeOK'
      <3>1. DOMAIN scattered' \subseteq Slots
        BY <2>4, <2>11 DEF Entry
      <3>2. \A s \in DOMAIN scattered' : scattered'[s] \in Nat
        BY <2>11
      <3> QED BY <1>1, <1>2, <2>2, <2>5, <3>1, <3>2 DEF TypeOK
    <2>13. /\ \A i \in DOMAIN entries' : entries'[i].slot < next_slot'
           /\ FreeSlots' /\ IssuedKeys'
      BY <1>1, <1>2, <2>3, <2>4, <2>5, <2>12, SelectionKeepsKeys
    <2>14. Layout'
      BY <1>1, <2>2, <2>5, <2>11, <2>12, <2>13, AllScattered
    <2>15. OrderClaimHolds'
      <3>1. \A i, j \in 1..n : i < j => entries[p[i]].slot < entries[p[j]].slot
        BY <2>1, <2>3 DEF BySlot
      <3>2. \A i, j \in 1..n : i < j => entries'[i].slot < entries'[j].slot
        BY <2>4, <3>1
      <3> QED BY <2>5, <3>2 DEF OrderClaimHolds
    <2>16. KeepsKeys
      <3>1. \A j \in DOMAIN entries' : SameKey(entries'[j], entries[p[j]]) /\ p[j] \in DOMAIN entries
        BY <1>2, <2>3, <2>4, <2>5 DEF SameKey
      <3>2. ASSUME NEW i \in DOMAIN entries
            PROVE  \E j \in DOMAIN entries' : SameKey(entries'[j], entries[i])
        <4>1. PICK j \in 1..n : p[j] = i
          BY <1>2, <2>3
        <4> QED BY <2>5, <3>1, <4>1
      <3> QED BY <3>1, <3>2 DEF KeepsKeys
    <2> QED BY <1>1, <2>12, <2>13, <2>14, <2>15, <2>16
  <1> QED BY <1>3, <1>4

-----------------------------------------------------------------------------
(* The theorems.                                                           *)

LEMMA InitEstablishes == Init => IInv
  <1> SUFFICES ASSUME Init PROVE IInv
    OBVIOUS
  <1>1. /\ entries = <<>> /\ DOMAIN entries = {} /\ Len(entries) = 0 /\ entries \in Seq(Entry)
        /\ free = <<>> /\ DOMAIN free = {} /\ free \in Seq(Freed)
        /\ DOMAIN scattered = {} /\ ordered = TRUE
        /\ tail = 0 /\ tail_at = 0 /\ next_slot = 0 /\ scope = UNSCOPED /\ issued = {}
    BY DEF Init
  <1>2. 0 \in Slots
    BY ArenaAssumption DEF Slots
  <1>3. TypeOK
    BY <1>1, <1>2 DEF TypeOK
  <1>4. Layout
    BY <1>1 DEF Layout
  <1> QED BY <1>1, <1>3, <1>4 DEF IInv, FreeSlots, IssuedKeys, OrderClaimHolds

LEMMA StutterKeeps == IInv /\ UNCHANGED vars => IInv'
  BY DEF IInv, vars, layout, TypeOK, Layout, FreeSlots, IssuedKeys, OrderClaimHolds

(* Every operation keeps the whole invariant.                              *)
THEOREM Inductive == IInv /\ [Next]_vars => IInv'
  <1> SUFFICES ASSUME IInv, [Next]_vars PROVE IInv'
    OBVIOUS
  <1>1. ASSUME NEW v \in Values, InsertReused(v) PROVE IInv'
    BY <1>1, InsertReusedKeeps
  <1>2. ASSUME NEW v \in Values, InsertFresh(v) PROVE IInv'
    BY <1>2, InsertFreshKeeps
  <1>3. ASSUME NEW v \in Values, IterMut(v) PROVE IInv'
    BY <1>3, IterMutKeeps
  <1>4. ASSUME NEW key \in Keys, Remove(key) PROVE IInv'
    BY <1>4, RemoveKeeps
  <1>5. ASSUME NEW key \in Keys, NEW v \in Values, SetValue(key, v) PROVE IInv'
    BY <1>5, SetValueKeeps
  <1>6. ASSUME NEW keep \in SUBSET Slots, Retain(keep) PROVE IInv'
    BY <1>6, RetainKeeps
  <1>7. CASE UNCHANGED vars
    BY <1>7, StutterKeeps
  <1> QED BY <1>1, <1>2, <1>3, <1>4, <1>5, <1>6, <1>7 DEF Next

(* The state of an arena is well formed whatever was done to it.           *)
THEOREM TypeCorrect == Spec => []TypeOK
  <1>1. IInv => TypeOK
    BY DEF IInv
  <1> QED BY InitEstablishes, Inductive, <1>1, PTL DEF Spec

(* An arena that claims its entries run in slot order tells the truth, so   *)
(* the iterators that skip the sort visit them in that order.               *)
THEOREM OrderClaimIsTrue == Spec => []OrderClaimHolds
  <1>1. IInv => OrderClaimHolds
    BY DEF IInv
  <1> QED BY InitEstablishes, Inductive, <1>1, PTL DEF Spec

(* Each live value is found at its own position through its own slot, and   *)
(* the map holds the scattered slots and no others.                        *)
THEOREM LayoutFinds == Spec => []LayoutFindsEveryEntry
  <1>1. IInv => LayoutFindsEveryEntry
    <2> SUFFICES ASSUME IInv PROVE LayoutFindsEveryEntry
      OBVIOUS
    <2>1. \A i \in DOMAIN entries : Position(entries[i].slot) = i
      BY PositionFinds DEF IInv
    <2>2. DOMAIN scattered = {entries[i].slot : i \in 1..tail_at}
      BY DEF IInv, Layout
    <2>3. next_slot - tail = Len(entries) - tail_at
      <3>1. next_slot \in Nat /\ tail \in Nat /\ tail_at \in Nat /\ Len(entries) \in Nat
        BY Basics DEF IInv
      <3>2. next_slot + tail_at = tail + Len(entries)
        BY DEF IInv, Layout
      <3> QED BY <3>1, <3>2
    <2> QED BY <2>1, <2>2, <2>3 DEF LayoutFindsEveryEntry
  <1> QED BY InitEstablishes, Inductive, <1>1, PTL DEF Spec

(* A waiting slot takes a generation above every one it was issued at, so  *)
(* no two inserts return the same key.                                     *)
THEOREM GenerationsAlwaysMoveForward == Spec => []GenerationsMoveForward
  <1>1. IInv => GenerationsMoveForward
    BY DEF IInv, FreeSlots, IssuedKeys, GenerationsMoveForward
  <1> QED BY InitEstablishes, Inductive, <1>1, PTL DEF Spec

-----------------------------------------------------------------------------
(* The refinement.                                                         *)

Matches(key, i) ==
    key.scope = scope /\ entries[i].slot = key.slot /\ entries[i].gen = key.gen

(* A lookup answers with the value stored under the key, and with nothing  *)
(* when there is none.                                                     *)
LookupIs ==
    \A key \in Keys :
        /\ \A i \in DOMAIN entries : Matches(key, i) => Get(key) = entries[i].value
        /\ (\A i \in DOMAIN entries : ~Matches(key, i)) => Get(key) = Absent
        /\ Get(key) \in Values \cup {Absent}
        /\ Get(key) # Absent => \E i \in DOMAIN entries : Matches(key, i)
        /\ \A i \in DOMAIN entries : entries[i].value \in Values

LEMMA LookupHolds == IInv => LookupIs
  <1> SUFFICES ASSUME IInv, NEW key \in Keys
               PROVE  /\ \A i \in DOMAIN entries : Matches(key, i) => Get(key) = entries[i].value
                      /\ (\A i \in DOMAIN entries : ~Matches(key, i)) => Get(key) = Absent
                      /\ Get(key) \in Values \cup {Absent}
                      /\ Get(key) # Absent => \E i \in DOMAIN entries : Matches(key, i)
                      /\ \A i \in DOMAIN entries : entries[i].value \in Values
    BY DEF LookupIs
  <1>1. \A i \in DOMAIN entries : entries[i].value \in Values
    BY Basics DEF IInv, Entry
  <1>2. Live(key) <=> \E i \in DOMAIN entries : Matches(key, i)
    BY LookupFinds DEF IInv, Matches
  <1>3. \A i \in DOMAIN entries : Matches(key, i) => Get(key) = entries[i].value
    BY LookupFinds DEF IInv, Matches
  <1>4. ~Live(key) => Get(key) = Absent
    BY DEF Get
  <1> QED BY <1>1, <1>2, <1>3, <1>4

LEMMA IssueStep ==
    ASSUME LookupIs, LookupIs', NEW v \in Values, NEW key \in Keys \ issued,
           Adds(key.slot, key.gen, v),
           key.scope = scope',
           entries = <<>> \/ scope' = scope,
           issued' = issued \cup {key}
    PROVE  Table!Issue
  <1> DEFINE answer == [k \in Keys |-> Get(k)]
             rec == [slot |-> key.slot, gen |-> key.gen, value |-> v]
  <1>1. Get(key)' = v
    <2>1. PICK j \in DOMAIN entries' : entries'[j] = rec
      BY DEF Adds
    <2>2. Matches(key, j)'
      BY <2>1 DEF Matches
    <2> QED BY <2>1, <2>2 DEF LookupIs
  <1>2. ASSUME NEW k \in Keys, k # key
        PROVE  Get(k)' = Get(k)
    <2>1. CASE \E i \in DOMAIN entries : Matches(k, i)
      <3>1. PICK i \in DOMAIN entries : Matches(k, i)
        BY <2>1
      <3>2. PICK j \in DOMAIN entries' : entries'[j] = entries[i]
        BY DEF Adds
      <3>3. scope' = scope
        OBVIOUS
      <3>4. Matches(k, j)'
        BY <3>1, <3>2, <3>3 DEF Matches
      <3> QED BY <3>1, <3>2, <3>4 DEF LookupIs
    <2>2. CASE \A i \in DOMAIN entries : ~Matches(k, i)
      <3>1. ASSUME NEW j \in DOMAIN entries', Matches(k, j)'
            PROVE  FALSE
        <4>1. k.scope = scope' /\ entries'[j].slot = k.slot /\ entries'[j].gen = k.gen
          BY <3>1 DEF Matches
        <4>2. CASE entries'[j] = rec
          <5>1. k = key
            BY <4>1, <4>2 DEF Keys
          <5> QED BY <1>2, <5>1
        <4>3. CASE \E i \in DOMAIN entries : entries'[j] = entries[i]
          <5>1. PICK i \in DOMAIN entries : entries'[j] = entries[i]
            BY <4>3
          <5>2. scope' = scope
            BY <5>1
          <5> QED BY <2>2, <4>1, <5>1, <5>2 DEF Matches
        <4> QED BY <4>2, <4>3 DEF Adds
      <3>2. Get(k)' = Absent
        BY <3>1 DEF LookupIs
      <3> QED BY <2>2, <3>2 DEF LookupIs
    <2> QED BY <2>1, <2>2
  <1>3. answer' = [answer EXCEPT ![key] = v]
    BY <1>1, <1>2
  <1> QED BY <1>3 DEF Table!Issue

LEMMA DropStep ==
    ASSUME LookupIs, LookupIs', AddsNothing, UNCHANGED <<scope, issued>>
    PROVE  Table!Drop
  <1> DEFINE answer == [k \in Keys |-> Get(k)]
  <1>1. ASSUME NEW k \in Keys
        PROVE  Get(k)' \in {Get(k), Absent}
    <2>1. CASE \E j \in DOMAIN entries' : Matches(k, j)'
      <3>1. PICK j \in DOMAIN entries' : Matches(k, j)'
        BY <2>1
      <3>2. PICK i \in DOMAIN entries : entries'[j] = entries[i]
        BY DEF AddsNothing
      <3>3. Matches(k, i)
        BY <3>1, <3>2 DEF Matches
      <3> QED BY <3>1, <3>2, <3>3 DEF LookupIs
    <2>2. CASE ~\E j \in DOMAIN entries' : Matches(k, j)'
      BY <2>2 DEF LookupIs
    <2> QED BY <2>1, <2>2
  <1>2. answer' \in [Keys -> Values \cup {Absent}]
    BY DEF LookupIs
  <1> QED BY <1>1, <1>2 DEF Table!Drop

LEMMA ReplaceStep ==
    ASSUME LookupIs, LookupIs', KeepsKeys, UNCHANGED <<scope, issued>>
    PROVE  Table!Replace
  <1> DEFINE answer == [k \in Keys |-> Get(k)]
  <1>1. ASSUME NEW k \in Keys
        PROVE  (\E i \in DOMAIN entries : Matches(k, i))
                    <=> (\E j \in DOMAIN entries' : Matches(k, j)')
    BY DEF KeepsKeys, SameKey, Matches
  <1>2. Absent \notin Values
    BY ArenaAssumption
  <1>3. ASSUME NEW k \in Keys
        PROVE  Get(k)' = Absent <=> Get(k) = Absent
    BY <1>1, <1>2 DEF LookupIs
  <1>4. answer' \in [Keys -> Values \cup {Absent}]
    BY DEF LookupIs
  <1> QED BY <1>3, <1>4 DEF Table!Replace

(* Every operation of the packed arena is an operation of the table of      *)
(* handles, or changes nothing the table shows.                             *)
THEOREM Refinement == Spec => ImplementsHandleTable
  <1>1. Init => Table!Init
    <2> SUFFICES ASSUME Init PROVE Table!Init
      OBVIOUS
    <2>1. LookupIs /\ DOMAIN entries = {}
      BY InitEstablishes, LookupHolds DEF Init
    <2>2. \A k \in Keys : Get(k) = Absent
      BY <2>1 DEF LookupIs
    <2> QED BY <2>2 DEF Table!Init, Init
  <1>2. IInv /\ LookupIs /\ LookupIs' /\ [Next]_vars => [Table!Next]_(Table!vars)
    <2> SUFFICES ASSUME IInv, LookupIs, LookupIs', [Next]_vars
                 PROVE  Table!Next \/ UNCHANGED Table!vars
      OBVIOUS
    <2>1. ASSUME NEW v \in Values, InsertReused(v) PROVE Table!Issue
      <3> DEFINE key == [slot |-> free[Len(free)].slot, gen |-> free[Len(free)].gen, scope |-> scope]
      <3>1. /\ key \in Keys \ issued /\ Adds(key.slot, key.gen, v)
            /\ key.scope = scope' /\ scope' = scope /\ issued' = issued \cup {key}
        BY <2>1, InsertReusedKeeps
      <3> HIDE DEF key
      <3> QED BY <3>1, IssueStep
    <2>2. ASSUME NEW v \in Values, InsertFresh(v) PROVE Table!Issue
      <3> DEFINE key == [slot |-> next_slot, gen |-> 0, scope |-> scope']
      <3>1. /\ key \in Keys \ issued /\ Adds(key.slot, key.gen, v)
            /\ key.scope = scope' /\ (entries = <<>> \/ scope' = scope)
            /\ issued' = issued \cup {key}
        BY <2>2, InsertFreshKeeps
      <3> HIDE DEF key
      <3> QED BY <3>1, IssueStep
    <2>3. ASSUME NEW v \in Values, IterMut(v) PROVE Table!Replace
      BY <2>3, IterMutKeeps, ReplaceStep
    <2>4. ASSUME NEW key \in Keys, Remove(key) PROVE Table!Drop
      BY <2>4, RemoveKeeps, DropStep
    <2>5. ASSUME NEW key \in Keys, NEW v \in Values, SetValue(key, v) PROVE Table!Replace
      BY <2>5, SetValueKeeps, ReplaceStep
    <2>6. ASSUME NEW keep \in SUBSET Slots, Retain(keep) PROVE Table!Drop
      BY <2>6, RetainKeeps, DropStep
    <2>7. CASE UNCHANGED vars
      BY <2>7 DEF vars, layout, Table!vars, Get, Live, Position
    <2> QED BY <2>1, <2>2, <2>3, <2>4, <2>5, <2>6, <2>7 DEF Next, Table!Next
  <1> QED BY <1>1, <1>2, InitEstablishes, Inductive, LookupHolds, PTL
          DEF Spec, Table!Spec, ImplementsHandleTable

(* A key that no longer resolves never resolves again.                     *)
THEOREM StaleForEver == Spec => StaleKeysStayStale
  <1>1. Table!Next \/ UNCHANGED Table!vars
            => \A k \in issued : k \in Keys /\ Get(k) = Absent => Get(k)' = Absent
    <2> SUFFICES ASSUME Table!Next \/ UNCHANGED Table!vars,
                        NEW k \in issued, k \in Keys, Get(k) = Absent
                 PROVE  Get(k)' = Absent
      OBVIOUS
    <2> DEFINE answer == [h \in Keys |-> Get(h)]
    <2>1. answer[k] = Absent /\ answer'[k] = Get(k)'
      OBVIOUS
    <2>2. CASE Table!Issue
      BY <2>1, <2>2 DEF Table!Issue
    <2>3. CASE Table!Replace
      BY <2>1, <2>3 DEF Table!Replace
    <2>4. CASE Table!Drop
      BY <2>1, <2>4 DEF Table!Drop
    <2>5. CASE UNCHANGED Table!vars
      BY <2>1, <2>5 DEF Table!vars
    <2> QED BY <2>2, <2>3, <2>4, <2>5 DEF Table!Next
  <1>2. IInv => \A k \in issued : k \in Keys
    BY DEF IInv, TypeOK
  <1>3. IInv /\ (Table!Next \/ UNCHANGED Table!vars)
            => [\A k \in issued : Get(k) = Absent => Get(k)' = Absent]_vars
    BY <1>1, <1>2
  <1> QED BY <1>3, Refinement, InitEstablishes, Inductive, PTL
          DEF Spec, Table!Spec, ImplementsHandleTable, StaleKeysStayStale
=============================================================================
