------------------------------- MODULE Arena -------------------------------
(***************************************************************************)
(* The generational arena every store of a model is built on               *)
(* (ogeom-core/src/arena.rs): nodes, datums, curves, surfaces, pcurves and *)
(* triangulations.                                                         *)
(*                                                                         *)
(* Live values are packed in `entries`.  The slots from `tail` on sit in   *)
(* slot order from position `tail_at` + 1 to the end, found by arithmetic; *)
(* the first `tail_at` entries are scattered, found through the map        *)
(* `scattered` from slot to position.  Positions count from 1 here and     *)
(* from 0 in the code.  A key names the scope of the arena that issued it. *)
(***************************************************************************)
EXTENDS Naturals, Sequences, Functions

CONSTANTS
    Values,     \* what the arena stores
    Absent,     \* the answer of a key that does not resolve
    Scopes,     \* the identities next_scope() can hand to an arena
    MaxSlots,   \* u32::MAX, as many slots as `next_slot` can count
    MaxGen      \* u32::MAX, where a generation saturates

UNSCOPED == 0

ASSUME ArenaAssumption ==
    /\ Absent \notin Values
    /\ UNSCOPED \notin Scopes
    /\ MaxSlots \in Nat
    /\ MaxGen \in Nat

VARIABLES
    entries,    \* the live values, packed
    tail,       \* the first slot of the tail
    tail_at,    \* how many scattered values precede the tail
    scattered,  \* slot to position, for the scattered values
    ordered,    \* whether entries claims to run in slot order
    free,       \* removed slots, each with the generation it takes next
    next_slot,  \* how many slots have been handed out
    scope,      \* which arena this is
    issued      \* history: every key `insert` has returned

layout == <<entries, tail, tail_at, scattered, ordered, free, next_slot, scope>>
vars == <<layout, issued>>

Slots == 0..MaxSlots
Gens == 0..MaxGen
Keys == [slot : Slots, gen : Gens, scope : Scopes \cup {UNSCOPED}]
Entry == [slot : Slots, gen : Gens, value : Values]
Freed == [slot : Slots, gen : Gens]

TypeOK ==
    /\ entries \in Seq(Entry)
    /\ tail \in Slots
    /\ tail_at \in Nat
    /\ DOMAIN scattered \subseteq Slots
    /\ \A s \in DOMAIN scattered : scattered[s] \in Nat
    /\ ordered \in BOOLEAN
    /\ free \in Seq(Freed)
    /\ next_slot \in Slots
    /\ scope \in Scopes \cup {UNSCOPED}
    /\ issued \in SUBSET Keys

Init ==
    /\ entries = <<>>
    /\ tail = 0
    /\ tail_at = 0
    /\ scattered = <<>>
    /\ ordered = TRUE
    /\ free = <<>>
    /\ next_slot = 0
    /\ scope = UNSCOPED
    /\ issued = {}

-----------------------------------------------------------------------------
(* Looking a key up.                                                       *)

(* Where a slot's value would sit; 0 for a scattered slot with no value.   *)
Position(slot) ==
    IF slot >= tail THEN slot - tail + tail_at + 1
    ELSE IF slot \in DOMAIN scattered THEN scattered[slot]
    ELSE 0

LiveAtAnyGeneration(key) ==
    /\ key.scope = scope
    /\ Position(key.slot) \in DOMAIN entries
    /\ entries[Position(key.slot)].slot = key.slot

LiveInAnyScope(key) ==
    /\ Position(key.slot) \in DOMAIN entries
    /\ entries[Position(key.slot)].slot = key.slot
    /\ entries[Position(key.slot)].gen = key.gen

(* Whether a key resolves: its scope, then the entry found under its slot. *)
Live(key) ==
    /\ key.scope = scope
    /\ Position(key.slot) \in DOMAIN entries
    /\ entries[Position(key.slot)].slot = key.slot
    /\ entries[Position(key.slot)].gen = key.gen

Get(key) == IF Live(key) THEN entries[Position(key.slot)].value ELSE Absent

-----------------------------------------------------------------------------
(* Helpers of the operations.                                              *)

(* The map from slot to position of the entries from lo to hi.             *)
IndexOf(es, lo, hi) ==
    [s \in {es[i].slot : i \in lo..hi} |-> CHOOSE i \in lo..hi : es[i].slot = s]

(* The map f with g's pairs where f has none.                              *)
Over(f, g) == [s \in DOMAIN f \cup DOMAIN g |-> IF s \in DOMAIN f THEN f[s] ELSE g[s]]

Inserted(map, slot, at) ==
    [s \in DOMAIN map \cup {slot} |-> IF s = slot THEN at ELSE map[s]]

(* scatter_tail: the map with the tail's values moved into it.             *)
ScatterTail == Over(IndexOf(entries, tail_at + 1, Len(entries)), scattered)

(* p picks, each once, the positions in `chosen`.                          *)
Picks(p, chosen) ==
    /\ IsInjective(p)
    /\ \A i \in DOMAIN p : p[i] \in chosen
    /\ \A c \in chosen : \E i \in DOMAIN p : p[i] = c

BySlot(p) == \A i, j \in DOMAIN p : i < j => entries[p[i]].slot < entries[p[j]].slot
ByPosition(p) == \A i, j \in DOMAIN p : i < j => p[i] < p[j]

Rearranged(p) == [i \in DOMAIN p |-> entries[p[i]]]

(* Vec::swap_remove: the last entry takes the place of the one removed.    *)
SwapRemove(at) ==
    [i \in 1..(Len(entries) - 1) |->
        IF i = at THEN entries[Len(entries)] ELSE entries[i]]

(* The last n of es fill the n slots below next_slot, in order.            *)
TailRun(es, n) == \A k \in 1..n : es[Len(es) + 1 - k].slot + k = next_slot

FirstBelow(slot) == ordered /\ (entries = <<>> \/ entries[1].slot < slot)

(* Whether pushing an entry for slot leaves entries in slot order.         *)
StillOrdered(slot) == ordered /\ (entries = <<>> \/ entries[Len(entries)].slot < slot)

(* The generation a slot takes after gen, saturating at u32::MAX.          *)
Bumped(gen) == IF gen < MaxGen THEN gen + 1 ELSE MaxGen

-----------------------------------------------------------------------------
(* Operations.                                                             *)

(* A slot number is left for a fresh insert.                               *)
HasRoom == next_slot < MaxSlots

Scope == IF scope = UNSCOPED THEN Scopes ELSE {scope}

(* insert with a freed slot waiting: the slot last freed is refilled.      *)
InsertReused(v) ==
    /\ free # <<>>
    /\ scope' \in Scope
    /\ LET f == free[Len(free)]
           at == Len(entries) + 1
       IN  /\ ordered' = StillOrdered(f.slot)
           /\ entries' = Append(entries, [slot |-> f.slot, gen |-> f.gen, value |-> v])
           /\ scattered' = Inserted(ScatterTail, f.slot, at)
           /\ tail' = next_slot
           /\ tail_at' = at
           /\ free' = SubSeq(free, 1, Len(free) - 1)
           /\ issued' = issued \cup {[slot |-> f.slot, gen |-> f.gen, scope |-> scope']}
    /\ UNCHANGED next_slot

(* insert with none waiting: the value joins the tail at a fresh slot.     *)
InsertFresh(v) ==
    /\ free = <<>>
    /\ HasRoom
    /\ scope' \in Scope
    /\ next_slot' = next_slot + 1
    /\ entries' = Append(entries, [slot |-> next_slot, gen |-> 0, value |-> v])
    /\ issued' = issued \cup {[slot |-> next_slot, gen |-> 0, scope |-> scope']}
    /\ UNCHANGED <<tail, tail_at, scattered, ordered, free>>

(* remove: the slot's generation is bumped and the slot waits for reuse,   *)
(* unless the generation has run out.                                      *)
Remove(key) ==
    /\ Live(key)
    /\ LET at == ScatterTail[key.slot]
           kept == Restrict(ScatterTail, DOMAIN ScatterTail \ {key.slot})
           moved == at < Len(entries)
           next == Bumped(entries[at].gen)
       IN  /\ entries' = SwapRemove(at)
           /\ scattered' = IF moved THEN Inserted(kept, entries[Len(entries)].slot, at) ELSE kept
           /\ ordered' = (ordered /\ ~moved)
           /\ free' = IF next # MaxGen
                      THEN Append(free, [slot |-> key.slot, gen |-> next])
                      ELSE free
    /\ tail' = next_slot
    /\ tail_at' = Len(entries) - 1
    /\ UNCHANGED <<next_slot, scope, issued>>

(* retain, and clear with nothing kept: the kept entries stay in the order *)
(* they were in, sorted only when the order is known to be broken; then    *)
(* the longest full run below next_slot becomes the tail.  Slots dropped   *)
(* here are not freed.                                                     *)
Retain(keep) ==
    /\ \E n \in 0..Len(entries) : \E p \in [1..n -> DOMAIN entries] :
        /\ Picks(p, {i \in DOMAIN entries : entries[i].slot \in keep})
        /\ IF ordered THEN ByPosition(p) ELSE BySlot(p)
        /\ entries' = Rearranged(p)
        /\ \E run \in 0..n :
            /\ TailRun(Rearranged(p), run)
            /\ run < n => ~TailRun(Rearranged(p), run + 1)
            /\ tail' = next_slot - run
            /\ tail_at' = n - run
            /\ scattered' = IndexOf(Rearranged(p), 1, n - run)
    /\ ordered' = TRUE
    /\ UNCHANGED <<free, next_slot, scope, issued>>

(* get_mut and an assignment through it.                                   *)
SetValue(key, v) ==
    /\ Live(key)
    /\ entries' = [entries EXCEPT ![Position(key.slot)].value = v]
    /\ UNCHANGED <<tail, tail_at, scattered, ordered, free, next_slot, scope, issued>>

(* iter_mut: put the entries in slot order if they are not, then assign    *)
(* through every one of them.                                              *)
IterMut(v) ==
    /\ IF ordered
       THEN /\ entries' = [i \in DOMAIN entries |-> [entries[i] EXCEPT !.value = v]]
            /\ UNCHANGED <<tail, tail_at, scattered, ordered>>
       ELSE /\ \E p \in [DOMAIN entries -> DOMAIN entries] :
                /\ Picks(p, DOMAIN entries)
                /\ BySlot(p)
                /\ entries' = [i \in DOMAIN p |-> [entries[p[i]] EXCEPT !.value = v]]
                /\ scattered' = Over(IndexOf(Rearranged(p), 1, Len(entries)), ScatterTail)
            /\ tail' = next_slot
            /\ tail_at' = Len(entries)
            /\ ordered' = TRUE
    /\ UNCHANGED <<free, next_slot, scope, issued>>

Next ==
    \/ \E v \in Values : InsertReused(v) \/ InsertFresh(v) \/ IterMut(v)
    \/ \E key \in Keys : Remove(key)
    \/ \E key \in Keys, v \in Values : SetValue(key, v)
    \/ \E keep \in SUBSET Slots : Retain(keep)

Spec == Init /\ [][Next]_vars

-----------------------------------------------------------------------------
(* Properties.                                                             *)

(* The packed layout describes itself truly: each live value is found at   *)
(* its own position through its own slot, and a slot below the tail is in  *)
(* the map exactly when it is one of the scattered ones.                   *)
LayoutFindsEveryEntry ==
    /\ \A i \in DOMAIN entries : Position(entries[i].slot) = i
    /\ DOMAIN scattered = {entries[i].slot : i \in 1..tail_at}
    /\ next_slot - tail = Len(entries) - tail_at

(* What iteration relies on when it skips the sort: a claim of order that  *)
(* removals and refills never leave standing wrongly.                      *)
OrderClaimHolds ==
    ordered => \A i, j \in DOMAIN entries : i < j => entries[i].slot < entries[j].slot

(* A waiting slot is empty, waits once, and takes a generation above every *)
(* one it was ever issued at; a slot that is occupied is occupied by the   *)
(* last key issued for it.                                                 *)
GenerationsMoveForward ==
    /\ \A i, j \in DOMAIN free : free[i].slot = free[j].slot => i = j
    /\ \A i \in DOMAIN free : \A j \in DOMAIN entries : free[i].slot # entries[j].slot
    /\ \A k \in issued :
        /\ \A i \in DOMAIN free : free[i].slot = k.slot => k.gen < free[i].gen
        /\ \A j \in DOMAIN entries : entries[j].slot = k.slot => k.gen <= entries[j].gen

(* The packed arena implements the abstract table of handles: each key     *)
(* resolves as its abstract handle does.                                   *)
Table == INSTANCE HandleTable WITH
            Handles <- Keys,
            answer <- [k \in Keys |-> Get(k)]

ImplementsHandleTable == Table!Spec

(* A key that was issued and no longer resolves never resolves again,      *)
(* however often its slot is refilled, its arena packed, or sorted.        *)
StaleKeysStayStale == [][\A k \in issued : Get(k) = Absent => Get(k)' = Absent]_vars
=============================================================================
