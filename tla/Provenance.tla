----------------------------- MODULE Provenance -----------------------------
(***************************************************************************)
(* The table of where each entity of a model came from                     *)
(* (ProvenanceTable, ogeom-core/src/id.rs).  Identities count up from 1    *)
(* and are never issued twice.  Entries are packed, ascending by identity: *)
(* past position `tail_at` they run without a gap up to the last identity  *)
(* issued and are found by arithmetic; the ones before by binary search.   *)
(*                                                                         *)
(* Of a provenance only what it was derived from is kept: nothing, for a   *)
(* primitive or imported entity.                                           *)
(***************************************************************************)
EXTENDS Integers, Sequences, FiniteSets, Functions

CONSTANT MaxId      \* bound: how many identities a run issues

ASSUME MaxIdAssumption == MaxId \in Nat

Ids == 1..MaxId
Forgotten == {0}    \* the entry or the answer of a forgotten identity: None

VARIABLES
    entries,    \* <<identity, sources or Forgotten>>, packed
    tail_at,    \* how many entries precede the gapless run
    issued,     \* how many identities have been issued
    lineage,    \* history: the sources each identity was recorded with
    dropped     \* history: the identities forgotten

table == <<entries, tail_at, issued>>
vars == <<table, lineage, dropped>>

TypeOK ==
    /\ entries \in Seq([id : Ids, from : (SUBSET Ids) \cup {Forgotten}])
    /\ tail_at \in 0..Len(entries)
    /\ issued \in 0..MaxId
    /\ lineage \in [1..issued -> SUBSET Ids]
    /\ dropped \in SUBSET (1..issued)

Init ==
    /\ entries = <<>>
    /\ tail_at = 0
    /\ issued = 0
    /\ lineage = <<>>
    /\ dropped = {}

-----------------------------------------------------------------------------
FirstIgnoringGaps == issued - Len(entries) + 1

(* The identity of the first entry of the gapless run.                     *)
TailFirst == issued - (Len(entries) - tail_at) + 1

(* Binary search of the entries before the tail.  It answers where an      *)
(* identity sits only while they ascend.                                   *)
Search(id) ==
    IF \E i \in 1..tail_at : entries[i].id = id
    THEN CHOOSE i \in 1..tail_at : entries[i].id = id
    ELSE 0

TailPosition(id) ==
    LET at == tail_at + (id - TailFirst) + 1
    IN  IF at <= Len(entries) THEN at ELSE 0

(* Where an identity's entry sits, 0 when it has none.                     *)
Position(id) == IF id >= TailFirst THEN TailPosition(id) ELSE Search(id)

(* The sources an identity was recorded with, Forgotten when there is no   *)
(* entry or none left in it.                                               *)
Get(id) ==
    LET at == Position(id) IN IF at = 0 THEN Forgotten ELSE entries[at].from

(* The entries at the places p, in that order.                             *)
Packed(p) == [i \in DOMAIN p |-> entries[p[i]]]

CountsFromLength(es, n) == \A k \in 1..n : es[Len(es) + 1 - k].id + k - 1 = Len(es)

(* The last n of es run without a gap up to the last identity issued.      *)
RunsToLast(es, n) == \A k \in 1..n : es[Len(es) + 1 - k].id + k - 1 = issued

(* Roots of an identity: the ancestors with an entry and no source.        *)
Sources(id) == Get(id) \ Forgotten

Ancestry(id) ==
    LET known[n \in 0..issued] ==
            IF n = 0 THEN {id}
            ELSE LET younger == known[n - 1]
                 IN  younger \cup UNION {Sources(a) : a \in younger}
    IN  known[issued]

Roots(id) == {a \in Ancestry(id) : Get(a) = {}}

-----------------------------------------------------------------------------
NextId == issued + 1

(* record: an entity derived from identities already issued, some of them  *)
(* perhaps forgotten since.                                                *)
Record(from) ==
    /\ issued < MaxId
    /\ issued' = issued + 1
    /\ entries' = Append(entries, [id |-> NextId, from |-> from])
    /\ lineage' = Append(lineage, from)
    /\ UNCHANGED <<tail_at, dropped>>

(* forget: the entry goes, its place stays.                                *)
Forget(id) ==
    /\ Position(id) # 0
    /\ entries' = [entries EXCEPT ![Position(id)].from = Forgotten]
    /\ dropped' = dropped \cup {id}
    /\ UNCHANGED <<tail_at, issued, lineage>>

(* retain: the entries kept close up in the order they were in, and the    *)
(* longest run up to the last identity becomes the tail.                   *)
Retain(keep) ==
    /\ \E n \in 0..Len(entries) : \E p \in [1..n -> DOMAIN entries] :
        /\ Range(p) = {i \in DOMAIN entries : entries[i].from # Forgotten /\ entries[i].id \in keep}
        /\ \A i, j \in 1..n : i < j => p[i] < p[j]
        /\ entries' = Packed(p)
        /\ \E run \in 0..n :
            /\ RunsToLast(Packed(p), run)
            /\ run < n => ~RunsToLast(Packed(p), run + 1)
            /\ tail_at' = n - run
    /\ dropped' = 1..issued \ {id \in keep : Get(id) # Forgotten}
    /\ UNCHANGED <<issued, lineage>>

Next ==
    \/ \E from \in SUBSET (1..issued) : Record(from)
    \/ \E id \in 1..issued : Forget(id)
    \/ \E keep \in SUBSET (1..issued) : Retain(keep)

Spec == Init /\ [][Next]_vars

-----------------------------------------------------------------------------
(* However the table was forgotten from and packed, an identity answers    *)
(* with what it was recorded with until it is forgotten, and an identity   *)
(* forgotten or never issued answers nothing.                              *)
AnswersWithItsOwn ==
    \A id \in 1..(issued + 1) :
        Get(id) = IF id \in DOMAIN lineage \ dropped THEN lineage[id] ELSE Forgotten

(* The roots of an entity survive every operation that leaves its whole    *)
(* ancestry answering: packing the table with a keep set closed under      *)
(* derivation resolves every kept reference to the same originals.         *)
RootsSurvive ==
    [][\A id \in 1..issued :
         (Ancestry(id) \cap (dropped' \ dropped) = {}) => Roots(id)' = Roots(id)]_vars
=============================================================================
