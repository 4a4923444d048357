--------------------------- MODULE ParallelProofs ---------------------------
(***************************************************************************)
(* Proofs about the module ParallelMap: for any number of stages, threads, *)
(* items and workers, and any pool, what map_ordered promises its caller.  *)
(***************************************************************************)
EXTENDS ParallelMap, SequenceTheorems, FunctionTheorems, FiniteSetTheorems,
        WellFoundedInduction, TLAPS

-----------------------------------------------------------------------------
(* The inductive invariant.  A frame is told by its thread and its depth.  *)

(* The call of a stage stands on one thread while the stage runs, and      *)
(* copies of it only while that call waits for them.                       *)
CallsStand ==
    /\ \A t \in Threads : \A k \in DOMAIN frames[t] :
        /\ outcome[frames[t][k].stage] = "running"
        /\ frames[t][k].role = "copy" =>
            \E u \in Threads : \E j \in DOMAIN frames[u] :
                frames[u][j].stage = frames[t][k].stage /\ frames[u][j].role = "wait"
    /\ \A t, u \in Threads : \A k \in DOMAIN frames[t], j \in DOMAIN frames[u] :
        (/\ frames[t][k].stage = frames[u][j].stage
         /\ frames[t][k].role # "copy" /\ frames[u][j].role # "copy")
            => t = u /\ k = j

(* A stage not called yet has done nothing.                                *)
IdleUntouched ==
    \A s \in Stages : outcome[s] = "idle" =>
        /\ next[s] = 1 /\ parts[s] = <<>> /\ ~panicked[s]
        /\ \A i \in 1..N : ran[s][i] = 0

(* An item in hand was claimed once and not run yet.                       *)
ClaimsHold ==
    /\ \A t \in Threads : \A k \in DOMAIN frames[t] : frames[t][k].item # 0 =>
        /\ frames[t][k].role # "wait"
        /\ ran[frames[t][k].stage][frames[t][k].item] = 0
        /\ frames[t][k].role = "inline" => frames[t][k].item = Len(frames[t][k].mine) + 1
        /\ frames[t][k].role # "inline" => frames[t][k].item < next[frames[t][k].stage]
    /\ \A t, u \in Threads : \A k \in DOMAIN frames[t], j \in DOMAIN frames[u] :
        (/\ frames[t][k].stage = frames[u][j].stage
         /\ frames[t][k].item = frames[u][j].item /\ frames[t][k].item # 0)
            => t = u /\ k = j

InHandOf(s, i) ==
    \E t \in Threads : \E k \in DOMAIN frames[t] :
        frames[t][k].stage = s /\ frames[t][k].item = i

(* What ran was claimed before, and what was claimed ran or is in hand,    *)
(* but for what a panic skips.                                             *)
ClaimedOrDone ==
    /\ \A s \in Stages, i \in 1..N : ran[s][i] \in {0, 1}
    /\ \A t \in Threads : \A k \in DOMAIN frames[t] : \A i \in 1..N :
        /\ frames[t][k].role = "inline" =>
            (ran[frames[t][k].stage][i] = 1 <=> i <= Len(frames[t][k].mine))
        /\ frames[t][k].role # "inline" =>
            /\ ran[frames[t][k].stage][i] = 1 => i < next[frames[t][k].stage]
            /\ (i < next[frames[t][k].stage] /\ ~panicked[frames[t][k].stage]) =>
                ran[frames[t][k].stage][i] = 1 \/ InHandOf(frames[t][k].stage, i)
    /\ \A s \in Stages, i \in 1..N : outcome[s] = "returned" => ran[s][i] = 1

HasPanicked(s) == \E i \in 1..N : ran[s][i] = 1 /\ Panics(s, i)

(* A panic is kept by the stage's waiting call until it is resumed.        *)
PanicKept ==
    /\ \A s \in Stages, i \in 1..N : ran[s][i] = 1 => \A n \in NestedIn(s, i) : Ended(n)
    /\ \A t \in Threads : \A k \in DOMAIN frames[t] :
        /\ frames[t][k].role = "wait" =>
            (panicked[frames[t][k].stage] <=> HasPanicked(frames[t][k].stage))
        /\ frames[t][k].role \in {"take", "inline"} =>
            ~panicked[frames[t][k].stage] /\ ~HasPanicked(frames[t][k].stage)
    /\ \A s \in Stages : Ended(s) => (outcome[s] = "unwound" <=> HasPanicked(s))

(* The thread-locals as a frame leaves them while it is on top.            *)
InsideOf(f) == f.role = "copy" \/ f.outer
WatchOf(f) == IF f.role = "copy" THEN snap[f.stage] ELSE Watch[f.stage]
ActiveOf(f) == IF WatchOf(f) = NoWatch THEN f.previous ELSE WatchOf(f)

(* Each frame found the thread-locals the one below it left.               *)
LocalsChained ==
    \A t \in Threads :
        /\ frames[t] = <<>> => ~inside[t] /\ active[t] = NoWatch
        /\ frames[t] # <<>> => inside[t] = InsideOf(Top(t)) /\ active[t] = ActiveOf(Top(t))
        /\ \A k \in DOMAIN frames[t] :
            /\ k = 1 => ~frames[t][k].outer /\ frames[t][k].previous = NoWatch
            /\ k # 1 => /\ frames[t][k].outer = InsideOf(frames[t][k - 1])
                        /\ frames[t][k].previous = ActiveOf(frames[t][k - 1])
            /\ frames[t][k].role # "copy" => snap[frames[t][k].stage] = ActiveOf(frames[t][k])

Items(values) == {values[j].item : j \in DOMAIN values}
Once(values) == \A j, k \in DOMAIN values : values[j].item = values[k].item => j = k

(* What was computed lies in one place, and in one only.                   *)
ValuesApart ==
    /\ \A s \in Stages : Once(parts[s]) /\ \A i \in Items(parts[s]) : ran[s][i] = 1
    /\ \A t \in Threads : \A k \in DOMAIN frames[t] :
        /\ Once(frames[t][k].mine)
        /\ \A i \in Items(frames[t][k].mine) : ran[frames[t][k].stage][i] = 1
        /\ Items(frames[t][k].mine) \cap Items(parts[frames[t][k].stage]) = {}
        /\ frames[t][k].role = "wait" => frames[t][k].mine = <<>>
        /\ frames[t][k].role = "take" => parts[frames[t][k].stage] = <<>>
        /\ frames[t][k].role = "inline" =>
            \A j \in DOMAIN frames[t][k].mine : frames[t][k].mine[j].item = j
    /\ \A t, u \in Threads : \A k \in DOMAIN frames[t], j \in DOMAIN frames[u] :
        (frames[t][k].stage = frames[u][j].stage /\ (t # u \/ k # j))
            => Items(frames[t][k].mine) \cap Items(frames[u][j].mine) = {}

ComputedBy(s, i) ==
    \E t \in Threads : \E k \in DOMAIN frames[t] :
        frames[t][k].stage = s /\ i \in Items(frames[t][k].mine)

(* Nothing computed is lost on the way to the call, unless it unwinds.     *)
ValuesKept ==
    \A t \in Threads : \A k \in DOMAIN frames[t] : \A i \in 1..N :
        (/\ frames[t][k].role # "inline" /\ ~panicked[frames[t][k].stage]
         /\ ran[frames[t][k].stage][i] = 1) =>
            i \in Items(parts[frames[t][k].stage]) \/ ComputedBy(frames[t][k].stage, i)

IInv ==
    /\ TypeOK /\ CallsStand /\ IdleUntouched /\ ClaimsHold /\ ClaimedOrDone
    /\ PanicKept /\ LocalsChained /\ ValuesApart /\ ValuesKept /\ OutputInItemOrder

-----------------------------------------------------------------------------
(* Sequences and least elements.                                           *)

(* A set of naturals that is not empty has a least element.                *)
LEMMA HasLeast ==
    ASSUME NEW S \in SUBSET Nat, S # {}
    PROVE  \E x \in S : \A y \in S : x <= y
<1> DEFINE below == {ss \in Nat \X Nat : ss[1] < ss[2]}
<1>1. OpToRel(<, Nat) = below
  BY Zenon DEF OpToRel
<1>2. IsWellFoundedOn(below, Nat)
  BY <1>1, NatLessThanWellFounded
<1> HIDE DEF below
<1>3. PICK x \in S : \A y \in S : ~ (<<y, x>> \in below)
  BY <1>2, WFMin
<1>4. ASSUME NEW y \in S PROVE x <= y
  <2>1. x \in Nat /\ y \in Nat
    OBVIOUS
  <2>2. <<y, x>> \notin below
    BY <1>3
  <2>3. ~(y < x)
    BY <2>1, <2>2 DEF below
  <2> QED BY <2>1, <2>3
<1> QED BY <1>4

LEMMA AllButLast ==
    ASSUME NEW n \in Nat, n >= 1
    PROVE  /\ n - 1 = IF 1 <= n - 1 THEN (n - 1) - 1 + 1 ELSE 0
           /\ \A k \in 1..(n - 1) : k \in 1..((n - 1) - 1 + 1) /\ 1 + k - 1 = k
           /\ \A k \in 1..n : k # n => k \in 1..(n - 1)
           /\ 1..(n - 1) = 1..n \ {n}
           /\ n \in 1..n /\ (n - 1) + 1 = n
  OBVIOUS

(* The frame on top of a thread that is busy.                              *)
LEMMA TopIsFrame ==
    ASSUME frames \in [Threads -> Seq(Frame)], NEW t \in Threads, Busy(t)
    PROVE  /\ Len(frames[t]) \in DOMAIN frames[t]
           /\ Top(t) = frames[t][Len(frames[t])]
           /\ Top(t) \in Frame
<1>1. frames[t] \in Seq(Frame) /\ frames[t] # <<>>
  BY DEF Busy
<1>2. Len(frames[t]) \in DOMAIN frames[t]
  BY <1>1
<1> QED BY <1>1, <1>2 DEF Top

LEMMA FrameFields ==
    ASSUME TypeOK, NEW t \in Threads, NEW k \in DOMAIN frames[t]
    PROVE  /\ frames[t][k] \in Frame
           /\ frames[t][k].stage \in Stages /\ frames[t][k].item \in 0..N
           /\ frames[t][k].outer \in BOOLEAN
           /\ frames[t][k].previous \in Watches \cup {NoWatch}
           /\ frames[t][k].mine \in Seq(Value)
           /\ frames[t][k].role \in {"wait", "take", "inline", "copy"}
<1>1. frames[t] \in Seq(Frame)
  BY DEF TypeOK
<1>2. frames[t][k] \in Frame
  BY <1>1, LenProperties, ElementOfSeq
<1> QED BY <1>2 DEF Frame

(* What a push, a change of the frame on top and a pop leave.              *)
Pushes(t, g) ==
    /\ frames' \in [Threads -> Seq(Frame)]
    /\ \A u \in Threads \ {t} : frames'[u] = frames[u]
    /\ Len(frames'[t]) = Len(frames[t]) + 1
    /\ DOMAIN frames'[t] = DOMAIN frames[t] \cup {Len(frames[t]) + 1}
    /\ Len(frames[t]) + 1 \notin DOMAIN frames[t]
    /\ \A k \in DOMAIN frames[t] : frames'[t][k] = frames[t][k]
    /\ frames'[t][Len(frames[t]) + 1] = g

Changes(t, g) ==
    /\ frames' \in [Threads -> Seq(Frame)]
    /\ \A u \in Threads \ {t} : frames'[u] = frames[u]
    /\ DOMAIN frames'[t] = DOMAIN frames[t]
    /\ Len(frames'[t]) = Len(frames[t])
    /\ \A k \in DOMAIN frames[t] : k # Len(frames[t]) => frames'[t][k] = frames[t][k]
    /\ Len(frames[t]) \in DOMAIN frames[t]
    /\ frames'[t][Len(frames[t])] = g

Pops(t) ==
    /\ frames' \in [Threads -> Seq(Frame)]
    /\ \A u \in Threads \ {t} : frames'[u] = frames[u]
    /\ Len(frames[t]) \in DOMAIN frames[t]
    /\ Len(frames'[t]) = Len(frames[t]) - 1
    /\ DOMAIN frames'[t] = DOMAIN frames[t] \ {Len(frames[t])}
    /\ \A k \in DOMAIN frames'[t] : frames'[t][k] = frames[t][k]

LEMMA PushedIsPush ==
    ASSUME frames \in [Threads -> Seq(Frame)], NEW t \in Threads, NEW g \in Frame,
           frames' = Pushed(t, g)
    PROVE  Pushes(t, g)
<1> DEFINE s == frames[t]
<1>1. s \in Seq(Frame) /\ frames'[t] = Append(s, g)
  BY DEF Pushed
<1>2. /\ Append(s, g) \in Seq(Frame)
      /\ Len(Append(s, g)) = Len(s) + 1
      /\ DOMAIN Append(s, g) = 1..(Len(s) + 1)
      /\ \A k \in 1..Len(s) : Append(s, g)[k] = s[k]
      /\ Append(s, g)[Len(s) + 1] = g
  BY <1>1, AppendProperties
<1>3. frames' \in [Threads -> Seq(Frame)] /\ \A u \in Threads \ {t} : frames'[u] = frames[u]
  BY <1>1, <1>2 DEF Pushed
<1>4. DOMAIN s = 1..Len(s) /\ Len(s) \in Nat
  BY <1>1
<1>5. 1..(Len(s) + 1) = 1..Len(s) \cup {Len(s) + 1} /\ Len(s) + 1 \notin 1..Len(s)
  BY <1>4
<1> QED BY <1>1, <1>2, <1>3, <1>4, <1>5 DEF Pushes

LEMMA FrontFacts ==
    ASSUME NEW s \in Seq(Frame), s # <<>>
    PROVE  /\ Front(s) \in Seq(Frame)
           /\ Len(Front(s)) = Len(s) - 1
           /\ DOMAIN Front(s) = 1..(Len(s) - 1)
           /\ \A k \in 1..(Len(s) - 1) : Front(s)[k] = s[k]
<1>1. Len(s) \in Nat /\ Len(s) >= 1
  BY EmptySeq, LenProperties
<1>2. 1 \in Int /\ Len(s) - 1 \in Int /\ \A k \in 1..(Len(s) - 1) : s[k] \in Frame
  BY <1>1, ElementOfSeq
<1>3. /\ Front(s) \in Seq(Frame)
      /\ Len(Front(s)) = IF 1 <= Len(s) - 1 THEN (Len(s) - 1) - 1 + 1 ELSE 0
      /\ \A k \in 1..((Len(s) - 1) - 1 + 1) : Front(s)[k] = s[1 + k - 1]
  BY <1>2, SubSeqProperties DEF Front
<1>4. Len(Front(s)) = Len(s) - 1
  BY <1>1, <1>3, AllButLast
<1>5. DOMAIN Front(s) = 1..Len(Front(s))
  BY <1>3, LenProperties
<1>6. \A k \in 1..(Len(s) - 1) : k \in 1..((Len(s) - 1) - 1 + 1) /\ 1 + k - 1 = k
  BY <1>1, AllButLast
<1> QED BY <1>3, <1>4, <1>5, <1>6

LEMMA PoppedIsPop ==
    ASSUME frames \in [Threads -> Seq(Frame)], NEW t \in Threads, Busy(t),
           frames' = Popped(t)
    PROVE  Pops(t)
<1> DEFINE s == frames[t]
<1>1. s \in Seq(Frame) /\ s # <<>> /\ frames'[t] = Front(s)
  BY DEF Popped, Busy
<1>2. DOMAIN s = 1..Len(s) /\ Len(s) \in Nat /\ Len(s) >= 1
  BY <1>1, EmptySeq, LenProperties
<1>3. /\ Front(s) \in Seq(Frame)
      /\ Len(Front(s)) = Len(s) - 1
      /\ DOMAIN Front(s) = 1..(Len(s) - 1)
      /\ \A k \in 1..(Len(s) - 1) : Front(s)[k] = s[k]
  BY <1>1, FrontFacts
<1>4. frames' \in [Threads -> Seq(Frame)] /\ \A u \in Threads \ {t} : frames'[u] = frames[u]
  BY <1>1, <1>3 DEF Popped
<1>5. 1..(Len(s) - 1) = 1..Len(s) \ {Len(s)} /\ Len(s) \in 1..Len(s)
  BY <1>2, AllButLast
<1> QED BY <1>1, <1>2, <1>3, <1>4, <1>5 DEF Pops

LEMMA ChangedIsChange ==
    ASSUME frames \in [Threads -> Seq(Frame)], NEW t \in Threads, Busy(t),
           NEW g \in Frame, frames' = Changed(t, g)
    PROVE  Changes(t, g)
<1> DEFINE s == frames[t]
           r == Front(s)
<1>1. s \in Seq(Frame) /\ s # <<>> /\ frames'[t] = Append(r, g)
  BY DEF Changed, Busy
<1>2. DOMAIN s = 1..Len(s) /\ Len(s) \in Nat /\ Len(s) >= 1
  BY <1>1, EmptySeq, LenProperties
<1>3. /\ r \in Seq(Frame)
      /\ Len(r) = Len(s) - 1
      /\ \A k \in 1..(Len(s) - 1) : r[k] = s[k]
  BY <1>1, FrontFacts
<1> HIDE DEF r
<1>4. /\ Append(r, g) \in Seq(Frame)
      /\ Len(Append(r, g)) = Len(r) + 1
      /\ DOMAIN Append(r, g) = 1..(Len(r) + 1)
      /\ \A k \in 1..Len(r) : Append(r, g)[k] = r[k]
      /\ Append(r, g)[Len(r) + 1] = g
  BY <1>3, AppendProperties
<1>5. frames' \in [Threads -> Seq(Frame)] /\ \A u \in Threads \ {t} : frames'[u] = frames[u]
  BY <1>1, <1>4 DEF Changed
<1>6. /\ \A k \in 1..Len(s) : k # Len(s) => k \in 1..(Len(s) - 1)
      /\ Len(s) \in 1..Len(s) /\ Len(r) + 1 = Len(s)
  BY <1>2, <1>3, AllButLast
<1>7. /\ DOMAIN frames'[t] = DOMAIN s /\ Len(frames'[t]) = Len(s)
      /\ frames'[t][Len(s)] = g
  BY <1>1, <1>2, <1>4, <1>6
<1>8. ASSUME NEW k \in DOMAIN s, k # Len(s) PROVE frames'[t][k] = s[k]
  <2>1. k \in 1..(Len(s) - 1) /\ k \in 1..Len(r)
    BY <1>2, <1>3, <1>6, <1>8
  <2> QED BY <2>1, <1>1, <1>3, <1>4
<1> QED BY <1>2, <1>5, <1>6, <1>7, <1>8 DEF Changes

-----------------------------------------------------------------------------
(* What each action does to the frames.                                    *)
Alike(g, f) ==
    g.stage = f.stage /\ g.outer = f.outer /\ g.previous = f.previous

LEMMA ClaimChanges ==
    ASSUME TypeOK, NEW t \in Threads, Claim(t)
    PROVE  /\ Busy(t) /\ Top(t).role \in {"copy", "take"} /\ Top(t).item = 0
           /\ next[Top(t).stage] \in 0..N
           /\ next' = [next EXCEPT ![Top(t).stage] = @ + 1]
           /\ \E g \in Frame :
                /\ Changes(t, g) /\ Alike(g, Top(t)) /\ g.role = Top(t).role
                /\ g.mine = Top(t).mine /\ g.item = next[Top(t).stage]
<1> DEFINE f == Top(t)
           g == [f EXCEPT !.item = next[f.stage]]
<1>1. Busy(t) /\ f.role \in {"copy", "take"} /\ f.item = 0 /\ frames' = Changed(t, g)
  BY DEF Claim, On
<1>2. f \in Frame
  BY <1>1, TopIsFrame DEF TypeOK
<1> HIDE DEF f
<1>3. next[f.stage] \in 0..N
  BY <1>2, ParallelAssumption DEF Claim, ItemsLeft, TypeOK, Frame, f
<1>4. g \in Frame /\ Alike(g, f) /\ g.role = f.role /\ g.mine = f.mine /\ g.item = next[f.stage]
  BY <1>2, <1>3 DEF Frame, Alike
<1>5. Changes(t, g)
  BY <1>1, <1>4, ChangedIsChange DEF TypeOK
<1>6. next' = [next EXCEPT ![f.stage] = @ + 1]
  BY DEF Claim, Advanced, f
<1> QED BY <1>1, <1>3, <1>4, <1>5, <1>6 DEF f

LEMMA TakeInlineChanges ==
    ASSUME TypeOK, NEW t \in Threads, TakeInline(t)
    PROVE  /\ Busy(t) /\ Top(t).role = "inline" /\ Top(t).item = 0
           /\ Len(Top(t).mine) + 1 \in 1..N
           /\ \E g \in Frame :
                /\ Changes(t, g) /\ Alike(g, Top(t)) /\ g.role = "inline"
                /\ g.mine = Top(t).mine /\ g.item = Len(Top(t).mine) + 1
<1> DEFINE f == Top(t)
           g == [f EXCEPT !.item = Len(f.mine) + 1]
<1>1. Busy(t) /\ f.role = "inline" /\ f.item = 0 /\ Len(f.mine) < N /\ frames' = Changed(t, g)
  BY DEF TakeInline, On
<1>2. f \in Frame
  BY <1>1, TopIsFrame DEF TypeOK
<1> HIDE DEF f
<1>3. f.mine \in Seq(Value)
  BY <1>2 DEF Frame
<1>4. Len(f.mine) \in Nat
  BY <1>3, LenProperties
<1>5. Len(f.mine) + 1 \in 1..N
  BY <1>1, <1>4, ParallelAssumption
<1>6. g \in Frame /\ Alike(g, f) /\ g.role = "inline" /\ g.mine = f.mine /\ g.item = Len(f.mine) + 1
  BY <1>1, <1>2, <1>5 DEF Frame, Alike
<1>7. Changes(t, g)
  BY <1>1, <1>6, ChangedIsChange DEF TypeOK
<1> QED BY <1>1, <1>5, <1>6, <1>7 DEF f

LEMMA ComputeChanges ==
    ASSUME TypeOK, NEW t \in Threads, Compute(t)
    PROVE  /\ InHand(t) /\ ~Panics(Top(t).stage, Top(t).item)
           /\ ran' = [ran EXCEPT ![Top(t).stage][Top(t).item] = @ + 1]
           /\ \E g \in Frame, v \in Value :
                /\ Changes(t, g) /\ Alike(g, Top(t)) /\ g.role = Top(t).role
                /\ v.item = Top(t).item
                /\ g.mine = Append(Top(t).mine, v) /\ g.item = 0
<1> DEFINE f == Top(t)
<1>1. Busy(t) /\ f.item # 0
  BY DEF Compute, InHand
<1>2. f \in Frame
  BY <1>1, TopIsFrame DEF TypeOK
<1>3. PICK stopped \in {FALSE, active[t] \in cancelled} :
        frames' = Changed(t, [f EXCEPT
            !.mine = Append(@, [item |-> f.item, cancelled |-> stopped]), !.item = 0])
  BY Zenon DEF Compute
<1>a. (active[t] \in cancelled) \in BOOLEAN
  OBVIOUS
<1>b. stopped \in BOOLEAN
  BY <1>3, <1>a
<1> HIDE DEF f
<1> DEFINE v == [item |-> f.item, cancelled |-> stopped]
           g == [f EXCEPT !.mine = Append(f.mine, v), !.item = 0]
<1>4. f.mine \in Seq(Value) /\ f.item \in 1..N
  BY <1>1, <1>2, ParallelAssumption DEF Frame, f
<1>5. v \in Value /\ v.item = f.item
  BY <1>4, <1>b DEF Value
<1> HIDE DEF v
<1>6. Append(f.mine, v) \in Seq(Value)
  BY <1>4, <1>5, AppendProperties
<1>7. 0 \in 0..N
  BY ParallelAssumption
<1>8. g \in Frame /\ Alike(g, f) /\ g.role = f.role /\ g.mine = Append(f.mine, v) /\ g.item = 0
  BY <1>2, <1>6, <1>7 DEF Frame, Alike
<1>9. frames' = Changed(t, g)
  BY <1>3, <1>2 DEF Frame, v
<1>10. Changes(t, g)
  BY <1>1, <1>8, <1>9, ChangedIsChange DEF TypeOK
<1> QED BY <1>5, <1>8, <1>10 DEF Compute, f

LEMMA GatherChanges ==
    ASSUME TypeOK, NEW t \in Threads, Gather(t)
    PROVE  /\ Busy(t) /\ Top(t).role = "wait"
           /\ CopiesReturned(Top(t).stage) /\ ~panicked[Top(t).stage]
           /\ parts' = [parts EXCEPT ![Top(t).stage] = <<>>]
           /\ \E g \in Frame :
                /\ Changes(t, g) /\ Alike(g, Top(t)) /\ g.role = "take"
                /\ g.mine = parts[Top(t).stage] /\ g.item = Top(t).item
<1> DEFINE f == Top(t)
           g == [f EXCEPT !.role = "take", !.mine = parts[f.stage]]
<1>1. Busy(t) /\ f.role = "wait" /\ frames' = Changed(t, g)
  BY DEF Gather, On
<1>2. f \in Frame
  BY <1>1, TopIsFrame DEF TypeOK
<1> HIDE DEF f
<1>3. g \in Frame /\ Alike(g, f) /\ g.role = "take" /\ g.mine = parts[f.stage] /\ g.item = f.item
  BY <1>2 DEF Frame, Alike, TypeOK
<1>4. Changes(t, g)
  BY <1>1, <1>3, ChangedIsChange DEF TypeOK
<1> QED BY <1>1, <1>3, <1>4 DEF f, Gather, Caught

LEMMA BackPops ==
    ASSUME TypeOK, NEW t \in Threads, Busy(t), Back(t)
    PROVE  Pops(t) /\ active' = [active EXCEPT ![t] = Top(t).previous]
  BY PoppedIsPop DEF Back, Previous, TypeOK

LEMMA NewFrameFields ==
    ASSUME TypeOK, NEW t \in Threads, NEW s \in Stages,
           NEW role \in {"wait", "inline", "copy"}
    PROVE  /\ NewFrame(s, role, t) \in Frame
           /\ NewFrame(s, role, t).stage = s
           /\ NewFrame(s, role, t).role = role
           /\ NewFrame(s, role, t).outer = inside[t]
           /\ NewFrame(s, role, t).previous = active[t]
           /\ NewFrame(s, role, t).mine = <<>>
           /\ NewFrame(s, role, t).item = 0
<1>1. <<>> \in Seq(Value) /\ 0 \in 0..N
  BY ParallelAssumption
<1> QED BY <1>1 DEF NewFrame, Frame, TypeOK

LEMMA CallPushes ==
    ASSUME TypeOK, NEW t \in Threads, NEW s \in Stages, Call(s, t)
    PROVE  \E g \in Frame :
            /\ Pushes(t, g) /\ g.stage = s /\ g.role \in {"wait", "inline"}
            /\ g.outer = inside[t] /\ g.previous = active[t]
            /\ g.mine = <<>> /\ g.item = 0
<1> DEFINE g == NewFrame(s, IF Inline(t) THEN "inline" ELSE "wait", t)
<1>1. /\ g \in Frame /\ g.stage = s /\ g.role \in {"wait", "inline"}
      /\ g.outer = inside[t] /\ g.previous = active[t]
      /\ g.mine = <<>> /\ g.item = 0
  BY NewFrameFields
<1>2. frames' = Pushed(t, g)
  BY DEF Call
<1> HIDE DEF g
<1> QED BY <1>1, <1>2, PushedIsPush DEF TypeOK

LEMMA StartCopyPushes ==
    ASSUME TypeOK, NEW t \in Threads, NEW s \in Stages, StartCopy(s, t)
    PROVE  \E g \in Frame :
            /\ Pushes(t, g) /\ g.stage = s /\ g.role = "copy"
            /\ g.outer = inside[t] /\ g.previous = active[t]
            /\ g.mine = <<>> /\ g.item = 0
<1> DEFINE g == NewFrame(s, "copy", t)
<1>1. /\ g \in Frame /\ g.stage = s /\ g.role = "copy"
      /\ g.outer = inside[t] /\ g.previous = active[t]
      /\ g.mine = <<>> /\ g.item = 0
  BY NewFrameFields
<1>2. frames' = Pushed(t, g)
  BY DEF StartCopy
<1> HIDE DEF g
<1> QED BY <1>1, <1>2, PushedIsPush DEF TypeOK

-----------------------------------------------------------------------------
(* Type correctness.                                                       *)
LEMMA TypeInit == Init => TypeOK
<1> SUFFICES ASSUME Init PROVE TypeOK
  OBVIOUS
<1>1. <<>> \in Seq(Frame) /\ <<>> \in Seq(Value)
  OBVIOUS
<1>2. 0 \in 0..Workers
  BY ParallelAssumption
<1> QED BY <1>1, <1>2 DEF Init, TypeOK, Outcomes

(* The frames on top have a stage and, in hand, an item of it.             *)
LEMMA TopFields ==
    ASSUME TypeOK, NEW t \in Threads, Busy(t)
    PROVE  /\ Top(t).stage \in Stages /\ Top(t).item \in 0..N
           /\ Top(t).outer \in BOOLEAN /\ Top(t).previous \in Watches \cup {NoWatch}
           /\ Top(t).mine \in Seq(Value)
           /\ Top(t).role \in {"wait", "take", "inline", "copy"}
  BY TopIsFrame DEF TypeOK, Frame

LEMMA RanType ==
    ASSUME TypeOK, NEW s \in Stages, NEW i \in 1..N,
           ran' = [ran EXCEPT ![s][i] = @ + 1]
    PROVE  /\ ran' \in [Stages -> [1..N -> Nat]]
           /\ ran'[s][i] = ran[s][i] + 1
           /\ \A r \in Stages, j \in 1..N : (r # s \/ j # i) => ran'[r][j] = ran[r][j]
<1>1. ran \in [Stages -> [1..N -> Nat]]
  BY DEF TypeOK
<1>2. ran[s][i] \in Nat
  BY <1>1
<1>3. ran[s][i] + 1 \in Nat
  BY <1>2
<1> QED BY <1>1, <1>3

LEMMA TypeStep ==
    ASSUME TypeOK, [Next]_vars, result' \in [Stages -> Seq(Value)]
    PROVE  TypeOK'
<1>1. ASSUME NEW t \in Threads, Claim(t) PROVE TypeOK'
  <2>1. Busy(t) /\ next' = [next EXCEPT ![Top(t).stage] = @ + 1]
    BY <1>1, ClaimChanges
  <2>2. next' \in [Stages -> Nat]
    BY <2>1, TopFields DEF TypeOK
  <2>3. frames' \in [Threads -> Seq(Frame)]
    BY <1>1, ClaimChanges DEF Changes
  <2> QED BY <1>1, <2>2, <2>3 DEF TypeOK, Claim
<1>2. ASSUME NEW t \in Threads, TakeInline(t) PROVE TypeOK'
  <2>1. frames' \in [Threads -> Seq(Frame)]
    BY <1>2, TakeInlineChanges DEF Changes
  <2> QED BY <1>2, <2>1 DEF TypeOK, TakeInline
<1>3. ASSUME NEW t \in Threads, Compute(t) PROVE TypeOK'
  <2>1. frames' \in [Threads -> Seq(Frame)]
    BY <1>3, ComputeChanges DEF Changes
  <2>2. Top(t).stage \in Stages /\ Top(t).item \in 1..N
    BY <1>3, TopFields, ParallelAssumption DEF Compute, InHand
  <2>3. ran' \in [Stages -> [1..N -> Nat]]
    BY <1>3, <2>2, ComputeChanges, RanType
  <2> QED BY <1>3, <2>1, <2>3 DEF TypeOK, Compute
<1>4. ASSUME NEW t \in Threads, Gather(t) PROVE TypeOK'
  <2>1. frames' \in [Threads -> Seq(Frame)]
    BY <1>4, GatherChanges DEF Changes
  <2>2. parts' = [parts EXCEPT ![Top(t).stage] = <<>>] /\ <<>> \in Seq(Value)
    BY <1>4, GatherChanges
  <2>3. parts' \in [Stages -> Seq(Value)]
    BY <2>2 DEF TypeOK
  <2> QED BY <1>4, <2>1, <2>3 DEF TypeOK, Gather
<1>5. ASSUME NEW t \in Threads, Busy(t), Back(t)
      PROVE  frames' \in [Threads -> Seq(Frame)] /\ active' \in [Threads -> Watches \cup {NoWatch}]
  <2>1. active' = [active EXCEPT ![t] = Top(t).previous] /\ frames' \in [Threads -> Seq(Frame)]
    BY <1>5, BackPops DEF Pops
  <2> QED BY <1>5, <2>1, TopFields DEF TypeOK
<1>6. ASSUME NEW t \in Threads, FinishCopy(t) PROVE TypeOK'
  <2>1. Busy(t) /\ Back(t)
    BY <1>6 DEF FinishCopy, On
  <2>2. next' \in [Stages -> Nat]
    BY <1>6, <2>1, TopFields DEF TypeOK, FinishCopy, Advanced
  <2>3. parts[Top(t).stage] \o Top(t).mine \in Seq(Value)
    BY <2>1, TopFields, ConcatProperties DEF TypeOK
  <2>4. parts' \in [Stages -> Seq(Value)]
    BY <1>6, <2>1, <2>3, TopFields DEF TypeOK, FinishCopy
  <2>5. inside' \in [Threads -> BOOLEAN]
    BY <1>6, <2>1, TopFields DEF TypeOK, FinishCopy, Outer
  <2> QED BY <1>5, <1>6, <2>1, <2>2, <2>4, <2>5 DEF TypeOK, FinishCopy
<1>7. ASSUME NEW t \in Threads, PanicInCopy(t) PROVE TypeOK'
  <2>1. Busy(t) /\ Back(t) /\ Top(t).item # 0
    BY <1>7 DEF PanicInCopy, On, InHand
  <2>2. Top(t).stage \in Stages /\ Top(t).item \in 1..N
    BY <2>1, TopFields, ParallelAssumption
  <2>3. next' \in [Stages -> Nat] /\ panicked' \in [Stages -> BOOLEAN]
    BY <1>7, <2>2, ParallelAssumption DEF TypeOK, PanicInCopy
  <2>4. ran' \in [Stages -> [1..N -> Nat]]
    BY <1>7, <2>2, RanType DEF PanicInCopy
  <2>5. inside' \in [Threads -> BOOLEAN]
    BY <1>7, <2>1, TopFields DEF TypeOK, PanicInCopy, Outer
  <2> QED BY <1>5, <1>7, <2>1, <2>3, <2>4, <2>5 DEF TypeOK, PanicInCopy
<1>8. ASSUME NEW t \in Threads, PanicOnCaller(t) PROVE TypeOK'
  <2>1. Busy(t) /\ Back(t) /\ Top(t).item # 0
    BY <1>8 DEF PanicOnCaller, On, InHand
  <2>2. Top(t).stage \in Stages /\ Top(t).item \in 1..N
    BY <2>1, TopFields, ParallelAssumption
  <2>3. outcome' \in [Stages -> Outcomes]
    BY <1>8, <2>2 DEF TypeOK, PanicOnCaller, Outcomes
  <2>4. ran' \in [Stages -> [1..N -> Nat]]
    BY <1>8, <2>2, RanType DEF PanicOnCaller
  <2> QED BY <1>5, <1>8, <2>1, <2>3, <2>4 DEF TypeOK, PanicOnCaller
<1>9. ASSUME NEW t \in Threads, Resume(t) PROVE TypeOK'
  <2>1. Busy(t) /\ Back(t)
    BY <1>9 DEF Resume, On
  <2>2. outcome' \in [Stages -> Outcomes]
    BY <1>9, <2>1, TopFields DEF TypeOK, Resume, Outcomes
  <2> QED BY <1>5, <1>9, <2>1, <2>2 DEF TypeOK, Resume
<1>10. ASSUME NEW t \in Threads, Return(t) PROVE TypeOK'
  <2>1. Busy(t) /\ Back(t)
    BY <1>10 DEF Return, On
  <2>2. outcome' \in [Stages -> Outcomes]
    BY <1>10, <2>1, TopFields DEF TypeOK, Return, Outcomes
  <2> QED BY <1>5, <1>10, <2>1, <2>2 DEF TypeOK, Return
<1>11. ASSUME NEW t \in Threads, NEW s \in Stages, Call(s, t) PROVE TypeOK'
  <2>1. frames' \in [Threads -> Seq(Frame)]
    BY <1>11, CallPushes DEF Pushes
  <2>2. Watched(s, t) \in Watches \cup {NoWatch}
    BY DEF TypeOK, Watched, Watches
  <2>3. /\ active' \in [Threads -> Watches \cup {NoWatch}]
        /\ snap' \in [Stages -> Watches \cup {NoWatch}]
    BY <1>11, <2>2 DEF TypeOK, Call
  <2>4. outcome' \in [Stages -> Outcomes]
    BY <1>11 DEF TypeOK, Call, Outcomes
  <2> QED BY <1>11, <2>1, <2>3, <2>4 DEF TypeOK, Call
<1>12. ASSUME NEW t \in Threads, NEW s \in Stages, StartCopy(s, t) PROVE TypeOK'
  <2>1. frames' \in [Threads -> Seq(Frame)]
    BY <1>12, StartCopyPushes DEF Pushes
  <2>2. WithSnapshot(snap[s], t) \in Watches \cup {NoWatch}
    BY DEF TypeOK, WithSnapshot
  <2>3. active' \in [Threads -> Watches \cup {NoWatch}]
    BY <1>12, <2>2 DEF TypeOK, StartCopy
  <2>4. started' \in [Stages -> 0..Workers]
    BY <1>12, ParallelAssumption DEF TypeOK, StartCopy
  <2>5. inside' \in [Threads -> BOOLEAN]
    BY <1>12 DEF TypeOK, StartCopy
  <2> QED BY <1>12, <2>1, <2>3, <2>4, <2>5 DEF TypeOK, StartCopy
<1>13. ASSUME NEW w \in Watches \ {NoWatch}, Cancel(w) PROVE TypeOK'
  BY <1>13 DEF TypeOK, Cancel
<1>14. ASSUME UNCHANGED vars PROVE TypeOK'
  BY <1>14 DEF TypeOK, vars
<1> QED
  BY <1>1, <1>2, <1>3, <1>4, <1>6, <1>7, <1>8, <1>9, <1>10, <1>11, <1>12, <1>13, <1>14
     DEF Next, Step

-----------------------------------------------------------------------------
(* Calls stand.                                                            *)

(* Every frame stays where it is, with the stage and role it has.          *)
SameShape ==
    \A u \in Threads :
        /\ DOMAIN frames'[u] = DOMAIN frames[u]
        /\ Len(frames'[u]) = Len(frames[u])
        /\ \A k \in DOMAIN frames[u] :
            Alike(frames'[u][k], frames[u][k]) /\ frames'[u][k].role = frames[u][k].role

LEMMA ChangeKeepsShape ==
    ASSUME TypeOK, NEW t \in Threads, Busy(t), NEW g \in Frame, Changes(t, g),
           Alike(g, Top(t)), g.role = Top(t).role
    PROVE  SameShape
<1>1. Top(t) = frames[t][Len(frames[t])]
  BY TopIsFrame DEF TypeOK
<1> QED BY <1>1 DEF Changes, SameShape, Alike

(* A call that ends leaves no frame of its stage.                          *)
LEMMA LastOfStage ==
    ASSUME TypeOK, CallsStand, NEW t \in Threads, Busy(t), Top(t).role # "copy",
           Top(t).role = "wait" => CopiesReturned(Top(t).stage)
    PROVE  \A u \in Threads : \A k \in DOMAIN frames[u] :
            frames[u][k].stage = Top(t).stage => u = t /\ k = Len(frames[t])
<1>1. Len(frames[t]) \in DOMAIN frames[t] /\ Top(t) = frames[t][Len(frames[t])]
  BY TopIsFrame DEF TypeOK
<1> SUFFICES ASSUME NEW u \in Threads, NEW k \in DOMAIN frames[u],
                    frames[u][k].stage = Top(t).stage
             PROVE  u = t /\ k = Len(frames[t])
  OBVIOUS
<1>2. CASE frames[u][k].role # "copy"
  BY <1>1, <1>2 DEF CallsStand
<1>3. CASE frames[u][k].role = "copy" /\ Top(t).role = "wait"
  <2>1. u \in Holding(Top(t).stage, {"copy"})
    BY <1>3 DEF Holding
  <2> QED BY <1>3, <2>1 DEF CopiesReturned
<1>4. CASE frames[u][k].role = "copy" /\ Top(t).role # "wait"
  <2>0. PICK v \in Threads : \E j \in DOMAIN frames[v] :
          frames[v][j].stage = Top(t).stage /\ frames[v][j].role = "wait"
    BY <1>4 DEF CallsStand
  <2>1. PICK j \in DOMAIN frames[v] :
          frames[v][j].stage = Top(t).stage /\ frames[v][j].role = "wait"
    BY <2>0
  <2>2. v = t /\ j = Len(frames[t])
    BY <1>1, <2>1 DEF CallsStand
  <2> QED BY <1>1, <1>4, <2>1, <2>2
<1> QED BY <1>2, <1>3, <1>4

LEMMA CallsSameShape ==
    ASSUME CallsStand, SameShape, outcome' = outcome
    PROVE  CallsStand'
<1>1. ASSUME NEW u \in Threads, NEW k \in DOMAIN frames'[u]
      PROVE  /\ k \in DOMAIN frames[u] /\ frames'[u][k].stage = frames[u][k].stage
             /\ frames'[u][k].role = frames[u][k].role
  BY <1>1 DEF SameShape, Alike
<1>2. \A u \in Threads : DOMAIN frames'[u] = DOMAIN frames[u]
  BY DEF SameShape
<1> QED BY <1>1, <1>2 DEF CallsStand

LEMMA CallsPopCopy ==
    ASSUME TypeOK, CallsStand, NEW t \in Threads, Busy(t), Top(t).role = "copy",
           Pops(t), outcome' = outcome
    PROVE  CallsStand'
<1>1. Top(t) = frames[t][Len(frames[t])]
  BY TopIsFrame DEF TypeOK
<1>2. ASSUME NEW u \in Threads, NEW k \in DOMAIN frames'[u]
      PROVE  k \in DOMAIN frames[u] /\ frames'[u][k] = frames[u][k]
  BY <1>2 DEF Pops
<1>3. ASSUME NEW u \in Threads, NEW k \in DOMAIN frames[u], frames[u][k].role # "copy"
      PROVE  k \in DOMAIN frames'[u]
  BY <1>1, <1>3 DEF Pops
<1> QED BY <1>2, <1>3 DEF CallsStand

LEMMA CallsPopCall ==
    ASSUME TypeOK, CallsStand, NEW t \in Threads, Busy(t), Top(t).role # "copy",
           Top(t).role = "wait" => CopiesReturned(Top(t).stage), Pops(t),
           \A s \in Stages \ {Top(t).stage} : outcome'[s] = outcome[s]
    PROVE  CallsStand'
<1>1. Top(t) = frames[t][Len(frames[t])]
  BY TopIsFrame DEF TypeOK
<1>2. ASSUME NEW u \in Threads, NEW k \in DOMAIN frames'[u]
      PROVE  /\ k \in DOMAIN frames[u] /\ frames'[u][k] = frames[u][k]
             /\ frames[u][k].stage \in Stages \ {Top(t).stage}
  <2>1. k \in DOMAIN frames[u] /\ frames'[u][k] = frames[u][k] /\ ~(u = t /\ k = Len(frames[t]))
    BY <1>2 DEF Pops
  <2>2. frames[u][k] \in Frame
    BY <2>1, ElementOfSeq DEF TypeOK
  <2> QED BY <2>1, <2>2, LastOfStage DEF Frame
<1>3. ASSUME NEW u \in Threads, NEW k \in DOMAIN frames[u], frames[u][k].stage # Top(t).stage
      PROVE  k \in DOMAIN frames'[u]
  BY <1>1, <1>3 DEF Pops
<1> QED BY <1>2, <1>3 DEF CallsStand

LEMMA CallsStep ==
    ASSUME TypeOK, CallsStand, [Next]_vars
    PROVE  CallsStand'
<1>1. ASSUME NEW t \in Threads, Claim(t) PROVE CallsStand'
  BY <1>1, ClaimChanges, ChangeKeepsShape, CallsSameShape DEF Claim
<1>2. ASSUME NEW t \in Threads, TakeInline(t) PROVE CallsStand'
  BY <1>2, TakeInlineChanges, ChangeKeepsShape, CallsSameShape DEF TakeInline
<1>3. ASSUME NEW t \in Threads, Compute(t) PROVE CallsStand'
  BY <1>3, ComputeChanges, ChangeKeepsShape, CallsSameShape DEF Compute, InHand
<1>4. ASSUME NEW t \in Threads, Gather(t) PROVE CallsStand'
  <2>1. PICK g \in Frame : Changes(t, g) /\ Alike(g, Top(t)) /\ g.role = "take"
    BY <1>4, GatherChanges
  <2>2. Busy(t) /\ Top(t).role = "wait" /\ CopiesReturned(Top(t).stage) /\ outcome' = outcome
    BY <1>4, GatherChanges DEF Gather
  <2>3. Top(t) = frames[t][Len(frames[t])]
    BY <2>2, TopIsFrame DEF TypeOK
  <2>4. \A u \in Threads : \A k \in DOMAIN frames[u] :
          frames[u][k].stage = Top(t).stage => u = t /\ k = Len(frames[t])
    BY <2>2, LastOfStage
  <2>5. ASSUME NEW u \in Threads, NEW k \in DOMAIN frames'[u]
        PROVE  /\ k \in DOMAIN frames[u] /\ frames'[u][k].stage = frames[u][k].stage
               /\ frames'[u][k].role = "copy" <=> frames[u][k].role = "copy"
               /\ frames[u][k].role = "copy" => frames[u][k].stage # Top(t).stage
    BY <2>1, <2>2, <2>3, <2>4 DEF Changes, Alike
  <2>6. ASSUME NEW u \in Threads, NEW k \in DOMAIN frames[u],
               frames[u][k].stage # Top(t).stage
        PROVE  k \in DOMAIN frames'[u] /\ frames'[u][k] = frames[u][k]
    BY <2>1, <2>3, <2>6 DEF Changes
  <2> QED BY <2>2, <2>5, <2>6 DEF CallsStand
<1>5. ASSUME NEW t \in Threads, FinishCopy(t) \/ PanicInCopy(t) PROVE CallsStand'
  BY <1>5, BackPops, CallsPopCopy DEF FinishCopy, PanicInCopy, On
<1>6. ASSUME NEW t \in Threads, PanicOnCaller(t) \/ Resume(t) \/ Return(t) PROVE CallsStand'
  <2>1. /\ Busy(t) /\ Back(t) /\ Top(t).role # "copy"
        /\ Top(t).role = "wait" => CopiesReturned(Top(t).stage)
    BY <1>6 DEF PanicOnCaller, Resume, Return, On
  <2>2. \A s \in Stages \ {Top(t).stage} : outcome'[s] = outcome[s]
    BY <1>6 DEF PanicOnCaller, Resume, Return, TypeOK
  <2> QED BY <2>1, <2>2, BackPops, CallsPopCall
<1>7. ASSUME NEW t \in Threads, NEW s \in Stages, Call(s, t) PROVE CallsStand'
  <2>1. PICK g \in Frame : Pushes(t, g) /\ g.stage = s /\ g.role # "copy"
    BY <1>7, CallPushes
  <2>2. outcome[s] = "idle" /\ outcome' = [outcome EXCEPT ![s] = "running"]
    BY <1>7 DEF Call
  <2>3. \A u \in Threads : \A k \in DOMAIN frames[u] :
          frames[u][k].stage # s /\ outcome[frames[u][k].stage] = "running"
    BY <2>2 DEF CallsStand
  <2>4. ASSUME NEW u \in Threads, NEW k \in DOMAIN frames'[u]
        PROVE  \/ k \in DOMAIN frames[u] /\ frames'[u][k] = frames[u][k]
               \/ u = t /\ k = Len(frames[t]) + 1 /\ frames'[u][k] = g
    BY <2>1, <2>4 DEF Pushes
  <2>5. ASSUME NEW u \in Threads, NEW k \in DOMAIN frames[u]
        PROVE  k \in DOMAIN frames'[u] /\ frames'[u][k] = frames[u][k]
    BY <2>1, <2>5 DEF Pushes, TypeOK
  <2>6. \A r \in Stages : outcome'[r] = IF r = s THEN "running" ELSE outcome[r]
    BY <2>2 DEF TypeOK
  <2>7. \A u \in Threads : \A k \in DOMAIN frames[u] : frames[u][k].stage \in Stages
    BY FrameFields
  <2> QED BY <2>1, <2>3, <2>4, <2>5, <2>6, <2>7 DEF CallsStand
<1>8. ASSUME NEW t \in Threads, NEW s \in Stages, StartCopy(s, t) PROVE CallsStand'
  <2>1. PICK g \in Frame : Pushes(t, g) /\ g.stage = s /\ g.role = "copy"
    BY <1>8, StartCopyPushes
  <2>2. \E v \in Threads : \E h \in DOMAIN frames[v] :
          frames[v][h].stage = s /\ frames[v][h].role = "wait"
    BY <1>8 DEF StartCopy, Holding
  <2>3. outcome' = outcome
    BY <1>8 DEF StartCopy
  <2>4. ASSUME NEW u \in Threads, NEW k \in DOMAIN frames'[u]
        PROVE  \/ k \in DOMAIN frames[u] /\ frames'[u][k] = frames[u][k]
               \/ frames'[u][k] = g
    BY <2>1, <2>4 DEF Pushes
  <2>5. ASSUME NEW u \in Threads, NEW k \in DOMAIN frames[u]
        PROVE  k \in DOMAIN frames'[u] /\ frames'[u][k] = frames[u][k]
    BY <2>1, <2>5 DEF Pushes
  <2> QED BY <2>1, <2>2, <2>3, <2>4, <2>5 DEF CallsStand
<1>9. ASSUME NEW w \in Watches \ {NoWatch}, Cancel(w) PROVE CallsStand'
  BY <1>9 DEF CallsStand, Cancel
<1>10. ASSUME UNCHANGED vars PROVE CallsStand'
  BY <1>10 DEF CallsStand, vars
<1> QED BY <1>1, <1>2, <1>3, <1>4, <1>5, <1>6, <1>7, <1>8, <1>9, <1>10 DEF Next, Step

-----------------------------------------------------------------------------
(* Where the frames are after a change, a pop and a push.                  *)
LEMMA ChangedPositions ==
    ASSUME TypeOK, NEW t \in Threads, Busy(t), NEW g \in Frame, Changes(t, g)
    PROVE  /\ \A u \in Threads : \A k \in DOMAIN frames'[u] :
                /\ k \in DOMAIN frames[u]
                /\ u = t /\ k = Len(frames[t]) => frames'[u][k] = g
                /\ ~(u = t /\ k = Len(frames[t])) => frames'[u][k] = frames[u][k]
           /\ \A u \in Threads : \A k \in DOMAIN frames[u] :
                /\ k \in DOMAIN frames'[u]
                /\ u = t /\ k = Len(frames[t]) => frames[u][k] = Top(t)
           /\ Len(frames[t]) \in DOMAIN frames[t]
<1>1. Top(t) = frames[t][Len(frames[t])] /\ Len(frames[t]) \in DOMAIN frames[t]
  BY TopIsFrame DEF TypeOK
<1> QED BY <1>1 DEF Changes

LEMMA PoppedPositions ==
    ASSUME TypeOK, NEW t \in Threads, Busy(t), Pops(t)
    PROVE  /\ \A u \in Threads : \A k \in DOMAIN frames'[u] :
                /\ k \in DOMAIN frames[u] /\ frames'[u][k] = frames[u][k]
                /\ ~(u = t /\ k = Len(frames[t]))
           /\ \A u \in Threads : \A k \in DOMAIN frames[u] :
                /\ ~(u = t /\ k = Len(frames[t])) => k \in DOMAIN frames'[u]
                /\ u = t /\ k = Len(frames[t]) => frames[u][k] = Top(t)
           /\ Len(frames[t]) \in DOMAIN frames[t]
<1>1. Top(t) = frames[t][Len(frames[t])] /\ Len(frames[t]) \in DOMAIN frames[t]
  BY TopIsFrame DEF TypeOK
<1> QED BY <1>1 DEF Pops

LEMMA PushedPositions ==
    ASSUME TypeOK, NEW t \in Threads, NEW g \in Frame, Pushes(t, g)
    PROVE  /\ \A u \in Threads : \A k \in DOMAIN frames'[u] :
                \/ /\ k \in DOMAIN frames[u] /\ frames'[u][k] = frames[u][k]
                   /\ ~(u = t /\ k = Len(frames[t]) + 1)
                \/ u = t /\ k = Len(frames[t]) + 1 /\ frames'[u][k] = g
           /\ \A u \in Threads : \A k \in DOMAIN frames[u] :
                k \in DOMAIN frames'[u] /\ frames'[u][k] = frames[u][k]
           /\ Len(frames[t]) + 1 \in DOMAIN frames'[t]
  BY DEF Pushes

(* An item in hand stays there but for the one the thread had.             *)
LEMMA InHandKept ==
    ASSUME TypeOK, NEW t \in Threads, Busy(t),
           Pops(t) \/ \E g \in Frame : Changes(t, g),
           NEW s, NEW i, InHandOf(s, i), ~(Top(t).stage = s /\ Top(t).item = i)
    PROVE  InHandOf(s, i)'
<1>1. PICK u \in Threads : \E k \in DOMAIN frames[u] :
        frames[u][k].stage = s /\ frames[u][k].item = i
  BY DEF InHandOf
<1>2. PICK k \in DOMAIN frames[u] : frames[u][k].stage = s /\ frames[u][k].item = i
  BY <1>1
<1>3. k \in DOMAIN frames'[u] /\ frames'[u][k] = frames[u][k]
  BY <1>2, ChangedPositions, PoppedPositions
<1> QED BY <1>2, <1>3 DEF InHandOf

(* A stage has one call.                                                   *)
LEMMA OneCall ==
    ASSUME CallsStand, NEW t \in Threads, NEW u \in Threads,
           NEW k \in DOMAIN frames[t], NEW j \in DOMAIN frames[u],
           frames[t][k].stage = frames[u][j].stage,
           frames[t][k].role # "copy", frames[u][j].role # "copy"
    PROVE  t = u /\ k = j
  BY DEF CallsStand

(* A stage called inline has no frame but its call.                        *)
LEMMA InlineAlone ==
    ASSUME CallsStand, NEW t \in Threads, NEW u \in Threads,
           NEW k \in DOMAIN frames[t], NEW j \in DOMAIN frames[u],
           frames[t][k].role = "inline", frames[u][j].stage = frames[t][k].stage
    PROVE  u = t /\ j = k
<1>1. CASE frames[u][j].role # "copy"
  BY <1>1 DEF CallsStand
<1>2. CASE frames[u][j].role = "copy"
  <2>1. PICK v \in Threads : \E h \in DOMAIN frames[v] :
          frames[v][h].stage = frames[t][k].stage /\ frames[v][h].role = "wait"
    BY <1>2 DEF CallsStand
  <2>2. PICK h \in DOMAIN frames[v] :
          frames[v][h].stage = frames[t][k].stage /\ frames[v][h].role = "wait"
    BY <2>1
  <2>3. v = t /\ h = k
    BY <2>2 DEF CallsStand
  <2> QED BY <2>2, <2>3
<1> QED BY <1>1, <1>2

-----------------------------------------------------------------------------
(* What the steps of a thread in a call leave alone.                       *)
Acts(t) ==
    \/ Claim(t) \/ TakeInline(t) \/ Compute(t) \/ Gather(t)
    \/ FinishCopy(t) \/ PanicInCopy(t) \/ PanicOnCaller(t) \/ Resume(t) \/ Return(t)

LEMMA NextCases ==
    ASSUME [Next]_vars
    PROVE  \/ \E t \in Threads : Acts(t)
           \/ \E t \in Threads, s \in Stages : Call(s, t) \/ StartCopy(s, t)
           \/ \E w \in Watches \ {NoWatch} : Cancel(w)
           \/ UNCHANGED vars
  BY DEF Next, Step, Acts

LEMMA TopRuns ==
    ASSUME TypeOK, CallsStand, NEW t \in Threads, Busy(t)
    PROVE  outcome[Top(t).stage] = "running"
  BY TopIsFrame DEF TypeOK, CallsStand

LEMMA ActsApart ==
    ASSUME TypeOK, NEW t \in Threads, Acts(t)
    PROVE  /\ Busy(t)
           /\ snap' = snap
           /\ \A s \in Stages \ {Top(t).stage} :
                /\ next'[s] = next[s] /\ parts'[s] = parts[s]
                /\ panicked'[s] = panicked[s] /\ ran'[s] = ran[s]
                /\ outcome'[s] = outcome[s] /\ result'[s] = result[s]
           /\ \/ outcome' = outcome
              \/ outcome' = [outcome EXCEPT ![Top(t).stage] = "returned"]
              \/ outcome' = [outcome EXCEPT ![Top(t).stage] = "unwound"]
<1>1. Busy(t)
  BY DEF Acts, Claim, TakeInline, Compute, Gather, FinishCopy, PanicInCopy, PanicOnCaller,
         Resume, Return, On, InHand
<1>2. Top(t).stage \in Stages
  BY <1>1, TopFields
<1>3. CASE Claim(t)
  BY <1>1, <1>2, <1>3 DEF Claim, TypeOK
<1>4. CASE TakeInline(t)
  BY <1>1, <1>2, <1>4 DEF TakeInline, TypeOK
<1>5. CASE Compute(t)
  BY <1>1, <1>2, <1>5 DEF Compute, TypeOK
<1>6. CASE Gather(t)
  BY <1>1, <1>2, <1>6 DEF Gather, TypeOK
<1>7. CASE FinishCopy(t)
  BY <1>1, <1>2, <1>7 DEF FinishCopy, TypeOK
<1>8. CASE PanicInCopy(t)
  BY <1>1, <1>2, <1>8 DEF PanicInCopy, TypeOK
<1>9. CASE PanicOnCaller(t)
  BY <1>1, <1>2, <1>9 DEF PanicOnCaller, TypeOK
<1>10. CASE Resume(t)
  BY <1>1, <1>2, <1>10 DEF Resume, TypeOK
<1>11. CASE Return(t)
  BY <1>1, <1>2, <1>11 DEF Return, TypeOK
<1> QED BY <1>3, <1>4, <1>5, <1>6, <1>7, <1>8, <1>9, <1>10, <1>11 DEF Acts

LEMMA IdleStep ==
    ASSUME TypeOK, CallsStand, IdleUntouched, [Next]_vars
    PROVE  IdleUntouched'
<1>1. ASSUME NEW t \in Threads, Acts(t) PROVE IdleUntouched'
  <2>1. Busy(t) /\ outcome[Top(t).stage] = "running" /\ Top(t).stage \in Stages
    BY <1>1, ActsApart, TopRuns, TopFields
  <2>2. outcome'[Top(t).stage] # "idle"
    BY <1>1, <2>1, ActsApart DEF TypeOK
  <2> QED BY <1>1, <2>1, <2>2, ActsApart DEF IdleUntouched
<1>2. ASSUME NEW t \in Threads, NEW s \in Stages, Call(s, t) PROVE IdleUntouched'
  BY <1>2 DEF Call, IdleUntouched, TypeOK
<1>3. ASSUME NEW t \in Threads, NEW s \in Stages, StartCopy(s, t) PROVE IdleUntouched'
  BY <1>3 DEF StartCopy, IdleUntouched
<1>4. ASSUME NEW w \in Watches \ {NoWatch}, Cancel(w) PROVE IdleUntouched'
  BY <1>4 DEF Cancel, IdleUntouched
<1>5. ASSUME UNCHANGED vars PROVE IdleUntouched'
  BY <1>5 DEF vars, IdleUntouched
<1> QED BY <1>1, <1>2, <1>3, <1>4, <1>5, NextCases

-----------------------------------------------------------------------------
(* Items are claimed once.                                                 *)

(* What ClaimsHold says of one frame.                                      *)
ClaimHeld(f) ==
    f.item # 0 =>
        /\ f.role # "wait"
        /\ ran[f.stage][f.item] = 0
        /\ f.role = "inline" => f.item = Len(f.mine) + 1
        /\ f.role # "inline" => f.item < next[f.stage]

LEMMA ClaimsByFrame ==
    ClaimsHold <=>
        /\ \A t \in Threads : \A k \in DOMAIN frames[t] : ClaimHeld(frames[t][k])
        /\ \A t, u \in Threads : \A k \in DOMAIN frames[t], j \in DOMAIN frames[u] :
            (/\ frames[t][k].stage = frames[u][j].stage
             /\ frames[t][k].item = frames[u][j].item /\ frames[t][k].item # 0)
                => t = u /\ k = j
  BY DEF ClaimsHold, ClaimHeld

(* The next item of a stage that is not inline is claimed by nobody.       *)
LEMMA NextUnclaimed ==
    ASSUME TypeOK, CallsStand, ClaimsHold, ClaimedOrDone,
           NEW t \in Threads, NEW k \in DOMAIN frames[t], frames[t][k].role # "inline",
           next[frames[t][k].stage] \in 1..N
    PROVE  /\ ran[frames[t][k].stage][next[frames[t][k].stage]] = 0
           /\ \A u \in Threads : \A j \in DOMAIN frames[u] :
                frames[u][j].stage = frames[t][k].stage =>
                    frames[u][j].item # next[frames[t][k].stage]
<1> DEFINE s == frames[t][k].stage
<1>1. s \in Stages /\ next[s] \in Nat
  BY FrameFields DEF TypeOK
<1>2. ran[s][next[s]] # 1
  BY <1>1 DEF ClaimedOrDone
<1>3. ran[s][next[s]] = 0
  BY <1>1, <1>2 DEF ClaimedOrDone
<1>4. ASSUME NEW u \in Threads, NEW j \in DOMAIN frames[u], frames[u][j].stage = s
      PROVE  frames[u][j].item # next[s]
  <2>1. frames[u][j].role # "inline"
    BY <1>4, InlineAlone
  <2> QED BY <1>1, <1>4, <2>1, FrameFields DEF ClaimsHold
<1> QED BY <1>3, <1>4

(* Frames left as they are keep their claims while what they hold is not   *)
(* run and the counter does not fall behind them.                          *)
StillClaimed(f) ==
    f.item # 0 => /\ ran'[f.stage][f.item] = 0
                  /\ next'[f.stage] = next[f.stage] \/ f.item < next'[f.stage]

LEMMA ClaimHeldKept ==
    ASSUME NEW h \in Frame, ClaimHeld(h), StillClaimed(h)
    PROVE  ClaimHeld(h)'
  BY DEF ClaimHeld, StillClaimed

LEMMA ClaimsChange ==
    ASSUME TypeOK, ClaimsHold, NEW t \in Threads, Busy(t), NEW g \in Frame, Changes(t, g),
           ClaimHeld(g)',
           \A u \in Threads : \A k \in DOMAIN frames[u] : ~(u = t /\ k = Len(frames[t])) =>
                /\ StillClaimed(frames[u][k])
                /\ (frames[u][k].stage = g.stage /\ frames[u][k].item = g.item) => g.item = 0
    PROVE  ClaimsHold'
<1>1. ASSUME NEW u \in Threads, NEW k \in DOMAIN frames'[u]
      PROVE  \E h \in Frame : h = frames'[u][k] /\ ClaimHeld(h)'
  <2>1. CASE u = t /\ k = Len(frames[t])
    BY <1>1, <2>1, ChangedPositions
  <2>2. CASE ~(u = t /\ k = Len(frames[t]))
    <3> DEFINE h == frames[u][k]
    <3>1. k \in DOMAIN frames[u] /\ frames'[u][k] = h
      BY <1>1, <2>2, ChangedPositions
    <3>2. h \in Frame /\ ClaimHeld(h) /\ StillClaimed(h)
      BY <2>2, <3>1, FrameFields, ClaimsByFrame
    <3>3. PICK q \in Frame : q = h
      BY <3>2
    <3>4. ClaimHeld(q) /\ StillClaimed(q)
      BY <3>2, <3>3 DEF ClaimHeld, StillClaimed
    <3>5. ClaimHeld(q)'
      BY <3>4, ClaimHeldKept
    <3> QED BY <3>1, <3>3, <3>5
  <2> QED BY <2>1, <2>2
<1>2. ASSUME NEW u \in Threads, NEW k \in DOMAIN frames'[u]
      PROVE  ClaimHeld(frames[u][k])'
  <2>1. PICK h \in Frame : h = frames'[u][k] /\ ClaimHeld(h)'
    BY <1>1, <1>2
  <2> QED BY <2>1 DEF ClaimHeld
<1>3. ASSUME NEW u \in Threads, NEW v \in Threads,
             NEW k \in DOMAIN frames'[u], NEW j \in DOMAIN frames'[v],
             frames'[u][k].stage = frames'[v][j].stage,
             frames'[u][k].item = frames'[v][j].item, frames'[u][k].item # 0
      PROVE  u = v /\ k = j
  <2>1. k \in DOMAIN frames[u] /\ j \in DOMAIN frames[v]
    BY <1>3, ChangedPositions
  <2>2. CASE (u = t /\ k = Len(frames[t])) /\ ~(v = t /\ j = Len(frames[t]))
    BY <1>3, <2>1, <2>2, ChangedPositions
  <2>3. CASE ~(u = t /\ k = Len(frames[t])) /\ (v = t /\ j = Len(frames[t]))
    BY <1>3, <2>1, <2>3, ChangedPositions
  <2>4. CASE ~(u = t /\ k = Len(frames[t])) /\ ~(v = t /\ j = Len(frames[t]))
    BY <1>3, <2>1, <2>4, ChangedPositions DEF ClaimsHold
  <2> QED BY <2>2, <2>3, <2>4
<1> QED BY <1>2, <1>3 DEF ClaimsHold, ClaimHeld

LEMMA ClaimsPop ==
    ASSUME TypeOK, ClaimsHold, NEW t \in Threads, Busy(t), Pops(t),
           \A u \in Threads : \A k \in DOMAIN frames[u] : ~(u = t /\ k = Len(frames[t])) =>
                StillClaimed(frames[u][k])
    PROVE  ClaimsHold'
<1>1. ASSUME NEW u \in Threads, NEW k \in DOMAIN frames'[u]
      PROVE  k \in DOMAIN frames[u] /\ frames'[u][k] = frames[u][k]
             /\ ClaimHeld(frames[u][k]) /\ StillClaimed(frames[u][k])
  BY <1>1, PoppedPositions, ClaimsByFrame
<1> QED BY <1>1 DEF ClaimsHold, ClaimHeld, StillClaimed

LEMMA ClaimsPush ==
    ASSUME TypeOK, ClaimsHold, NEW t \in Threads, NEW g \in Frame, Pushes(t, g), g.item = 0,
           next' = next, ran' = ran
    PROVE  ClaimsHold'
<1>1. ASSUME NEW u \in Threads, NEW k \in DOMAIN frames'[u], frames'[u][k].item # 0
      PROVE  k \in DOMAIN frames[u] /\ frames'[u][k] = frames[u][k]
  BY <1>1, PushedPositions
<1> QED BY <1>1 DEF ClaimsHold

LEMMA ClaimsStep ==
    ASSUME TypeOK, CallsStand, ClaimsHold, ClaimedOrDone, [Next]_vars
    PROVE  ClaimsHold'
<1>1. \A u \in Threads : \A k \in DOMAIN frames[u] :
        /\ frames[u][k].stage \in Stages /\ frames[u][k].item \in 0..N
        /\ ClaimHeld(frames[u][k])
  BY FrameFields, ClaimsByFrame
<1>2. ASSUME NEW t \in Threads, Busy(t), Top(t).item # 0,
             NEW u \in Threads, NEW k \in DOMAIN frames[u], ~(u = t /\ k = Len(frames[t]))
      PROVE  frames[u][k].stage # Top(t).stage \/ frames[u][k].item # Top(t).item
  BY <1>2, TopIsFrame DEF ClaimsHold, TypeOK
<1>3. ASSUME NEW t \in Threads, Busy(t), Top(t).item # 0,
             ran' = [ran EXCEPT ![Top(t).stage][Top(t).item] = @ + 1],
             NEW u \in Threads, NEW k \in DOMAIN frames[u], ~(u = t /\ k = Len(frames[t])),
             frames[u][k].item # 0
      PROVE  ran'[frames[u][k].stage][frames[u][k].item] = 0
  <2>1. Top(t).stage \in Stages /\ Top(t).item \in 1..N /\ frames[u][k].item \in 1..N
    BY <1>1, <1>3, TopFields, ParallelAssumption
  <2>2. ran[frames[u][k].stage][frames[u][k].item] = 0
    BY <1>1, <1>3 DEF ClaimHeld
  <2> QED BY <1>1, <1>2, <1>3, <2>1, <2>2, RanType
<1>4. ASSUME NEW t \in Threads, Claim(t) PROVE ClaimsHold'
  <2> DEFINE f == Top(t)
             s == f.stage
  <2>1. /\ Busy(t) /\ f.role \in {"copy", "take"} /\ next[s] \in 0..N
        /\ next' = [next EXCEPT ![s] = @ + 1] /\ ran' = ran
    BY <1>4, ClaimChanges DEF Claim
  <2>2. PICK g \in Frame : /\ Changes(t, g) /\ g.stage = s /\ g.role = f.role
                           /\ g.item = next[s]
    BY <1>4, ClaimChanges DEF Alike
  <2>3. Len(frames[t]) \in DOMAIN frames[t] /\ f = frames[t][Len(frames[t])] /\ s \in Stages
    BY <2>1, TopIsFrame, TopFields DEF TypeOK
  <2>4. next[s] # 0 =>
          /\ ran[s][next[s]] = 0
          /\ \A u \in Threads : \A j \in DOMAIN frames[u] :
                frames[u][j].stage = s => frames[u][j].item # next[s]
    BY <2>1, <2>3, NextUnclaimed, ParallelAssumption
  <2>5. \A r \in Stages : next[r] \in Nat /\ next'[r] = IF r = s THEN next[r] + 1 ELSE next[r]
    BY <2>1 DEF TypeOK
  <2>6. ClaimHeld(g)'
    BY <2>1, <2>2, <2>3, <2>4, <2>5 DEF ClaimHeld
  <2>7. ASSUME NEW u \in Threads, NEW k \in DOMAIN frames[u], ~(u = t /\ k = Len(frames[t]))
        PROVE  StillClaimed(frames[u][k])
    <3>1. CASE frames[u][k].role # "inline"
      BY <1>1, <2>1, <2>5, <3>1 DEF ClaimHeld, StillClaimed
    <3>2. CASE frames[u][k].role = "inline"
      <4>1. frames[u][k].stage # s
        BY <2>1, <2>3, <2>7, <3>2, InlineAlone
      <4> QED BY <1>1, <2>1, <2>5, <4>1 DEF ClaimHeld, StillClaimed
    <3> QED BY <3>1, <3>2
  <2> QED BY <2>1, <2>2, <2>4, <2>6, <2>7, ClaimsChange
<1>5. ASSUME NEW t \in Threads, TakeInline(t) PROVE ClaimsHold'
  <2> DEFINE f == Top(t)
  <2>1. /\ Busy(t) /\ f.role = "inline" /\ Len(f.mine) + 1 \in 1..N
        /\ next' = next /\ ran' = ran
    BY <1>5, TakeInlineChanges DEF TakeInline
  <2>2. PICK g \in Frame : /\ Changes(t, g) /\ g.stage = f.stage /\ g.role = "inline"
                           /\ g.mine = f.mine /\ g.item = Len(f.mine) + 1
    BY <1>5, TakeInlineChanges DEF Alike
  <2>3. /\ Len(frames[t]) \in DOMAIN frames[t] /\ f = frames[t][Len(frames[t])]
        /\ f.stage \in Stages /\ Len(f.mine) \in Nat
    BY <2>1, TopIsFrame, TopFields DEF TypeOK
  <2>4. ran[f.stage][Len(f.mine) + 1] = 0
    BY <2>1, <2>3 DEF ClaimedOrDone
  <2>5. ClaimHeld(g)'
    BY <2>1, <2>2, <2>4 DEF ClaimHeld
  <2>6. ASSUME NEW u \in Threads, NEW k \in DOMAIN frames[u], ~(u = t /\ k = Len(frames[t]))
        PROVE  StillClaimed(frames[u][k]) /\ frames[u][k].stage # g.stage
    BY <1>1, <2>1, <2>2, <2>3, <2>6, InlineAlone DEF ClaimHeld, StillClaimed
  <2> QED BY <2>1, <2>2, <2>5, <2>6, ClaimsChange
<1>6. ASSUME NEW t \in Threads, Compute(t) PROVE ClaimsHold'
  <2>1. Busy(t) /\ Top(t).item # 0 /\ next' = next
    BY <1>6 DEF Compute, InHand
  <2>2. PICK g \in Frame : Changes(t, g) /\ g.item = 0
    BY <1>6, ComputeChanges
  <2>3. \A u \in Threads : \A k \in DOMAIN frames[u] : ~(u = t /\ k = Len(frames[t])) =>
          StillClaimed(frames[u][k])
    BY <1>3, <1>6, <2>1, ComputeChanges DEF StillClaimed
  <2>4. ClaimHeld(g)'
    BY <2>2 DEF ClaimHeld
  <2> QED BY <2>1, <2>2, <2>3, <2>4, ClaimsChange
<1>7. ASSUME NEW t \in Threads, Gather(t) PROVE ClaimsHold'
  <2>1. Busy(t) /\ Top(t).role = "wait" /\ next' = next /\ ran' = ran
    BY <1>7, GatherChanges DEF Gather
  <2>2. Top(t).item = 0
    BY <1>1, <2>1, TopIsFrame DEF ClaimHeld, TypeOK
  <2>3. PICK g \in Frame : Changes(t, g) /\ g.item = 0
    BY <1>7, <2>2, GatherChanges
  <2>4. ClaimHeld(g)'
    BY <2>3 DEF ClaimHeld
  <2>5. \A u \in Threads : \A k \in DOMAIN frames[u] : StillClaimed(frames[u][k])
    BY <1>1, <2>1 DEF ClaimHeld, StillClaimed
  <2> QED BY <2>1, <2>3, <2>4, <2>5, ClaimsChange
<1>8. ASSUME NEW t \in Threads, FinishCopy(t) PROVE ClaimsHold'
  <2>1. Busy(t) /\ Back(t) /\ ran' = ran /\ next' = [next EXCEPT ![Top(t).stage] = @ + 1]
    BY <1>8 DEF FinishCopy, On, Advanced
  <2>2. next' \in [Stages -> Nat] /\ \A s \in Stages : next[s] <= next'[s]
    BY <2>1, TopFields DEF TypeOK
  <2>3. \A s \in Stages : ~ItemsLeft(s) => N < next'[s]
    BY <2>2, ParallelAssumption DEF ItemsLeft, TypeOK
  <2>4. ~ItemsLeft(Top(t).stage)
    BY <1>8 DEF FinishCopy
  <2>5. ASSUME NEW u \in Threads, NEW k \in DOMAIN frames[u]
        PROVE  StillClaimed(frames[u][k])
    <3>1. CASE frames[u][k].stage = Top(t).stage
      BY <1>1, <2>1, <2>2, <2>3, <2>4, <3>1, ParallelAssumption DEF ClaimHeld, StillClaimed
    <3>2. CASE frames[u][k].stage # Top(t).stage
      BY <1>1, <2>1, <3>2 DEF ClaimHeld, StillClaimed, TypeOK
    <3> QED BY <3>1, <3>2
  <2> QED BY <2>1, <2>5, BackPops, ClaimsPop
<1>9. ASSUME NEW t \in Threads, PanicInCopy(t) PROVE ClaimsHold'
  <2>1. /\ Busy(t) /\ Back(t) /\ Top(t).item # 0
        /\ ran' = [ran EXCEPT ![Top(t).stage][Top(t).item] = @ + 1]
        /\ next' = [next EXCEPT ![Top(t).stage] = N + 1]
    BY <1>9 DEF PanicInCopy, On, InHand
  <2>2. ASSUME NEW u \in Threads, NEW k \in DOMAIN frames[u]
        PROVE  next'[frames[u][k].stage] = next[frames[u][k].stage]
                \/ frames[u][k].item < next'[frames[u][k].stage]
    BY <1>1, <2>1, ParallelAssumption DEF TypeOK
  <2>3. \A u \in Threads : \A k \in DOMAIN frames[u] : ~(u = t /\ k = Len(frames[t])) =>
          StillClaimed(frames[u][k])
    BY <1>3, <2>1, <2>2 DEF StillClaimed
  <2> QED BY <2>1, <2>3, BackPops, ClaimsPop
<1>10. ASSUME NEW t \in Threads, PanicOnCaller(t) PROVE ClaimsHold'
  <2>1. /\ Busy(t) /\ Back(t) /\ Top(t).item # 0 /\ next' = next
        /\ ran' = [ran EXCEPT ![Top(t).stage][Top(t).item] = @ + 1]
    BY <1>10 DEF PanicOnCaller, On, InHand
  <2>2. \A u \in Threads : \A k \in DOMAIN frames[u] : ~(u = t /\ k = Len(frames[t])) =>
          StillClaimed(frames[u][k])
    BY <1>3, <2>1 DEF StillClaimed
  <2> QED BY <2>1, <2>2, BackPops, ClaimsPop
<1>11. ASSUME NEW t \in Threads, Resume(t) \/ Return(t) PROVE ClaimsHold'
  <2>1. Busy(t) /\ Back(t) /\ next' = next /\ ran' = ran
    BY <1>11 DEF Resume, Return, On
  <2>2. \A u \in Threads : \A k \in DOMAIN frames[u] : StillClaimed(frames[u][k])
    BY <1>1, <2>1 DEF ClaimHeld, StillClaimed
  <2> QED BY <2>1, <2>2, BackPops, ClaimsPop
<1>12. ASSUME NEW t \in Threads, NEW s \in Stages, Call(s, t) \/ StartCopy(s, t)
       PROVE  ClaimsHold'
  <2>1. next' = next /\ ran' = ran
    BY <1>12 DEF Call, StartCopy
  <2> QED BY <1>12, <2>1, CallPushes, StartCopyPushes, ClaimsPush
<1>13. ASSUME NEW w \in Watches \ {NoWatch}, Cancel(w) PROVE ClaimsHold'
  BY <1>13 DEF Cancel, ClaimsHold
<1>14. ASSUME UNCHANGED vars PROVE ClaimsHold'
  BY <1>14 DEF vars, ClaimsHold
<1> QED
  BY <1>4, <1>5, <1>6, <1>7, <1>8, <1>9, <1>10, <1>11, <1>12, <1>13, <1>14, NextCases DEF Acts

-----------------------------------------------------------------------------
(* What was claimed ran or is in hand.                                     *)
StageDone(s) ==
    \A i \in 1..N :
        /\ ran[s][i] = 1 => i < next[s]
        /\ (i < next[s] /\ ~panicked[s]) => ran[s][i] = 1 \/ InHandOf(s, i)

InlineDone(f) == \A i \in 1..N : ran[f.stage][i] = 1 <=> i <= Len(f.mine)

LEMMA DoneByFrame ==
    ClaimedOrDone <=>
        /\ \A s \in Stages, i \in 1..N : ran[s][i] \in {0, 1}
        /\ \A t \in Threads : \A k \in DOMAIN frames[t] :
            IF frames[t][k].role = "inline" THEN InlineDone(frames[t][k])
                                            ELSE StageDone(frames[t][k].stage)
        /\ \A s \in Stages, i \in 1..N : outcome[s] = "returned" => ran[s][i] = 1
  BY DEF ClaimedOrDone, StageDone, InlineDone

LEMMA OtherStagesDone ==
    ASSUME TypeOK, NEW t \in Threads, Acts(t), Pops(t) \/ \E g \in Frame : Changes(t, g),
           NEW s \in Stages, s # Top(t).stage, StageDone(s)
    PROVE  StageDone(s)'
<1>1. /\ Busy(t) /\ next'[s] = next[s] /\ panicked'[s] = panicked[s] /\ ran'[s] = ran[s]
  BY ActsApart
<1>2. \A i \in 1..N : InHandOf(s, i) => InHandOf(s, i)'
  BY <1>1, InHandKept
<1> QED BY <1>1, <1>2 DEF StageDone

(* The frames a step leaves are done where those of its own stage are.     *)
LEMMA FramesDone ==
    ASSUME TypeOK, CallsStand, ClaimedOrDone, NEW t \in Threads, Acts(t),
           NEW s \in Stages, s = Top(t).stage,
           \/ Pops(t)
           \/ \E g \in Frame :
                /\ Changes(t, g) /\ g.stage = s
                /\ g.role = "inline" <=> Top(t).role = "inline"
                /\ g.role = "inline" => InlineDone(g)',
           \/ Top(t).role = "inline"
           \/ StageDone(s)'
           \/ \A u \in Threads : \A k \in DOMAIN frames'[u] : frames'[u][k].stage # s
    PROVE  \A u \in Threads : \A k \in DOMAIN frames'[u] :
            IF frames'[u][k].role = "inline" THEN InlineDone(frames[u][k])'
                                             ELSE StageDone(frames[u][k].stage)'
<1>1. Busy(t)
  BY ActsApart
<1>2. Len(frames[t]) \in DOMAIN frames[t] /\ Top(t) = frames[t][Len(frames[t])]
  BY <1>1, TopIsFrame DEF TypeOK
<1> SUFFICES ASSUME NEW u \in Threads, NEW k \in DOMAIN frames'[u]
             PROVE  IF frames'[u][k].role = "inline" THEN InlineDone(frames[u][k])'
                                                     ELSE StageDone(frames[u][k].stage)'
  OBVIOUS
<1>3. CASE u = t /\ k = Len(frames[t])
  <2>1. PICK g \in Frame :
          /\ Changes(t, g) /\ g.stage = s
          /\ g.role = "inline" <=> Top(t).role = "inline"
          /\ g.role = "inline" => InlineDone(g)'
    BY <1>1, <1>3, PoppedPositions
  <2>2. frames'[u][k] = g
    BY <1>1, <1>3, <2>1, ChangedPositions
  <2>3. CASE g.role = "inline"
    BY <2>1, <2>2, <2>3 DEF InlineDone
  <2>4. CASE g.role # "inline"
    <3>1. StageDone(s)'
      BY <1>3, <2>1, <2>2, <2>4
    <3>2. frames'[u][k].stage = s /\ frames'[u][k].role # "inline"
      BY <2>1, <2>2, <2>4
    <3> QED BY <3>1, <3>2 DEF StageDone, InHandOf
  <2> QED BY <2>3, <2>4
<1>4. CASE ~(u = t /\ k = Len(frames[t]))
  <2> DEFINE h == frames[u][k]
  <2>1. k \in DOMAIN frames[u] /\ frames'[u][k] = h
    BY <1>1, <1>4, PoppedPositions, ChangedPositions
  <2>2. h.stage \in Stages
    BY <2>1, FrameFields
  <2>3. IF h.role = "inline" THEN InlineDone(h) ELSE StageDone(h.stage)
    BY <2>1, DoneByFrame
  <2>4. CASE h.role = "inline"
    <3>1. h.stage # s
      BY <1>1, <1>2, <1>4, <2>1, <2>4, InlineAlone
    <3>2. ran'[h.stage] = ran[h.stage]
      BY <2>2, <3>1, ActsApart
    <3> QED BY <2>1, <2>3, <2>4, <3>2 DEF InlineDone
  <2>5. CASE h.role # "inline" /\ h.stage = s
    <3>1. Top(t).role # "inline"
      BY <1>1, <1>2, <1>4, <2>1, <2>5, InlineAlone
    <3>2. StageDone(s)'
      BY <2>1, <2>5, <3>1
    <3>3. frames'[u][k].stage = s /\ frames'[u][k].role # "inline"
      BY <2>1, <2>5
    <3> QED BY <3>2, <3>3 DEF StageDone, InHandOf
  <2>6. CASE h.role # "inline" /\ h.stage # s
    <3>1. PICK r \in Stages : r = h.stage
      BY <2>2
    <3>2. StageDone(r) /\ r # s
      BY <2>3, <2>6, <3>1 DEF StageDone, InHandOf
    <3>3. StageDone(r)'
      BY <3>2, OtherStagesDone
    <3> QED BY <2>1, <2>6, <3>1, <3>3 DEF StageDone, InHandOf
  <2> QED BY <2>4, <2>5, <2>6
<1> QED BY <1>3, <1>4

(* A step runs the item in hand, once, or nothing.                         *)
Runs(t) == Compute(t) \/ PanicInCopy(t) \/ PanicOnCaller(t)

LEMMA RanStep ==
    ASSUME TypeOK, ClaimsHold, ClaimedOrDone, NEW t \in Threads, Acts(t)
    PROVE  /\ ~Runs(t) => ran' = ran
           /\ Runs(t) =>
                /\ Top(t).item \in 1..N /\ Top(t).role # "wait"
                /\ ran[Top(t).stage][Top(t).item] = 0
                /\ \A n \in NestedIn(Top(t).stage, Top(t).item) : Ended(n)
                /\ \A s \in Stages, i \in 1..N :
                    ran'[s][i] = IF s = Top(t).stage /\ i = Top(t).item THEN 1 ELSE ran[s][i]
           /\ \A s \in Stages, i \in 1..N : ran'[s][i] \in {0, 1} /\ (ran[s][i] = 1 => ran'[s][i] = 1)
<1>1. CASE ~Runs(t)
  <2>1. ran' = ran
    BY <1>1 DEF Runs, Acts, Claim, TakeInline, Gather, FinishCopy, Resume, Return
  <2> QED BY <1>1, <2>1 DEF ClaimedOrDone
<1>2. CASE Runs(t)
  <2> DEFINE s == Top(t).stage
             i == Top(t).item
  <2>1. Busy(t) /\ InHand(t) /\ ran' = [ran EXCEPT ![s][i] = @ + 1]
    BY <1>2 DEF Runs, Compute, PanicInCopy, PanicOnCaller, InHand
  <2>2. s \in Stages /\ i \in 1..N
    BY <2>1, TopFields, ParallelAssumption DEF InHand
  <2>3. Len(frames[t]) \in DOMAIN frames[t] /\ Top(t) = frames[t][Len(frames[t])] /\ i # 0
    BY <2>1, <2>2, TopIsFrame, ParallelAssumption DEF InHand, TypeOK
  <2>4. Top(t).role # "wait" /\ ran[s][i] = 0
    BY <2>3 DEF ClaimsHold
  <2>5. PICK q \in Stages, j \in 1..N : q = s /\ j = i
    BY <2>2
  <2> HIDE DEF s, i
  <2>a. ran' = [ran EXCEPT ![q][j] = @ + 1] /\ ran[q][j] = 0
    BY <2>1, <2>4, <2>5
  <2>6. /\ ran'[q][j] = ran[q][j] + 1
        /\ \A r \in Stages, h \in 1..N : (r # q \/ h # j) => ran'[r][h] = ran[r][h]
    BY <2>a DEF TypeOK
  <2>7. \A r \in Stages, h \in 1..N : ran'[r][h] = IF r = q /\ h = j THEN 1 ELSE ran[r][h]
    BY <2>a, <2>6
  <2>8. \A r \in Stages, h \in 1..N : ran[r][h] \in {0, 1}
    BY DEF ClaimedOrDone
  <2> QED BY <1>2, <2>1, <2>2, <2>4, <2>5, <2>7, <2>8 DEF InHand, s, i
<1> QED BY <1>1, <1>2

LEMMA InHandPushed ==
    ASSUME TypeOK, NEW t \in Threads, NEW g \in Frame, Pushes(t, g), NEW s, NEW i, InHandOf(s, i)
    PROVE  InHandOf(s, i)'
<1>1. PICK u \in Threads : \E k \in DOMAIN frames[u] :
        frames[u][k].stage = s /\ frames[u][k].item = i
  BY DEF InHandOf
<1>2. PICK k \in DOMAIN frames[u] : frames[u][k].stage = s /\ frames[u][k].item = i
  BY <1>1
<1>3. k \in DOMAIN frames'[u] /\ frames'[u][k] = frames[u][k]
  BY <1>2, PushedPositions
<1> QED BY <1>2, <1>3 DEF InHandOf

(* A stage returns when all its items ran.                                 *)
LEMMA ReturnedAll ==
    ASSUME TypeOK, CallsStand, ClaimedOrDone, PanicKept, NEW t \in Threads, Return(t),
           NEW i \in 1..N
    PROVE  ran[Top(t).stage][i] = 1
<1> DEFINE f == Top(t)
           s == f.stage
<1>1. /\ Busy(t) /\ f.role \in {"take", "inline"} /\ f.item = 0
      /\ IF f.role = "take" THEN ~ItemsLeft(s) ELSE Len(f.mine) = N
  BY DEF Return, On
<1>2. /\ Len(frames[t]) \in DOMAIN frames[t] /\ f = frames[t][Len(frames[t])]
      /\ s \in Stages
  BY <1>1, TopIsFrame, TopFields DEF TypeOK
<1>3. CASE f.role = "inline"
  <2>1. InlineDone(f)
    BY <1>2, <1>3, DoneByFrame
  <2> QED BY <1>1, <1>3, <2>1, ParallelAssumption DEF InlineDone
<1>4. CASE f.role = "take"
  <2>1. StageDone(s) /\ ~panicked[s]
    BY <1>2, <1>4, DoneByFrame DEF PanicKept
  <2>2. i < next[s]
    BY <1>1, <1>2, <1>4, ParallelAssumption DEF ItemsLeft, TypeOK
  <2>3. ~InHandOf(s, i)
    <3> SUFFICES ASSUME InHandOf(s, i) PROVE FALSE
      OBVIOUS
    <3>1. PICK u \in Threads : \E k \in DOMAIN frames[u] :
            frames[u][k].stage = s /\ frames[u][k].item = i
      BY DEF InHandOf
    <3>2. PICK k \in DOMAIN frames[u] : frames[u][k].stage = s /\ frames[u][k].item = i
      BY <3>1
    <3>3. u = t /\ k = Len(frames[t])
      BY <1>1, <3>2, LastOfStage
    <3> QED BY <1>1, <1>2, <3>2, <3>3
  <2> QED BY <2>1, <2>2, <2>3 DEF StageDone
<1> QED BY <1>1, <1>3, <1>4

LEMMA DoneStep ==
    ASSUME TypeOK, CallsStand, IdleUntouched, ClaimsHold, ClaimedOrDone, PanicKept, [Next]_vars
    PROVE  ClaimedOrDone'
<1>1. ASSUME NEW t \in Threads, Acts(t),
             \A u \in Threads : \A k \in DOMAIN frames'[u] :
                IF frames'[u][k].role = "inline" THEN InlineDone(frames[u][k])'
                                                 ELSE StageDone(frames[u][k].stage)'
      PROVE  ClaimedOrDone'
  <2>1. \A s \in Stages, i \in 1..N : outcome'[s] = "returned" => ran'[s][i] = 1
    <3> SUFFICES ASSUME NEW s \in Stages, NEW i \in 1..N, outcome'[s] = "returned"
                 PROVE  ran'[s][i] = 1
      OBVIOUS
    <3>1. CASE outcome[s] = "returned"
      BY <1>1, <3>1, RanStep DEF ClaimedOrDone
    <3>2. CASE outcome[s] # "returned"
      <4>1. Return(t) /\ s = Top(t).stage
        <5>1. s = Top(t).stage /\ outcome' # outcome
          BY <1>1, <3>2, ActsApart
        <5>2. Resume(t) \/ PanicOnCaller(t) \/ Return(t)
          <6>1. Claim(t) \/ TakeInline(t) \/ Compute(t) \/ Gather(t) => UNCHANGED outcome
            BY DEF Claim, TakeInline, Compute, Gather
          <6>2. FinishCopy(t) \/ PanicInCopy(t) => UNCHANGED outcome
            BY DEF FinishCopy, PanicInCopy
          <6> QED BY <1>1, <5>1, <6>1, <6>2 DEF Acts
        <5>3. ~Resume(t) /\ ~PanicOnCaller(t)
          <6>1. outcome'[s] # "unwound"
            OBVIOUS
          <6>2. Resume(t) \/ PanicOnCaller(t) =>
                  outcome' = [outcome EXCEPT ![Top(t).stage] = "unwound"]
            BY DEF Resume, PanicOnCaller
          <6> QED BY <5>1, <6>1, <6>2 DEF TypeOK
        <5> QED BY <5>1, <5>2, <5>3
      <4>2. ran[s][i] = 1
        BY <4>1, ReturnedAll
      <4> QED BY <1>1, <4>2, RanStep
    <3> QED BY <3>1, <3>2
  <2>2. \A s \in Stages, i \in 1..N : ran'[s][i] \in {0, 1}
    BY <1>1, RanStep
  <2> QED BY <1>1, <2>1, <2>2 DEF ClaimedOrDone, InlineDone, StageDone
<1>2. ASSUME NEW t \in Threads, Acts(t), NEW s \in Stages, s = Top(t).stage,
             Top(t).role # "inline"
      PROVE  StageDone(s)
  <2>1. Busy(t)
    BY <1>2, ActsApart
  <2> QED BY <1>2, <2>1, TopIsFrame, DoneByFrame DEF TypeOK
<1>3. ASSUME NEW t \in Threads, Claim(t) PROVE ClaimedOrDone'
  <2>1. PICK s \in Stages : s = Top(t).stage
    BY <1>3, ClaimChanges, TopFields
  <2>2. /\ Busy(t) /\ Top(t).role # "inline" /\ Top(t).item = 0 /\ Acts(t)
        /\ next[s] \in 0..N /\ next'[s] = next[s] + 1
        /\ ran' = ran /\ panicked' = panicked
    BY <1>3, <2>1, ClaimChanges DEF Claim, Acts, TypeOK
  <2>3. PICK g \in Frame : /\ Changes(t, g) /\ g.stage = s /\ g.role = Top(t).role
                           /\ g.item = next[s]
    BY <1>3, <2>1, ClaimChanges DEF Alike
  <2>4. ASSUME NEW i \in 1..N, i = next[s] PROVE InHandOf(s, i)'
    <3>1. Len(frames[t]) \in DOMAIN frames'[t] /\ frames'[t][Len(frames[t])] = g
      BY <2>2, <2>3, ChangedPositions
    <3>2. PICK k \in DOMAIN frames'[t] : frames'[t][k] = g
      BY <3>1
    <3> QED BY <2>3, <2>4, <3>2 DEF InHandOf
  <2>5. \A i \in 1..N : InHandOf(s, i) => InHandOf(s, i)'
    BY <2>2, <2>3, InHandKept
  <2>6. StageDone(s)
    BY <1>2, <2>1, <2>2
  <2>7. ASSUME NEW i \in 1..N, i < next'[s], ~panicked'[s]
        PROVE  ran'[s][i] = 1 \/ InHandOf(s, i)'
    <3>1. CASE i = next[s]
      BY <2>4, <3>1
    <3>2. CASE i # next[s]
      BY <2>2, <2>5, <2>6, <2>7, <3>2 DEF StageDone
    <3> QED BY <3>1, <3>2
  <2>8. StageDone(s)'
    BY <2>2, <2>6, <2>7 DEF StageDone
  <2> QED BY <1>1, <2>1, <2>2, <2>3, <2>8, FramesDone
<1>4. ASSUME NEW t \in Threads, TakeInline(t) PROVE ClaimedOrDone'
  <2>1. Busy(t) /\ Top(t).role = "inline" /\ Acts(t) /\ ran' = ran
    BY <1>4, TakeInlineChanges DEF Acts, TakeInline
  <2>2. PICK g \in Frame : /\ Changes(t, g) /\ g.stage = Top(t).stage /\ g.role = "inline"
                           /\ g.mine = Top(t).mine
    BY <1>4, TakeInlineChanges DEF Alike
  <2>3. InlineDone(Top(t))
    BY <2>1, TopIsFrame, DoneByFrame DEF TypeOK
  <2>4. InlineDone(g)'
    BY <2>1, <2>2, <2>3 DEF InlineDone
  <2> QED BY <1>1, <2>1, <2>2, <2>4, FramesDone, TopFields
<1>5. ASSUME NEW t \in Threads, Compute(t) PROVE ClaimedOrDone'
  <2>1. Busy(t) /\ Acts(t) /\ Runs(t) /\ next' = next /\ panicked' = panicked
    BY <1>5 DEF Acts, Runs, Compute, InHand
  <2>2. PICK s \in Stages, j \in 1..N : s = Top(t).stage /\ j = Top(t).item
    BY <2>1, TopFields, RanStep
  <2>3. PICK g \in Frame, v \in Value :
          /\ Changes(t, g) /\ g.stage = s /\ g.role = Top(t).role
          /\ g.mine = Append(Top(t).mine, v)
    BY <1>5, <2>2, ComputeChanges DEF Alike
  <2>4. \A i \in 1..N : ran'[s][i] = IF i = j THEN 1 ELSE ran[s][i]
    BY <2>1, <2>2, RanStep
  <2>5. Top(t) = frames[t][Len(frames[t])] /\ Len(frames[t]) \in DOMAIN frames[t]
    BY <2>1, TopIsFrame DEF TypeOK
  <2>6. CASE Top(t).role = "inline"
    <3>1. InlineDone(Top(t)) /\ j = Len(Top(t).mine) + 1
      BY <2>2, <2>5, <2>6, DoneByFrame, ParallelAssumption DEF ClaimsHold
    <3>2. Len(Top(t).mine) \in Nat /\ Len(g.mine) = Len(Top(t).mine) + 1
      BY <2>1, <2>3, TopFields, AppendProperties, LenProperties
    <3>3. InlineDone(g)'
      BY <2>2, <2>3, <2>4, <3>1, <3>2 DEF InlineDone
    <3> QED BY <1>1, <2>1, <2>2, <2>3, <2>6, <3>3, FramesDone
  <2>7. CASE Top(t).role # "inline"
    <3>1. StageDone(s)
      BY <1>2, <2>1, <2>2, <2>7
    <3>2. j < next[s]
      BY <2>2, <2>5, <2>7, ParallelAssumption DEF ClaimsHold
    <3>3. \A i \in 1..N : i # j => (InHandOf(s, i) => InHandOf(s, i)')
      BY <2>1, <2>2, <2>3, InHandKept
    <3>4. StageDone(s)'
      BY <2>1, <2>4, <3>1, <3>2, <3>3 DEF StageDone
    <3> QED BY <1>1, <2>1, <2>2, <2>3, <2>7, <3>4, FramesDone
  <2> QED BY <2>6, <2>7
<1>6. ASSUME NEW t \in Threads, Gather(t) PROVE ClaimedOrDone'
  <2>1. PICK s \in Stages : s = Top(t).stage
    BY <1>6, GatherChanges, TopFields
  <2>2. /\ Busy(t) /\ Top(t).role = "wait" /\ Acts(t)
        /\ next' = next /\ ran' = ran /\ panicked' = panicked
    BY <1>6, GatherChanges DEF Gather, Acts
  <2>3. Top(t).item = 0
    BY <2>2, TopIsFrame DEF ClaimsHold, TypeOK
  <2>4. PICK g \in Frame : Changes(t, g) /\ g.stage = s /\ g.role = "take"
    BY <1>6, <2>1, GatherChanges DEF Alike
  <2>5. \A i \in 1..N : InHandOf(s, i) => InHandOf(s, i)'
    BY <2>2, <2>3, <2>4, InHandKept
  <2>6. StageDone(s)'
    BY <1>2, <2>1, <2>2, <2>5 DEF StageDone
  <2> QED BY <1>1, <2>1, <2>2, <2>4, <2>6, FramesDone
<1>7. ASSUME NEW t \in Threads, FinishCopy(t) PROVE ClaimedOrDone'
  <2>1. /\ Busy(t) /\ Back(t) /\ Top(t).role = "copy" /\ Acts(t) /\ Top(t).item = 0
        /\ ~ItemsLeft(Top(t).stage) /\ next' = [next EXCEPT ![Top(t).stage] = @ + 1]
        /\ ran' = ran /\ panicked' = panicked
    BY <1>7 DEF FinishCopy, Acts, On, Advanced
  <2>2. PICK s \in Stages : s = Top(t).stage
    BY <2>1, TopFields
  <2>3. Pops(t)
    BY <2>1, BackPops
  <2>4. \A i \in 1..N : InHandOf(s, i) => InHandOf(s, i)'
    BY <2>1, <2>3, InHandKept
  <2>5. \A i \in 1..N : i < next[s] /\ i < next'[s]
    BY <2>1, <2>2, ParallelAssumption DEF ItemsLeft, TypeOK
  <2>6. StageDone(s)'
    BY <1>2, <2>1, <2>2, <2>4, <2>5 DEF StageDone
  <2> QED BY <1>1, <2>1, <2>2, <2>3, <2>6, FramesDone
<1>8. ASSUME NEW t \in Threads, PanicInCopy(t) PROVE ClaimedOrDone'
  <2>1. /\ Busy(t) /\ Back(t) /\ Acts(t)
        /\ next' = [next EXCEPT ![Top(t).stage] = N + 1]
        /\ panicked' = [panicked EXCEPT ![Top(t).stage] = TRUE]
    BY <1>8 DEF PanicInCopy, Acts, On
  <2>2. PICK s \in Stages : s = Top(t).stage
    BY <2>1, TopFields
  <2>3. Pops(t)
    BY <2>1, BackPops
  <2>4. panicked'[s] /\ \A i \in 1..N : i < next'[s]
    BY <2>1, <2>2, ParallelAssumption DEF TypeOK
  <2>5. StageDone(s)'
    BY <2>4 DEF StageDone
  <2> QED BY <1>1, <2>1, <2>2, <2>3, <2>5, FramesDone
<1>9. ASSUME NEW t \in Threads, PanicOnCaller(t) \/ Resume(t) \/ Return(t)
      PROVE  ClaimedOrDone'
  <2>1. /\ Busy(t) /\ Back(t) /\ Top(t).role # "copy" /\ Acts(t)
        /\ Top(t).role = "wait" => CopiesReturned(Top(t).stage)
    BY <1>9 DEF PanicOnCaller, Resume, Return, On, Acts
  <2>2. PICK s \in Stages : s = Top(t).stage
    BY <2>1, TopFields
  <2>3. Pops(t)
    BY <2>1, BackPops
  <2>4. \A u \in Threads : \A k \in DOMAIN frames'[u] : frames'[u][k].stage # s
    BY <2>1, <2>2, <2>3, LastOfStage, PoppedPositions
  <2> QED BY <1>1, <2>1, <2>2, <2>3, <2>4, FramesDone
<1>10. ASSUME NEW t \in Threads, NEW g \in Frame, Pushes(t, g),
              next' = next, ran' = ran, panicked' = panicked,
              IF g.role = "inline" THEN InlineDone(g)' ELSE StageDone(g.stage),
              \A s \in Stages : outcome'[s] = "returned" => outcome[s] = "returned"
       PROVE  ClaimedOrDone'
  <2>1. \A s \in Stages : StageDone(s) => StageDone(s)'
    BY <1>10, InHandPushed DEF StageDone
  <2>2. ASSUME NEW u \in Threads, NEW k \in DOMAIN frames'[u]
        PROVE  IF frames'[u][k].role = "inline" THEN InlineDone(frames[u][k])'
                                                ELSE StageDone(frames[u][k].stage)'
    <3>1. PICK h \in Frame :
            h = frames'[u][k] /\ IF h.role = "inline" THEN InlineDone(h)' ELSE StageDone(h.stage)
      <4>1. CASE k \in DOMAIN frames[u] /\ frames'[u][k] = frames[u][k]
        BY <1>10, <4>1, FrameFields, DoneByFrame DEF InlineDone
      <4>2. CASE frames'[u][k] = g
        BY <1>10, <4>2
      <4> QED BY <1>10, <2>2, <4>1, <4>2, PushedPositions
    <3>2. PICK r \in Stages : r = h.stage
      BY DEF Frame
    <3>3. h.role # "inline" => StageDone(r)'
      BY <2>1, <3>1, <3>2
    <3> QED BY <3>1, <3>2, <3>3 DEF InlineDone, StageDone, InHandOf
  <2> QED BY <1>10, <2>2 DEF ClaimedOrDone, InlineDone, StageDone
<1>11. ASSUME NEW t \in Threads, NEW s \in Stages, Call(s, t) PROVE ClaimedOrDone'
  <2>1. PICK g \in Frame : Pushes(t, g) /\ g.stage = s /\ g.mine = <<>>
    BY <1>11, CallPushes
  <2>2. /\ outcome[s] = "idle" /\ outcome' = [outcome EXCEPT ![s] = "running"]
        /\ next' = next /\ ran' = ran /\ panicked' = panicked
    BY <1>11 DEF Call
  <2>3. next[s] = 1 /\ \A i \in 1..N : ran[s][i] = 0
    BY <2>2 DEF IdleUntouched
  <2>4. StageDone(s) /\ InlineDone(g)'
    BY <2>1, <2>2, <2>3 DEF StageDone, InlineDone
  <2>5. \A r \in Stages : outcome'[r] = "returned" => outcome[r] = "returned"
    BY <2>2 DEF TypeOK
  <2> QED BY <1>10, <2>1, <2>2, <2>4, <2>5
<1>12. ASSUME NEW t \in Threads, NEW s \in Stages, StartCopy(s, t) PROVE ClaimedOrDone'
  <2>1. PICK g \in Frame : Pushes(t, g) /\ g.stage = s /\ g.role = "copy"
    BY <1>12, StartCopyPushes
  <2>2. outcome' = outcome /\ next' = next /\ ran' = ran /\ panicked' = panicked
    BY <1>12 DEF StartCopy
  <2>3. \E v \in Threads : \E h \in DOMAIN frames[v] :
          frames[v][h].stage = s /\ frames[v][h].role = "wait"
    BY <1>12 DEF StartCopy, Holding
  <2>4. StageDone(s)
    BY <2>3, DoneByFrame
  <2> QED BY <1>10, <2>1, <2>2, <2>4
<1>13. ASSUME NEW w \in Watches \ {NoWatch}, Cancel(w) PROVE ClaimedOrDone'
  BY <1>13 DEF Cancel, ClaimedOrDone, InHandOf
<1>14. ASSUME UNCHANGED vars PROVE ClaimedOrDone'
  BY <1>14 DEF vars, ClaimedOrDone, InHandOf
<1> QED
  BY <1>3, <1>4, <1>5, <1>6, <1>7, <1>8, <1>9, <1>11, <1>12, <1>13, <1>14, NextCases DEF Acts

-----------------------------------------------------------------------------
(* A panic is kept until the call resumes it.                              *)

(* What PanicKept says of a stage by the role of a frame of it.            *)
Book(r, role) ==
    /\ role = "wait" => (panicked[r] <=> HasPanicked(r))
    /\ role \in {"take", "inline"} => ~panicked[r] /\ ~HasPanicked(r)

Settled(r, i) == \A n \in NestedIn(r, i) : Ended(n)

LEMMA PanicByFrame ==
    PanicKept <=>
        /\ \A s \in Stages, i \in 1..N : ran[s][i] = 1 => Settled(s, i)
        /\ \A t \in Threads : \A k \in DOMAIN frames[t] :
            Book(frames[t][k].stage, frames[t][k].role)
        /\ \A s \in Stages : Ended(s) => (outcome[s] = "unwound" <=> HasPanicked(s))
  BY DEF PanicKept, Book, Settled

(* How a call ended does not change.                                       *)
LEMMA EndedKept ==
    ASSUME TypeOK, CallsStand, [Next]_vars, NEW n \in Stages, Ended(n)
    PROVE  outcome'[n] = outcome[n]
<1>1. ASSUME NEW t \in Threads, Acts(t) PROVE outcome'[n] = outcome[n]
  <2>1. outcome[Top(t).stage] = "running"
    BY <1>1, ActsApart, TopRuns
  <2>2. n # Top(t).stage
    BY <2>1 DEF Ended
  <2> QED BY <1>1, <2>2, ActsApart
<1>2. ASSUME NEW t \in Threads, NEW s \in Stages, Call(s, t) PROVE outcome'[n] = outcome[n]
  BY <1>2 DEF Call, Ended, TypeOK
<1>3. ASSUME NEW t \in Threads, NEW s \in Stages, StartCopy(s, t) PROVE outcome' = outcome
  BY <1>3 DEF StartCopy
<1>4. ASSUME NEW w \in Watches \ {NoWatch}, Cancel(w) PROVE outcome' = outcome
  BY <1>4 DEF Cancel
<1> QED BY <1>1, <1>2, <1>3, <1>4, NextCases DEF vars

LEMMA FaultyKept ==
    ASSUME [Next]_vars
    PROVE  faulty' = faulty
  BY DEF Next, Step, Claim, TakeInline, Compute, Gather, FinishCopy, PanicInCopy, PanicOnCaller,
         Resume, Return, Call, StartCopy, Cancel, vars

(* Whether an item panics is settled when the stages it calls have ended.  *)
LEMMA PanicsSettled ==
    ASSUME TypeOK, CallsStand, [Next]_vars, NEW r \in Stages, NEW i \in 1..N, Settled(r, i)
    PROVE  Settled(r, i)' /\ (Panics(r, i)' <=> Panics(r, i))
<1>1. \A n \in NestedIn(r, i) : n \in Stages /\ Ended(n) /\ outcome'[n] = outcome[n]
  BY EndedKept DEF Settled, NestedIn
<1>2. NestedIn(r, i)' = NestedIn(r, i)
  BY DEF NestedIn
<1>3. Settled(r, i)'
  BY <1>1, <1>2 DEF Settled, Ended
<1>4. Panics(r, i)' <=> Panics(r, i)
  BY <1>1, <1>2, FaultyKept DEF Panics
<1> QED BY <1>3, <1>4

LEMMA SameRunsSamePanics ==
    ASSUME TypeOK, CallsStand, PanicKept, [Next]_vars, NEW r \in Stages, ran'[r] = ran[r]
    PROVE  HasPanicked(r)' <=> HasPanicked(r)
<1>1. \A i \in 1..N : ran[r][i] = 1 => (Panics(r, i)' <=> Panics(r, i))
  BY PanicByFrame, PanicsSettled
<1> QED BY <1>1 DEF HasPanicked

LEMMA PanicsOfStep ==
    ASSUME TypeOK, CallsStand, ClaimsHold, ClaimedOrDone, PanicKept, [Next]_vars,
           NEW t \in Threads, Acts(t), NEW r \in Stages
    PROVE  /\ ~(Runs(t) /\ r = Top(t).stage) => (HasPanicked(r)' <=> HasPanicked(r))
           /\ (Runs(t) /\ r = Top(t).stage) =>
                (HasPanicked(r)' <=> HasPanicked(r) \/ Panics(r, Top(t).item))
           /\ \A i \in 1..N : ran'[r][i] = 1 => Settled(r, i)'
<1>0. \A i \in 1..N : ran[r][i] = 1 => Settled(r, i)
  BY PanicByFrame
<1>1. CASE ~(Runs(t) /\ r = Top(t).stage)
  <2>1. ran'[r] = ran[r]
    BY <1>1, ActsApart, RanStep
  <2>2. \A i \in 1..N : ran'[r][i] = 1 => Settled(r, i)'
    BY <1>0, <2>1, PanicsSettled
  <2> QED BY <1>1, <2>1, <2>2, SameRunsSamePanics
<1>2. CASE Runs(t) /\ r = Top(t).stage
  <2>1. PICK j \in 1..N : j = Top(t).item
    BY <1>2, RanStep
  <2>2. Settled(r, j)
    BY <1>2, <2>1, RanStep DEF Settled
  <2>3. \A i \in 1..N : ran'[r][i] = IF i = j THEN 1 ELSE ran[r][i]
    BY <1>2, <2>1, RanStep
  <2>4. \A i \in 1..N : ran'[r][i] = 1 => Settled(r, i)
    BY <1>0, <2>2, <2>3
  <2>5. \A i \in 1..N : ran'[r][i] = 1 => Settled(r, i)' /\ (Panics(r, i)' <=> Panics(r, i))
    BY <2>4, PanicsSettled
  <2>6. HasPanicked(r)' <=> \E i \in 1..N : ran'[r][i] = 1 /\ Panics(r, i)
    BY <2>5 DEF HasPanicked
  <2>7. HasPanicked(r)' <=> HasPanicked(r) \/ Panics(r, j)
    BY <2>3, <2>6 DEF HasPanicked
  <2> QED BY <1>2, <2>1, <2>5, <2>7
<1> QED BY <1>1, <1>2

(* Frames are told by their stage and role.                                *)
LEMMA BooksByFrames ==
    ASSUME \A u \in Threads : \A k \in DOMAIN frames'[u] :
            \E r \in Stages, role \in {"wait", "take", "inline", "copy"} :
                /\ r = frames'[u][k].stage /\ role = frames'[u][k].role
                /\ Book(r, role)'
    PROVE  \A u \in Threads : \A k \in DOMAIN frames'[u] :
            Book(frames[u][k].stage, frames[u][k].role)'
<1> SUFFICES ASSUME NEW u \in Threads, NEW k \in DOMAIN frames'[u]
             PROVE  Book(frames[u][k].stage, frames[u][k].role)'
  OBVIOUS
<1>1. PICK r \in Stages, role \in {"wait", "take", "inline", "copy"} :
        r = frames'[u][k].stage /\ role = frames'[u][k].role /\ Book(r, role)'
  OBVIOUS
<1> QED BY <1>1 DEF Book, HasPanicked, Panics, NestedIn

LEMMA PanicStep ==
    ASSUME TypeOK, CallsStand, IdleUntouched, ClaimsHold, ClaimedOrDone, PanicKept, [Next]_vars
    PROVE  PanicKept'
<1>1. ASSUME NEW t \in Threads, Acts(t), NEW s \in Stages, s = Top(t).stage,
             \A u \in Threads : \A k \in DOMAIN frames'[u] :
                \E r \in Stages, role \in {"wait", "take", "inline", "copy"} :
                    /\ r = frames'[u][k].stage /\ role = frames'[u][k].role
                    /\ Book(r, role)',
             Ended(s)' => (outcome'[s] = "unwound" <=> HasPanicked(s)')
      PROVE  PanicKept'
  <2>1. ASSUME NEW r \in Stages, Ended(r)'
        PROVE  outcome'[r] = "unwound" <=> HasPanicked(r)'
    <3>1. CASE r = s
      BY <1>1, <2>1, <3>1
    <3>2. CASE r # s
      BY <1>1, <2>1, <3>2, ActsApart, PanicsOfStep DEF Ended, PanicKept
    <3> QED BY <3>1, <3>2
  <2>2. \A r \in Stages, i \in 1..N : ran'[r][i] = 1 => Settled(r, i)'
    BY <1>1, PanicsOfStep
  <2>3. \A u \in Threads : \A k \in DOMAIN frames'[u] :
          Book(frames[u][k].stage, frames[u][k].role)'
    BY <1>1, BooksByFrames
  <2> QED BY <2>1, <2>2, <2>3 DEF PanicKept, Book, Settled
<1>2. ASSUME NEW u \in Threads, NEW k \in DOMAIN frames[u]
      PROVE  \E r \in Stages, role \in {"wait", "take", "inline", "copy"} :
                r = frames[u][k].stage /\ role = frames[u][k].role /\ Book(r, role)
  BY <1>2, FrameFields, PanicByFrame
<1>3. ASSUME NEW t \in Threads, Acts(t), ~PanicInCopy(t), ~PanicOnCaller(t)
      PROVE  /\ \A r \in Stages : (HasPanicked(r)' <=> HasPanicked(r)) /\ panicked'[r] = panicked[r]
             /\ \A r \in Stages, role \in {"wait", "take", "inline", "copy"} :
                    Book(r, role) => Book(r, role)'
  <2>1. Runs(t) => ~Panics(Top(t).stage, Top(t).item)
    BY <1>3 DEF Runs, Compute
  <2>2. \A r \in Stages : HasPanicked(r)' <=> HasPanicked(r)
    BY <1>3, <2>1, PanicsOfStep
  <2>3. panicked' = panicked
    BY <1>3 DEF Acts, Claim, TakeInline, Compute, Gather, FinishCopy, Resume, Return
  <2> QED BY <2>2, <2>3 DEF Book
<1>4. ASSUME NEW t \in Threads, Claim(t) \/ TakeInline(t) \/ Compute(t) PROVE PanicKept'
  <2>1. Acts(t) /\ ~PanicInCopy(t) /\ ~PanicOnCaller(t) /\ outcome' = outcome
    <3>1. outcome' = outcome
      BY <1>4 DEF Claim, TakeInline, Compute
    <3>2. CASE Claim(t) \/ TakeInline(t)
      BY <3>2, ParallelAssumption DEF Acts, Claim, TakeInline, PanicInCopy, PanicOnCaller, InHand
    <3>3. CASE Compute(t)
      BY <3>3 DEF Acts, Compute, PanicInCopy, PanicOnCaller
    <3> QED BY <1>4, <3>1, <3>2, <3>3
  <2>2. Busy(t)
    BY <2>1, ActsApart
  <2>3. PICK s \in Stages : s = Top(t).stage
    BY <2>2, TopFields
  <2>a. \E g \in Frame : Changes(t, g) /\ g.stage = Top(t).stage /\ g.role = Top(t).role
    <3>1. CASE Claim(t)
      BY <3>1, ClaimChanges DEF Alike
    <3>2. CASE TakeInline(t)
      BY <3>2, TakeInlineChanges DEF Alike
    <3>3. CASE Compute(t)
      BY <3>3, ComputeChanges DEF Alike
    <3> QED BY <1>4, <3>1, <3>2, <3>3
  <2>4. PICK g \in Frame : Changes(t, g) /\ g.stage = Top(t).stage /\ g.role = Top(t).role
    BY <2>a
  <2>5. \A u \in Threads : \A k \in DOMAIN frames'[u] :
          /\ k \in DOMAIN frames[u]
          /\ frames'[u][k].stage = frames[u][k].stage /\ frames'[u][k].role = frames[u][k].role
    BY <2>2, <2>4, ChangedPositions
  <2>6. \A u \in Threads : \A k \in DOMAIN frames'[u] :
          \E r \in Stages, role \in {"wait", "take", "inline", "copy"} :
            r = frames'[u][k].stage /\ role = frames'[u][k].role /\ Book(r, role)'
    BY <1>2, <1>3, <2>1, <2>5
  <2>7. outcome'[s] = "running"
    BY <2>1, <2>2, <2>3, TopRuns
  <2> QED BY <1>1, <2>1, <2>3, <2>6, <2>7 DEF Ended
<1>5. ASSUME NEW t \in Threads, Gather(t) PROVE PanicKept'
  <2>1. /\ Acts(t) /\ ~PanicInCopy(t) /\ ~PanicOnCaller(t) /\ outcome' = outcome
        /\ Busy(t) /\ Top(t).role = "wait" /\ ~panicked[Top(t).stage]
    BY <1>5, GatherChanges DEF Gather, Acts, PanicInCopy, PanicOnCaller, On
  <2>2. PICK s \in Stages : s = Top(t).stage
    BY <2>1, TopFields
  <2>3. PICK g \in Frame : Changes(t, g) /\ g.stage = s /\ g.role = "take"
    BY <1>5, <2>2, GatherChanges DEF Alike
  <2>4. ~panicked[s] /\ ~HasPanicked(s)
    BY <2>1, <2>2, TopIsFrame DEF PanicKept, TypeOK
  <2>5. Book(s, "take")'
    BY <1>3, <2>1, <2>4 DEF Book
  <2>6. ASSUME NEW u \in Threads, NEW k \in DOMAIN frames'[u]
        PROVE  \E r \in Stages, role \in {"wait", "take", "inline", "copy"} :
                r = frames'[u][k].stage /\ role = frames'[u][k].role /\ Book(r, role)'
    <3>1. CASE u = t /\ k = Len(frames[t])
      BY <2>1, <2>3, <2>5, <2>6, <3>1, ChangedPositions
    <3>2. CASE ~(u = t /\ k = Len(frames[t]))
      <4>1. k \in DOMAIN frames[u] /\ frames'[u][k] = frames[u][k]
        BY <2>1, <2>3, <2>6, <3>2, ChangedPositions
      <4> QED BY <1>2, <1>3, <2>1, <4>1
    <3> QED BY <3>1, <3>2
  <2>7. outcome'[s] = "running"
    BY <2>1, <2>2, TopRuns
  <2> QED BY <1>1, <2>1, <2>2, <2>6, <2>7 DEF Ended
<1>6. ASSUME NEW t \in Threads, FinishCopy(t) \/ Resume(t) \/ Return(t) PROVE PanicKept'
  <2>1. /\ Acts(t) /\ ~PanicInCopy(t) /\ ~PanicOnCaller(t) /\ Busy(t) /\ Back(t)
    BY <1>6, ParallelAssumption DEF FinishCopy, Resume, Return, Acts, PanicInCopy, PanicOnCaller, On, InHand
  <2>2. PICK s \in Stages : s = Top(t).stage
    BY <2>1, TopFields
  <2>3. Pops(t)
    BY <2>1, BackPops
  <2>4. \A u \in Threads : \A k \in DOMAIN frames'[u] :
          \E r \in Stages, role \in {"wait", "take", "inline", "copy"} :
            r = frames'[u][k].stage /\ role = frames'[u][k].role /\ Book(r, role)'
    BY <1>2, <1>3, <2>1, <2>3, PoppedPositions
  <2>5. Top(t) = frames[t][Len(frames[t])] /\ Len(frames[t]) \in DOMAIN frames[t]
    BY <2>1, TopIsFrame DEF TypeOK
  <2>6. CASE FinishCopy(t)
    <3>1. outcome'[s] = "running"
      BY <2>1, <2>2, <2>6, TopRuns DEF FinishCopy
    <3> QED BY <1>1, <2>1, <2>2, <2>4, <3>1 DEF Ended
  <2>7. CASE Resume(t)
    <3>1. outcome'[s] = "unwound" /\ HasPanicked(s)
      BY <2>2, <2>5, <2>7 DEF Resume, On, Caught, PanicKept, TypeOK
    <3> QED BY <1>1, <1>3, <2>1, <2>2, <2>4, <3>1
  <2>8. CASE Return(t)
    <3>1. outcome'[s] = "returned" /\ ~HasPanicked(s)
      BY <2>2, <2>5, <2>8 DEF Return, On, PanicKept, TypeOK
    <3> QED BY <1>1, <1>3, <2>1, <2>2, <2>4, <3>1
  <2> QED BY <1>6, <2>6, <2>7, <2>8
<1>7. ASSUME NEW t \in Threads, PanicInCopy(t) \/ PanicOnCaller(t) PROVE PanicKept'
  <2>1. /\ Acts(t) /\ Runs(t) /\ Busy(t) /\ Back(t) /\ Panics(Top(t).stage, Top(t).item)
    BY <1>7 DEF PanicInCopy, PanicOnCaller, Acts, Runs, On, InHand
  <2>2. PICK s \in Stages : s = Top(t).stage
    BY <2>1, TopFields
  <2>3. Pops(t)
    BY <2>1, BackPops
  <2>4. HasPanicked(s)' /\ \A r \in Stages : r # s => (HasPanicked(r)' <=> HasPanicked(r))
    BY <2>1, <2>2, PanicsOfStep
  <2>5. \A r \in Stages : r # s => panicked'[r] = panicked[r]
    BY <2>1, <2>2, ActsApart
  <2>6. \A r \in Stages, role \in {"wait", "take", "inline", "copy"} :
          r # s => (Book(r, role) => Book(r, role)')
    BY <2>4, <2>5 DEF Book
  <2>7. Top(t) = frames[t][Len(frames[t])] /\ Len(frames[t]) \in DOMAIN frames[t]
    BY <2>1, TopIsFrame DEF TypeOK
  <2>8. CASE PanicInCopy(t)
    <3>1. Top(t).role = "copy" /\ panicked'[s] /\ outcome' = outcome
      BY <2>2, <2>8 DEF PanicInCopy, On, TypeOK
    <3>2. \A role \in {"wait", "copy"} : Book(s, role)'
      BY <2>4, <3>1 DEF Book
    <3>3. ASSUME NEW u \in Threads, NEW k \in DOMAIN frames'[u]
          PROVE  \E r \in Stages, role \in {"wait", "take", "inline", "copy"} :
                  r = frames'[u][k].stage /\ role = frames'[u][k].role /\ Book(r, role)'
      <4>1. k \in DOMAIN frames[u] /\ frames'[u][k] = frames[u][k]
        BY <2>1, <2>3, <3>3, PoppedPositions
      <4>2. PICK r \in Stages, role \in {"wait", "take", "inline", "copy"} :
              r = frames[u][k].stage /\ role = frames[u][k].role /\ Book(r, role)
        BY <1>2, <4>1
      <4>3. CASE r # s
        BY <2>6, <4>1, <4>2, <4>3
      <4>4. CASE r = s
        <5>1. PICK v \in Threads : \E j \in DOMAIN frames[v] :
                frames[v][j].stage = s /\ frames[v][j].role = "wait"
          BY <2>2, <2>7, <3>1 DEF CallsStand
        <5>2. PICK j \in DOMAIN frames[v] : frames[v][j].stage = s /\ frames[v][j].role = "wait"
          BY <5>1
        <5>3. ASSUME role # "copy" PROVE role = "wait"
          <6>1. k \in DOMAIN frames[u] /\ frames[u][k].role # "copy" /\ frames[v][j].role # "copy"
            BY <4>1, <4>2, <5>2, <5>3
          <6>2. frames[u][k].stage = frames[v][j].stage
            BY <4>2, <4>4, <5>2
          <6>3. u = v /\ k = j
            BY <6>1, <6>2, OneCall
          <6> QED BY <4>2, <5>2, <6>3
        <5> QED BY <3>2, <4>1, <4>2, <4>4, <5>3
      <4> QED BY <4>3, <4>4
    <3>4. outcome'[s] = "running"
      BY <2>1, <2>2, <3>1, TopRuns
    <3> QED BY <1>1, <2>1, <2>2, <3>3, <3>4 DEF Ended
  <2>9. CASE PanicOnCaller(t)
    <3>1. Top(t).role \in {"take", "inline"} /\ outcome'[s] = "unwound"
      BY <2>2, <2>9 DEF PanicOnCaller, On, TypeOK
    <3>2. \A u \in Threads : \A k \in DOMAIN frames'[u] :
            k \in DOMAIN frames[u] /\ frames'[u][k] = frames[u][k] /\ frames[u][k].stage # s
      BY <2>1, <2>2, <2>3, <3>1, LastOfStage, PoppedPositions
    <3>3. \A u \in Threads : \A k \in DOMAIN frames'[u] :
            \E r \in Stages, role \in {"wait", "take", "inline", "copy"} :
              r = frames'[u][k].stage /\ role = frames'[u][k].role /\ Book(r, role)'
      BY <1>2, <2>6, <3>2
    <3> QED BY <1>1, <2>1, <2>2, <2>4, <3>1, <3>3
  <2> QED BY <1>7, <2>8, <2>9
<1>8. ASSUME ran' = ran, panicked' = panicked,
             \A r \in Stages : Ended(r)' => Ended(r),
             \A u \in Threads : \A k \in DOMAIN frames'[u] :
                \/ k \in DOMAIN frames[u] /\ frames'[u][k] = frames[u][k]
                \/ \E r \in Stages, role \in {"wait", "take", "inline", "copy"} :
                    r = frames'[u][k].stage /\ role = frames'[u][k].role /\ Book(r, role)
      PROVE  PanicKept'
  <2>1. \A r \in Stages : HasPanicked(r)' <=> HasPanicked(r)
    BY <1>8, SameRunsSamePanics
  <2>2. \A r \in Stages, role \in {"wait", "take", "inline", "copy"} : Book(r, role) => Book(r, role)'
    BY <1>8, <2>1 DEF Book
  <2>3. \A u \in Threads : \A k \in DOMAIN frames'[u] :
          \E r \in Stages, role \in {"wait", "take", "inline", "copy"} :
            r = frames'[u][k].stage /\ role = frames'[u][k].role /\ Book(r, role)'
    BY <1>2, <1>8, <2>2
  <2>4. \A u \in Threads : \A k \in DOMAIN frames'[u] :
          Book(frames[u][k].stage, frames[u][k].role)'
    BY <2>3, BooksByFrames
  <2>5. \A r \in Stages, i \in 1..N : ran'[r][i] = 1 => Settled(r, i)'
    BY <1>8, PanicByFrame, PanicsSettled
  <2>6. \A r \in Stages : Ended(r)' => (outcome'[r] = "unwound" <=> HasPanicked(r)')
    BY <1>8, <2>1, EndedKept DEF PanicKept
  <2> QED BY <2>4, <2>5, <2>6 DEF PanicKept, Book, Settled
<1>9. ASSUME NEW t \in Threads, NEW s \in Stages, Call(s, t) PROVE PanicKept'
  <2>1. PICK g \in Frame : Pushes(t, g) /\ g.stage = s
    BY <1>9, CallPushes
  <2>2. /\ outcome[s] = "idle" /\ outcome' = [outcome EXCEPT ![s] = "running"]
        /\ ran' = ran /\ panicked' = panicked
    BY <1>9 DEF Call
  <2>3. ~panicked[s] /\ ~HasPanicked(s)
    BY <2>2 DEF IdleUntouched, HasPanicked
  <2>4. \A role \in {"wait", "take", "inline", "copy"} : Book(s, role)
    BY <2>3 DEF Book
  <2>5. \A r \in Stages : Ended(r)' => Ended(r)
    BY <2>2 DEF Ended, TypeOK
  <2>6. g.role \in {"wait", "take", "inline", "copy"}
    BY DEF Frame
  <2> QED BY <1>8, <2>1, <2>2, <2>4, <2>5, <2>6, PushedPositions
<1>10. ASSUME NEW t \in Threads, NEW s \in Stages, StartCopy(s, t) PROVE PanicKept'
  <2>1. PICK g \in Frame : Pushes(t, g) /\ g.stage = s /\ g.role = "copy"
    BY <1>10, StartCopyPushes
  <2>2. outcome' = outcome /\ ran' = ran /\ panicked' = panicked
    BY <1>10 DEF StartCopy
  <2>3. Book(s, "copy")
    BY DEF Book
  <2>4. \A r \in Stages : Ended(r)' => Ended(r)
    BY <2>2 DEF Ended
  <2> QED BY <1>8, <2>1, <2>2, <2>3, <2>4, PushedPositions
<1>11. ASSUME (\E w \in Watches \ {NoWatch} : Cancel(w)) \/ UNCHANGED vars PROVE PanicKept'
  <2>1. /\ outcome' = outcome /\ ran' = ran /\ panicked' = panicked /\ frames' = frames
    BY <1>11 DEF Cancel, vars
  <2>2. \A r \in Stages : Ended(r)' => Ended(r)
    BY <2>1 DEF Ended
  <2> QED BY <1>8, <2>1, <2>2
<1> QED BY <1>4, <1>5, <1>6, <1>7, <1>9, <1>10, <1>11, NextCases DEF Acts

-----------------------------------------------------------------------------
(* Thread-locals are chained through the frames.                           *)
LocalsOf(t) ==
    /\ frames[t] = <<>> => ~inside[t] /\ active[t] = NoWatch
    /\ frames[t] # <<>> => inside[t] = InsideOf(Top(t)) /\ active[t] = ActiveOf(Top(t))
    /\ \A k \in DOMAIN frames[t] :
        /\ k = 1 => ~frames[t][k].outer /\ frames[t][k].previous = NoWatch
        /\ k # 1 => /\ frames[t][k].outer = InsideOf(frames[t][k - 1])
                    /\ frames[t][k].previous = ActiveOf(frames[t][k - 1])
        /\ frames[t][k].role # "copy" => snap[frames[t][k].stage] = ActiveOf(frames[t][k])

LEMMA LocalsByThread == LocalsChained <=> \A t \in Threads : LocalsOf(t)
  BY DEF LocalsChained, LocalsOf

LEMMA FramePositions ==
    ASSUME NEW s \in Seq(Frame)
    PROVE  /\ Len(s) \in Nat /\ DOMAIN s = 1..Len(s)
           /\ s = <<>> <=> Len(s) = 0
           /\ \A k \in DOMAIN s : k \in Nat /\ k >= 1 /\ k <= Len(s) /\ (k # 1 => k - 1 \in DOMAIN s)
<1>1. Len(s) \in Nat /\ DOMAIN s = 1..Len(s)
  BY LenProperties
<1>2. s = <<>> <=> Len(s) = 0
  BY EmptySeq, LenProperties
<1> QED BY <1>1, <1>2

(* A frame leaves the thread-locals it left before while it keeps its      *)
(* stage, what it found and whether it is a copy.                          *)
LeavesAlike(h, f) ==
    /\ h.stage = f.stage /\ h.outer = f.outer /\ h.previous = f.previous
    /\ h.role = "copy" <=> f.role = "copy"
    /\ snap'[f.stage] = snap[f.stage]

LEMMA LeftAlike ==
    ASSUME NEW u \in Threads, NEW k, LeavesAlike(frames'[u][k], frames[u][k])
    PROVE  /\ InsideOf(frames[u][k])' <=> InsideOf(frames[u][k])
           /\ ActiveOf(frames[u][k])' = ActiveOf(frames[u][k])
           /\ frames'[u][k].outer = frames[u][k].outer
           /\ frames'[u][k].previous = frames[u][k].previous
           /\ snap'[frames'[u][k].stage] = snap[frames[u][k].stage]
           /\ frames'[u][k].role # "copy" <=> frames[u][k].role # "copy"
  BY DEF LeavesAlike, InsideOf, ActiveOf, WatchOf

(* A thread whose frames are all left alike, or that loses its last one.   *)
LEMMA LocalsSame ==
    ASSUME TypeOK, NEW u \in Threads, LocalsOf(u),
           frames'[u] \in Seq(Frame), Len(frames'[u]) = Len(frames[u]),
           inside'[u] = inside[u], active'[u] = active[u],
           \A k \in DOMAIN frames[u] : LeavesAlike(frames'[u][k], frames[u][k])
    PROVE  LocalsOf(u)'
<1>1. frames[u] \in Seq(Frame)
  BY DEF TypeOK
<1>2. /\ DOMAIN frames'[u] = DOMAIN frames[u]
      /\ frames'[u] = <<>> <=> frames[u] = <<>>
      /\ \A k \in DOMAIN frames[u] : k # 1 => k - 1 \in DOMAIN frames[u]
      /\ frames[u] # <<>> => Len(frames[u]) \in DOMAIN frames[u]
  BY <1>1, FramePositions
<1>3. frames'[u] # <<>> => inside'[u] = InsideOf(Top(u))' /\ active'[u] = ActiveOf(Top(u))'
  <2> SUFFICES ASSUME frames[u] # <<>>
               PROVE  inside'[u] = InsideOf(Top(u))' /\ active'[u] = ActiveOf(Top(u))'
    BY <1>2
  <2>1. PICK k \in DOMAIN frames[u] : k = Len(frames[u])
    BY <1>2
  <2>2. (InsideOf(frames[u][k])' <=> InsideOf(frames[u][k]))
        /\ ActiveOf(frames[u][k])' = ActiveOf(frames[u][k])
    BY LeftAlike
  <2>3. inside[u] = InsideOf(frames[u][k]) /\ active[u] = ActiveOf(frames[u][k])
    BY <2>1 DEF LocalsOf, Top
  <2>4. inside[u] \in BOOLEAN
    BY DEF TypeOK
  <2>5. Top(u)' = frames'[u][k]
    BY <2>1 DEF Top
  <2> QED BY <2>2, <2>3, <2>4, <2>5 DEF InsideOf, ActiveOf, WatchOf
<1>4. ASSUME NEW k \in DOMAIN frames[u]
      PROVE  /\ k = 1 => ~frames'[u][k].outer /\ frames'[u][k].previous = NoWatch
             /\ k # 1 => /\ frames'[u][k].outer = InsideOf(frames[u][k - 1])'
                         /\ frames'[u][k].previous = ActiveOf(frames[u][k - 1])'
             /\ frames'[u][k].role # "copy" =>
                    snap'[frames'[u][k].stage] = ActiveOf(frames[u][k])'
  <2>1. LeavesAlike(frames'[u][k], frames[u][k])
    OBVIOUS
  <2>2. /\ frames'[u][k].outer = frames[u][k].outer
        /\ frames'[u][k].previous = frames[u][k].previous
        /\ snap'[frames'[u][k].stage] = snap[frames[u][k].stage]
        /\ frames'[u][k].role # "copy" <=> frames[u][k].role # "copy"
        /\ ActiveOf(frames[u][k])' = ActiveOf(frames[u][k])
    BY <2>1, LeftAlike
  <2>3. CASE k = 1
    BY <2>2, <2>3 DEF LocalsOf
  <2>4. CASE k # 1
    <3>1. PICK j \in DOMAIN frames[u] : j = k - 1
      BY <1>2, <2>4
    <3>2. (InsideOf(frames[u][j])' <=> InsideOf(frames[u][j]))
          /\ ActiveOf(frames[u][j])' = ActiveOf(frames[u][j])
      BY LeftAlike
    <3>3. frames[u][k].outer \in BOOLEAN
      BY FrameFields
    <3>4. frames[u][k].outer = InsideOf(frames[u][j]) /\ frames[u][k].previous = ActiveOf(frames[u][j])
      BY <2>4, <3>1 DEF LocalsOf
    <3>5. frames'[u][k].outer = InsideOf(frames[u][j])' /\ frames'[u][k].previous = ActiveOf(frames[u][j])'
      BY <2>2, <3>2, <3>3, <3>4 DEF InsideOf
    <3>6. frames'[u][k].role # "copy" => snap'[frames'[u][k].stage] = ActiveOf(frames[u][k])'
      BY <2>2 DEF LocalsOf
    <3> QED BY <2>4, <3>1, <3>5, <3>6 DEF InsideOf, ActiveOf, WatchOf
  <2> QED BY <2>3, <2>4
<1> QED BY <1>2, <1>3, <1>4 DEF LocalsOf, InsideOf

(* The frames below the one on top tell the thread-locals a pop restores.  *)
LEMMA LocalsPopped ==
    ASSUME TypeOK, NEW t \in Threads, Busy(t), LocalsOf(t), Pops(t), snap' = snap,
           inside'[t] = Top(t).outer, active'[t] = Top(t).previous
    PROVE  LocalsOf(t)'
<1> DEFINE m == Len(frames[t])
<1>1. frames[t] \in Seq(Frame) /\ frames'[t] \in Seq(Frame)
  BY DEF TypeOK, Pops
<1>2. /\ m \in DOMAIN frames[t] /\ Top(t) = frames[t][m] /\ m \in Nat /\ m >= 1
      /\ Len(frames'[t]) = m - 1
      /\ DOMAIN frames'[t] = DOMAIN frames[t] \ {m}
      /\ \A k \in DOMAIN frames'[t] : frames'[t][k] = frames[t][k]
  BY <1>1, TopIsFrame, FramePositions DEF Pops, TypeOK
<1>3. frames'[t] = <<>> <=> m = 1
  <2>1. frames'[t] = <<>> <=> Len(frames'[t]) = 0
    BY <1>1, FramePositions
  <2>2. m \in Nat /\ Len(frames'[t]) = m - 1
    BY <1>2
  <2> QED BY <2>1, <2>2
<1>4. \A k \in DOMAIN frames'[t] : k # 1 => k - 1 \in DOMAIN frames'[t]
  BY <1>1, FramePositions
<1>5. \A k \in DOMAIN frames'[t] : k \in DOMAIN frames[t] /\ LeavesAlike(frames'[t][k], frames[t][k])
  BY <1>2 DEF LeavesAlike
<1>6. m = 1 => ~inside'[t] /\ active'[t] = NoWatch
  BY <1>2 DEF LocalsOf
<1>7. m # 1 => m - 1 \in DOMAIN frames'[t]
  BY <1>1, <1>2, FramePositions
<1>8. m # 1 => inside'[t] = InsideOf(Top(t))' /\ active'[t] = ActiveOf(Top(t))'
  <2> SUFFICES ASSUME m # 1
               PROVE  inside'[t] = InsideOf(Top(t))' /\ active'[t] = ActiveOf(Top(t))'
    OBVIOUS
  <2>1. PICK j \in DOMAIN frames'[t] : j = m - 1
    BY <1>7
  <2>2. (InsideOf(frames[t][j])' <=> InsideOf(frames[t][j]))
        /\ ActiveOf(frames[t][j])' = ActiveOf(frames[t][j])
    BY <1>5, LeftAlike
  <2>3. inside'[t] = InsideOf(frames[t][j]) /\ active'[t] = ActiveOf(frames[t][j])
    BY <1>2, <2>1 DEF LocalsOf
  <2>4. inside'[t] \in BOOLEAN
    BY TopFields
  <2>5. Top(t)' = frames'[t][j]
    BY <1>2, <2>1 DEF Top
  <2> QED BY <2>2, <2>3, <2>4, <2>5 DEF InsideOf, ActiveOf, WatchOf
<1>9. ASSUME NEW k \in DOMAIN frames'[t]
      PROVE  /\ k = 1 => ~frames'[t][k].outer /\ frames'[t][k].previous = NoWatch
             /\ k # 1 => /\ frames'[t][k].outer = InsideOf(frames[t][k - 1])'
                         /\ frames'[t][k].previous = ActiveOf(frames[t][k - 1])'
             /\ frames'[t][k].role # "copy" =>
                    snap'[frames'[t][k].stage] = ActiveOf(frames[t][k])'
  <2>1. k \in DOMAIN frames[t] /\ frames'[t][k] = frames[t][k]
    BY <1>2
  <2>2. ActiveOf(frames[t][k])' = ActiveOf(frames[t][k])
    BY <1>5, LeftAlike
  <2>3. frames'[t][k].role # "copy" => snap'[frames'[t][k].stage] = ActiveOf(frames[t][k])'
    BY <2>1, <2>2 DEF LocalsOf
  <2>4. CASE k = 1
    BY <2>1, <2>3, <2>4 DEF LocalsOf
  <2>5. CASE k # 1
    <3>1. PICK j \in DOMAIN frames'[t] : j = k - 1
      BY <1>4, <2>5
    <3>2. (InsideOf(frames[t][j])' <=> InsideOf(frames[t][j]))
          /\ ActiveOf(frames[t][j])' = ActiveOf(frames[t][j])
      BY <1>5, LeftAlike
    <3>3. frames[t][k].outer = InsideOf(frames[t][j]) /\ frames[t][k].previous = ActiveOf(frames[t][j])
      BY <2>1, <2>5, <3>1 DEF LocalsOf
    <3>4. frames[t][k].outer \in BOOLEAN
      BY <2>1, FrameFields
    <3>5. frames'[t][k].outer = InsideOf(frames[t][j])' /\ frames'[t][k].previous = ActiveOf(frames[t][j])'
      BY <2>1, <3>2, <3>3, <3>4 DEF InsideOf
    <3> QED BY <2>3, <2>5, <3>1, <3>5 DEF InsideOf, ActiveOf, WatchOf
  <2> QED BY <2>4, <2>5
<1> QED BY <1>3, <1>6, <1>8, <1>9 DEF LocalsOf, InsideOf

LEMMA LocalsPushed ==
    ASSUME TypeOK, NEW t \in Threads, LocalsOf(t), NEW g \in Frame, Pushes(t, g),
           g.outer = inside[t], g.previous = active[t],
           \A k \in DOMAIN frames[t] : snap'[frames[t][k].stage] = snap[frames[t][k].stage],
           inside'[t] = InsideOf(g)', active'[t] = ActiveOf(g)',
           g.role # "copy" => snap'[g.stage] = ActiveOf(g)'
    PROVE  LocalsOf(t)'
<1> DEFINE m == Len(frames[t])
<1>1. frames[t] \in Seq(Frame) /\ frames'[t] \in Seq(Frame)
  BY DEF TypeOK, Pushes
<1>2. /\ m \in Nat /\ Len(frames'[t]) = m + 1 /\ DOMAIN frames'[t] = DOMAIN frames[t] \cup {m + 1}
      /\ \A k \in DOMAIN frames[t] : frames'[t][k] = frames[t][k] /\ k <= m
      /\ frames'[t][m + 1] = g /\ frames'[t] # <<>>
  BY <1>1, FramePositions DEF Pushes
<1>3. \A k \in DOMAIN frames[t] : LeavesAlike(frames'[t][k], frames[t][k])
  BY <1>2 DEF LeavesAlike
<1>4. \A k \in DOMAIN frames[t] : k # 1 => k - 1 \in DOMAIN frames[t]
  BY <1>1, FramePositions
<1>5. PICK n \in DOMAIN frames'[t] : n = m + 1
  BY <1>2
<1>6. Top(t)' = frames'[t][n] /\ frames'[t][n] = g
  BY <1>2, <1>5 DEF Top
<1>7. inside'[t] = InsideOf(Top(t))' /\ active'[t] = ActiveOf(Top(t))'
  BY <1>6 DEF InsideOf, ActiveOf, WatchOf
<1>8. ASSUME NEW k \in DOMAIN frames[t]
      PROVE  /\ k = 1 => ~frames'[t][k].outer /\ frames'[t][k].previous = NoWatch
             /\ k # 1 => /\ frames'[t][k].outer = InsideOf(frames[t][k - 1])'
                         /\ frames'[t][k].previous = ActiveOf(frames[t][k - 1])'
             /\ frames'[t][k].role # "copy" =>
                    snap'[frames'[t][k].stage] = ActiveOf(frames[t][k])'
  <2>1. frames'[t][k] = frames[t][k]
    BY <1>2
  <2>2. ActiveOf(frames[t][k])' = ActiveOf(frames[t][k])
    BY <1>3, LeftAlike
  <2>3. frames'[t][k].role # "copy" => snap'[frames'[t][k].stage] = ActiveOf(frames[t][k])'
    BY <2>1, <2>2 DEF LocalsOf
  <2>4. CASE k = 1
    BY <2>1, <2>3, <2>4 DEF LocalsOf
  <2>5. CASE k # 1
    <3>1. PICK j \in DOMAIN frames[t] : j = k - 1
      BY <1>4, <2>5
    <3>2. (InsideOf(frames[t][j])' <=> InsideOf(frames[t][j]))
          /\ ActiveOf(frames[t][j])' = ActiveOf(frames[t][j])
      BY <1>3, LeftAlike
    <3>3. frames[t][k].outer = InsideOf(frames[t][j]) /\ frames[t][k].previous = ActiveOf(frames[t][j])
      BY <2>5, <3>1 DEF LocalsOf
    <3>4. frames[t][k].outer \in BOOLEAN
      BY FrameFields
    <3>5. frames'[t][k].outer = InsideOf(frames[t][j])' /\ frames'[t][k].previous = ActiveOf(frames[t][j])'
      BY <2>1, <3>2, <3>3, <3>4 DEF InsideOf
    <3> QED BY <2>3, <2>5, <3>1, <3>5 DEF InsideOf, ActiveOf, WatchOf
  <2> QED BY <2>4, <2>5
<1>9. /\ n = 1 => ~g.outer /\ g.previous = NoWatch
      /\ n # 1 => /\ g.outer = InsideOf(frames[t][n - 1])'
                  /\ g.previous = ActiveOf(frames[t][n - 1])'
  <2>1. CASE frames[t] = <<>>
    <3>1. m = 0
      BY <1>1, <2>1, FramePositions
    <3> QED BY <1>5, <2>1, <3>1 DEF LocalsOf
  <2>2. CASE frames[t] # <<>>
    <3>1. PICK j \in DOMAIN frames[t] : j = m /\ j # 0
      BY <1>1, <2>2, FramePositions
    <3>2. (InsideOf(frames[t][j])' <=> InsideOf(frames[t][j]))
          /\ ActiveOf(frames[t][j])' = ActiveOf(frames[t][j])
      BY <1>3, LeftAlike
    <3>3. inside[t] = InsideOf(frames[t][j]) /\ active[t] = ActiveOf(frames[t][j])
      BY <2>2, <3>1 DEF LocalsOf, Top
    <3>4. inside[t] \in BOOLEAN
      BY DEF TypeOK
    <3>5. g.outer = InsideOf(frames[t][j])' /\ g.previous = ActiveOf(frames[t][j])'
      BY <3>2, <3>3, <3>4 DEF InsideOf
    <3>6. n # 1 /\ n - 1 = j
      BY <1>2, <1>5, <3>1
    <3> QED BY <3>5, <3>6 DEF InsideOf, ActiveOf, WatchOf
  <2> QED BY <2>1, <2>2
<1>10. ASSUME NEW k \in DOMAIN frames'[t]
       PROVE  /\ k = 1 => ~frames'[t][k].outer /\ frames'[t][k].previous = NoWatch
              /\ k # 1 => /\ frames'[t][k].outer = InsideOf(frames[t][k - 1])'
                          /\ frames'[t][k].previous = ActiveOf(frames[t][k - 1])'
              /\ frames'[t][k].role # "copy" =>
                     snap'[frames'[t][k].stage] = ActiveOf(frames[t][k])'
  <2>1. CASE k \in DOMAIN frames[t]
    BY <1>8, <2>1
  <2>2. CASE k = n
    <3>1. frames'[t][n].role # "copy" => snap'[frames'[t][n].stage] = ActiveOf(frames[t][n])'
      BY <1>6 DEF ActiveOf, WatchOf
    <3> QED BY <1>6, <1>9, <2>2, <3>1 DEF ActiveOf, WatchOf
  <2> QED BY <1>2, <1>5, <2>1, <2>2
<1> QED BY <1>2, <1>7, <1>10 DEF LocalsOf, InsideOf

LEMMA LocalsStep ==
    ASSUME TypeOK, CallsStand, LocalsChained, [Next]_vars
    PROVE  LocalsChained'
<1>0. \A t \in Threads : LocalsOf(t) /\ frames[t] \in Seq(Frame)
  BY LocalsByThread DEF TypeOK
<1> SUFFICES \A u \in Threads : LocalsOf(u)'
  BY DEF LocalsChained, LocalsOf
<1>1. ASSUME NEW u \in Threads, frames'[u] = frames[u], inside'[u] = inside[u],
             active'[u] = active[u],
             \A k \in DOMAIN frames[u] : snap'[frames[u][k].stage] = snap[frames[u][k].stage]
      PROVE  LocalsOf(u)'
  <2>1. \A k \in DOMAIN frames[u] : LeavesAlike(frames'[u][k], frames[u][k])
    BY <1>1 DEF LeavesAlike
  <2> QED BY <1>0, <1>1, <2>1, LocalsSame
<1>2. ASSUME NEW t \in Threads, Claim(t) \/ TakeInline(t) \/ Compute(t) \/ Gather(t)
      PROVE  \A u \in Threads : LocalsOf(u)'
  <2>1. Busy(t) /\ inside' = inside /\ active' = active /\ snap' = snap
    BY <1>2 DEF Claim, TakeInline, Compute, Gather, On, InHand
  <2>2. \E g \in Frame : /\ Changes(t, g) /\ Alike(g, Top(t))
                         /\ g.role = "copy" <=> Top(t).role = "copy"
    <3>1. CASE Claim(t)
      BY <3>1, ClaimChanges
    <3>2. CASE TakeInline(t)
      BY <3>2, TakeInlineChanges
    <3>3. CASE Compute(t)
      BY <3>3, ComputeChanges
    <3>4. CASE Gather(t)
      BY <3>4, GatherChanges
    <3> QED BY <1>2, <3>1, <3>2, <3>3, <3>4
  <2>3. PICK g \in Frame : /\ Changes(t, g) /\ Alike(g, Top(t))
                           /\ g.role = "copy" <=> Top(t).role = "copy"
    BY <2>2
  <2>4. ASSUME NEW k \in DOMAIN frames[t] PROVE LeavesAlike(frames'[t][k], frames[t][k])
    <3>1. CASE k = Len(frames[t])
      BY <2>1, <2>3, <2>4, <3>1, ChangedPositions DEF LeavesAlike, Alike
    <3>2. CASE k # Len(frames[t])
      BY <2>1, <2>3, <2>4, <3>2, ChangedPositions DEF LeavesAlike
    <3> QED BY <3>1, <3>2
  <2>5. LocalsOf(t)'
    BY <1>0, <2>1, <2>3, <2>4, LocalsSame DEF Changes
  <2>6. \A u \in Threads \ {t} : frames'[u] = frames[u]
    BY <2>3 DEF Changes
  <2> QED BY <1>1, <2>1, <2>5, <2>6
<1>3. ASSUME NEW t \in Threads, Busy(t), Back(t), snap' = snap,
             inside' \in [Threads -> BOOLEAN], inside'[t] = Top(t).outer,
             \A u \in Threads \ {t} : inside'[u] = inside[u]
      PROVE  \A u \in Threads : LocalsOf(u)'
  <2>1. Pops(t) /\ active' = [active EXCEPT ![t] = Top(t).previous]
    BY <1>3, BackPops
  <2>2. active'[t] = Top(t).previous /\ \A u \in Threads \ {t} : active'[u] = active[u]
    BY <2>1 DEF TypeOK
  <2>3. LocalsOf(t)'
    BY <1>0, <1>3, <2>1, <2>2, LocalsPopped
  <2>4. \A u \in Threads \ {t} : frames'[u] = frames[u]
    BY <2>1 DEF Pops
  <2> QED BY <1>1, <1>3, <2>2, <2>3, <2>4
<1>4. ASSUME NEW t \in Threads, FinishCopy(t) \/ PanicInCopy(t)
      PROVE  \A u \in Threads : LocalsOf(u)'
  <2>1. /\ Busy(t) /\ Back(t) /\ snap' = snap /\ inside' = [inside EXCEPT ![t] = Top(t).outer]
    BY <1>4 DEF FinishCopy, PanicInCopy, On, Outer
  <2>2. /\ inside' \in [Threads -> BOOLEAN] /\ inside'[t] = Top(t).outer
        /\ \A u \in Threads \ {t} : inside'[u] = inside[u]
    BY <2>1, TopFields DEF TypeOK
  <2> QED BY <1>3, <2>1, <2>2
<1>5. ASSUME NEW t \in Threads, PanicOnCaller(t) \/ Resume(t) \/ Return(t)
      PROVE  \A u \in Threads : LocalsOf(u)'
  <2>1. Busy(t) /\ Back(t) /\ snap' = snap /\ inside' = inside /\ Top(t).role # "copy"
    BY <1>5 DEF PanicOnCaller, Resume, Return, On
  <2>2. inside[t] = InsideOf(Top(t))
    BY <1>0, <2>1 DEF LocalsOf, Busy
  <2>3. inside[t] = Top(t).outer
    BY <2>1, <2>2, TopFields DEF InsideOf
  <2>4. inside' \in [Threads -> BOOLEAN]
    BY <2>1 DEF TypeOK
  <2> QED BY <1>3, <2>1, <2>3, <2>4
<1>6. ASSUME NEW t \in Threads, NEW s \in Stages, Call(s, t)
      PROVE  \A u \in Threads : LocalsOf(u)'
  <2>1. PICK g \in Frame :
          /\ Pushes(t, g) /\ g.stage = s /\ g.role # "copy"
          /\ g.outer = inside[t] /\ g.previous = active[t]
    BY <1>6, CallPushes
  <2>2. /\ outcome[s] = "idle" /\ inside' = inside
        /\ active' = [active EXCEPT ![t] = Watched(s, t)]
        /\ snap' = [snap EXCEPT ![s] = Watched(s, t)]
    BY <1>6 DEF Call
  <2>3. \A u \in Threads : \A k \in DOMAIN frames[u] :
          snap'[frames[u][k].stage] = snap[frames[u][k].stage]
    <3>1. \A u \in Threads : \A k \in DOMAIN frames[u] : frames[u][k].stage \in Stages \ {s}
      BY <2>2, FrameFields DEF CallsStand
    <3> QED BY <2>2, <3>1 DEF TypeOK
  <2>4. /\ active'[t] = Watched(s, t) /\ snap'[s] = Watched(s, t)
        /\ \A u \in Threads \ {t} : active'[u] = active[u]
    BY <2>2 DEF TypeOK
  <2>5. ActiveOf(g)' = Watched(s, t) /\ (InsideOf(g)' <=> inside[t])
    BY <2>1 DEF ActiveOf, WatchOf, InsideOf, Watched
  <2>6. inside'[t] = InsideOf(g)'
    BY <2>2, <2>5 DEF TypeOK, InsideOf
  <2>7. LocalsOf(t)'
    BY <1>0, <2>1, <2>3, <2>4, <2>5, <2>6, LocalsPushed
  <2>8. \A u \in Threads \ {t} : frames'[u] = frames[u]
    BY <2>1 DEF Pushes
  <2> QED BY <1>1, <2>2, <2>3, <2>4, <2>7, <2>8
<1>7. ASSUME NEW t \in Threads, NEW s \in Stages, StartCopy(s, t)
      PROVE  \A u \in Threads : LocalsOf(u)'
  <2>1. PICK g \in Frame :
          /\ Pushes(t, g) /\ g.stage = s /\ g.role = "copy"
          /\ g.outer = inside[t] /\ g.previous = active[t]
    BY <1>7, StartCopyPushes
  <2>2. /\ snap' = snap /\ inside' = [inside EXCEPT ![t] = TRUE]
        /\ active' = [active EXCEPT ![t] = WithSnapshot(snap[s], t)]
    BY <1>7 DEF StartCopy
  <2>3. /\ inside'[t] = TRUE /\ active'[t] = WithSnapshot(snap[s], t)
        /\ \A u \in Threads \ {t} : active'[u] = active[u] /\ inside'[u] = inside[u]
    BY <2>2 DEF TypeOK
  <2>4. ActiveOf(g)' = WithSnapshot(snap[s], t) /\ InsideOf(g)' = TRUE
    BY <2>1, <2>2 DEF ActiveOf, WatchOf, InsideOf, WithSnapshot
  <2>5. LocalsOf(t)'
    BY <1>0, <2>1, <2>2, <2>3, <2>4, LocalsPushed
  <2>6. \A u \in Threads \ {t} : frames'[u] = frames[u]
    BY <2>1 DEF Pushes
  <2> QED BY <1>1, <2>2, <2>3, <2>5, <2>6
<1>8. ASSUME (\E w \in Watches \ {NoWatch} : Cancel(w)) \/ UNCHANGED vars
      PROVE  \A u \in Threads : LocalsOf(u)'
  <2>1. frames' = frames /\ inside' = inside /\ active' = active /\ snap' = snap
    BY <1>8 DEF Cancel, vars
  <2> QED BY <1>1, <2>1
<1> QED BY <1>2, <1>4, <1>5, <1>6, <1>7, <1>8, NextCases DEF Acts

-----------------------------------------------------------------------------
(* What was computed lies in one place.                                    *)
LEMMA ItemsRange ==
    ASSUME NEW a \in Seq(Value)
    PROVE  /\ Items(a) \subseteq 1..N
           /\ DOMAIN a = 1..Len(a) /\ Len(a) \in Nat
           /\ \A j \in DOMAIN a : a[j].item \in 1..N
<1>1. \A j \in DOMAIN a : a[j] \in Value
  BY LenProperties, ElementOfSeq
<1> QED BY <1>1, LenProperties DEF Items, Value

LEMMA ItemsEmpty == Items(<<>>) = {} /\ Once(<<>>)
  BY DEF Items, Once

LEMMA ItemsAppend ==
    ASSUME NEW a \in Seq(Value), NEW v \in Value
    PROVE  /\ Items(Append(a, v)) = Items(a) \cup {v.item}
           /\ Once(a) /\ v.item \notin Items(a) => Once(Append(a, v))
<1>1. /\ DOMAIN Append(a, v) = 1..(Len(a) + 1)
      /\ \A k \in 1..Len(a) : Append(a, v)[k] = a[k]
      /\ Append(a, v)[Len(a) + 1] = v
  BY AppendProperties
<1>2. DOMAIN a = 1..Len(a) /\ Len(a) \in Nat
  BY LenProperties
<1>3. 1..(Len(a) + 1) = DOMAIN a \cup {Len(a) + 1}
  BY <1>2
<1> DEFINE b == Append(a, v)
           m == Len(a) + 1
<1>4. /\ DOMAIN b = DOMAIN a \cup {m} /\ b[m] = v
      /\ \A k \in DOMAIN a : b[k] = a[k]
  BY <1>1, <1>2, <1>3
<1> HIDE DEF b, m
<1>5. Items(b) = Items(a) \cup {v.item}
  BY <1>4 DEF Items
<1>6. Once(a) /\ v.item \notin Items(a) => Once(b)
  BY <1>4 DEF Items, Once
<1> QED BY <1>5, <1>6 DEF b

LEMMA ItemsConcat ==
    ASSUME NEW a \in Seq(Value), NEW b \in Seq(Value)
    PROVE  /\ Items(a \o b) = Items(a) \cup Items(b)
           /\ Once(a) /\ Once(b) /\ Items(a) \cap Items(b) = {} => Once(a \o b)
<1> DEFINE c == a \o b
           m == Len(a)
           n == Len(b)
<1>1. /\ c \in Seq(Value) /\ Len(c) = m + n
      /\ \A k \in 1..(m + n) : c[k] = IF k <= m THEN a[k] ELSE b[k - m]
  BY ConcatProperties
<1>2. /\ DOMAIN a = 1..m /\ m \in Nat /\ DOMAIN b = 1..n /\ n \in Nat
      /\ DOMAIN c = 1..(m + n)
  BY <1>1, LenProperties
<1> HIDE DEF c, m, n
<1>3. ASSUME NEW k \in DOMAIN c
      PROVE  \/ k \in DOMAIN a /\ k <= m /\ c[k] = a[k]
             \/ k > m /\ k - m \in DOMAIN b /\ c[k] = b[k - m]
  BY <1>1, <1>2
<1>4. \A k \in DOMAIN a : k \in DOMAIN c /\ c[k] = a[k]
  BY <1>1, <1>2
<1>5. \A k \in DOMAIN b : k + m \in DOMAIN c /\ c[k + m] = b[k]
  BY <1>1, <1>2
<1>6. Items(c) = Items(a) \cup Items(b)
  BY <1>3, <1>4, <1>5 DEF Items
<1>7. ASSUME Once(a), Once(b), Items(a) \cap Items(b) = {} PROVE Once(c)
  <2> SUFFICES ASSUME NEW j \in DOMAIN c, NEW k \in DOMAIN c, c[j].item = c[k].item
               PROVE  j = k
    BY DEF Once
  <2>0. j \in Int /\ k \in Int /\ m \in Int
    BY <1>2
  <2>1. CASE j <= m /\ k <= m
    BY <1>3, <1>7, <2>0, <2>1 DEF Once
  <2>2. CASE j > m /\ k > m
    <3>1. j - m \in DOMAIN b /\ k - m \in DOMAIN b /\ b[j - m].item = b[k - m].item
      BY <1>3, <2>0, <2>2
    <3>2. j - m = k - m
      BY <1>7, <3>1 DEF Once
    <3> QED BY <2>0, <3>2
  <2>3. CASE j <= m /\ k > m
    <3>1. c[j].item \in Items(a) /\ c[k].item \in Items(b)
      BY <1>3, <2>0, <2>3 DEF Items
    <3> QED BY <1>7, <3>1
  <2>4. CASE j > m /\ k <= m
    <3>1. c[j].item \in Items(b) /\ c[k].item \in Items(a)
      BY <1>3, <2>0, <2>4 DEF Items
    <3> QED BY <1>7, <3>1
  <2> QED BY <2>0, <2>1, <2>2, <2>3, <2>4
<1> QED BY <1>6, <1>7 DEF c

(* What ValuesApart says of one frame.                                     *)
ValuesHeld(f) ==
    /\ Once(f.mine)
    /\ \A i \in Items(f.mine) : ran[f.stage][i] = 1
    /\ Items(f.mine) \cap Items(parts[f.stage]) = {}
    /\ f.role = "wait" => f.mine = <<>>
    /\ f.role = "take" => parts[f.stage] = <<>>
    /\ f.role = "inline" => \A j \in DOMAIN f.mine : f.mine[j].item = j

PartsHeld(s) == Once(parts[s]) /\ \A i \in Items(parts[s]) : ran[s][i] = 1

LEMMA ValuesByFrame ==
    ValuesApart <=>
        /\ \A s \in Stages : PartsHeld(s)
        /\ \A t \in Threads : \A k \in DOMAIN frames[t] : ValuesHeld(frames[t][k])
        /\ \A t, u \in Threads : \A k \in DOMAIN frames[t], j \in DOMAIN frames[u] :
            (frames[t][k].stage = frames[u][j].stage /\ (t # u \/ k # j))
                => Items(frames[t][k].mine) \cap Items(frames[u][j].mine) = {}
  BY DEF ValuesApart, ValuesHeld, PartsHeld

LEMMA FrameHeld ==
    ASSUME ValuesApart, NEW t \in Threads, NEW k \in DOMAIN frames[t]
    PROVE  ValuesHeld(frames[t][k])
  BY ValuesByFrame

LEMMA FramesApart ==
    ASSUME ValuesApart, NEW t \in Threads, NEW u \in Threads,
           NEW k \in DOMAIN frames[t], NEW j \in DOMAIN frames[u],
           frames[t][k].stage = frames[u][j].stage, t # u \/ k # j
    PROVE  Items(frames[t][k].mine) \cap Items(frames[u][j].mine) = {}
  BY DEF ValuesApart

LEMMA ValuesFromFrames ==
    ASSUME \A s \in Stages : PartsHeld(s)',
           \A u \in Threads : \A k \in DOMAIN frames'[u] :
                \E h \in Frame : h = frames'[u][k] /\ ValuesHeld(h)',
           \A t, u \in Threads : \A k \in DOMAIN frames'[t], j \in DOMAIN frames'[u] :
                (frames'[t][k].stage = frames'[u][j].stage /\ (t # u \/ k # j))
                    => Items(frames'[t][k].mine) \cap Items(frames'[u][j].mine) = {}
    PROVE  ValuesApart'
<1>1. ASSUME NEW u \in Threads, NEW k \in DOMAIN frames'[u] PROVE ValuesHeld(frames[u][k])'
  <2>1. PICK h \in Frame : h = frames'[u][k] /\ ValuesHeld(h)'
    BY <1>1
  <2> QED BY <2>1 DEF ValuesHeld
<1>2. \A t, u \in Threads : \A k \in DOMAIN frames'[t], j \in DOMAIN frames'[u] :
        (frames'[t][k].stage = frames'[u][j].stage /\ (t # u \/ k # j))
            => (Items(frames[t][k].mine) \cap Items(frames[u][j].mine))' = {}
  BY DEF Items
<1> QED BY <1>1, <1>2 DEF ValuesApart, ValuesHeld, PartsHeld

LEMMA ValuesHeldKept ==
    ASSUME NEW h \in Frame, ValuesHeld(h),
           \A i \in 1..N : ran[h.stage][i] = 1 => ran'[h.stage][i] = 1,
           parts'[h.stage] = parts[h.stage]
    PROVE  ValuesHeld(h)'
<1>1. h.mine \in Seq(Value)
  BY DEF Frame
<1>2. Items(h.mine) \subseteq 1..N
  BY <1>1, ItemsRange
<1> QED BY <1>2 DEF ValuesHeld

LEMMA PartsHeldKept ==
    ASSUME TypeOK, NEW s \in Stages, PartsHeld(s),
           \A i \in 1..N : ran[s][i] = 1 => ran'[s][i] = 1, parts'[s] = parts[s]
    PROVE  PartsHeld(s)'
<1>1. parts[s] \in Seq(Value)
  BY DEF TypeOK
<1>2. Items(parts[s]) \subseteq 1..N
  BY <1>1, ItemsRange
<1> QED BY <1>2 DEF PartsHeld

(* A step that computes nothing and hands nothing over.                    *)
LEMMA ValuesUntouched ==
    ASSUME TypeOK, ValuesApart, parts' = parts,
           \A s \in Stages, i \in 1..N : ran[s][i] = 1 => ran'[s][i] = 1,
           \A u \in Threads : \A k \in DOMAIN frames'[u] :
                /\ frames'[u][k] \in Frame
                /\ \/ /\ k \in DOMAIN frames[u]
                      /\ frames'[u][k].stage = frames[u][k].stage
                      /\ frames'[u][k].role = frames[u][k].role
                      /\ frames'[u][k].mine = frames[u][k].mine
                   \/ frames'[u][k].mine = <<>> /\ frames'[u][k].role # "take"
    PROVE  ValuesApart'
<1>1. \A s \in Stages : PartsHeld(s)'
  BY ValuesByFrame, PartsHeldKept
<1>2. ASSUME NEW u \in Threads, NEW k \in DOMAIN frames'[u]
      PROVE  \E h \in Frame : h = frames'[u][k] /\ ValuesHeld(h)'
  <2>1. PICK h \in Frame : h = frames'[u][k]
    OBVIOUS
  <2>2. CASE /\ k \in DOMAIN frames[u] /\ h.stage = frames[u][k].stage
             /\ h.role = frames[u][k].role /\ h.mine = frames[u][k].mine
    <3>1. ValuesHeld(frames[u][k])
      BY <2>2, ValuesByFrame
    <3>2. ValuesHeld(h)
      BY <2>2, <3>1 DEF ValuesHeld
    <3>3. h.stage \in Stages
      BY DEF Frame
    <3> QED BY <2>1, <3>2, <3>3, ValuesHeldKept
  <2>3. CASE h.mine = <<>> /\ h.role # "take"
    BY <2>1, <2>3, ItemsEmpty DEF ValuesHeld
  <2> QED BY <2>1, <2>2, <2>3
<1>3. ASSUME NEW t \in Threads, NEW u \in Threads,
             NEW k \in DOMAIN frames'[t], NEW j \in DOMAIN frames'[u],
             frames'[t][k].stage = frames'[u][j].stage, t # u \/ k # j
      PROVE  Items(frames'[t][k].mine) \cap Items(frames'[u][j].mine) = {}
  <2>1. CASE frames'[t][k].mine = <<>> \/ frames'[u][j].mine = <<>>
    BY <2>1, ItemsEmpty
  <2>2. CASE frames'[t][k].mine # <<>> /\ frames'[u][j].mine # <<>>
    <3>1. /\ k \in DOMAIN frames[t] /\ j \in DOMAIN frames[u]
          /\ frames[t][k].stage = frames[u][j].stage
          /\ frames'[t][k].mine = frames[t][k].mine /\ frames'[u][j].mine = frames[u][j].mine
      BY <1>3, <2>2
    <3>2. Items(frames[t][k].mine) \cap Items(frames[u][j].mine) = {}
      BY <1>3, <3>1, ValuesByFrame
    <3> QED BY <3>1, <3>2
  <2> QED BY <2>1, <2>2
<1> QED BY <1>1, <1>2, <1>3, ValuesFromFrames

LEMMA NewFrameTyped ==
    ASSUME NEW t \in Threads,
           Pops(t) \/ (\E g \in Frame : Changes(t, g) \/ Pushes(t, g))
    PROVE  \A u \in Threads : \A k \in DOMAIN frames'[u] : frames'[u][k] \in Frame
<1>1. frames' \in [Threads -> Seq(Frame)]
  BY DEF Pops, Changes, Pushes
<1> QED BY <1>1, LenProperties, ElementOfSeq

LEMMA ValuesStep ==
    ASSUME TypeOK, CallsStand, ClaimsHold, ClaimedOrDone, ValuesApart, [Next]_vars
    PROVE  ValuesApart'
<1>0. ASSUME NEW t \in Threads, Acts(t)
      PROVE  \A s \in Stages, i \in 1..N : ran[s][i] = 1 => ran'[s][i] = 1
  BY <1>0, RanStep
<1>1. ASSUME NEW t \in Threads, Claim(t) \/ TakeInline(t) PROVE ValuesApart'
  <2>1. Acts(t) /\ Busy(t) /\ parts' = parts
    BY <1>1 DEF Acts, Claim, TakeInline, On
  <2>2. \E g \in Frame : /\ Changes(t, g) /\ g.stage = Top(t).stage /\ g.role = Top(t).role
                         /\ g.mine = Top(t).mine
    <3>1. CASE Claim(t)
      BY <3>1, ClaimChanges DEF Alike
    <3>2. CASE TakeInline(t)
      BY <3>2, TakeInlineChanges DEF Alike
    <3> QED BY <1>1, <3>1, <3>2
  <2>3. \A u \in Threads : \A k \in DOMAIN frames'[u] :
          /\ k \in DOMAIN frames[u]
          /\ frames'[u][k].stage = frames[u][k].stage
          /\ frames'[u][k].role = frames[u][k].role
          /\ frames'[u][k].mine = frames[u][k].mine
    BY <2>1, <2>2, ChangedPositions
  <2> QED BY <1>0, <2>1, <2>2, <2>3, NewFrameTyped, ValuesUntouched
<1>2. ASSUME NEW t \in Threads, PanicInCopy(t) \/ PanicOnCaller(t) \/ Resume(t) \/ Return(t)
      PROVE  ValuesApart'
  <2>1. Acts(t) /\ Busy(t) /\ Back(t) /\ parts' = parts
    BY <1>2 DEF Acts, PanicInCopy, PanicOnCaller, Resume, Return, On
  <2>2. Pops(t)
    BY <2>1, BackPops
  <2>3. \A u \in Threads : \A k \in DOMAIN frames'[u] :
          k \in DOMAIN frames[u] /\ frames'[u][k] = frames[u][k]
    BY <2>1, <2>2, PoppedPositions
  <2> QED BY <1>0, <2>1, <2>2, <2>3, NewFrameTyped, ValuesUntouched
<1>3. ASSUME NEW t \in Threads, Compute(t) PROVE ValuesApart'
  <2>1. Busy(t) /\ Acts(t) /\ Runs(t) /\ parts' = parts
    BY <1>3 DEF Acts, Runs, Compute, InHand
  <2>2. PICK s \in Stages, j \in 1..N : s = Top(t).stage /\ j = Top(t).item
    BY <2>1, TopFields, RanStep
  <2>3. PICK g \in Frame, v \in Value :
          /\ Changes(t, g) /\ g.stage = s /\ g.role = Top(t).role
          /\ v.item = j /\ g.mine = Append(Top(t).mine, v)
    BY <1>3, <2>2, ComputeChanges DEF Alike
  <2>4. ran[s][j] = 0 /\ \A i \in 1..N : ran'[s][i] = IF i = j THEN 1 ELSE ran[s][i]
    BY <2>1, <2>2, RanStep
  <2>5. /\ Len(frames[t]) \in DOMAIN frames[t] /\ Top(t) = frames[t][Len(frames[t])]
        /\ Top(t).mine \in Seq(Value)
    BY <2>1, TopIsFrame, TopFields DEF TypeOK
  <2>6. /\ \A r \in Stages : PartsHeld(r)
        /\ \A u \in Threads : \A k \in DOMAIN frames[u] : ValuesHeld(frames[u][k])
    BY ValuesByFrame
  <2>7. /\ Items(g.mine) = Items(Top(t).mine) \cup {j}
        /\ j \notin Items(Top(t).mine) => Once(g.mine)
    <3>1. Once(Top(t).mine)
      BY <2>5, FrameHeld DEF ValuesHeld
    <3>2. /\ Items(Append(Top(t).mine, v)) = Items(Top(t).mine) \cup {v.item}
          /\ Once(Top(t).mine) /\ v.item \notin Items(Top(t).mine) => Once(Append(Top(t).mine, v))
      BY <2>5, ItemsAppend
    <3> QED BY <2>3, <3>1, <3>2
  <2>8. ASSUME NEW u \in Threads, NEW k \in DOMAIN frames[u], frames[u][k].stage = s
        PROVE  j \notin Items(frames[u][k].mine)
    <3>1. ValuesHeld(frames[u][k])
      BY FrameHeld
    <3> QED BY <2>4, <2>8, <3>1 DEF ValuesHeld
  <2>9. j \notin Items(parts[s]) /\ j \notin Items(Top(t).mine)
    BY <2>2, <2>4, <2>5, <2>6, <2>8 DEF PartsHeld
  <2>10. \A r \in Stages : PartsHeld(r)'
    BY <1>0, <2>1, <2>6, PartsHeldKept
  <2>11. ValuesHeld(g)'
    <3>1. ValuesHeld(Top(t)) /\ Items(Top(t).mine) \subseteq 1..N
      BY <2>5, <2>6, ItemsRange
    <3>2. Once(g.mine) /\ \A i \in Items(g.mine) : ran'[s][i] = 1
      BY <2>2, <2>4, <2>7, <2>9, <3>1 DEF ValuesHeld
    <3>3. Items(g.mine) \cap Items(parts[s]) = {}
      BY <2>2, <2>7, <2>9, <3>1 DEF ValuesHeld
    <3>4. g.role # "wait" /\ (g.role = "take" => parts[s] = <<>>)
      BY <2>1, <2>2, <2>3, <3>1, RanStep DEF ValuesHeld
    <3>5. g.role = "inline" => \A i \in DOMAIN g.mine : g.mine[i].item = i
      <4> SUFFICES ASSUME g.role = "inline", NEW i \in DOMAIN g.mine
                   PROVE  g.mine[i].item = i
        OBVIOUS
      <4> DEFINE a == Top(t).mine
      <4>1. j = Len(a) + 1
        BY <2>2, <2>3, <2>5, ParallelAssumption DEF ClaimsHold
      <4>2. /\ DOMAIN g.mine = 1..(Len(a) + 1)
            /\ \A k \in 1..Len(a) : g.mine[k] = a[k]
            /\ g.mine[Len(a) + 1] = v
        BY <2>3, <2>5, AppendProperties
      <4>3. Len(a) \in Nat /\ DOMAIN a = 1..Len(a)
        BY <2>5, ItemsRange
      <4>4. \A k \in DOMAIN a : a[k].item = k
        BY <2>3, <3>1 DEF ValuesHeld
      <4>5. i = Len(a) + 1 \/ i \in DOMAIN a
        BY <4>2, <4>3
      <4> QED BY <2>3, <4>1, <4>2, <4>3, <4>4, <4>5
    <3> QED BY <2>1, <2>3, <3>2, <3>3, <3>4, <3>5 DEF ValuesHeld
  <2>12. ASSUME NEW u \in Threads, NEW k \in DOMAIN frames'[u]
         PROVE  \E h \in Frame : h = frames'[u][k] /\ ValuesHeld(h)'
    <3>1. CASE u = t /\ k = Len(frames[t])
      BY <2>1, <2>3, <2>11, <2>12, <3>1, ChangedPositions
    <3>2. CASE ~(u = t /\ k = Len(frames[t]))
      <4>1. k \in DOMAIN frames[u] /\ frames'[u][k] = frames[u][k]
        BY <2>1, <2>3, <2>12, <3>2, ChangedPositions
      <4>2. PICK h \in Frame : h = frames[u][k] /\ h.stage \in Stages
        BY <4>1, FrameFields
      <4>3. ValuesHeld(h)
        BY <2>6, <4>1, <4>2 DEF ValuesHeld
      <4>4. ValuesHeld(h)'
        BY <1>0, <2>1, <4>2, <4>3, ValuesHeldKept
      <4> QED BY <4>1, <4>2, <4>4
    <3> QED BY <3>1, <3>2
  <2>13. ASSUME NEW u \in Threads, NEW k \in DOMAIN frames'[u],
                NEW w \in Threads, NEW i \in DOMAIN frames'[w],
                frames'[u][k].stage = frames'[w][i].stage, u # w \/ k # i
         PROVE  Items(frames'[u][k].mine) \cap Items(frames'[w][i].mine) = {}
    <3>1. k \in DOMAIN frames[u] /\ i \in DOMAIN frames[w]
      BY <2>1, <2>3, <2>13, ChangedPositions
    <3>2. frames[u][k].stage = frames[w][i].stage
      <4>1. g.stage = Top(t).stage
        BY <2>2, <2>3
      <4>2. \A x \in Threads : \A y \in DOMAIN frames'[x] :
              frames'[x][y].stage = frames[x][y].stage
        BY <2>1, <2>3, <4>1, ChangedPositions
      <4> QED BY <2>13, <4>2
    <3>3. Items(frames[u][k].mine) \cap Items(frames[w][i].mine) = {}
      BY <2>13, <3>1, <3>2, ValuesByFrame
    <3>4. CASE u = t /\ k = Len(frames[t])
      <4>1. /\ frames'[u][k] = g /\ frames'[w][i] = frames[w][i] /\ frames[w][i].stage = s
            /\ frames[u][k] = Top(t)
        BY <2>1, <2>3, <2>5, <2>13, <3>1, <3>4, ChangedPositions
      <4>2. j \notin Items(frames[w][i].mine)
        BY <2>8, <3>1, <4>1
      <4> QED BY <2>7, <3>3, <4>1, <4>2
    <3>5. CASE w = t /\ i = Len(frames[t])
      <4>1. /\ frames'[w][i] = g /\ frames'[u][k] = frames[u][k] /\ frames[u][k].stage = s
            /\ frames[w][i] = Top(t)
        BY <2>1, <2>3, <2>5, <2>13, <3>1, <3>5, ChangedPositions
      <4>2. j \notin Items(frames[u][k].mine)
        BY <2>8, <3>1, <4>1
      <4> QED BY <2>7, <3>3, <4>1, <4>2
    <3>6. CASE ~(u = t /\ k = Len(frames[t])) /\ ~(w = t /\ i = Len(frames[t]))
      <4>1. frames'[u][k] = frames[u][k] /\ frames'[w][i] = frames[w][i]
        BY <2>1, <2>3, <2>13, <3>6, ChangedPositions
      <4> QED BY <3>3, <4>1
    <3> QED BY <3>4, <3>5, <3>6
  <2> QED BY <2>10, <2>12, <2>13, ValuesFromFrames
<1>4. ASSUME NEW t \in Threads, Gather(t) PROVE ValuesApart'
  <2>1. /\ Busy(t) /\ Acts(t) /\ ran' = ran /\ Top(t).role = "wait"
        /\ CopiesReturned(Top(t).stage)
        /\ parts' = [parts EXCEPT ![Top(t).stage] = <<>>]
    BY <1>4, GatherChanges DEF Acts, Gather
  <2>2. PICK s \in Stages : s = Top(t).stage
    BY <2>1, TopFields
  <2>3. PICK g \in Frame :
          Changes(t, g) /\ g.stage = s /\ g.role = "take" /\ g.mine = parts[s]
    BY <1>4, <2>2, GatherChanges DEF Alike
  <2>4. parts'[s] = <<>> /\ \A r \in Stages \ {s} : parts'[r] = parts[r]
    BY <2>1, <2>2 DEF TypeOK
  <2>5. \A u \in Threads : \A k \in DOMAIN frames[u] :
          frames[u][k].stage = s => u = t /\ k = Len(frames[t])
    BY <2>1, <2>2, LastOfStage
  <2>6. \A r \in Stages : PartsHeld(r)'
    <3>1. PartsHeld(s)'
      BY <2>4, ItemsEmpty DEF PartsHeld
    <3>2. \A r \in Stages \ {s} : PartsHeld(r)'
      BY <2>1, <2>4, PartsHeldKept, ValuesByFrame
    <3> QED BY <3>1, <3>2
  <2>7. ValuesHeld(g)'
    <3>1. PartsHeld(s)
      BY ValuesByFrame
    <3> QED BY <2>1, <2>3, <2>4, <3>1, ItemsEmpty DEF PartsHeld, ValuesHeld
  <2>8. \A u \in Threads : \A k \in DOMAIN frames'[u] :
          \/ u = t /\ k = Len(frames[t]) /\ frames'[u][k] = g
          \/ k \in DOMAIN frames[u] /\ frames'[u][k] = frames[u][k] /\ frames[u][k].stage # s
    BY <2>1, <2>3, <2>5, ChangedPositions
  <2>9. ASSUME NEW u \in Threads, NEW k \in DOMAIN frames'[u]
        PROVE  \E h \in Frame : h = frames'[u][k] /\ ValuesHeld(h)'
    <3>1. CASE k \in DOMAIN frames[u] /\ frames'[u][k] = frames[u][k] /\ frames[u][k].stage # s
      <4>1. PICK h \in Frame : h = frames[u][k] /\ h.stage \in Stages \ {s}
        BY <3>1, FrameFields
      <4>2. ValuesHeld(h)
        <5>1. ValuesHeld(frames[u][k])
          BY <3>1, FrameHeld
        <5> QED BY <4>1, <5>1 DEF ValuesHeld
      <4>3. ValuesHeld(h)'
        BY <2>1, <2>4, <4>1, <4>2, ValuesHeldKept
      <4> QED BY <3>1, <4>1, <4>3
    <3> QED BY <2>7, <2>8, <2>9, <3>1
  <2>10. ASSUME NEW u \in Threads, NEW k \in DOMAIN frames'[u],
                NEW w \in Threads, NEW i \in DOMAIN frames'[w],
                frames'[u][k].stage = frames'[w][i].stage, u # w \/ k # i
         PROVE  Items(frames'[u][k].mine) \cap Items(frames'[w][i].mine) = {}
    <3>1. /\ k \in DOMAIN frames[u] /\ frames'[u][k] = frames[u][k]
          /\ i \in DOMAIN frames[w] /\ frames'[w][i] = frames[w][i]
      BY <2>3, <2>8, <2>10
    <3> QED BY <2>10, <3>1, ValuesByFrame
  <2> QED BY <2>6, <2>9, <2>10, ValuesFromFrames
<1>5. ASSUME NEW t \in Threads, FinishCopy(t) PROVE ValuesApart'
  <2>1. /\ Busy(t) /\ Acts(t) /\ Back(t) /\ ran' = ran /\ Top(t).role = "copy"
        /\ parts' = [parts EXCEPT ![Top(t).stage] = @ \o Top(t).mine]
    BY <1>5 DEF Acts, FinishCopy, On
  <2>2. PICK s \in Stages : s = Top(t).stage
    BY <2>1, TopFields
  <2>3. Pops(t)
    BY <2>1, BackPops
  <2>4. parts'[s] = parts[s] \o Top(t).mine /\ \A r \in Stages \ {s} : parts'[r] = parts[r]
    BY <2>1, <2>2 DEF TypeOK
  <2>5. /\ Len(frames[t]) \in DOMAIN frames[t] /\ Top(t) = frames[t][Len(frames[t])]
        /\ Top(t).mine \in Seq(Value) /\ parts[s] \in Seq(Value)
    BY <2>1, TopIsFrame, TopFields DEF TypeOK
  <2>6. ValuesHeld(Top(t)) /\ PartsHeld(s)
    BY <2>5, ValuesByFrame
  <2>7. Items(parts'[s]) = Items(parts[s]) \cup Items(Top(t).mine) /\ Once(parts'[s])
    <3>1. /\ Once(parts[s]) /\ Once(Top(t).mine)
          /\ Items(parts[s]) \cap Items(Top(t).mine) = {}
      BY <2>2, <2>6 DEF ValuesHeld, PartsHeld
    <3>2. /\ Items(parts[s] \o Top(t).mine) = Items(parts[s]) \cup Items(Top(t).mine)
          /\ Once(parts[s] \o Top(t).mine)
      BY <2>5, <3>1, ItemsConcat
    <3> QED BY <2>4, <3>2
  <2>8. \A r \in Stages : PartsHeld(r)'
    <3>1. PartsHeld(s)'
      BY <2>1, <2>2, <2>6, <2>7 DEF PartsHeld, ValuesHeld
    <3>2. \A r \in Stages \ {s} : PartsHeld(r)'
      BY <2>1, <2>4, PartsHeldKept, ValuesByFrame
    <3> QED BY <3>1, <3>2
  <2>9. \A u \in Threads : \A k \in DOMAIN frames'[u] :
          /\ k \in DOMAIN frames[u] /\ frames'[u][k] = frames[u][k]
          /\ ~(u = t /\ k = Len(frames[t]))
    BY <2>1, <2>3, PoppedPositions
  <2>10. PICK x \in Threads : \E y \in DOMAIN frames[x] :
           frames[x][y].stage = s /\ frames[x][y].role = "wait"
    BY <2>1, <2>2, <2>5 DEF CallsStand
  <2>11. PICK y \in DOMAIN frames[x] : frames[x][y].stage = s /\ frames[x][y].role = "wait"
    BY <2>10
  <2>12. ASSUME NEW u \in Threads, NEW k \in DOMAIN frames'[u]
         PROVE  \E h \in Frame : h = frames'[u][k] /\ ValuesHeld(h)'
    <3>1. k \in DOMAIN frames[u] /\ frames'[u][k] = frames[u][k] /\ ~(u = t /\ k = Len(frames[t]))
      BY <2>9, <2>12
    <3>2. PICK h \in Frame : h = frames[u][k] /\ h.stage \in Stages
      BY <3>1, FrameFields
    <3>0. ValuesHeld(frames[u][k])
      BY <3>1, FrameHeld
    <3>3. ValuesHeld(h)
      BY <3>0, <3>2
    <3>4. CASE h.stage # s
      <4>1. ValuesHeld(h)'
        BY <2>1, <2>4, <3>2, <3>3, <3>4, ValuesHeldKept
      <4> QED BY <3>1, <3>2, <4>1
    <3>5. CASE h.stage = s
      <4>1. Items(h.mine) \cap Items(Top(t).mine) = {}
        BY <2>2, <2>5, <3>1, <3>2, <3>5, ValuesByFrame
      <4>2. h.role # "take"
        <5> SUFFICES ASSUME h.role = "take" PROVE FALSE
          OBVIOUS
        <5>1. u = x /\ k = y
          BY <2>11, <3>1, <3>2, <3>5, OneCall
        <5> QED BY <2>11, <3>2, <5>1
      <4>3. ValuesHeld(h)'
        BY <2>1, <2>7, <3>3, <3>5, <4>1, <4>2 DEF ValuesHeld
      <4> QED BY <3>1, <3>2, <4>3
    <3> QED BY <3>4, <3>5
  <2>13. ASSUME NEW u \in Threads, NEW k \in DOMAIN frames'[u],
                NEW w \in Threads, NEW i \in DOMAIN frames'[w],
                frames'[u][k].stage = frames'[w][i].stage, u # w \/ k # i
         PROVE  Items(frames'[u][k].mine) \cap Items(frames'[w][i].mine) = {}
    <3>1. /\ k \in DOMAIN frames[u] /\ frames'[u][k] = frames[u][k]
          /\ i \in DOMAIN frames[w] /\ frames'[w][i] = frames[w][i]
      BY <2>9, <2>13
    <3> QED BY <2>13, <3>1, FramesApart
  <2> QED BY <2>8, <2>12, <2>13, ValuesFromFrames
<1>6. ASSUME NEW t \in Threads, NEW s \in Stages, Call(s, t) \/ StartCopy(s, t)
      PROVE  ValuesApart'
  <2>1. parts' = parts /\ ran' = ran
    BY <1>6 DEF Call, StartCopy
  <2>2. PICK g \in Frame : Pushes(t, g) /\ g.mine = <<>> /\ g.role # "take"
    BY <1>6, CallPushes, StartCopyPushes
  <2>3. \A u \in Threads : \A k \in DOMAIN frames'[u] :
          \/ k \in DOMAIN frames[u] /\ frames'[u][k] = frames[u][k]
          \/ frames'[u][k] = g
    BY <2>2, PushedPositions
  <2> QED BY <2>1, <2>2, <2>3, NewFrameTyped, ValuesUntouched
<1>7. ASSUME (\E w \in Watches \ {NoWatch} : Cancel(w)) \/ UNCHANGED vars PROVE ValuesApart'
  <2>1. parts' = parts /\ ran' = ran /\ frames' = frames
    BY <1>7 DEF Cancel, vars
  <2> QED BY <2>1, FrameFields, ValuesUntouched
<1> QED BY <1>1, <1>2, <1>3, <1>4, <1>5, <1>6, <1>7, NextCases DEF Acts

-----------------------------------------------------------------------------
(* Nothing computed is lost.                                               *)
Kept(s) == \A i \in 1..N : ran[s][i] = 1 => i \in Items(parts[s]) \/ ComputedBy(s, i)

KeptAt(f) == (f.role # "inline" /\ ~panicked[f.stage]) => Kept(f.stage)

LEMMA KeptByFrame ==
    ValuesKept <=> \A t \in Threads : \A k \in DOMAIN frames[t] : KeptAt(frames[t][k])
  BY DEF ValuesKept, KeptAt, Kept

(* What the frames hold of a stage is not lost where each stays or grows.  *)
LEMMA ComputedKept ==
    ASSUME NEW s, NEW i, ComputedBy(s, i),
           \A u \in Threads : \A k \in DOMAIN frames[u] :
                (frames[u][k].stage = s /\ i \in Items(frames[u][k].mine)) =>
                    /\ k \in DOMAIN frames'[u] /\ frames'[u][k].stage = s
                    /\ i \in Items(frames'[u][k].mine)
    PROVE  ComputedBy(s, i)'
<1>1. PICK u \in Threads : \E k \in DOMAIN frames[u] :
        frames[u][k].stage = s /\ i \in Items(frames[u][k].mine)
  BY DEF ComputedBy
<1>2. PICK k \in DOMAIN frames[u] : frames[u][k].stage = s /\ i \in Items(frames[u][k].mine)
  BY <1>1
<1>3. /\ k \in DOMAIN frames'[u] /\ frames'[u][k].stage = s
      /\ i \in Items(frames'[u][k].mine)
  BY <1>2
<1> QED BY <1>3 DEF ComputedBy, Items

(* The frames keep what ran where their stages do.                         *)
LEMMA KeptFromStages ==
    ASSUME TypeOK, ValuesKept,
           \A u \in Threads : \A k \in DOMAIN frames'[u] :
                \E s \in Stages :
                    /\ frames'[u][k].stage = s
                    /\ (frames'[u][k].role # "inline" /\ ~panicked'[s]) => Kept(s)'
    PROVE  ValuesKept'
<1> SUFFICES ASSUME NEW u \in Threads, NEW k \in DOMAIN frames'[u]
             PROVE  KeptAt(frames[u][k])'
  BY DEF ValuesKept, KeptAt, Kept
<1>1. PICK s \in Stages :
        /\ frames'[u][k].stage = s
        /\ (frames'[u][k].role # "inline" /\ ~panicked'[s]) => Kept(s)'
  OBVIOUS
<1> QED BY <1>1 DEF KeptAt, Kept, ComputedBy, Items

(* A stage of which a step computes nothing and hands over nothing.        *)
LEMMA KeptStays ==
    ASSUME NEW s \in Stages, Kept(s), parts'[s] = parts[s], ran'[s] = ran[s],
           \A u \in Threads : \A k \in DOMAIN frames[u] :
                (frames[u][k].stage = s /\ Items(frames[u][k].mine) # {}) =>
                    /\ k \in DOMAIN frames'[u] /\ frames'[u][k].stage = s
                    /\ frames'[u][k].mine = frames[u][k].mine
    PROVE  Kept(s)'
<1>1. ASSUME NEW i \in 1..N, ran'[s][i] = 1
      PROVE  i \in Items(parts'[s]) \/ ComputedBy(s, i)'
  <2>1. i \in Items(parts[s]) \/ ComputedBy(s, i)
    BY <1>1 DEF Kept
  <2>2. CASE ComputedBy(s, i)
    BY <2>2, ComputedKept
  <2> QED BY <2>1, <2>2
<1> QED BY <1>1 DEF Kept, Items

LEMMA KeptStep ==
    ASSUME TypeOK, CallsStand, IdleUntouched, ClaimsHold, ClaimedOrDone, ValuesApart,
           ValuesKept, [Next]_vars
    PROVE  ValuesKept'
<1>0. \A u \in Threads : \A k \in DOMAIN frames[u] :
        frames[u][k].stage \in Stages /\ KeptAt(frames[u][k])
  BY FrameFields, KeptByFrame
<1>1. ASSUME NEW t \in Threads, Acts(t), NEW s \in Stages, s = Top(t).stage,
             Pops(t) \/ \E g \in Frame : Changes(t, g) /\ g.stage = s
                            /\ (g.role = "inline" <=> Top(t).role = "inline"),
             \/ Top(t).role = "inline"
             \/ panicked'[s]
             \/ Kept(s) /\ ~panicked[s] => Kept(s)'
             \/ \A u \in Threads : \A k \in DOMAIN frames'[u] : frames'[u][k].stage # s,
             \A r \in Stages : panicked[r] => panicked'[r]
      PROVE  ValuesKept'
  <2>1. Busy(t)
    BY <1>1, ActsApart
  <2>2. /\ Len(frames[t]) \in DOMAIN frames[t] /\ Top(t) = frames[t][Len(frames[t])]
    BY <2>1, TopIsFrame DEF TypeOK
  <2>3. ASSUME NEW r \in Stages, r # s, Kept(r) PROVE Kept(r)'
    <3>1. parts'[r] = parts[r] /\ ran'[r] = ran[r]
      BY <1>1, <2>3, ActsApart
    <3>2. \A u \in Threads : \A k \in DOMAIN frames[u] :
            frames[u][k].stage = r => k \in DOMAIN frames'[u] /\ frames'[u][k] = frames[u][k]
      BY <1>1, <2>1, <2>2, <2>3, ChangedPositions, PoppedPositions
    <3> QED BY <2>3, <3>1, <3>2, KeptStays
  <2>4. ASSUME NEW u \in Threads, NEW k \in DOMAIN frames'[u]
        PROVE  /\ k \in DOMAIN frames[u] /\ frames'[u][k].stage = frames[u][k].stage
               /\ frames'[u][k].role = "inline" <=> frames[u][k].role = "inline"
    BY <1>1, <2>1, <2>2, <2>4, ChangedPositions, PoppedPositions
  <2>5. ASSUME NEW u \in Threads, NEW k \in DOMAIN frames'[u]
        PROVE  \E r \in Stages :
                /\ frames'[u][k].stage = r
                /\ (frames'[u][k].role # "inline" /\ ~panicked'[r]) => Kept(r)'
    <3>1. PICK r \in Stages : r = frames[u][k].stage
      BY <1>0, <2>4, <2>5
    <3>2. (frames'[u][k].role # "inline" /\ ~panicked'[r]) => Kept(r) /\ ~panicked[r]
      <4>1. KeptAt(frames[u][k])
        BY <1>0, <2>4, <2>5
      <4>2. (frames[u][k].role # "inline" /\ ~panicked[r]) => Kept(r)
        BY <3>1, <4>1 DEF KeptAt
      <4> QED BY <1>1, <2>4, <2>5, <4>2
    <3>3. CASE r # s
      BY <2>3, <2>4, <2>5, <3>1, <3>2, <3>3
    <3>4. CASE r = s
      <4>1. CASE Top(t).role = "inline"
        <5>0. k \in DOMAIN frames[u] /\ frames[u][k].stage = frames[t][Len(frames[t])].stage
          BY <1>1, <2>2, <2>4, <3>1, <3>4
        <5>1. u = t /\ k = Len(frames[t])
          BY <2>2, <4>1, <5>0, InlineAlone
        <5>2. frames[u][k].role = "inline"
          BY <2>2, <4>1, <5>1
        <5> QED BY <2>4, <3>1, <5>2
      <4>2. CASE Top(t).role # "inline"
        BY <1>1, <2>4, <2>5, <3>1, <3>2, <3>4, <4>2
      <4> QED BY <4>1, <4>2
    <3> QED BY <3>3, <3>4
  <2> QED BY <2>5, KeptFromStages
<1>2. ASSUME NEW t \in Threads, Claim(t) \/ TakeInline(t) PROVE ValuesKept'
  <2>1. Acts(t) /\ Busy(t) /\ parts' = parts /\ ran' = ran /\ panicked' = panicked
    BY <1>2 DEF Acts, Claim, TakeInline, On
  <2>2. PICK s \in Stages : s = Top(t).stage
    BY <2>1, TopFields
  <2>3. \E g \in Frame : /\ Changes(t, g) /\ g.stage = s /\ g.role = Top(t).role
                         /\ g.mine = Top(t).mine
    <3>1. CASE Claim(t)
      BY <2>2, <3>1, ClaimChanges DEF Alike
    <3>2. CASE TakeInline(t)
      BY <2>2, <3>2, TakeInlineChanges DEF Alike
    <3> QED BY <1>2, <3>1, <3>2
  <2>4. \A u \in Threads : \A k \in DOMAIN frames[u] :
          /\ k \in DOMAIN frames'[u] /\ frames'[u][k].stage = frames[u][k].stage
          /\ frames'[u][k].mine = frames[u][k].mine
    BY <2>1, <2>2, <2>3, ChangedPositions
  <2>5. Kept(s) => Kept(s)'
    BY <2>1, <2>4, KeptStays
  <2> QED BY <1>1, <2>1, <2>2, <2>3, <2>5
<1>3. ASSUME NEW t \in Threads, Compute(t) PROVE ValuesKept'
  <2>1. Acts(t) /\ Runs(t) /\ Busy(t) /\ parts' = parts /\ panicked' = panicked
    BY <1>3 DEF Acts, Runs, Compute, InHand
  <2>2. PICK s \in Stages, j \in 1..N : s = Top(t).stage /\ j = Top(t).item
    BY <2>1, TopFields, RanStep
  <2>3. PICK g \in Frame, v \in Value :
          /\ Changes(t, g) /\ g.stage = s /\ g.role = Top(t).role
          /\ v.item = j /\ g.mine = Append(Top(t).mine, v)
    BY <1>3, <2>2, ComputeChanges DEF Alike
  <2>4. \A i \in 1..N : ran'[s][i] = IF i = j THEN 1 ELSE ran[s][i]
    BY <2>1, <2>2, RanStep
  <2>5. Items(g.mine) = Items(Top(t).mine) \cup {j}
    BY <2>1, <2>3, TopFields, ItemsAppend
  <2>6. PICK n \in DOMAIN frames'[t] : frames'[t][n] = g
    BY <2>1, <2>3, ChangedPositions
  <2>7. ComputedBy(s, j)'
    <3>1. j \in Items(frames'[t][n].mine) /\ frames'[t][n].stage = s
      BY <2>3, <2>5, <2>6
    <3> QED BY <3>1 DEF ComputedBy, Items
  <2>8. ASSUME Kept(s) PROVE Kept(s)'
    <3>1. ASSUME NEW i \in 1..N, ran'[s][i] = 1, i # j
          PROVE  i \in Items(parts'[s]) \/ ComputedBy(s, i)'
      <4>1. i \in Items(parts[s]) \/ ComputedBy(s, i)
        BY <2>4, <2>8, <3>1 DEF Kept
      <4>2. ASSUME NEW u \in Threads, NEW k \in DOMAIN frames[u],
                   frames[u][k].stage = s, i \in Items(frames[u][k].mine)
            PROVE  /\ k \in DOMAIN frames'[u] /\ frames'[u][k].stage = s
                   /\ i \in Items(frames'[u][k].mine)
        <5>1. CASE u = t /\ k = Len(frames[t])
          <6>1. k \in DOMAIN frames'[u] /\ frames'[u][k] = g /\ frames[u][k] = Top(t)
            BY <2>1, <2>3, <5>1, ChangedPositions
          <6> QED BY <2>3, <2>5, <4>2, <6>1
        <5>2. CASE ~(u = t /\ k = Len(frames[t]))
          <6>1. k \in DOMAIN frames'[u] /\ frames'[u][k] = frames[u][k]
            BY <2>1, <2>3, <5>2, ChangedPositions
          <6> QED BY <4>2, <6>1
        <5> QED BY <5>1, <5>2
      <4>3. CASE ComputedBy(s, i)
        BY <4>2, <4>3, ComputedKept
      <4> QED BY <2>1, <4>1, <4>3
    <3>2. \A i \in 1..N : ran'[s][i] = 1 => i \in Items(parts'[s]) \/ i = j \/ ComputedBy(s, i)'
      BY <3>1
    <3> QED BY <2>7, <3>2 DEF Kept, Items, ComputedBy
  <2> QED BY <1>1, <2>1, <2>2, <2>3, <2>8
<1>4. ASSUME NEW t \in Threads, Gather(t) PROVE ValuesKept'
  <2>1. /\ Acts(t) /\ Busy(t) /\ Top(t).role = "wait" /\ ran' = ran /\ panicked' = panicked
    BY <1>4, GatherChanges DEF Acts, Gather
  <2>2. PICK s \in Stages : s = Top(t).stage
    BY <2>1, TopFields
  <2>3. PICK g \in Frame : /\ Changes(t, g) /\ g.stage = s /\ g.role = "take"
                           /\ g.mine = parts[s]
    BY <1>4, <2>2, GatherChanges DEF Alike
  <2>4. Items(Top(t).mine) = {}
    <3>1. ValuesHeld(Top(t))
      BY <2>1, TopIsFrame, FrameHeld DEF TypeOK
    <3> QED BY <2>1, <3>1, ItemsEmpty DEF ValuesHeld
  <2>5. PICK n \in DOMAIN frames'[t] : frames'[t][n] = g
    BY <2>1, <2>3, ChangedPositions
  <2>6. ASSUME Kept(s) PROVE Kept(s)'
    <3>1. ASSUME NEW i \in 1..N, ran'[s][i] = 1 PROVE ComputedBy(s, i)'
      <4>1. i \in Items(parts[s]) \/ ComputedBy(s, i)
        BY <2>1, <2>6, <3>1 DEF Kept
      <4>2. CASE i \in Items(parts[s])
        <5>1. i \in Items(frames'[t][n].mine) /\ frames'[t][n].stage = s
          BY <2>3, <2>5, <4>2
        <5> QED BY <5>1 DEF ComputedBy, Items
      <4>3. CASE ComputedBy(s, i)
        <5>1. ASSUME NEW u \in Threads, NEW k \in DOMAIN frames[u],
                     frames[u][k].stage = s, i \in Items(frames[u][k].mine)
              PROVE  /\ k \in DOMAIN frames'[u] /\ frames'[u][k].stage = s
                     /\ i \in Items(frames'[u][k].mine)
          <6>1. ~(u = t /\ k = Len(frames[t]))
            BY <2>1, <2>3, <2>4, <5>1, ChangedPositions
          <6>2. k \in DOMAIN frames'[u] /\ frames'[u][k] = frames[u][k]
            BY <2>1, <2>3, <6>1, ChangedPositions
          <6> QED BY <5>1, <6>2
        <5> QED BY <4>3, <5>1, ComputedKept
      <4> QED BY <4>1, <4>2, <4>3
    <3> QED BY <3>1 DEF Kept, ComputedBy, Items
  <2> QED BY <1>1, <2>1, <2>2, <2>3, <2>6
<1>5. ASSUME NEW t \in Threads, FinishCopy(t) PROVE ValuesKept'
  <2>1. /\ Acts(t) /\ Busy(t) /\ Back(t) /\ ran' = ran /\ panicked' = panicked
        /\ parts' = [parts EXCEPT ![Top(t).stage] = @ \o Top(t).mine]
    BY <1>5 DEF Acts, FinishCopy, On
  <2>2. PICK s \in Stages : s = Top(t).stage
    BY <2>1, TopFields
  <2>3. Pops(t)
    BY <2>1, BackPops
  <2>4. Items(parts'[s]) = Items(parts[s]) \cup Items(Top(t).mine)
    <3>1. parts'[s] = parts[s] \o Top(t).mine
      BY <2>1, <2>2 DEF TypeOK
    <3>2. parts[s] \in Seq(Value) /\ Top(t).mine \in Seq(Value)
      BY <2>1, TopFields DEF TypeOK
    <3> QED BY <3>1, <3>2, ItemsConcat
  <2>5. ASSUME Kept(s) PROVE Kept(s)'
    <3>1. ASSUME NEW i \in 1..N, ran'[s][i] = 1, i \notin Items(parts'[s])
          PROVE  ComputedBy(s, i)'
      <4>1. ComputedBy(s, i)
        BY <2>1, <2>4, <2>5, <3>1 DEF Kept
      <4>2. ASSUME NEW u \in Threads, NEW k \in DOMAIN frames[u],
                   frames[u][k].stage = s, i \in Items(frames[u][k].mine)
            PROVE  /\ k \in DOMAIN frames'[u] /\ frames'[u][k].stage = s
                   /\ i \in Items(frames'[u][k].mine)
        <5>1. ~(u = t /\ k = Len(frames[t]))
          BY <2>1, <2>3, <2>4, <3>1, <4>2, PoppedPositions
        <5>2. k \in DOMAIN frames'[u] /\ frames'[u][k] = frames[u][k]
          BY <2>1, <2>3, <5>1, PoppedPositions
        <5> QED BY <4>2, <5>2
      <4> QED BY <4>1, <4>2, ComputedKept
    <3> QED BY <3>1 DEF Kept, ComputedBy, Items
  <2> QED BY <1>1, <2>1, <2>2, <2>3, <2>5
<1>6. ASSUME NEW t \in Threads, PanicInCopy(t) PROVE ValuesKept'
  <2>1. /\ Acts(t) /\ Busy(t) /\ Back(t)
        /\ panicked' = [panicked EXCEPT ![Top(t).stage] = TRUE]
    BY <1>6 DEF Acts, PanicInCopy, On
  <2>2. PICK s \in Stages : s = Top(t).stage
    BY <2>1, TopFields
  <2>3. panicked'[s] /\ \A r \in Stages : panicked[r] => panicked'[r]
    BY <2>1, <2>2 DEF TypeOK
  <2> QED BY <1>1, <2>1, <2>2, <2>3, BackPops
<1>7. ASSUME NEW t \in Threads, PanicOnCaller(t) \/ Resume(t) \/ Return(t) PROVE ValuesKept'
  <2>1. /\ Acts(t) /\ Busy(t) /\ Back(t) /\ panicked' = panicked /\ Top(t).role # "copy"
        /\ Top(t).role = "wait" => CopiesReturned(Top(t).stage)
    BY <1>7 DEF Acts, PanicOnCaller, Resume, Return, On
  <2>2. PICK s \in Stages : s = Top(t).stage
    BY <2>1, TopFields
  <2>3. Pops(t)
    BY <2>1, BackPops
  <2>4. \A u \in Threads : \A k \in DOMAIN frames'[u] : frames'[u][k].stage # s
    BY <2>1, <2>2, <2>3, LastOfStage, PoppedPositions
  <2> QED BY <1>1, <2>1, <2>2, <2>3, <2>4
<1>8. ASSUME parts' = parts, ran' = ran, panicked' = panicked,
             \A u \in Threads : \A k \in DOMAIN frames[u] :
                k \in DOMAIN frames'[u] /\ frames'[u][k] = frames[u][k],
             \A u \in Threads : \A k \in DOMAIN frames'[u] :
                \/ k \in DOMAIN frames[u] /\ frames'[u][k] = frames[u][k]
                \/ \E s \in Stages :
                    /\ frames'[u][k].stage = s
                    /\ (frames'[u][k].role # "inline" /\ ~panicked[s]) => Kept(s)
      PROVE  ValuesKept'
  <2>1. \A s \in Stages : Kept(s) => Kept(s)'
    BY <1>8, KeptStays
  <2>2. ASSUME NEW u \in Threads, NEW k \in DOMAIN frames'[u]
        PROVE  \E s \in Stages :
                /\ frames'[u][k].stage = s
                /\ (frames'[u][k].role # "inline" /\ ~panicked'[s]) => Kept(s)'
    <3>1. CASE k \in DOMAIN frames[u] /\ frames'[u][k] = frames[u][k]
      <4>1. PICK s \in Stages : s = frames[u][k].stage
        BY <1>0, <3>1
      <4>2. (frames[u][k].role # "inline" /\ ~panicked[s]) => Kept(s)
        BY <1>0, <3>1, <4>1 DEF KeptAt
      <4> QED BY <1>8, <2>1, <3>1, <4>1, <4>2
    <3>2. CASE \E s \in Stages :
                /\ frames'[u][k].stage = s
                /\ (frames'[u][k].role # "inline" /\ ~panicked[s]) => Kept(s)
      BY <1>8, <2>1, <3>2
    <3> QED BY <1>8, <2>2, <3>1, <3>2
  <2> QED BY <2>2, KeptFromStages
<1>9. ASSUME NEW t \in Threads, NEW s \in Stages, Call(s, t) PROVE ValuesKept'
  <2>1. PICK g \in Frame : Pushes(t, g) /\ g.stage = s
    BY <1>9, CallPushes
  <2>2. /\ outcome[s] = "idle" /\ parts' = parts /\ ran' = ran /\ panicked' = panicked
    BY <1>9 DEF Call
  <2>3. Kept(s)
    BY <2>2 DEF IdleUntouched, Kept
  <2> QED BY <1>8, <2>1, <2>2, <2>3, PushedPositions
<1>10. ASSUME NEW t \in Threads, NEW s \in Stages, StartCopy(s, t) PROVE ValuesKept'
  <2>1. PICK g \in Frame : Pushes(t, g) /\ g.stage = s /\ g.role = "copy"
    BY <1>10, StartCopyPushes
  <2>2. /\ parts' = parts /\ ran' = ran /\ panicked' = panicked
    BY <1>10 DEF StartCopy
  <2>3. PICK u \in Threads : \E k \in DOMAIN frames[u] :
          frames[u][k].stage = s /\ frames[u][k].role = "wait"
    BY <1>10 DEF StartCopy, Holding
  <2>4. PICK k \in DOMAIN frames[u] : frames[u][k].stage = s /\ frames[u][k].role = "wait"
    BY <2>3
  <2>5. ~panicked[s] => Kept(s)
    BY <1>0, <2>4 DEF KeptAt
  <2> QED BY <1>8, <2>1, <2>2, <2>5, PushedPositions
<1>11. ASSUME (\E w \in Watches \ {NoWatch} : Cancel(w)) \/ UNCHANGED vars PROVE ValuesKept'
  <2>1. parts' = parts /\ ran' = ran /\ panicked' = panicked /\ frames' = frames
    BY <1>11 DEF Cancel, vars
  <2> QED BY <1>8, <2>1
<1> QED
  BY <1>2, <1>3, <1>4, <1>5, <1>6, <1>7, <1>9, <1>10, <1>11, NextCases DEF Acts

-----------------------------------------------------------------------------
(* The output is in item order.                                            *)

(* A function that climbs from 1..n onto 1..n is the identity.             *)
LEMMA ClimbsOnto ==
    ASSUME NEW n \in Nat, NEW q \in [1..n -> 1..n],
           \A j, k \in 1..n : j < k => q[j] <= q[k],
           \A i \in 1..n : \E k \in 1..n : q[k] = i
    PROVE  \A k \in 1..n : q[k] = k
<1>1. q \in Surjection(1..n, 1..n)
  BY Fun_IsSurj
<1>2. IsFiniteSet(1..n)
  BY FS_Interval
<1>3. q \in Injection(1..n, 1..n)
  BY <1>1, <1>2, FS_SurjSameCardinalityImpliesInj
<1>4. \A a, b \in 1..n : q[a] = q[b] => a = b
  BY <1>3, Zenon DEF Injection, IsInjective
<1> DEFINE moved == {k \in 1..n : q[k] # k}
<1> SUFFICES ASSUME moved # {} PROVE FALSE
  OBVIOUS
<1>5. moved \in SUBSET Nat
  OBVIOUS
<1>6. PICK k \in moved : \A j \in moved : k <= j
  BY <1>5, HasLeast
<1>7. k \in 1..n /\ q[k] \in 1..n /\ q[k] # k
  OBVIOUS
<1>8. \A j \in 1..n : j < k => q[j] = j
  BY <1>6, <1>7
<1>9. CASE q[k] < k
  <2>1. q[q[k]] = q[k]
    BY <1>7, <1>8, <1>9
  <2> QED BY <1>4, <1>7, <2>1
<1>10. CASE q[k] > k
  <2>1. PICK m \in 1..n : q[m] = k
    BY <1>7
  <2>2. CASE m < k
    BY <1>8, <2>1, <2>2
  <2>3. CASE m > k
    <3>1. q[k] <= q[m]
      BY <1>7, <2>3
    <3> QED BY <1>7, <1>10, <2>1, <3>1
  <2> QED BY <1>7, <2>1, <2>2, <2>3
<1> QED BY <1>7, <1>9, <1>10

(* Values of all the items, once each, sort into item order.               *)
LEMMA SortedItems ==
    ASSUME NEW v \in Seq(Value), Once(v), Items(v) = 1..N
    PROVE  /\ InItemOrder(v) \in Seq(Value) /\ Len(InItemOrder(v)) = N
           /\ \A i \in 1..N : InItemOrder(v)[i].item = i
<1> DEFINE m == Len(v)
           f == [j \in 1..m |-> v[j].item]
<1>1. /\ m \in Nat /\ DOMAIN v = 1..m /\ \A j \in 1..m : v[j].item \in 1..N
      /\ \A j \in 1..m : v[j] \in Value
  BY ItemsRange, ElementOfSeq
<1>2. f \in [1..m -> 1..N]
  BY <1>1
<1>3. \A a, b \in 1..m : f[a] = f[b] => a = b
  BY <1>1 DEF Once
<1>4. \A i \in 1..N : \E j \in 1..m : f[j] = i
  BY <1>1 DEF Items
<1>5. f \in Bijection(1..m, 1..N)
  <2> HIDE DEF f, m
  <2> QED BY <1>2, <1>3, <1>4, Fun_IsBij
<1>6. N \in Nat /\ Cardinality(1..N) = N /\ Cardinality(1..m) = m /\ IsFiniteSet(1..m)
  <2>1. ASSUME NEW n \in Nat PROVE IsFiniteSet(1..n) /\ Cardinality(1..n) = n
    <3>1. /\ IsFiniteSet(1..n)
          /\ Cardinality(1..n) = IF 1 > n THEN 0 ELSE n - 1 + 1
      BY FS_Interval
    <3> QED BY <3>1
  <2>2. N \in Nat
    BY ParallelAssumption
  <2> QED BY <1>1, <2>1, <2>2
<1>7. m = N
  BY <1>5, <1>6, FS_Bijection DEF ExistsBijection
<1> HIDE DEF m
<1> DEFINE p0 == [i \in 1..N |-> CHOOSE j \in 1..N : v[j].item = i]
<1>8. ASSUME NEW i \in 1..N PROVE p0[i] \in 1..N /\ v[p0[i]].item = i
  BY <1>4, <1>7
<1>9. p0 \in [1..N -> 1..N]
  BY <1>8
<1>10. ASSUME NEW j \in 1..N PROVE p0[v[j].item] = j
  BY <1>1, <1>7, <1>8, <1>10 DEF Once
<1> HIDE DEF p0
<1>11. Ascending(v, p0)
  <2>1. Range(p0) = 1..N
    BY <1>1, <1>7, <1>9, <1>10 DEF Range
  <2>2. \A j, k \in 1..N : j < k => v[p0[j]].item <= v[p0[k]].item
    BY <1>8
  <2> QED BY <1>1, <1>7, <2>1, <2>2 DEF Ascending
<1> DEFINE p == CHOOSE p \in [DOMAIN v -> DOMAIN v] : Ascending(v, p)
<1>12. p \in [1..N -> 1..N] /\ Ascending(v, p)
  BY <1>1, <1>7, <1>9, <1>11
<1>13. InItemOrder(v) = [k \in 1..N |-> v[p[k]]]
  BY <1>1, <1>7 DEF InItemOrder
<1> HIDE DEF p
<1> DEFINE q == [k \in 1..N |-> v[p[k]].item]
<1>14. q \in [1..N -> 1..N]
  BY <1>1, <1>7, <1>12
<1>15. \A j, k \in 1..N : j < k => q[j] <= q[k]
  BY <1>1, <1>7, <1>12 DEF Ascending
<1>16. \A i \in 1..N : \E k \in 1..N : q[k] = i
  <2> SUFFICES ASSUME NEW i \in 1..N PROVE \E k \in 1..N : q[k] = i
    OBVIOUS
  <2>1. p0[i] \in 1..N /\ v[p0[i]].item = i
    BY <1>8
  <2>2. PICK k \in 1..N : p[k] = p0[i]
    BY <1>1, <1>7, <1>12, <2>1 DEF Ascending, Range
  <2> QED BY <2>1, <2>2
<1>17. \A k \in 1..N : q[k] = k
  <2> HIDE DEF q
  <2> QED BY <1>6, <1>14, <1>15, <1>16, ClimbsOnto
<1>18. \A k \in 1..N : v[p[k]] \in Value /\ v[p[k]].item = k
  BY <1>1, <1>7, <1>12, <1>17
<1>19. InItemOrder(v) \in Seq(Value)
  BY <1>6, <1>13, <1>18 DEF Seq
<1>20. Len(InItemOrder(v)) = N
  <2>1. DOMAIN InItemOrder(v) = 1..N
    BY <1>13
  <2> QED BY <1>6, <1>19, <2>1, LenProperties
<1> QED BY <1>13, <1>18, <1>19, <1>20

(* What the call holds when it returns.                                    *)
LEMMA ReturnedValues ==
    ASSUME TypeOK, CallsStand, ClaimedOrDone, PanicKept, ValuesApart, ValuesKept,
           NEW t \in Threads, Return(t)
    PROVE  Top(t).mine \in Seq(Value) /\ Once(Top(t).mine) /\ Items(Top(t).mine) = 1..N
<1> DEFINE f == Top(t)
           s == f.stage
<1>1. /\ Busy(t) /\ f.role \in {"take", "inline"}
      /\ f.role = "inline" => Len(f.mine) = N
  BY DEF Return, On
<1>2. /\ Len(frames[t]) \in DOMAIN frames[t] /\ f = frames[t][Len(frames[t])]
      /\ f.mine \in Seq(Value) /\ s \in Stages
  BY <1>1, TopIsFrame, TopFields DEF TypeOK
<1>3. ValuesHeld(f)
  BY <1>2, FrameHeld
<1>4. Items(f.mine) \subseteq 1..N /\ DOMAIN f.mine = 1..Len(f.mine)
  BY <1>2, ItemsRange
<1>5. CASE f.role = "inline"
  <2>1. \A i \in 1..N : i \in DOMAIN f.mine /\ f.mine[i].item = i
    BY <1>1, <1>3, <1>4, <1>5 DEF ValuesHeld
  <2>2. \A i \in 1..N : i \in Items(f.mine)
    BY <2>1 DEF Items
  <2> QED BY <1>2, <1>3, <1>4, <2>2 DEF ValuesHeld
<1>6. CASE f.role = "take"
  <2>1. ~panicked[s] /\ KeptAt(f)
    BY <1>2, <1>6, KeptByFrame DEF PanicKept
  <2>2. Kept(s) /\ Items(parts[s]) = {}
    BY <1>3, <1>6, <2>1, ItemsEmpty DEF KeptAt, ValuesHeld
  <2>3. ASSUME NEW i \in 1..N PROVE i \in Items(f.mine)
    <3>1. ComputedBy(s, i)
      BY <2>2, ReturnedAll DEF Kept
    <3>2. PICK u \in Threads : \E k \in DOMAIN frames[u] :
            frames[u][k].stage = s /\ i \in Items(frames[u][k].mine)
      BY <3>1 DEF ComputedBy
    <3>3. PICK k \in DOMAIN frames[u] :
            frames[u][k].stage = s /\ i \in Items(frames[u][k].mine)
      BY <3>2
    <3>4. u = t /\ k = Len(frames[t])
      BY <1>1, <3>3, LastOfStage
    <3> QED BY <1>2, <3>3, <3>4
  <2> QED BY <1>2, <1>3, <1>4, <2>3 DEF ValuesHeld
<1> QED BY <1>1, <1>5, <1>6

LEMMA OutputStep ==
    ASSUME TypeOK, CallsStand, ClaimedOrDone, PanicKept, ValuesApart, ValuesKept,
           OutputInItemOrder, [Next]_vars
    PROVE  result' \in [Stages -> Seq(Value)] /\ OutputInItemOrder'
<1>1. ASSUME NEW t \in Threads, Return(t)
      PROVE  result' \in [Stages -> Seq(Value)] /\ OutputInItemOrder'
  <2>1. Busy(t) /\ Acts(t)
    BY <1>1 DEF Return, On, Acts
  <2>2. PICK s \in Stages : s = Top(t).stage
    BY <2>1, TopFields
  <2>3. /\ InItemOrder(Top(t).mine) \in Seq(Value) /\ Len(InItemOrder(Top(t).mine)) = N
        /\ \A i \in 1..N : InItemOrder(Top(t).mine)[i].item = i
    BY <1>1, ReturnedValues, SortedItems
  <2>4. /\ result' = [result EXCEPT ![s] = InItemOrder(Top(t).mine)]
        /\ outcome' = [outcome EXCEPT ![s] = "returned"]
    BY <1>1, <2>2 DEF Return
  <2>5. result' \in [Stages -> Seq(Value)] /\ result'[s] = InItemOrder(Top(t).mine)
    BY <2>3, <2>4 DEF TypeOK
  <2>6. \A r \in Stages \ {s} : result'[r] = result[r] /\ outcome'[r] = outcome[r]
    BY <2>4 DEF TypeOK
  <2> QED BY <2>3, <2>5, <2>6 DEF OutputInItemOrder
<1>2. ASSUME NEW t \in Threads, Acts(t), ~Return(t)
      PROVE  result' = result /\ \A r \in Stages : outcome'[r] = "returned" => outcome[r] = "returned"
  <2>1. result' = result /\ (outcome' = outcome \/ outcome' = [outcome EXCEPT ![Top(t).stage] = "unwound"])
    BY <1>2 DEF Acts, Claim, TakeInline, Compute, Gather, FinishCopy, PanicInCopy, PanicOnCaller, Resume
  <2> QED BY <2>1 DEF TypeOK
<1>3. ASSUME NEW t \in Threads, NEW s \in Stages, Call(s, t) \/ StartCopy(s, t)
      PROVE  result' = result /\ \A r \in Stages : outcome'[r] = "returned" => outcome[r] = "returned"
  BY <1>3 DEF Call, StartCopy, TypeOK
<1>4. ASSUME (\E w \in Watches \ {NoWatch} : Cancel(w)) \/ UNCHANGED vars
      PROVE  result' = result /\ outcome' = outcome
  BY <1>4 DEF Cancel, vars
<1>5. ASSUME result' = result, \A r \in Stages : outcome'[r] = "returned" => outcome[r] = "returned"
      PROVE  result' \in [Stages -> Seq(Value)] /\ OutputInItemOrder'
  BY <1>5 DEF TypeOK, OutputInItemOrder
<1> QED BY <1>1, <1>2, <1>3, <1>4, <1>5, NextCases

-----------------------------------------------------------------------------
(* The inductive invariant.                                                *)
LEMMA InvInit == Init => IInv
<1> SUFFICES ASSUME Init PROVE IInv
  OBVIOUS
<1>1. TypeOK
  BY TypeInit
<1>2. /\ \A t \in Threads : frames[t] = <<>> /\ DOMAIN frames[t] = {}
      /\ \A t \in Threads : inside[t] = FALSE /\ active[t] = NoWatch
      /\ \A s \in Stages : /\ outcome[s] = "idle" /\ next[s] = 1 /\ parts[s] = <<>>
                           /\ ~panicked[s] /\ \A i \in 1..N : ran[s][i] = 0
  BY DEF Init
<1>3. CallsStand /\ IdleUntouched /\ ClaimsHold /\ ClaimedOrDone
  BY <1>2 DEF CallsStand, IdleUntouched, ClaimsHold, ClaimedOrDone
<1>4. PanicKept /\ LocalsChained
  BY <1>2 DEF PanicKept, LocalsChained, Ended
<1>5. ValuesApart /\ ValuesKept
  BY <1>2, ItemsEmpty DEF ValuesApart, ValuesKept
<1>6. OutputInItemOrder
  BY <1>2 DEF OutputInItemOrder
<1> QED BY <1>1, <1>3, <1>4, <1>5, <1>6 DEF IInv

LEMMA InvStep == IInv /\ [Next]_vars => IInv'
<1> SUFFICES ASSUME IInv, [Next]_vars PROVE IInv'
  OBVIOUS
<1> USE DEF IInv
<1>1. result' \in [Stages -> Seq(Value)] /\ OutputInItemOrder'
  BY OutputStep
<1>2. TypeOK'
  BY <1>1, TypeStep
<1>3. CallsStand' /\ IdleUntouched' /\ ClaimsHold' /\ ClaimedOrDone'
  BY CallsStep, IdleStep, ClaimsStep, DoneStep
<1>4. PanicKept' /\ LocalsChained' /\ ValuesApart' /\ ValuesKept'
  BY PanicStep, LocalsStep, ValuesStep, KeptStep
<1> QED BY <1>1, <1>2, <1>3, <1>4

LEMMA Invariant == Spec => []IInv
  BY InvInit, InvStep, PTL DEF Spec

(* The model's variables keep their types whatever the pool does.          *)
THEOREM TypeCorrect == Spec => []TypeOK
<1>1. IInv => TypeOK
  BY DEF IInv
<1> QED BY <1>1, Invariant, PTL

(* f runs on each item at most once, and on every item of a stage that     *)
(* returned: no claim of the counter is lost or given twice.               *)
THEOREM ItemsRunOnce == Spec => []EachItemOnce
<1>1. IInv => EachItemOnce
  BY DEF IInv, ClaimedOrDone, EachItemOnce
<1> QED BY <1>1, Invariant, PTL

(* The output is the items' results in item order, whichever copy claimed  *)
(* them and in whatever order the copies handed over.                      *)
THEOREM OutputOrdered == Spec => []OutputInItemOrder
<1>1. IInv => OutputInItemOrder
  BY DEF IInv
<1> QED BY <1>1, Invariant, PTL

(* A stage unwinds exactly when f panicked on one of its items.            *)
THEOREM PanicResumed == Spec => []PanicReachesCaller
<1>1. IInv => PanicReachesCaller
  <2> SUFFICES ASSUME IInv PROVE PanicReachesCaller
    OBVIOUS
  <2>1. \A s \in Stages, i \in 1..N : ran[s][i] \in {0, 1}
    BY DEF IInv, ClaimedOrDone
  <2>2. \A s \in Stages, i \in 1..N : ran[s][i] = 1 <=> ran[s][i] > 0
    BY <2>1
  <2>3. \A s \in Stages : HasPanicked(s) <=> \E i \in 1..N : ran[s][i] > 0 /\ Panics(s, i)
    BY <2>2 DEF HasPanicked
  <2> QED BY <2>3 DEF IInv, PanicKept, PanicReachesCaller
<1> QED BY <1>1, Invariant, PTL

(* The thread-locals are as they were found when the copies have ended.    *)
THEOREM LocalsRestored == Spec => []ThreadLocalsRestored
<1>1. IInv => ThreadLocalsRestored
  <2> SUFFICES ASSUME IInv, NEW t \in Threads
               PROVE  /\ ~Busy(t) => ~inside[t] /\ active[t] = NoWatch
                      /\ On(t, "take") => /\ inside[t] = Top(t).outer
                                          /\ active[t] = snap[Top(t).stage]
    BY DEF ThreadLocalsRestored
  <2>1. LocalsOf(t) /\ TypeOK
    BY LocalsByThread DEF IInv
  <2>2. ~Busy(t) => ~inside[t] /\ active[t] = NoWatch
    BY <2>1 DEF LocalsOf, Busy
  <2>3. ASSUME On(t, "take")
        PROVE  inside[t] = Top(t).outer /\ active[t] = snap[Top(t).stage]
    <3>1. Busy(t) /\ Top(t).role = "take"
      BY <2>3 DEF On
    <3>2. inside[t] = InsideOf(Top(t)) /\ active[t] = ActiveOf(Top(t))
      BY <2>1, <3>1 DEF LocalsOf, Busy
    <3>3. inside[t] = Top(t).outer
      BY <2>1, <3>1, <3>2, TopFields DEF InsideOf
    <3>4. snap[Top(t).stage] = ActiveOf(Top(t))
      <4>1. /\ Len(frames[t]) \in DOMAIN frames[t]
            /\ Top(t) = frames[t][Len(frames[t])]
        BY <2>1, <3>1, TopIsFrame DEF TypeOK
      <4> QED BY <2>1, <3>1, <4>1 DEF LocalsOf
    <3> QED BY <3>2, <3>3, <3>4
  <2> QED BY <2>2, <2>3
<1> QED BY <1>1, Invariant, PTL

(* A copy of a watched stage answers the watch the stage was called under. *)
THEOREM CopiesAnswer == Spec => []CopiesAnswerTheirWatch
<1>1. IInv => CopiesAnswerTheirWatch
  <2> SUFFICES ASSUME IInv, NEW t \in Threads, On(t, "copy"), snap[Top(t).stage] # NoWatch
               PROVE  active[t] = snap[Top(t).stage]
    BY DEF CopiesAnswerTheirWatch
  <2>1. LocalsOf(t) /\ Busy(t) /\ Top(t).role = "copy"
    BY LocalsByThread DEF IInv, On
  <2>2. active[t] = ActiveOf(Top(t))
    BY <2>1 DEF LocalsOf, Busy
  <2> QED BY <2>1, <2>2 DEF ActiveOf, WatchOf
<1> QED BY <1>1, Invariant, PTL

=============================================================================
