---------------------------- MODULE ParallelMap ----------------------------
(***************************************************************************)
(* map_ordered: a stage computes f of every item on borrowed workers       *)
(* (ogeom-core/src/parallel.rs), each answering the caller's progress      *)
(* watch (ogeom-core/src/progress.rs).                                     *)
(*                                                                         *)
(* Workers take items by a shared counter.  Whatever the pool's copies     *)
(* leave, the caller computes.  A panic in f is caught in the copy and     *)
(* resumed on the caller.  A thread keeps two thread-locals: whether it is *)
(* inside a stage, so that a stage called there runs on that thread alone, *)
(* and the watch its checkpoints answer.                                   *)
(*                                                                         *)
(* The pool is the caller's (trait Pool): it runs up to the copies asked,  *)
(* on any thread that is free and, when it steals, on a thread that waits  *)
(* for a stage of its own.                                                 *)
(***************************************************************************)
EXTENDS Integers, Sequences, FiniteSets, SequencesExt

CONSTANTS
    Stages,     \* the calls of map_ordered in a run
    Threads,
    Caller,     \* the thread each stage is called on, by stage
    Within,     \* the stage whose first item calls this one, or NoStage
    Watch,      \* the watch installed around each stage's call, or NoWatch
    NoStage, NoWatch,
    N,          \* items per stage
    Workers,    \* threads().min(pool.workers())
    Faulty,     \* the <<stage, item>> on which f may be made to panic
    Steals      \* whether a thread waiting for its stage runs other copies

ASSUME ParallelAssumption ==
    /\ Caller \in [Stages -> Threads]
    /\ Within \in [Stages -> Stages \cup {NoStage}]
    /\ N \in Nat \ {0}
    /\ Workers \in Nat
    /\ Steals \in BOOLEAN

Watches == {Watch[s] : s \in Stages}
Outcomes == {"idle", "running", "returned", "unwound"}

VARIABLES
    frames,     \* each thread's stack of calls and copies, last on top
    inside,     \* INSIDE, by thread
    active,     \* ACTIVE, by thread
    next,       \* the shared counter, by stage, items counted from 1
    parts,      \* what finished copies pushed, end to end, by stage
    panicked,   \* whether a copy of the stage caught a panic
    started,    \* how many copies the pool has started
    snap,       \* the watch snapshot a stage took
    outcome,    \* how each stage's call stands
    result,     \* what it returned
    cancelled,  \* watches cancelled so far
    faulty,     \* the ones on which f does panic
    ran         \* history: how often f ran on each item of each stage

vars == <<frames, inside, active, next, parts, panicked, started, snap,
          outcome, result, cancelled, faulty, ran>>

Value == [item : 1..N, cancelled : BOOLEAN]

(* A frame: a call of a stage or a copy of one, with the thread-locals it  *)
(* found, what it has computed, and the item it has in hand (0 for none).  *)
Frame == [stage : Stages, role : {"wait", "take", "inline", "copy"},
          outer : BOOLEAN, previous : Watches \cup {NoWatch},
          mine : Seq(Value), item : 0..N]

TypeOK ==
    /\ frames \in [Threads -> Seq(Frame)]
    /\ inside \in [Threads -> BOOLEAN]
    /\ active \in [Threads -> Watches \cup {NoWatch}]
    /\ next \in [Stages -> Nat]
    /\ parts \in [Stages -> Seq(Value)]
    /\ panicked \in [Stages -> BOOLEAN]
    /\ started \in [Stages -> 0..Workers]
    /\ snap \in [Stages -> Watches \cup {NoWatch}]
    /\ outcome \in [Stages -> Outcomes]
    /\ result \in [Stages -> Seq(Value)]
    /\ cancelled \subseteq Watches \ {NoWatch}
    /\ faulty \subseteq Faulty
    /\ ran \in [Stages -> [1..N -> Nat]]

Init ==
    /\ frames = [t \in Threads |-> <<>>]
    /\ inside = [t \in Threads |-> FALSE]
    /\ active = [t \in Threads |-> NoWatch]
    /\ next = [s \in Stages |-> 1]
    /\ parts = [s \in Stages |-> <<>>]
    /\ panicked = [s \in Stages |-> FALSE]
    /\ started = [s \in Stages |-> 0]
    /\ snap = [s \in Stages |-> NoWatch]
    /\ outcome = [s \in Stages |-> "idle"]
    /\ result = [s \in Stages |-> <<>>]
    /\ cancelled = {}
    /\ faulty \in SUBSET Faulty
    /\ ran = [s \in Stages |-> [i \in 1..N |-> 0]]

-----------------------------------------------------------------------------
(* Frames.                                                                 *)
Top(t) == frames[t][Len(frames[t])]
Busy(t) == frames[t] # <<>>
On(t, role) == Busy(t) /\ Top(t).role = role

Pushed(t, frame) == [frames EXCEPT ![t] = Append(@, frame)]
Popped(t) == [frames EXCEPT ![t] = Front(@)]
Changed(t, frame) == [frames EXCEPT ![t] = Append(Front(@), frame)]

NewFrame(s, role, t) ==
    [stage |-> s, role |-> role, outer |-> inside[t], previous |-> active[t],
     mine |-> <<>>, item |-> 0]

(* watched: the watch installed around a stage's call, or the one already  *)
(* there.                                                                  *)
Watched(s, t) == IF Watch[s] = NoWatch THEN active[t] ELSE Watch[s]

KeepsItsOwn(watch, t) == active[t]

(* with_snapshot: the caller's watch where it had one; a thread that is    *)
(* handed none keeps answering whatever it has.                            *)
WithSnapshot(watch, t) == IF watch = NoWatch THEN active[t] ELSE watch

(* Where a thread holds a frame of stage s in one of the given roles.      *)
Holding(s, roles) ==
    {t \in Threads : \E k \in DOMAIN frames[t] :
        frames[t][k].stage = s /\ frames[t][k].role \in roles}

Ended(s) == outcome[s] \in {"returned", "unwound"}

(* The stages that item i of stage s calls.                                *)
NestedIn(s, i) == {n \in Stages : Within[n] = s /\ i = 1}

-----------------------------------------------------------------------------
(* The call.                                                               *)

(* A stage runs on the calling thread alone when one worker or one item    *)
(* makes it not worth a pool, or the thread is already inside a stage.     *)
Inline(t) == Workers <= 1 \/ N <= 1 \/ inside[t]

(* A stage is called by its thread, or by the function of the first item   *)
(* of another stage.                                                       *)
MayCall(s, t) ==
    IF Within[s] = NoStage THEN t = Caller[s] /\ ~Busy(t)
    ELSE Busy(t) /\ Top(t).item # 0 /\ s \in NestedIn(Top(t).stage, Top(t).item)

(* map_ordered begins, inside the watch installed around it.               *)
Call(s, t) ==
    /\ outcome[s] = "idle"
    /\ MayCall(s, t)
    /\ LET watch == Watched(s, t)
       IN  /\ active' = [active EXCEPT ![t] = watch]
           /\ snap' = [snap EXCEPT ![s] = watch]
    /\ frames' = Pushed(t, NewFrame(s, IF Inline(t) THEN "inline" ELSE "wait", t))
    /\ outcome' = [outcome EXCEPT ![s] = "running"]
    /\ UNCHANGED <<inside, next, parts, panicked, started, result, cancelled, faulty, ran>>

(* The pool runs one more copy of a stage whose caller waits: on a thread  *)
(* with nothing to do, on the caller itself, or, when it steals, on the    *)
(* caller of another stage.                                                *)
StartCopy(s, t) ==
    /\ Holding(s, {"wait"}) # {}
    /\ started[s] < Workers
    /\ ~Busy(t) \/ (On(t, "wait") /\ (Steals \/ Top(t).stage = s))
    /\ frames' = Pushed(t, NewFrame(s, "copy", t))
    /\ inside' = [inside EXCEPT ![t] = TRUE]
    /\ active' = [active EXCEPT ![t] = WithSnapshot(snap[s], t)]
    /\ started' = [started EXCEPT ![s] = @ + 1]
    /\ UNCHANGED <<next, parts, panicked, snap, outcome, result, cancelled, faulty, ran>>

-----------------------------------------------------------------------------
(* Taking items.                                                           *)

NeverAdvanced(n) == n

(* fetch_add on the shared counter.                                        *)
Advanced(n) == n + 1

(* items.get of the counter still answers.                                 *)
ItemsLeft(s) == next[s] <= N

(* A copy, or the caller for what the copies left, claims the next item.   *)
Claim(t) ==
    /\ On(t, "copy") \/ On(t, "take")
    /\ LET s == Top(t).stage
       IN  /\ Top(t).item = 0
           /\ ItemsLeft(s)
           /\ frames' = Changed(t, [Top(t) EXCEPT !.item = next[s]])
           /\ next' = [next EXCEPT ![s] = Advanced(@)]
    /\ UNCHANGED <<inside, active, parts, panicked, started, snap, outcome, result, cancelled, faulty, ran>>

(* A stage called inline walks its items in order.                         *)
TakeInline(t) ==
    /\ On(t, "inline")
    /\ Top(t).item = 0
    /\ Len(Top(t).mine) < N
    /\ frames' = Changed(t, [Top(t) EXCEPT !.item = Len(Top(t).mine) + 1])
    /\ UNCHANGED <<inside, active, next, parts, panicked, started, snap, outcome, result, cancelled, faulty, ran>>

InHand(t) ==
    /\ Busy(t)
    /\ Top(t).item # 0
    /\ \A n \in NestedIn(Top(t).stage, Top(t).item) : Ended(n)

Panics(s, i) == <<s, i>> \in faulty \/ \E n \in NestedIn(s, i) : outcome[n] = "unwound"

(* f of the item in hand: a checkpoint in it answers the thread's watch.   *)
(* The flag is read relaxed, so a cancellation may be seen late.           *)
Compute(t) ==
    /\ InHand(t)
    /\ ~Panics(Top(t).stage, Top(t).item)
    /\ \E stopped \in {FALSE, active[t] \in cancelled} :
        frames' = Changed(t, [Top(t) EXCEPT
            !.mine = Append(@, [item |-> Top(t).item, cancelled |-> stopped]), !.item = 0])
    /\ ran' = [ran EXCEPT ![Top(t).stage][Top(t).item] = @ + 1]
    /\ UNCHANGED <<inside, active, next, parts, panicked, started, snap, outcome, result, cancelled, faulty>>

-----------------------------------------------------------------------------
(* Ending.                                                                 *)

(* ACTIVE, as the end of a watched scope leaves it.                        *)
Previous(t) == Top(t).previous

Back(t) ==
    /\ frames' = Popped(t)
    /\ active' = [active EXCEPT ![t] = Previous(t)]

StaysInside(t) == inside[t]

(* INSIDE, as a copy leaves it.                                            *)
Outer(t) == Top(t).outer

(* The copy finds no item left and hands over what it computed.            *)
FinishCopy(t) ==
    /\ On(t, "copy")
    /\ LET s == Top(t).stage
       IN  /\ Top(t).item = 0
           /\ ~ItemsLeft(s)
           /\ next' = [next EXCEPT ![s] = Advanced(@)]
           /\ parts' = [parts EXCEPT ![s] = @ \o Top(t).mine]
    /\ Back(t)
    /\ inside' = [inside EXCEPT ![t] = Outer(t)]
    /\ UNCHANGED <<panicked, started, snap, outcome, result, cancelled, faulty, ran>>

(* A panic in f is caught: the thread-locals go back, the other copies     *)
(* find no item at their next claim, and the panic is kept for the caller. *)
PanicInCopy(t) ==
    /\ On(t, "copy")
    /\ InHand(t)
    /\ Panics(Top(t).stage, Top(t).item)
    /\ next' = [next EXCEPT ![Top(t).stage] = N + 1]
    /\ panicked' = [panicked EXCEPT ![Top(t).stage] = TRUE]
    /\ Back(t)
    /\ inside' = [inside EXCEPT ![t] = Outer(t)]
    /\ ran' = [ran EXCEPT ![Top(t).stage][Top(t).item] = @ + 1]
    /\ UNCHANGED <<parts, started, snap, outcome, result, cancelled, faulty>>

(* A panic in f on the calling thread simply unwinds.                      *)
PanicOnCaller(t) ==
    /\ On(t, "take") \/ On(t, "inline")
    /\ InHand(t)
    /\ Panics(Top(t).stage, Top(t).item)
    /\ outcome' = [outcome EXCEPT ![Top(t).stage] = "unwound"]
    /\ Back(t)
    /\ ran' = [ran EXCEPT ![Top(t).stage][Top(t).item] = @ + 1]
    /\ UNCHANGED <<inside, next, parts, panicked, started, snap, result, cancelled, faulty>>

NeverCaught(s) == FALSE

Caught(s) == panicked[s]

AllCopiesRan(s) == started[s] = Workers /\ Holding(s, {"copy"}) = {}

(* broadcast returns when every copy it started has returned.              *)
CopiesReturned(s) == Holding(s, {"copy"}) = {}

(* The caller resumes a panic a copy caught ...                            *)
Resume(t) ==
    /\ On(t, "wait")
    /\ CopiesReturned(Top(t).stage)
    /\ Caught(Top(t).stage)
    /\ outcome' = [outcome EXCEPT ![Top(t).stage] = "unwound"]
    /\ Back(t)
    /\ UNCHANGED <<inside, next, parts, panicked, started, snap, result, cancelled, faulty, ran>>

(* ... or gathers what the copies computed and takes what they left.       *)
Gather(t) ==
    /\ On(t, "wait")
    /\ CopiesReturned(Top(t).stage)
    /\ ~Caught(Top(t).stage)
    /\ frames' = Changed(t, [Top(t) EXCEPT !.role = "take",
                                           !.mine = parts[Top(t).stage]])
    /\ parts' = [parts EXCEPT ![Top(t).stage] = <<>>]
    /\ UNCHANGED <<inside, active, next, panicked, started, snap, outcome, result, cancelled, faulty, ran>>

AsGathered(values) == values

(* sort_unstable_by_key: the values rearranged, their items ascending.      *)
Ascending(values, p) ==
    /\ Range(p) = DOMAIN values
    /\ \A j, k \in DOMAIN values : j < k => values[p[j]].item <= values[p[k]].item

InItemOrder(values) ==
    LET p == CHOOSE p \in [DOMAIN values -> DOMAIN values] : Ascending(values, p)
    IN  [k \in DOMAIN values |-> values[p[k]]]

Return(t) ==
    /\ On(t, "take") \/ On(t, "inline")
    /\ Top(t).item = 0
    /\ IF Top(t).role = "take" THEN ~ItemsLeft(Top(t).stage) ELSE Len(Top(t).mine) = N
    /\ outcome' = [outcome EXCEPT ![Top(t).stage] = "returned"]
    /\ result' = [result EXCEPT ![Top(t).stage] = InItemOrder(Top(t).mine)]
    /\ Back(t)
    /\ UNCHANGED <<inside, next, parts, panicked, started, snap, cancelled, faulty, ran>>

(* Canceller::cancel, from anywhere.                                       *)
Cancel(w) ==
    /\ w \in Watches \ cancelled
    /\ cancelled' = cancelled \cup {w}
    /\ UNCHANGED <<frames, inside, active, next, parts, panicked, started, snap, outcome, result, faulty, ran>>

Step(t) ==
    \/ Claim(t) \/ TakeInline(t) \/ Compute(t)
    \/ FinishCopy(t) \/ PanicInCopy(t) \/ PanicOnCaller(t)
    \/ Resume(t) \/ Gather(t) \/ Return(t)
    \/ \E s \in Stages : Within[s] # NoStage /\ Call(s, t)

Next ==
    \/ \E t \in Threads : Step(t)
    \/ \E s \in Stages, t \in Threads : Within[s] = NoStage /\ Call(s, t)
    \/ \E s \in Stages, t \in Threads : StartCopy(s, t)
    \/ \E w \in Watches \ {NoWatch} : Cancel(w)

(* A thread that has something to run runs it.  The pool owes nothing: a   *)
(* copy may start late or never.                                           *)
Spec == Init /\ [][Next]_vars /\ \A t \in Threads : WF_vars(Step(t))

-----------------------------------------------------------------------------
(* Properties.                                                             *)

(* f runs on each item at most once, whoever claims it and whoever panics, *)
(* and on every item of a stage that returned.                             *)
EachItemOnce ==
    \A s \in Stages, i \in 1..N :
        /\ ran[s][i] <= 1
        /\ outcome[s] = "returned" => ran[s][i] = 1

(* The output is the items' results in item order, however they were       *)
(* claimed and however many copies the pool ran.                           *)
OutputInItemOrder ==
    \A s \in Stages : outcome[s] = "returned" =>
        /\ Len(result[s]) = N
        /\ \A i \in 1..N : result[s][i].item = i

(* A stage unwinds exactly when f panicked on one of its items, on a copy, *)
(* on the caller or in a stage called inside it: no panic is swallowed.    *)
PanicReachesCaller ==
    \A s \in Stages : Ended(s) =>
        (outcome[s] = "unwound" <=> \E i \in 1..N : ran[s][i] > 0 /\ Panics(s, i))

(* Thread-locals go back as they were found: a thread with nothing to do   *)
(* is inside no stage and answers no watch, and a caller taking what the   *)
(* copies left answers the watch it called under.                          *)
ThreadLocalsRestored ==
    \A t \in Threads :
        /\ ~Busy(t) => ~inside[t] /\ active[t] = NoWatch
        /\ On(t, "take") => /\ inside[t] = Top(t).outer
                            /\ active[t] = snap[Top(t).stage]

(* Every copy of a watched stage answers the watch the stage was called    *)
(* under, whatever thread the pool runs it on and whatever that thread was *)
(* doing: a cancellation reaches all of the stage.                         *)
CopiesAnswerTheirWatch ==
    \A t \in Threads : On(t, "copy") =>
        LET watch == snap[Top(t).stage]
        IN  watch # NoWatch => active[t] = watch

(* Every call ends, whatever the pool does and whoever panics.             *)
EveryCallEnds == \A s \in Stages : outcome[s] = "running" ~> Ended(s)
=============================================================================
