------------------------ MODULE ImageCache_proofs -------------------------
(***************************************************************************)
(* A block that is marked as asked for is on its way, for any number of    *)
(* workers and blocks and any limit.  It is inductive with the types of    *)
(* what it speaks of and one more fact: the workers that look for a job,   *)
(* or sleep for want of one, are those that have no block in their hands,  *)
(* which the next job would replace (IdleHasNone).                         *)
(*                                                                         *)
(* The bytes counted are those cached: a sum that one block at a time is   *)
(* added to or taken from (SumLemmas).                                     *)
(***************************************************************************)
EXTENDS ImageCache, SumLemmas, SequenceTheorems

States == {"idle", "asleep", "found", "decompress", "store", "full", "ended"}
AtCurrent == {"get", "waiting", "wake", "use", "collected", "cleared", "emptied", "asked"}
WithoutJob == {"idle", "asleep", "ended"}

PendingTypes ==
  /\ job_queue \in Seq(Blocks) /\ pending_jobs \subseteq Blocks
  /\ block_cache \in [Blocks -> Int] /\ result \in [Workers -> Nat]
  /\ block \in [Workers -> Blocks \cup {NoBlock}] /\ pc \in [Workers -> States]
  /\ fragment \in Nat \ {0}
  /\ main \in AtCurrent => fragment \in 1..Len(Need)

IdleHasNone == \A w \in Workers : (pc[w] \in WithoutJob) <=> (block[w] = NoBlock)

PendingInv == PendingTypes /\ IdleHasNone /\ PendingIsOnItsWay

\* A signal changes a thread that slept for a job into one that looks for one.
LEMMA SignalledKeeps ==
  ASSUME NEW p \in [Workers -> States], NEW n, NEW q \in Signalled(p, n)
  PROVE  /\ q \in [Workers -> States]
         /\ \A w \in Workers : q[w] = p[w] \/ (p[w] = "asleep" /\ q[w] = "idle")
BY DEF Signalled, Asleep, States

LEMMA WokenKeeps ==
  ASSUME NEW p \in [Workers -> States], NEW from \in States, NEW to \in {"store", "idle"}
  PROVE  /\ Woken(p, from, to) \in [Workers -> States]
         /\ \A w \in Workers : Woken(p, from, to)[w] = IF p[w] = from THEN to ELSE p[w]
BY DEF Woken, States

\* What is asked for ahead is a sequence of blocks.
LEMMA AheadIsBlocks ==
  ASSUME ImageAssumption, NEW s \in IF MayLook THEN Ahead ELSE {<<>>}
  PROVE  s \in Seq(Blocks)
<1>1. CASE ~MayLook
  BY <1>1
<1>2. CASE MayLook
  <2>1. PICK n : n = Min({Lookahead, Cardinality(Unasked)})
    OBVIOUS
  <2>2. s \in [1..n -> Unasked]
    BY <1>2, <2>1 DEF Ahead
  <2>3. Unasked \subseteq Blocks
    BY DEF Unasked, StillNeeded
  <2>4. n \in Nat
    <3>1. IsFiniteSet(Unasked)
      <4>1. IsFiniteSet(Blocks)
        <5>1. Blocks = 1..Len(Size) /\ Len(Size) \in Nat
          BY DEF ImageAssumption, Blocks
        <5>2. QED
          BY <5>1, FS_Interval
      <4>2. QED
        BY <2>3, <4>1, FS_Subset
    <3>2. Cardinality(Unasked) \in Nat /\ Lookahead \in Nat
      BY <3>1, FS_CardinalityType DEF Lookahead
    <3>3. \E m \in {Lookahead, Cardinality(Unasked)} : \A y \in {Lookahead, Cardinality(Unasked)} : m <= y
      BY <3>2
    <3>4. n \in {Lookahead, Cardinality(Unasked)}
      BY <2>1, <3>3 DEF Min
    <3>5. QED
      BY <3>2, <3>4
  <2>5. s \in [1..n -> Blocks]
    BY <2>2, <2>3
  <2>6. QED
    BY <2>4, <2>5
<1>3. QED
  BY <1>1, <1>2

LEMMA RangeOfOne ==
  ASSUME NEW S, NEW c \in S
  PROVE  <<c>> \in Seq(S) /\ Range(<<c>>) = {c}
BY DEF Range

LEMMA PushedInFront ==
  ASSUME NEW S, NEW c \in S, NEW q \in Seq(S)
  PROVE  <<c>> \o q \in Seq(S) /\ Range(<<c>> \o q) = Range(q) \cup {c}
<1>1. <<c>> \in Seq(S) /\ Range(<<c>>) = {c}
  BY RangeOfOne
<1>2. Range(<<c>> \o q) = Range(<<c>>) \cup Range(q)
  <2>1. PICK s \in Seq(S) : s = <<c>>
    BY <1>1
  <2>2. Range(s \o q) = Range(s) \cup Range(q)
    BY RangeConcatenation
  <2>3. QED
    BY <2>1, <2>2
<1>3. <<c>> \o q \in Seq(S)
  BY <1>1, ConcatProperties
<1>4. QED
  BY <1>1, <1>2, <1>3

LEMMA NoBlockIsNone == ImageAssumption => NoBlock \notin Blocks
BY DEF ImageAssumption, Blocks, NoBlock

LEMMA InitPending == ImageAssumption /\ Init => PendingInv
<1> SUFFICES ASSUME ImageAssumption, Init PROVE PendingInv
  OBVIOUS
<1>1. PendingTypes
  BY DEF ImageAssumption, Init, PendingTypes, States, AtCurrent, Absent
<1>2. IdleHasNone /\ PendingIsOnItsWay
  BY DEF Init, IdleHasNone, WithoutJob, PendingIsOnItsWay
<1>3. QED
  BY <1>1, <1>2 DEF PendingInv

\* A block that stays in the hands of its worker and in the cache, while pending_jobs
\* grows by what is queued, stays on its way.
LEMMA KeptOnItsWay ==
  ASSUME PendingTypes, PendingIsOnItsWay, main # "cleared", Range(job_queue) \subseteq Range(job_queue'),
         pending_jobs' \subseteq pending_jobs \cup Range(job_queue'),
         UNCHANGED <<block_cache, block>>
  PROVE  PendingIsOnItsWay'
BY DEF PendingIsOnItsWay, InHands, Cached

LEMMA MainPending ==
  ASSUME ImageAssumption, PendingInv, Main
  PROVE  PendingInv'
<1> USE DEF PendingInv
<1>1. CASE Look
  <2>1. PICK ahead \in IF MayLook THEN Ahead ELSE {<<>>} :
          /\ job_queue' = job_queue \o ahead
          /\ pending_jobs' = pending_jobs \cup Range(ahead)
          /\ pc' \in Signalled(pc, Len(ahead))
    BY <1>1 DEF Look
  <2>2. ahead \in Seq(Blocks) /\ Range(ahead) \subseteq Blocks
    BY AheadIsBlocks, RangeOfSeq
  <2>3. /\ job_queue' \in Seq(Blocks)
        /\ Range(job_queue') = Range(job_queue) \cup Range(ahead)
    BY <2>1, <2>2, RangeConcatenation, ConcatProperties DEF PendingTypes
  <2>4. /\ pc' \in [Workers -> States]
        /\ \A w \in Workers : pc'[w] = pc[w] \/ (pc[w] = "asleep" /\ pc'[w] = "idle")
    BY <2>1, SignalledKeeps DEF PendingTypes
  <2>5. UNCHANGED <<block_cache, block, result, fragment>> /\ main' = "get" /\ fragment <= Len(Need)
    BY <1>1 DEF Look, cache, worker
  <2>5a. main # "cleared"
    BY <1>1 DEF Look
  <2>6. PendingTypes'
    BY <2>1, <2>2, <2>3, <2>4, <2>5 DEF PendingTypes, AtCurrent, ImageAssumption
  <2>7. IdleHasNone'
    BY <2>4, <2>5 DEF IdleHasNone, WithoutJob, PendingTypes
  <2>8. PendingIsOnItsWay'
    BY <2>1, <2>3, <2>5, <2>5a, KeptOnItsWay
  <2>9. QED
    BY <2>6, <2>7, <2>8
<1>2. CASE Get
  <2>1. UNCHANGED <<job_queue, pending_jobs, block_cache, block, result, fragment, pc>> /\ main = "get" /\ main' = "use"
    BY <1>2 DEF Get, jobs, worker
  <2>2. QED
    BY <2>1 DEF PendingTypes, AtCurrent, IdleHasNone, PendingIsOnItsWay, InHands, Cached
<1>3. CASE AskAndWait
  <2> DEFINE awake == Woken(pc, "full", "store")
  <2>1. /\ awake \in [Workers -> States]
        /\ \A w \in Workers : awake[w] = IF pc[w] = "full" THEN "store" ELSE pc[w]
    BY WokenKeeps DEF PendingTypes, States
  <2>2. PICK n : pc' \in Signalled(awake, n)
    BY <1>3 DEF AskAndWait
  <2> HIDE DEF awake
  <2>3. /\ pc' \in [Workers -> States]
        /\ \A w \in Workers : pc'[w] = awake[w] \/ (awake[w] = "asleep" /\ pc'[w] = "idle")
    BY <2>1, <2>2, SignalledKeeps
  <2>4. /\ job_queue' = IF Current \notin pending_jobs THEN Urgent ELSE job_queue
        /\ pending_jobs' = pending_jobs \cup {Current}
        /\ UNCHANGED <<block_cache, block, result, fragment>>
        /\ main = "get" /\ main' = "waiting"
    BY <1>3 DEF AskAndWait, cache, worker
  <2>5. Current \in Blocks
    BY <2>4 DEF Current, PendingTypes, AtCurrent, ImageAssumption
  <2>6. /\ Urgent \in Seq(Blocks)
        /\ Range(Urgent) = Range(job_queue) \cup {Current}
    <3>1. PICK c \in Blocks : c = Current
      BY <2>5
    <3>2. PICK q \in Seq(Blocks) : q = job_queue
      BY DEF PendingTypes
    <3>3. QED
      BY <3>1, <3>2, PushedInFront DEF Urgent
  <2>7. PendingTypes'
    BY <2>3, <2>4, <2>5, <2>6 DEF PendingTypes, AtCurrent
  <2>8. IdleHasNone'
    BY <2>1, <2>3, <2>4 DEF IdleHasNone, WithoutJob
  <2>9. PendingIsOnItsWay'
    <3>1. CASE Current \in pending_jobs
      BY <2>4, <3>1, KeptOnItsWay
    <3>2. CASE Current \notin pending_jobs
      BY <2>4, <2>6, <3>2, KeptOnItsWay
    <3>3. QED
      BY <3>1, <3>2
  <2>10. QED
    BY <2>7, <2>8, <2>9
<1>4. CASE Wake
  <2>1. /\ UNCHANGED <<job_queue, pending_jobs, block_cache, block, result, fragment, pc>>
        /\ main = "wake" /\ main' \in {"use", "waiting"}
    BY <1>4 DEF Wake, jobs, worker
  <2>2. QED
    BY <2>1 DEF PendingTypes, AtCurrent, IdleHasNone, PendingIsOnItsWay, InHands, Cached
<1>5. CASE Collect
  <2>1. PICK gone : gone = Unneeded \cup Thrown
    OBVIOUS
  <2>2. /\ block_cache' = [b \in Blocks |-> IF b \in gone THEN Absent ELSE block_cache[b]]
        /\ pending_jobs' = pending_jobs \ gone
        /\ pc' = IF gone = {} THEN pc ELSE RoomMade
        /\ UNCHANGED <<job_queue, block, result, fragment>>
        /\ main = "use" /\ main' \in {"collected", "crashed"}
    BY <1>5, <2>1 DEF Collect, NoMorePending, worker
  <2>3. /\ RoomMade \in [Workers -> States]
        /\ \A w \in Workers : RoomMade[w] = IF pc[w] = "full" THEN "store" ELSE pc[w]
    BY WokenKeeps DEF PendingTypes, RoomMade, States
  <2>4. /\ pc' \in [Workers -> States]
        /\ \A w \in Workers : (pc'[w] \in WithoutJob) <=> (pc[w] \in WithoutJob)
    BY <2>2, <2>3 DEF PendingTypes, WithoutJob
  <2>5. PendingTypes'
    BY <2>2, <2>4 DEF PendingTypes, AtCurrent, Absent
  <2>6. IdleHasNone'
    BY <2>2, <2>4 DEF IdleHasNone, WithoutJob, PendingTypes
  <2>7. PendingIsOnItsWay'
    BY <2>2 DEF PendingIsOnItsWay, InHands, Cached, PendingTypes
  <2>8. QED
    BY <2>5, <2>6, <2>7
<1>6. CASE NextFragment \/ Progress \/ Warn
  <2>1. /\ UNCHANGED <<job_queue, pending_jobs, block_cache, block, result, pc>>
        /\ main = "collected" /\ main' = "look" /\ fragment' = fragment + 1
    BY <1>6 DEF NextFragment, Progress, Warn, Unmoved, GoOn, jobs, cache, worker
  <2>2. QED
    BY <2>1 DEF PendingTypes, AtCurrent, IdleHasNone, PendingIsOnItsWay, InHands, Cached
<1>7. CASE ClearCache
  <2>1. /\ block_cache' = [b \in Blocks |-> Absent]
        /\ UNCHANGED <<job_queue, pending_jobs, block, result, fragment>>
        /\ pc' = Woken(pc, "full", "store") /\ main = "collected" /\ main' = "cleared"
    BY <1>7 DEF ClearCache, Unmoved, jobs, worker
  <2>2. /\ pc' \in [Workers -> States]
        /\ \A w \in Workers : pc'[w] = IF pc[w] = "full" THEN "store" ELSE pc[w]
    BY <2>1, WokenKeeps DEF PendingTypes, States
  <2>3. PendingTypes'
    BY <2>1, <2>2 DEF PendingTypes, AtCurrent, Absent
  <2>4. IdleHasNone'
    BY <2>1, <2>2 DEF IdleHasNone, WithoutJob
  <2>5. PendingIsOnItsWay'
    BY <2>1 DEF PendingIsOnItsWay
  <2>6. QED
    BY <2>3, <2>4, <2>5
<1>8. CASE ClearJobs
  <2>1. /\ job_queue' = <<>> /\ pending_jobs' = {} /\ main = "cleared" /\ main' = "emptied"
        /\ UNCHANGED <<block_cache, block, result, fragment, pc>>
    BY <1>8 DEF ClearJobs, cache, worker
  <2>2. QED
    BY <2>1 DEF PendingTypes, AtCurrent, IdleHasNone, PendingIsOnItsWay
<1>9. CASE AskAgain
  <2>1. PICK c \in Blocks : c = Current
    BY <1>9 DEF AskAgain, Current, PendingTypes, AtCurrent, ImageAssumption
  <2>2. /\ job_queue' = <<c>> /\ pending_jobs' = {c} /\ main = "emptied" /\ main' = "asked"
        /\ UNCHANGED <<block_cache, block, result, fragment, pc>>
    BY <1>9, <2>1 DEF AskAgain, cache, worker
  <2>3. <<c>> \in Seq(Blocks) /\ Range(<<c>>) = {c}
    BY RangeOfOne
  <2>4. QED
    BY <2>2, <2>3 DEF PendingTypes, AtCurrent, IdleHasNone, PendingIsOnItsWay
<1>10. CASE Resume
  <2>1. /\ UNCHANGED <<job_queue, pending_jobs, block_cache, block, result>>
        /\ main = "asked" /\ main' = "look" /\ fragment' = fragment + 1
        /\ pc' = Woken(pc, "asleep", "idle")
    BY <1>10 DEF Resume, GoOn, jobs, cache, worker
  <2>2. /\ pc' \in [Workers -> States]
        /\ \A w \in Workers : pc'[w] = IF pc[w] = "asleep" THEN "idle" ELSE pc[w]
    BY <2>1, WokenKeeps DEF PendingTypes, States
  <2>3. PendingTypes'
    BY <2>1, <2>2 DEF PendingTypes, AtCurrent
  <2>4. IdleHasNone'
    BY <2>1, <2>2 DEF IdleHasNone, WithoutJob
  <2>5. PendingIsOnItsWay'
    BY <2>1 DEF PendingIsOnItsWay, InHands, Cached
  <2>6. QED
    BY <2>3, <2>4, <2>5
<1>11. CASE Shutdown
  <2>1. /\ UNCHANGED <<job_queue, pending_jobs, block_cache, block, result, fragment>>
        /\ main = "look" /\ main' = "done" /\ pc' = Woken(RoomMade, "asleep", "idle")
    BY <1>11 DEF Shutdown, cache, worker
  <2>2. PICK p : p = RoomMade
    OBVIOUS
  <2>3. /\ p \in [Workers -> States]
        /\ \A w \in Workers : p[w] = IF pc[w] = "full" THEN "store" ELSE pc[w]
    <3>1. p = Woken(pc, "full", "store")
      BY <2>2 DEF RoomMade
    <3>2. QED
      BY <3>1, WokenKeeps DEF PendingTypes, States
  <2>4. /\ pc' \in [Workers -> States]
        /\ \A w \in Workers : pc'[w] = IF p[w] = "asleep" THEN "idle" ELSE p[w]
    BY <2>1, <2>2, <2>3, WokenKeeps DEF States
  <2>5. PendingTypes'
    BY <2>1, <2>4 DEF PendingTypes, AtCurrent
  <2>6. IdleHasNone'
    BY <2>1, <2>3, <2>4 DEF IdleHasNone, WithoutJob
  <2>7. PendingIsOnItsWay'
    BY <2>1 DEF PendingIsOnItsWay, InHands, Cached
  <2>8. QED
    BY <2>5, <2>6, <2>7
<1>12. QED
  BY <1>1, <1>2, <1>3, <1>4, <1>5, <1>6, <1>7, <1>8, <1>9, <1>10, <1>11 DEF Main, StallReset

LEMMA WorkerPending ==
  ASSUME ImageAssumption, PendingInv, NEW w \in Workers, Worker(w)
  PROVE  PendingInv'
<1> USE DEF PendingInv
<1>1. CASE Sleep(w)
  <2>1. /\ UNCHANGED <<job_queue, pending_jobs, block_cache, block, result, fragment, main>>
        /\ pc[w] = "idle" /\ pc' = [pc EXCEPT ![w] = "asleep"]
    BY <1>1 DEF Sleep, jobs, cache, worker
  <2>2. QED
    BY <2>1 DEF PendingTypes, States, IdleHasNone, WithoutJob, PendingIsOnItsWay, InHands, Cached
<1>2. CASE Quit(w)
  <2>1. /\ UNCHANGED <<job_queue, pending_jobs, block_cache, block, result, fragment, main>>
        /\ pc[w] = "idle" /\ pc' = [pc EXCEPT ![w] = "ended"]
    BY <1>2 DEF Quit, jobs, cache, worker
  <2>2. QED
    BY <2>1 DEF PendingTypes, States, IdleHasNone, WithoutJob, PendingIsOnItsWay, InHands, Cached
<1>3. CASE TakeJob(w)
  <2>1. /\ UNCHANGED <<pending_jobs, block_cache, result, fragment, main>>
        /\ pc[w] = "idle" /\ pc' = [pc EXCEPT ![w] = "found"] /\ job_queue # <<>>
        /\ block' = [block EXCEPT ![w] = Head(job_queue)] /\ job_queue' = Tail(job_queue)
    BY <1>3 DEF TakeJob, cache
  <2>2. job_queue \in Seq(Blocks) /\ block[w] = NoBlock
    BY <2>1 DEF PendingTypes, IdleHasNone, WithoutJob
  <2>3. Head(job_queue) \in Blocks /\ Tail(job_queue) \in Seq(Blocks)
    BY <2>1, <2>2, HeadTailProperties
  <2>4. Range(job_queue) = {Head(job_queue)} \cup Range(Tail(job_queue))
    <3>1. PICK h \in Blocks, t \in Seq(Blocks) : h = Head(job_queue) /\ t = Tail(job_queue)
      BY <2>3
    <3>2. job_queue = <<h>> \o t
      BY <2>1, <2>2, <3>1
    <3>3. Range(<<h>> \o t) = Range(t) \cup {h}
      BY <3>1, PushedInFront
    <3>4. QED
      BY <3>1, <3>2, <3>3
  <2>5. PendingTypes'
    BY <2>1, <2>3 DEF PendingTypes, States
  <2>6. IdleHasNone'
    BY <2>1, <2>3, NoBlockIsNone DEF IdleHasNone, WithoutJob, PendingTypes
  <2>7. PendingIsOnItsWay'
    <3> SUFFICES ASSUME main # "cleared", NEW b \in pending_jobs
                 PROVE  b \in Range(job_queue') \/ (\E v \in Workers : block'[v] = b) \/ block_cache'[b] # Absent
      BY <2>1 DEF PendingIsOnItsWay, InHands, Cached
    <3>1. b # NoBlock
      BY NoBlockIsNone DEF PendingTypes
    <3>2. CASE b \in Range(job_queue)
      BY <2>1, <2>4, <3>2 DEF PendingTypes
    <3>3. CASE InHands(b)
      BY <2>1, <2>2, <3>1, <3>3 DEF InHands, PendingTypes
    <3>4. CASE Cached(b)
      BY <2>1, <3>4 DEF Cached
    <3>5. QED
      BY <3>2, <3>3, <3>4 DEF PendingIsOnItsWay
  <2>8. QED
    BY <2>5, <2>6, <2>7
<1>4. CASE LookInCache(w)
  <2>1. /\ UNCHANGED <<job_queue, pending_jobs, block_cache, result, fragment, main>>
        /\ pc[w] = "found"
        /\ pc' = [pc EXCEPT ![w] = IF Cached(block[w]) THEN "idle" ELSE "decompress"]
        /\ block' = [block EXCEPT ![w] = IF Cached(block[w]) THEN NoBlock ELSE block[w]]
    BY <1>4 DEF LookInCache, jobs, cache
  <2>2. PendingTypes'
    BY <2>1 DEF PendingTypes, States
  <2>3. IdleHasNone'
    BY <2>1 DEF IdleHasNone, WithoutJob, PendingTypes
  <2>4. PendingIsOnItsWay'
    BY <2>1 DEF PendingIsOnItsWay, InHands, Cached, PendingTypes
  <2>5. QED
    BY <2>2, <2>3, <2>4
<1>5. CASE Decompress(w)
  <2>1. PICK n \in {Size[block[w]], 0} : result' = [result EXCEPT ![w] = n]
    BY <1>5 DEF Decompress
  <2>2. /\ UNCHANGED <<job_queue, pending_jobs, block_cache, block, fragment, main>>
        /\ pc[w] = "decompress" /\ pc' = [pc EXCEPT ![w] = "store"]
    BY <1>5 DEF Decompress, jobs, cache
  <2>3. block[w] \in Blocks
    BY <2>2 DEF IdleHasNone, WithoutJob, PendingTypes
  <2>4. n \in Nat
    BY <2>1, <2>3 DEF ImageAssumption, Blocks
  <2>5. PendingTypes' /\ IdleHasNone'
    BY <2>1, <2>2, <2>4 DEF PendingTypes, States, IdleHasNone, WithoutJob
  <2>6. PendingIsOnItsWay'
    BY <2>2 DEF PendingIsOnItsWay, InHands, Cached
  <2>7. QED
    BY <2>5, <2>6
<1>6. CASE WaitForRoom(w)
  <2>1. /\ UNCHANGED <<job_queue, pending_jobs, block_cache, block, result, fragment, main>>
        /\ pc[w] = "store" /\ pc' = [pc EXCEPT ![w] = "full"]
    BY <1>6 DEF WaitForRoom, jobs, cache
  <2>2. QED
    BY <2>1 DEF PendingTypes, States, IdleHasNone, WithoutJob, PendingIsOnItsWay, InHands, Cached
<1>7. CASE Store(w)
  <2>1. /\ UNCHANGED <<job_queue, pending_jobs, fragment>>
        /\ block_cache' = IF Cached(block[w]) THEN block_cache
                          ELSE [block_cache EXCEPT ![block[w]] = result[w]]
        /\ main' = Ready /\ pc' = [pc EXCEPT ![w] = "idle"]
        /\ block' = [block EXCEPT ![w] = NoBlock] /\ result' = [result EXCEPT ![w] = 0]
    BY <1>7 DEF Store, jobs
  <2>2. PendingTypes'
    <3>1. block_cache' \in [Blocks -> Int]
      <4>1. block_cache \in [Blocks -> Int] /\ result[w] \in Int
        BY DEF PendingTypes
      <4>2. [block_cache EXCEPT ![block[w]] = result[w]] \in [Blocks -> Int]
        BY <4>1
      <4>3. QED
        BY <2>1, <4>1, <4>2
    <3>2. main' \in AtCurrent => main \in AtCurrent
      BY <2>1 DEF Ready, AtCurrent
    <3>3. block' \in [Workers -> Blocks \cup {NoBlock}] /\ pc' \in [Workers -> States] /\ result' \in [Workers -> Nat]
      BY <2>1 DEF PendingTypes, States
    <3>4. QED
      BY <2>1, <3>1, <3>2, <3>3 DEF PendingTypes
  <2>3. IdleHasNone'
    BY <2>1 DEF IdleHasNone, WithoutJob, PendingTypes
  <2>4. PendingIsOnItsWay'
    <3>1. main' # "cleared" => main # "cleared"
      BY <2>1 DEF Ready
    <3>2. QED
      BY <2>1, <3>1 DEF PendingIsOnItsWay, InHands, Cached, PendingTypes, Absent
  <2>5. QED
    BY <2>2, <2>3, <2>4
<1>8. QED
  BY <1>1, <1>2, <1>3, <1>4, <1>5, <1>6, <1>7 DEF Worker

(* The main thread asks for no block that it believes asked for, and waits *)
(* for it: whatever the workers do, and whatever is thrown out of the      *)
(* cache in between, such a block is queued, in a worker's hands or cached *)
(* but in the one state between the two locks of a stall reset.            *)
THEOREM PendingTheorem == Spec => []PendingIsOnItsWay
<1>1. Init => PendingInv
  BY InitPending, ImageAssumption
<1>2. PendingInv /\ [Next]_vars => PendingInv'
  <2>1. CASE Next
    BY <2>1, MainPending, WorkerPending, ImageAssumption DEF Next
  <2>2. CASE UNCHANGED vars
    BY <2>2 DEF vars, jobs, cache, worker, PendingInv, PendingTypes, IdleHasNone, PendingIsOnItsWay,
       InHands, Cached
  <2>3. QED
    BY <2>1, <2>2
<1>3. PendingInv => PendingIsOnItsWay
  BY DEF PendingInv
<1>4. QED
  BY <1>1, <1>2, <1>3, PTL DEF Spec

-----------------------------------------------------------------------------
(* The bytes.  Three steps move them: a block is stored, some are thrown   *)
(* out, or all of them are.                                                *)

InCache == {b \in Blocks : Cached(b)}

\* The types that the proof of PendingIsOnItsWay could do without.
OtherTypes ==
  /\ shutdown \in BOOLEAN
  /\ block_cache \in [Blocks -> Nat \cup {Absent}]
  /\ access_time \in [Blocks -> Nat] /\ access_counter \in Nat
  /\ priority_block \in Blocks \cup {NoBlock}
  /\ main \in {"look", "get", "waiting", "wake", "use", "collected", "crashed", "cleared",
              "emptied", "asked", "done"}
  /\ fragment \in 1..Len(Need) + 1
  /\ stall_counter \in 0..Warnings - 1 /\ moved \in BOOLEAN /\ resets \in 0..Resets
  /\ wait_count \in [Workers -> 0..ForceAfter]

BytesInv == PendingInv /\ OtherTypes /\ BytesCounted

LEMMA CacheIsFinite ==
  ASSUME ImageAssumption, NEW S \in SUBSET Blocks
  PROVE  IsFiniteSet(S)
<1>1. Blocks = 1..Len(Size) /\ Len(Size) \in Nat
  BY DEF ImageAssumption, Blocks
<1>2. IsFiniteSet(Blocks)
  BY <1>1, FS_Interval
<1>3. QED
  BY <1>2, FS_Subset

\* As long as the cache is the same, and the count of its bytes.
LEMMA SameBytes ==
  ASSUME BytesCounted, UNCHANGED <<block_cache, current_cache_size>>
  PROVE  BytesCounted'
BY DEF BytesCounted, Bytes, Cached

\* What is left in a cache when some blocks go.
LEMMA BytesWithout ==
  ASSUME ImageAssumption, BytesInv, NEW gone \in SUBSET InCache,
         block_cache' = [b \in Blocks |-> IF b \in gone THEN Absent ELSE block_cache[b]],
         current_cache_size' = current_cache_size - Bytes(gone)
  PROVE  BytesCounted'
<1> DEFINE left == InCache \ gone
<1>1. /\ IsFiniteSet(InCache) /\ IsFiniteSet(left) /\ IsFiniteSet(gone)
      /\ gone \in SUBSET InCache
  BY CacheIsFinite DEF InCache
<1>2. \A b \in InCache : block_cache[b] \in Nat
  BY DEF BytesInv, OtherTypes, InCache, Cached
<1>3. Bytes(InCache) = Bytes(gone) + Bytes(left)
  BY <1>1, <1>2, SumSplit DEF Bytes
<1>4. Bytes(gone) \in Nat /\ Bytes(left) \in Nat
  BY <1>1, <1>2, SumNat DEF Bytes
<1>5. {b \in Blocks : Cached(b)'} = left
  BY DEF InCache, Cached, Absent
<1>6. SumFunctionOnSet(block_cache', left) = SumFunctionOnSet(block_cache, left)
  <2>1. \A b \in left : block_cache'[b] = block_cache[b]
    BY DEF InCache
  <2> HIDE DEF left
  <2>2. QED
    BY <1>1, <2>1, SumSame
<1>7. current_cache_size' = Bytes(left)
  BY <1>3, <1>4 DEF BytesInv, BytesCounted, InCache
<1>8. QED
  BY <1>5, <1>6, <1>7 DEF BytesCounted, Bytes

LEMMA BytesWith ==
  ASSUME ImageAssumption, BytesInv, NEW b \in Blocks, ~Cached(b), NEW n \in Nat,
         block_cache' = [block_cache EXCEPT ![b] = n],
         current_cache_size' = current_cache_size + n
  PROVE  BytesCounted'
<1> DEFINE new == InCache \cup {b}
<1>0. PICK c : c = block_cache'
  OBVIOUS
<1>1. IsFiniteSet(InCache) /\ IsFiniteSet(new) /\ new \ {b} = InCache /\ b \in new
  BY CacheIsFinite DEF InCache
<1>2. c[b] = n /\ \A d \in InCache : c[d] = block_cache[d]
  BY <1>0 DEF InCache, BytesInv, OtherTypes
<1>3. \A d \in new : c[d] \in Nat
  BY <1>2 DEF InCache, Cached, BytesInv, OtherTypes
<1>4. SumFunctionOnSet(c, new) = n + SumFunctionOnSet(c, InCache)
  <2> HIDE DEF new
  <2>1. SumFunctionOnSet(c, new) = c[b] + SumFunctionOnSet(c, new \ {b})
    BY <1>1, <1>3, SumOne
  <2>2. QED
    BY <1>1, <1>2, <2>1
<1>5. SumFunctionOnSet(c, InCache) = Bytes(InCache)
  BY <1>1, <1>2, SumSame DEF Bytes
<1>6. {d \in Blocks : Cached(d)'} = new
  BY <1>0, <1>2 DEF InCache, Cached, Absent, BytesInv, OtherTypes
<1>7. Bytes(InCache) = current_cache_size /\ current_cache_size \in Nat
  <2>1. Bytes(InCache) \in Nat
    BY <1>1, SumNat DEF Bytes, InCache, Cached, BytesInv, OtherTypes
  <2>2. QED
    BY <2>1 DEF BytesInv, BytesCounted, InCache
<1>8. Bytes({d \in Blocks : Cached(d)})' = SumFunctionOnSet(c, new)
  BY <1>0, <1>6 DEF Bytes
<1>9. SumFunctionOnSet(c, new) = current_cache_size + n
  BY <1>4, <1>5, <1>7
<1>10. QED
  BY <1>8, <1>9 DEF BytesCounted

LEMMA NoBytes ==
  ASSUME block_cache' = [b \in Blocks |-> Absent], current_cache_size' = 0
  PROVE  BytesCounted'
<1>1. {b \in Blocks : Cached(b)'} = {}
  BY DEF Cached
<1>2. QED
  BY <1>1, SumEmpty DEF BytesCounted, Bytes

LEMMA InitBytes == ImageAssumption /\ Init => BytesInv
<1> SUFFICES ASSUME ImageAssumption, Init PROVE BytesInv
  OBVIOUS
<1>n. Len(Need) \in Nat /\ Resets \in Nat /\ ForceAfter \in Nat /\ Warnings \in Nat \ {0}
  BY DEF ImageAssumption
<1>1. OtherTypes
  <2>1. /\ block_cache \in [Blocks -> Nat \cup {Absent}] /\ access_time \in [Blocks -> Nat]
        /\ wait_count \in [Workers -> 0..ForceAfter]
    BY <1>n DEF Init, Absent
  <2>2. shutdown \in BOOLEAN /\ priority_block = NoBlock /\ main = "look"
    BY DEF Init
  <2>3. access_counter = 0 /\ fragment = 1 /\ resets = 0 /\ stall_counter = 0 /\ moved = TRUE
    BY DEF Init
  <2>4. /\ fragment \in 1..Len(Need) + 1 /\ resets \in 0..Resets
        /\ stall_counter \in 0..Warnings - 1 /\ moved \in BOOLEAN
    BY <1>n, <2>3
  <2>5. QED
    BY <2>1, <2>2, <2>3, <2>4 DEF OtherTypes
<1>2. BytesCounted
  <2>1. {b \in Blocks : Cached(b)} = {}
    BY DEF Init, Cached
  <2>2. QED
    BY <2>1, SumEmpty DEF Init, BytesCounted, Bytes
<1>3. QED
  BY <1>1, <1>2, InitPending DEF BytesInv

LEMMA MainBytes ==
  ASSUME ImageAssumption, BytesInv, Main
  PROVE  OtherTypes' /\ BytesCounted'
<1> USE DEF BytesInv
<1>a. (Current \in Blocks /\ fragment <= Len(Need)) \/ main \notin AtCurrent
  BY DEF PendingInv, PendingTypes, Current, ImageAssumption
<1>n. Len(Need) \in Nat /\ Resets \in Nat /\ Warnings \in Nat \ {0}
  BY DEF ImageAssumption
<1>0. 0 \in 0..Warnings - 1
  BY <1>n
<1>1. CASE Look
  BY <1>1, SameBytes DEF Look, OtherTypes, cache, stall, worker
<1>2. CASE Get
  BY <1>2, <1>a, SameBytes DEF Get, Got, OtherTypes, jobs, stall, worker, AtCurrent
<1>3. CASE AskAndWait
  BY <1>3, <1>a, SameBytes DEF AskAndWait, OtherTypes, cache, stall, worker, AtCurrent
<1>4. CASE Wake
  <2>1. BytesCounted' /\ Current \in Blocks
    BY <1>4, <1>a, SameBytes DEF Wake, AtCurrent
  <2>2. CASE Cached(Current)
    <3>1. /\ access_time' = [access_time EXCEPT ![Current] = access_counter]
          /\ access_counter' = access_counter + 1 /\ main' = "use" /\ priority_block' = NoBlock
          /\ UNCHANGED <<shutdown, block_cache, fragment, stall_counter, moved, resets, wait_count>>
      BY <1>4, <2>2 DEF Wake, Got, jobs, stall, worker
    <3>2. QED
      BY <2>1, <3>1 DEF OtherTypes
  <2>3. CASE ~Cached(Current)
    BY <1>4, <2>1, <2>3 DEF Wake, OtherTypes, jobs, stall, worker
  <2>4. QED
    BY <2>2, <2>3
<1>5. CASE Collect
  <2>1. PICK gone : gone = Unneeded \cup Thrown
    OBVIOUS
  <2>2. /\ block_cache' = [b \in Blocks |-> IF b \in gone THEN Absent ELSE block_cache[b]]
        /\ access_time' = [b \in Blocks |-> IF b \in gone THEN 0 ELSE access_time[b]]
        /\ current_cache_size' = current_cache_size - Bytes(gone)
        /\ main' \in {"collected", "crashed"} /\ moved' \in BOOLEAN
        /\ UNCHANGED <<shutdown, access_counter, priority_block, fragment, stall_counter, resets,
                       wait_count>>
    BY <1>5, <2>1 DEF Collect, Freed, worker, OtherTypes
  <2>3. gone \in SUBSET InCache
    BY <2>1 DEF Unneeded, Thrown, Old, InCache
  <2>4. BytesCounted'
    BY <2>2, <2>3, BytesWithout
  <2>5. OtherTypes'
    BY <2>2 DEF OtherTypes
  <2>6. QED
    BY <2>4, <2>5
<1>6. CASE NextFragment \/ Progress \/ Warn
  <2>1. /\ UNCHANGED <<shutdown, block_cache, access_time, access_counter, current_cache_size,
                       priority_block, resets, wait_count>>
        /\ main = "collected" /\ main' = "look" /\ fragment' = fragment + 1
    BY <1>6 DEF NextFragment, Progress, Warn, Unmoved, GoOn, jobs, cache, stall, worker
  <2>2. stall_counter' \in 0..Warnings - 1 /\ moved' \in BOOLEAN
    <3>1. CASE NextFragment
      BY <3>1 DEF NextFragment, OtherTypes, stall
    <3>2. CASE Progress
      <4>1. stall_counter' = 0 /\ moved' = FALSE
        BY <3>2 DEF Progress
      <4>2. QED
        BY <1>0, <4>1
    <3>3. CASE Warn
      BY <3>3, <1>n DEF Warn, OtherTypes
    <3>4. QED
      BY <1>6, <3>1, <3>2, <3>3
  <2>3. fragment' \in 1..Len(Need) + 1
    BY <1>a, <1>n, <2>1 DEF OtherTypes, AtCurrent
  <2>4. QED
    BY <2>1, <2>2, <2>3, SameBytes DEF OtherTypes
<1>7. CASE ClearCache
  <2>1. /\ resets' = resets + 1 /\ resets < Resets
        /\ block_cache' = [b \in Blocks |-> Absent] /\ current_cache_size' = 0
        /\ access_time' = [b \in Blocks |-> 0] /\ main' = "cleared"
        /\ UNCHANGED <<shutdown, access_counter, priority_block, fragment, stall_counter, moved,
                       wait_count>>
    BY <1>7 DEF ClearCache, jobs, worker
  <2>2. OtherTypes'
    BY <1>n, <2>1 DEF OtherTypes
  <2>3. QED
    BY <2>1, <2>2, NoBytes
<1>8. CASE ClearJobs \/ AskAgain
  BY <1>8, <1>a, SameBytes DEF ClearJobs, AskAgain, OtherTypes, cache, stall, worker, AtCurrent
<1>9. CASE Resume
  <2>1. /\ UNCHANGED <<shutdown, block_cache, access_time, access_counter, current_cache_size,
                       priority_block, resets, wait_count>>
        /\ main = "asked" /\ main' = "look" /\ fragment' = fragment + 1
        /\ stall_counter' = 0 /\ moved' = FALSE
    BY <1>9 DEF Resume, GoOn, jobs, cache, worker
  <2>2. fragment' \in 1..Len(Need) + 1
    BY <1>a, <1>n, <2>1 DEF OtherTypes, AtCurrent
  <2>3. QED
    <3>1. stall_counter' \in 0..Warnings - 1 /\ moved' \in BOOLEAN
      BY <1>0, <2>1
    <3>2. QED
      BY <2>1, <2>2, <3>1, SameBytes DEF OtherTypes
<1>10. CASE Shutdown
  BY <1>10, SameBytes DEF Shutdown, OtherTypes, cache, stall, worker
<1>11. QED
  BY <1>1, <1>2, <1>3, <1>4, <1>5, <1>6, <1>7, <1>8, <1>9, <1>10 DEF Main, StallReset

LEMMA WorkerBytes ==
  ASSUME ImageAssumption, BytesInv, NEW w \in Workers, Worker(w)
  PROVE  OtherTypes' /\ BytesCounted'
<1> USE DEF BytesInv
<1>1. CASE Sleep(w) \/ Quit(w)
  BY <1>1, SameBytes DEF Sleep, Quit, OtherTypes, jobs, cache, stall, worker
<1>2. CASE TakeJob(w)
  BY <1>2, SameBytes DEF TakeJob, OtherTypes, cache, stall
<1>3. CASE LookInCache(w)
  BY <1>3, SameBytes DEF LookInCache, OtherTypes, jobs, cache, stall
<1>4. CASE Decompress(w)
  BY <1>4, SameBytes DEF Decompress, OtherTypes, jobs, cache, stall
<1>5. CASE WaitForRoom(w)
  <2>1. wait_count[w] + 1 \in 0..ForceAfter
    BY <1>5 DEF WaitForRoom, OtherTypes, ImageAssumption
  <2>2. QED
    BY <1>5, <2>1, SameBytes DEF WaitForRoom, OtherTypes, jobs, cache, stall
<1>6. CASE Store(w)
  <2>1. block[w] \in Blocks /\ result[w] \in Nat
    BY <1>6 DEF Store, PendingInv, PendingTypes, IdleHasNone, WithoutJob
  <2>2. CASE Cached(block[w])
    <3>1. UNCHANGED <<block_cache, access_time, access_counter>> /\ current_cache_size' = current_cache_size
      <4>1. current_cache_size \in Nat
        <5>1. Bytes(InCache) \in Nat
          BY CacheIsFinite, SumNat DEF Bytes, InCache, Cached, OtherTypes
        <5>2. QED
          BY <5>1 DEF BytesCounted, InCache
      <4>2. QED
        BY <1>6, <2>2, <4>1 DEF Store, Added
    <3>2. BytesCounted'
      BY <3>1, SameBytes
    <3>3. OtherTypes'
      BY <1>6, <3>1 DEF Store, Ready, OtherTypes, jobs, stall, ImageAssumption
    <3>4. QED
      BY <3>2, <3>3
  <2>3. CASE ~Cached(block[w])
    <3>1. /\ block_cache' = [block_cache EXCEPT ![block[w]] = result[w]]
          /\ access_time' = [access_time EXCEPT ![block[w]] = access_counter]
          /\ access_counter' = access_counter + 1
          /\ current_cache_size' = current_cache_size + result[w]
      BY <1>6, <2>3 DEF Store, Added
    <3>2. BytesCounted'
      BY <2>1, <2>3, <3>1, BytesWith
    <3>3. OtherTypes'
      BY <1>6, <2>1, <3>1 DEF Store, Ready, OtherTypes, jobs, stall, ImageAssumption
    <3>4. QED
      BY <3>2, <3>3
  <2>4. QED
    BY <2>2, <2>3
<1>7. QED
  BY <1>1, <1>2, <1>3, <1>4, <1>5, <1>6 DEF Worker

LEMMA BytesInductive == Spec => []BytesInv
<1>1. Init => BytesInv
  BY InitBytes, ImageAssumption
<1>2. BytesInv /\ [Next]_vars => BytesInv'
  <2>1. CASE BytesInv /\ Next
    <3>1. PendingInv'
      BY <2>1, MainPending, WorkerPending, ImageAssumption DEF Next, BytesInv
    <3>2. OtherTypes' /\ BytesCounted'
      BY <2>1, MainBytes, WorkerBytes, ImageAssumption DEF Next
    <3>3. QED
      BY <3>1, <3>2 DEF BytesInv
  <2>2. CASE BytesInv /\ UNCHANGED vars
    BY <2>2 DEF vars, jobs, cache, stall, worker, BytesInv, PendingInv, PendingTypes, IdleHasNone,
       PendingIsOnItsWay, InHands, Cached, OtherTypes, BytesCounted, Bytes
  <2>3. QED
    BY <2>1, <2>2
<1>3. QED
  BY <1>1, <1>2, PTL DEF Spec

(* What is counted against the limit of RAM is, after any number of blocks *)
(* stored, found stored already by another worker, thrown out one by one   *)
(* or all together, the bytes of the blocks that are in the cache.         *)
THEOREM BytesTheorem == Spec => []BytesCounted
<1>1. BytesInv => BytesCounted
  BY DEF BytesInv
<1>2. QED
  BY <1>1, BytesInductive, PTL

(* Every variable has its type; the count of the bytes, which is taken     *)
(* from and added to, is never below zero.                                 *)
THEOREM TypeTheorem == Spec => []TypeOK
<1>1. BytesInv => TypeOK
  <2> SUFFICES ASSUME BytesInv PROVE TypeOK
    OBVIOUS
  <2>1. Bytes(InCache) \in Nat
    BY CacheIsFinite, SumNat, ImageAssumption DEF Bytes, InCache, Cached, BytesInv, OtherTypes
  <2>2. current_cache_size \in Nat
    BY <2>1 DEF BytesInv, BytesCounted, InCache
  <2>3. QED
    BY <2>2 DEF BytesInv, PendingInv, PendingTypes, OtherTypes, TypeOK, States
<1>2. QED
  BY <1>1, BytesInductive, PTL
=============================================================================
