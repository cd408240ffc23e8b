---------------------------- MODULE ImageCache ----------------------------
(***************************************************************************)
(* pp and the restore of an image: the main thread writes the fragments in *)
(* their order, worker_routine decompresses the blocks ahead of it into a  *)
(* cache with a limit.                                                     *)
(*                                                                         *)
(* A worker with a block that does not fit sleeps on cond_cache_not_full   *)
(* ("full"), one without a job on cond_new_job ("asleep"), the main thread *)
(* on cond_block_ready ("waiting").  What is done under cache_mutex is one *)
(* step; job_queue and pending_jobs are filled by the main thread alone,   *)
(* so that looking for the blocks ahead is one step as well.               *)
(***************************************************************************)
EXTENDS Integers, Sequences, FiniteSets, SequencesExt, FiniteSetsExt, Functions

CONSTANTS
  Workers,
  Need,         \* the block of every fragment, in the order they are written
  Size,         \* per block: its bytes when decompressed
  Limit,        \* g_GLOBAL_RAM_LIMIT
  ForceAfter,   \* a block that was awakened so many times in vain goes in (50)
  Warnings,     \* so many checks that find nothing moved make a stall (3)
  Resets,       \* bound: how often the main thread finds that it has stalled
  Faults        \* the blocks whose decompression may fail

Blocks == DOMAIN Size
Absent == -1
NoBlock == 0

ASSUME ImageAssumption ==
  /\ IsFiniteSet(Workers) /\ Workers # {}
  /\ Size \in Seq(Nat \ {0}) /\ Need \in Seq(Blocks)
  /\ Limit \in Nat \ {0} /\ ForceAfter \in Nat
  /\ Warnings \in Nat \ {0} /\ Resets \in Nat
  /\ Faults \subseteq Blocks

VARIABLES
  job_queue, pending_jobs, shutdown,
  block_cache,          \* per block: the size of what is cached, or Absent
  access_time, access_counter,
  current_cache_size,
  priority_block,
  main,                 \* where the main thread is
  fragment,             \* the fragment it is on
  stall_counter,        \* the checks in a row that found nothing moved
  moved,                \* whether a block was decompressed, or is done with, since the last
  resets,               \* how many stalls it has found
  pc, block, result,    \* per worker: where it is, its block, what came out of it
  wait_count            \* per worker: how often it has waited for the RAM

jobs   == <<job_queue, pending_jobs, shutdown>>
cache  == <<block_cache, access_time, access_counter, current_cache_size>>
worker == <<block, result, wait_count>>
stall  == <<stall_counter, moved, resets>>
vars   == <<jobs, cache, priority_block, main, fragment, stall, pc, worker>>

Cached(b) == block_cache[b] # Absent
Current   == Need[fragment]

\* block_remaining_uses: the uses of a block from the fragment f on.
StillNeeded(f) == {b \in Blocks : \E k \in f..Len(Need) : Need[k] = b}

Init ==
  /\ job_queue = <<>> /\ pending_jobs = {} /\ shutdown = FALSE
  /\ block_cache = [b \in Blocks |-> Absent] /\ access_time = [b \in Blocks |-> 0]
  /\ access_counter = 0 /\ current_cache_size = 0 /\ priority_block = NoBlock
  /\ main = "look" /\ fragment = 1
  /\ stall_counter = 0 /\ moved = TRUE /\ resets = 0
  /\ pc = [w \in Workers |-> "idle"] /\ block = [w \in Workers |-> NoBlock]
  /\ result = [w \in Workers |-> 0] /\ wait_count = [w \in Workers |-> 0]

-----------------------------------------------------------------------------
(* The conditions: a signal wakes one sleeper, a broadcast all of them.    *)

Woken(p, from, to) == [w \in Workers |-> IF p[w] = from THEN to ELSE p[w]]

Asleep(p) == {w \in Workers : p[w] = "asleep"}

\* What n signals of cond_new_job make of p.
Signalled(p, n) ==
  {[w \in Workers |-> IF w \in up THEN "idle" ELSE p[w]] :
     up \in {s \in SUBSET Asleep(p) : Cardinality(s) = Min({n, Cardinality(Asleep(p))})}}

-----------------------------------------------------------------------------
(* worker_routine.                                                         *)

Sleep(w) ==
  /\ pc[w] = "idle" /\ job_queue = <<>> /\ ~shutdown
  /\ pc' = [pc EXCEPT ![w] = "asleep"]
  /\ UNCHANGED <<jobs, cache, priority_block, main, fragment, stall, worker>>

Quit(w) ==
  /\ pc[w] = "idle" /\ job_queue = <<>> /\ shutdown
  /\ pc' = [pc EXCEPT ![w] = "ended"]
  /\ UNCHANGED <<jobs, cache, priority_block, main, fragment, stall, worker>>

TakeJob(w) ==
  /\ pc[w] = "idle" /\ job_queue # <<>>
  /\ block' = [block EXCEPT ![w] = Head(job_queue)]
  /\ job_queue' = Tail(job_queue)
  /\ pc' = [pc EXCEPT ![w] = "found"]
  /\ UNCHANGED <<pending_jobs, shutdown, cache, priority_block, main, fragment, stall,
                 result, wait_count>>

\* A block that is cached by now is left alone.
LookInCache(w) ==
  /\ pc[w] = "found"
  /\ pc' = [pc EXCEPT ![w] = IF Cached(block[w]) THEN "idle" ELSE "decompress"]
  /\ block' = [block EXCEPT ![w] = IF Cached(@) THEN NoBlock ELSE @]
  /\ UNCHANGED <<jobs, cache, priority_block, main, fragment, stall, result, wait_count>>

\* What fails gives an empty string, and is cached like the others; blocks_decompressed
\* counts it where it failed without an exception.
Decompress(w) ==
  /\ pc[w] = "decompress"
  /\ \/ result' = [result EXCEPT ![w] = Size[block[w]]] /\ moved' = TRUE
     \/ /\ block[w] \in Faults /\ result' = [result EXCEPT ![w] = 0]
        /\ moved' \in {moved, TRUE}
  /\ pc' = [pc EXCEPT ![w] = "store"]
  /\ UNCHANGED <<jobs, cache, priority_block, main, fragment, stall_counter, resets, block,
                 wait_count>>

\* Over the limit, or over 80% of it for a block nobody waits for.
NoRoom(w) ==
  \/ current_cache_size + result[w] > Limit
  \/ 10 * current_cache_size > 8 * Limit /\ block[w] # priority_block

WaitForRoom(w) ==
  /\ pc[w] = "store" /\ NoRoom(w) /\ ~shutdown
  /\ wait_count[w] < ForceAfter
  /\ wait_count' = [wait_count EXCEPT ![w] = @ + 1]
  /\ pc' = [pc EXCEPT ![w] = "full"]
  /\ UNCHANGED <<jobs, cache, priority_block, main, fragment, stall, block, result>>

\* Mutant: the size is counted even where the block was there already.
Added_Anyway(w) == result[w]

Added(w) == IF Cached(block[w]) THEN 0 ELSE result[w]

\* Mutant: nobody tells the main thread.
Ready_Nobody == main

Ready == IF main = "waiting" THEN "wake" ELSE main

Store(w) ==
  /\ pc[w] = "store"
  /\ ~NoRoom(w) \/ shutdown \/ wait_count[w] >= ForceAfter
  /\ IF Cached(block[w]) THEN UNCHANGED <<block_cache, access_time, access_counter>>
     ELSE /\ block_cache' = [block_cache EXCEPT ![block[w]] = result[w]]
          /\ access_time' = [access_time EXCEPT ![block[w]] = access_counter]
          /\ access_counter' = access_counter + 1
  /\ current_cache_size' = current_cache_size + Added(w)
  /\ main' = Ready
  /\ pc' = [pc EXCEPT ![w] = "idle"]
  /\ block' = [block EXCEPT ![w] = NoBlock]
  /\ result' = [result EXCEPT ![w] = 0]
  /\ wait_count' = [wait_count EXCEPT ![w] = 0]
  /\ UNCHANGED <<jobs, priority_block, fragment, stall>>

Worker(w) ==
  /\ main # "crashed"
  /\ \/ Sleep(w) \/ Quit(w) \/ TakeJob(w) \/ LookInCache(w) \/ Decompress(w)
     \/ WaitForRoom(w) \/ Store(w)

-----------------------------------------------------------------------------
(* The main thread, fragment after fragment.                               *)

\* The fuller the cache, the fewer the blocks asked for ahead.
Lookahead ==
  LET percent == (100 * current_cache_size) \div Limit
  IN  IF percent > 80 THEN 2 ELSE IF percent > 60 THEN 3 ELSE IF percent > 40 THEN 4 ELSE 6

\* The blocks needed from here on that nobody has been asked for.
Unasked == {b \in StillNeeded(fragment) : b \notin pending_jobs /\ ~Cached(b)}

NextUse(b) == Min({k \in fragment..Len(Need) : Need[k] = b})

\* The first of them, in the order of their use: what is asked for ahead.
Ahead ==
  LET n == Min({Lookahead, Cardinality(Unasked)})
  IN  {s \in [1..n -> Unasked] :
         \A i \in 1..n : Cardinality({b \in Unasked : NextUse(b) < NextUse(s[i])}) = i - 1}

\* After a check that found nothing moved (skip_prefetch), or with enough of them in the
\* queue, no block is asked for ahead.
MayLook == stall_counter = 0 /\ Len(job_queue) < Lookahead

\* One signal per block asked for.
Look ==
  /\ main = "look" /\ fragment <= Len(Need)
  /\ main' = "get"
  /\ \E ahead \in IF MayLook THEN Ahead ELSE {<<>>} :
       /\ job_queue' = job_queue \o ahead
       /\ pending_jobs' = pending_jobs \cup Range(ahead)
       /\ pc' \in Signalled(pc, Len(ahead))
  /\ UNCHANGED <<shutdown, cache, priority_block, fragment, stall, worker>>

Got ==
  /\ access_time' = [access_time EXCEPT ![Current] = access_counter]
  /\ access_counter' = access_counter + 1

\* wait_and_get_block.
Get ==
  /\ main = "get" /\ Cached(Current)
  /\ Got /\ main' = "use"
  /\ UNCHANGED <<jobs, block_cache, current_cache_size, priority_block, fragment, stall, pc, worker>>

Urgent == <<Current>> \o job_queue

AskAndWait ==
  /\ main = "get" /\ ~Cached(Current)
  /\ LET unasked == Current \notin pending_jobs
         awake   == Woken(pc, "full", "store")
     IN  /\ job_queue' = IF unasked THEN Urgent ELSE job_queue
         /\ pc' \in Signalled(awake, IF unasked THEN 1 ELSE 0)
  /\ pending_jobs' = pending_jobs \cup {Current}
  /\ priority_block' = Current
  /\ main' = "waiting"
  /\ UNCHANGED <<shutdown, cache, fragment, stall, worker>>

Wake ==
  /\ main = "wake"
  /\ IF Cached(Current)
     THEN /\ Got /\ main' = "use" /\ priority_block' = NoBlock
     ELSE /\ main' = "waiting"
          /\ UNCHANGED <<access_time, access_counter, priority_block>>
  /\ UNCHANGED <<jobs, block_cache, current_cache_size, fragment, stall, pc, worker>>

\* process_gc, after the use of fragment: what no fragment after it needs goes; when
\* there is hardly any room, also the blocks not touched for long, up to half of it.
Unneeded == {b \in Blocks : Cached(b) /\ b \notin StillNeeded(fragment + 1)}

Critical == 100 * current_cache_size > 95 * Limit

Old == {b \in Blocks : /\ Cached(b) /\ b \notin {priority_block, Current}
                       /\ access_counter - access_time[b] > 3}

Bytes(set) == SumFunctionOnSet(block_cache, set)

\* The oldest first, while less than half of the cache is free.
Thrown ==
  IF ~Critical \/ Cardinality(Unneeded) >= 10 THEN {}
  ELSE {b \in Old : Bytes({o \in Old : access_time[o] < access_time[b]})
                      < current_cache_size \div 2}

\* Mutant: the size the block should have, not that of the string that was cached.
Freed_BySize(gone) == SumFunctionOnSet(Size, gone)

Freed(gone) == Bytes(gone)

\* Mutant: a block thrown out is still thought to be on its way.
NoMorePending_Kept(gone) == pending_jobs

NoMorePending(gone) == pending_jobs \ gone

\* Mutant: the workers that wait for room are not told.
RoomMade_Nobody == pc

RoomMade == Woken(pc, "full", "store")

\* A block that is to go for both reasons is looked up again when it is not there any
\* more: its string is a null pointer by then, and the program crashes.
Collect ==
  /\ main = "use"
  /\ LET gone == Unneeded \cup Thrown
     IN  /\ block_cache' = [b \in Blocks |-> IF b \in gone THEN Absent ELSE block_cache[b]]
         /\ access_time' = [b \in Blocks |-> IF b \in gone THEN 0 ELSE access_time[b]]
         /\ current_cache_size' = current_cache_size - Freed(gone)
         /\ pending_jobs' = NoMorePending(gone)
         /\ pc' = IF gone = {} THEN pc ELSE RoomMade
  /\ main' = IF Unneeded \cap Thrown = {} THEN "collected" ELSE "crashed"
  /\ moved' = (moved \/ Current \notin StillNeeded(fragment + 1))
  /\ UNCHANGED <<job_queue, shutdown, access_counter, priority_block, fragment,
                 stall_counter, resets, worker>>

GoOn == fragment' = fragment + 1 /\ main' = "look"

NextFragment ==
  /\ main = "collected" /\ GoOn
  /\ UNCHANGED <<jobs, cache, priority_block, stall, pc, worker>>

\* Ten seconds have passed since the last check: something has moved, or all is done.
Progress ==
  /\ main = "collected" /\ (moved \/ StillNeeded(fragment + 1) = {}) /\ GoOn
  /\ stall_counter' = 0 /\ moved' = FALSE
  /\ UNCHANGED <<jobs, cache, priority_block, resets, pc, worker>>

Unmoved == main = "collected" /\ ~moved /\ StillNeeded(fragment + 1) # {}

Warn ==
  /\ Unmoved /\ stall_counter + 1 < Warnings /\ GoOn
  /\ stall_counter' = stall_counter + 1
  /\ UNCHANGED <<jobs, cache, priority_block, moved, resets, pc, worker>>

\* "FORCING COMPLETE CACHE RESET", one lock after the other: the cache is thrown away,
ClearCache ==
  /\ Unmoved /\ stall_counter + 1 >= Warnings /\ resets < Resets
  /\ resets' = resets + 1
  /\ block_cache' = [b \in Blocks |-> Absent] /\ current_cache_size' = 0
  /\ access_time' = [b \in Blocks |-> 0]
  /\ pc' = Woken(pc, "full", "store")
  /\ main' = "cleared"
  /\ UNCHANGED <<jobs, access_counter, priority_block, fragment, stall_counter, moved, worker>>

\* then the queue and what is marked as asked for,
ClearJobs ==
  /\ main = "cleared"
  /\ job_queue' = <<>> /\ pending_jobs' = {}
  /\ main' = "emptied"
  /\ UNCHANGED <<shutdown, cache, priority_block, fragment, stall, pc, worker>>

\* the block of this fragment is asked for again,
AskAgain ==
  /\ main = "emptied"
  /\ job_queue' = <<Current>> /\ pending_jobs' = {Current} /\ priority_block' = Current
  /\ main' = "asked"
  /\ UNCHANGED <<shutdown, cache, fragment, stall, pc, worker>>

\* and all the workers that sleep for a job are told.
Resume ==
  /\ main = "asked" /\ GoOn
  /\ pc' = Woken(pc, "asleep", "idle")
  /\ stall_counter' = 0 /\ moved' = FALSE
  /\ UNCHANGED <<jobs, cache, priority_block, resets, worker>>

StallReset == ClearCache \/ ClearJobs \/ AskAgain \/ Resume

\* The last fragment is written: the workers end.
Shutdown ==
  /\ main = "look" /\ fragment > Len(Need)
  /\ shutdown' = TRUE /\ main' = "done"
  /\ pc' = Woken(RoomMade, "asleep", "idle")
  /\ UNCHANGED <<job_queue, pending_jobs, cache, priority_block, fragment, stall, worker>>

Main == Look \/ Get \/ AskAndWait \/ Wake \/ Collect \/ NextFragment \/ Progress \/ Warn
        \/ StallReset \/ Shutdown

Next == Main \/ \E w \in Workers : Worker(w)

Spec == Init /\ [][Next]_vars

\* No thread stops while it can go on; a stall is never certain to be found.
FairSpec == Spec /\ WF_vars(Main) /\ \A w \in Workers : WF_vars(Worker(w))

-----------------------------------------------------------------------------
TypeOK ==
  /\ job_queue \in Seq(Blocks) /\ pending_jobs \subseteq Blocks /\ shutdown \in BOOLEAN
  /\ block_cache \in [Blocks -> Nat \cup {Absent}] /\ current_cache_size \in Nat
  /\ access_time \in [Blocks -> Nat] /\ access_counter \in Nat
  /\ priority_block \in Blocks \cup {NoBlock}
  /\ main \in {"look", "get", "waiting", "wake", "use", "collected", "crashed", "cleared",
              "emptied", "asked", "done"}
  /\ fragment \in 1..Len(Need) + 1
  /\ stall_counter \in 0..Warnings - 1 /\ moved \in BOOLEAN /\ resets \in 0..Resets
  /\ pc \in [Workers -> {"idle", "asleep", "found", "decompress", "store", "full", "ended"}]
  /\ block \in [Workers -> Blocks \cup {NoBlock}] /\ result \in [Workers -> Nat]
  /\ wait_count \in [Workers -> 0..ForceAfter]

\* The bytes counted against the limit are those of the blocks in the cache.
BytesCounted == current_cache_size = Bytes({b \in Blocks : Cached(b)})

InHands(b) == \E w \in Workers : block[w] = b

\* A block marked as asked for is in the queue, in the hands of a worker or in the
\* cache: the main thread asks for it no more, and would wait for it for ever.  Only in
\* the middle of a reset, the cache cleared and the marks not yet, it need not be.
PendingIsOnItsWay ==
  main # "cleared" => \A b \in pending_jobs : b \in Range(job_queue) \/ InHands(b) \/ Cached(b)

Stuck == main \in {"waiting", "wake"}

\* The block the main thread waits for does not fit, and its worker sleeps.
HeldBack == \E w \in Workers : pc[w] = "full" /\ block[w] = Current /\
                                 current_cache_size + result[w] > Limit

\* Every worker sleeps with a block that the main thread does not wait for: the one it
\* waits for is in the queue, and nobody takes it.
LockedOut == \A w \in Workers : pc[w] = "full" /\ block[w] # Current

\* The main thread waits for no block for ever, unless that one is decompressed and does
\* not fit in what the others have left, or there is no worker left to decompress it.
ServedIfItFits == Stuck ~> (~Stuck \/ HeldBack \/ LockedOut)

\* "FORCING block as priority", "STALL DETECTED - FORCING COMPLETE CACHE RESET": the
\* main thread does not wait for a block for ever.
Served == Stuck ~> ~Stuck

\* When the last fragment is written, every worker ends.
WorkersEnd == main = "done" ~> \A w \in Workers : pc[w] = "ended"
=============================================================================
