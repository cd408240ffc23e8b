----------------------------- MODULE MountCache -----------------------------
(***************************************************************************)
(* The block cache of mount: the threads of the file system read blocks of *)
(* a file, workers read ahead, and both decompress on a pool of readers.   *)
(*                                                                         *)
(* Everything under the mutex mu_ is one step; a block is decompressed     *)
(* with mu_ released.  A thread asleep on ready_cv_ is "waiting", a worker *)
(* asleep on work_cv_ is "asleep".  Blocks are numbered as they follow     *)
(* each other in the file.                                                 *)
(***************************************************************************)
EXTENDS Integers, Sequences, FiniteSets, SequencesExt, Functions

CONSTANTS
  Clients,      \* threads of the file system, each with the file open
  Workers,      \* prefetch threads
  Readers,      \* ZPAQFUSE_SHARDS readers, an archive handle each
  NBlocks,      \* the blocks of the file
  Size,         \* how many bytes each is when decompressed
  Budget,       \* the bytes the cache may hold
  MaxReads,     \* bound: the reads, those of all clients together
  Faults        \* whether a decompression may throw

Blocks  == 1..NBlocks
Threads == Clients \cup Workers
NoBlock == 0
NoReader == "no reader"

ASSUME MountAssumption ==
  /\ NBlocks \in Nat \ {0} /\ Budget \in Nat \ {0} /\ MaxReads \in Nat
  /\ Size \in [Blocks -> Nat \ {0}]
  /\ Clients \cap Workers = {}
  /\ Readers # {} /\ IsFiniteSet(Readers) /\ NoReader \notin Readers
  /\ Faults \in BOOLEAN

VARIABLES
  index_,         \* per block: absent, loading or loaded
  lru_,           \* loaded blocks, most recent first
  total_bytes_,
  free_readers_,
  queue_,         \* blocks to read ahead
  pending_,       \* blocks asked for and not done yet
  shutdown_,
  pc,             \* where each thread is
  block,          \* the block each thread is on
  reader,         \* the reader it decompresses with
  ahead,          \* what it has read ahead in this read, and the room left for more
  last,           \* the last block read through each open file: last_end
  reads           \* how many reads were begun

cache  == <<index_, lru_, total_bytes_>>
work   == <<queue_, pending_>>
files  == <<last, reads>>
locals == <<block, reader, ahead>>
vars   == <<cache, work, files, locals, free_readers_, shutdown_, pc>>

READAHEAD_DEPTH == 4

Nothing == [queued |-> 0, room |-> 0]

Init ==
  /\ index_ = [b \in Blocks |-> "absent"] /\ lru_ = <<>> /\ total_bytes_ = 0
  /\ free_readers_ = Readers
  /\ queue_ = <<>> /\ pending_ = {} /\ shutdown_ = FALSE
  /\ pc = [t \in Threads |-> IF t \in Workers THEN "work" ELSE "idle"]
  /\ block = [t \in Threads |-> NoBlock]
  /\ reader = [t \in Threads |-> NoReader]
  /\ ahead = [c \in Clients |-> Nothing]
  /\ last = [c \in Clients |-> NoBlock]
  /\ reads = 0

-----------------------------------------------------------------------------
(* mount_read.                                                             *)

\* The first read of a file from its beginning, or one that carries on.
Sequential(c, b) == IF last[c] = NoBlock THEN b = 1 ELSE b \in last[c]..last[c] + 1

ReadStart(c, b) ==
  /\ pc[c] = "idle" /\ ~shutdown_ /\ reads < MaxReads
  /\ pc' = [pc EXCEPT ![c] = "fetch"]
  /\ block' = [block EXCEPT ![c] = b]
  /\ reads' = reads + 1
  /\ UNCHANGED <<cache, work, free_readers_, shutdown_, reader, ahead, last>>

\* The read is over: nothing to read ahead unless it was a sequential one.
ReadEnd(c, done) ==
  /\ last' = IF done THEN [last EXCEPT ![c] = block[c]] ELSE last
  /\ block' = [block EXCEPT ![c] = NoBlock]
  /\ ahead' = [ahead EXCEPT ![c] = Nothing]

\* Half of the cache is for the block being read and for whoever else reads.
Room == Budget \div 2

\* The data is copied out; now for the next blocks, if the read was sequential.
ReadCopy(c) ==
  /\ pc[c] = "copy"
  /\ IF Sequential(c, block[c])
     THEN /\ pc' = [pc EXCEPT ![c] = "ahead"]
          /\ ahead' = [ahead EXCEPT ![c] = [queued |-> 0, room |-> Room]]
          /\ UNCHANGED <<block, last>>
     ELSE /\ pc' = [pc EXCEPT ![c] = "idle"]
          /\ ReadEnd(c, TRUE)
  /\ UNCHANGED <<cache, work, free_readers_, shutdown_, reader, reads>>

NextAhead(c) == block[c] + ahead[c].queued + 1

MoreAhead(c) == /\ ahead[c].queued < READAHEAD_DEPTH
                /\ NextAhead(c) \in Blocks
                /\ Size[NextAhead(c)] <= ahead[c].room

Known(b) == index_[b] # "absent" \/ b \in pending_

\* notify_one on work_cv_: one of the workers asleep, if any.
WakeWorker(from) ==
  LET asleep == {w \in Workers : from[w] = "asleep"} IN
  IF asleep = {} THEN pc' = from
                 ELSE \E w \in asleep : pc' = [from EXCEPT ![w] = "work"]

\* prefetch_async, for the next block.
ReadAhead(c) ==
  /\ pc[c] = "ahead" /\ MoreAhead(c)
  /\ ahead' = [ahead EXCEPT ![c] = [queued |-> @.queued + 1,
                                    room   |-> @.room - Size[NextAhead(c)]]]
  /\ IF shutdown_ \/ Workers = {} \/ Known(NextAhead(c))
     THEN UNCHANGED <<work, pc>>
     ELSE /\ pending_' = pending_ \cup {NextAhead(c)}
          /\ queue_' = Append(queue_, NextAhead(c))
          /\ WakeWorker(pc)
  /\ UNCHANGED <<cache, files, free_readers_, shutdown_, block, reader>>

ReadReturn(c) ==
  /\ pc[c] = "ahead" /\ ~MoreAhead(c)
  /\ pc' = [pc EXCEPT ![c] = "idle"]
  /\ ReadEnd(c, TRUE)
  /\ UNCHANGED <<cache, work, free_readers_, shutdown_, reader, reads>>

-----------------------------------------------------------------------------
(* fetch.                                                                  *)

\* Mutant: a prefetch may take the last reader.
Need_One(t) == 1

\* A prefetch leaves the last free reader to whoever wants data right now.
Need(t) == IF t \in Workers /\ Cardinality(Readers) > 1 THEN 2 ELSE 1

\* Where a thread goes with its block, and without it.
Fetched(t) == IF t \in Workers THEN "erase" ELSE "copy"

\* notify_all on ready_cv_: everybody asleep on it looks again.
Woken(from) == [t \in Threads |-> IF from[t] = "waiting" THEN "fetch" ELSE from[t]]

\* Mutant: a decompression that fails wakes nobody.
WokenByFailure_Nobody(from) == from

WokenByFailure(from) == Woken(from)

\* Mutant: it is put in front, and stays where it was.
Touched_Twice(k) == <<lru_[k]>> \o lru_

\* lru_ with its k-th block, which lru_it points to, spliced to the front.
Touched(k) == <<lru_[k]>> \o RemoveAt(lru_, k)

\* Cached: it becomes the most recent one.
FetchHit(t) ==
  /\ pc[t] = "fetch" /\ index_[block[t]] = "loaded"
  /\ \E k \in DOMAIN lru_ : lru_[k] = block[t] /\ lru_' = Touched(k)
  /\ pc' = [pc EXCEPT ![t] = Fetched(t)]
  /\ UNCHANGED <<index_, total_bytes_, work, files, locals, free_readers_, shutdown_>>

GivesUp(t) == t \in Workers /\ (shutdown_ \/ index_[block[t]] = "loading")

\* A prefetch gives up if the cache is going away or somebody is on the block.
FetchGiveUp(t) ==
  /\ pc[t] = "fetch" /\ index_[block[t]] # "loaded" /\ GivesUp(t)
  /\ pc' = [pc EXCEPT ![t] = "erase"]
  /\ UNCHANGED <<cache, work, files, locals, free_readers_, shutdown_>>

\* Mutant: it is not looked whether another thread is making the block.
ToMake_Anyway(t) == index_[block[t]] # "loaded" /\ Cardinality(free_readers_) >= Need(t)

\* Nobody has it, nobody is making it: this thread will.
ToMake(t) == index_[block[t]] = "absent" /\ Cardinality(free_readers_) >= Need(t)

FetchTake(t) ==
  /\ pc[t] = "fetch" /\ ~GivesUp(t) /\ ToMake(t)
  /\ LET r == CHOOSE r \in free_readers_ : TRUE
     IN  /\ free_readers_' = free_readers_ \ {r}
         /\ reader' = [reader EXCEPT ![t] = r]
  /\ index_' = [index_ EXCEPT ![block[t]] = "loading"]
  /\ pc' = [pc EXCEPT ![t] = "decompress"]
  /\ UNCHANGED <<lru_, total_bytes_, work, files, block, ahead, shutdown_>>

FetchWait(t) ==
  /\ pc[t] = "fetch" /\ index_[block[t]] # "loaded" /\ ~GivesUp(t) /\ ~ToMake(t)
  /\ pc' = [pc EXCEPT ![t] = "waiting"]
  /\ UNCHANGED <<cache, work, files, locals, free_readers_, shutdown_>>

\* ready_cv_.wait may return without a notification: the loop looks again.
FetchSpurious(t) ==
  /\ pc[t] = "waiting"
  /\ pc' = [pc EXCEPT ![t] = "fetch"]
  /\ UNCHANGED <<cache, work, files, locals, free_readers_, shutdown_>>

\* Mutant: the reader of a decompression that failed is not given back.
GivenBack_Lost(t) == free_readers_

GivenBack(t) == free_readers_ \cup {reader[t]}

Bytes(s) == SumFunction([k \in DOMAIN s |-> Size[s[k]]])

\* Mutant: what a victim held is taken off twice.
Evicted_Twice(l, n) == 2 * Bytes(SubSeq(l, n + 1, Len(l)))

\* The bytes of all but the first n.
Evicted(l, n) == Bytes(SubSeq(l, n + 1, Len(l)))

\* Mutant: one block more than the budget allows.
Fits_OneMore(total, l, n) == Len(l) = n + 1 \/ total - Evicted(l, n) <= Budget

Fits(total, l, n) == total - Evicted(l, n) <= Budget

\* How many stay: the least recent go first, the front one never.
Kept(total, l) ==
  CHOOSE n \in 1..Len(l) :
    /\ n = 1 \/ Fits(total, l, n)
    /\ \A m \in n + 1..Len(l) : ~Fits(total, l, m)

\* The block is there: publish it, make room, wake everybody.
FetchLoaded(t) ==
  /\ pc[t] = "decompress"
  /\ LET b     == block[t]
         l     == <<b>> \o lru_
         total == total_bytes_ + Size[b]
         n     == Kept(total, l)
     IN  /\ lru_' = SubSeq(l, 1, n)
         /\ total_bytes_' = total - Evicted(l, n)
         /\ index_' = [c \in Blocks |-> IF c = b THEN "loaded"
                                        ELSE IF \E k \in n + 1..Len(l) : l[k] = c
                                        THEN "absent" ELSE index_[c]]
  /\ free_readers_' = free_readers_ \cup {reader[t]}
  /\ reader' = [reader EXCEPT ![t] = NoReader]
  /\ pc' = Woken([pc EXCEPT ![t] = Fetched(t)])
  /\ UNCHANGED <<work, files, block, ahead, shutdown_>>

\* decompress throws: the waiters will try on their own, and mount_read says EIO.
FetchThrows(t) ==
  /\ Faults /\ pc[t] = "decompress"
  /\ index_' = [index_ EXCEPT ![block[t]] = "absent"]
  /\ free_readers_' = GivenBack(t)
  /\ reader' = [reader EXCEPT ![t] = NoReader]
  /\ pc' = WokenByFailure([pc EXCEPT ![t] = IF t \in Workers THEN "erase" ELSE "idle"])
  /\ IF t \in Clients THEN ReadEnd(t, FALSE) ELSE UNCHANGED <<block, ahead, last>>
  /\ UNCHANGED <<lru_, total_bytes_, work, reads, shutdown_>>

-----------------------------------------------------------------------------
(* worker_loop, and the destructor.                                        *)

WorkerTake(w) ==
  /\ pc[w] = "work" /\ ~shutdown_ /\ queue_ # <<>>
  /\ block' = [block EXCEPT ![w] = Head(queue_)]
  /\ queue_' = Tail(queue_)
  /\ pc' = [pc EXCEPT ![w] = "fetch"]
  /\ UNCHANGED <<cache, pending_, files, free_readers_, shutdown_, reader, ahead>>

WorkerSleep(w) ==
  /\ pc[w] = "work" /\ ~shutdown_ /\ queue_ = <<>>
  /\ pc' = [pc EXCEPT ![w] = "asleep"]
  /\ UNCHANGED <<cache, work, files, locals, free_readers_, shutdown_>>

WorkerSpurious(w) ==
  /\ pc[w] = "asleep"
  /\ pc' = [pc EXCEPT ![w] = "work"]
  /\ UNCHANGED <<cache, work, files, locals, free_readers_, shutdown_>>

WorkerReturn(w) ==
  /\ pc[w] = "work" /\ shutdown_
  /\ pc' = [pc EXCEPT ![w] = "done"]
  /\ UNCHANGED <<cache, work, files, locals, free_readers_, shutdown_>>

\* Mutant: what is in the cache by now is not taken out of pending_.
StillPending_IfThere(w) == IF index_[block[w]] = "loaded" THEN pending_ ELSE pending_ \ {block[w]}

StillPending(w) == pending_ \ {block[w]}

\* Loaded, given up or failed: it may be asked for again.
WorkerErase(w) ==
  /\ pc[w] = "erase"
  /\ pending_' = StillPending(w)
  /\ block' = [block EXCEPT ![w] = NoBlock]
  /\ pc' = [pc EXCEPT ![w] = "work"]
  /\ UNCHANGED <<cache, queue_, files, free_readers_, shutdown_, reader, ahead>>

\* ~MountCache, when the file system serves no read any more; then the joins.
Destroy ==
  /\ ~shutdown_ /\ \A c \in Clients : pc[c] = "idle"
  /\ shutdown_' = TRUE
  /\ pc' = [t \in Threads |-> IF pc[t] = "asleep" THEN "work" ELSE Woken(pc)[t]]
  /\ UNCHANGED <<cache, work, files, locals, free_readers_>>

-----------------------------------------------------------------------------
Fetch(t) == \/ FetchHit(t) \/ FetchGiveUp(t) \/ FetchTake(t) \/ FetchWait(t)
            \/ FetchLoaded(t) \/ FetchThrows(t)

Client(c) == ReadCopy(c) \/ ReadAhead(c) \/ ReadReturn(c) \/ Fetch(c)

Worker(w) == WorkerTake(w) \/ WorkerSleep(w) \/ WorkerReturn(w) \/ WorkerErase(w) \/ Fetch(w)

Spurious(t) == FetchSpurious(t) \/ (t \in Workers /\ WorkerSpurious(t))

Unmounted == shutdown_ /\ \A w \in Workers : pc[w] = "done"

Ended == Unmounted /\ UNCHANGED vars

Next ==
  \/ \E c \in Clients : Client(c) \/ \E b \in Blocks : ReadStart(c, b)
  \/ \E w \in Workers : Worker(w)
  \/ \E t \in Threads : Spurious(t)
  \/ Destroy
  \/ Ended

\* A thread that can run does.  Nobody has to read, or to unmount, and a condition
\* need not be notified out of nothing.
Fairness == /\ \A c \in Clients : WF_vars(Client(c))
            /\ \A w \in Workers : WF_vars(Worker(w))

Spec == Init /\ [][Next]_vars /\ Fairness
-----------------------------------------------------------------------------
(* Properties.                                                             *)

\* Every variable has its type, and no count of bytes goes below zero.
TypeOK ==
  /\ index_ \in [Blocks -> {"absent", "loading", "loaded"}]
  /\ lru_ \in Seq(Blocks) /\ total_bytes_ \in Nat
  /\ free_readers_ \subseteq Readers
  /\ queue_ \in Seq(Blocks) /\ pending_ \subseteq Blocks
  /\ shutdown_ \in BOOLEAN
  /\ pc \in [Threads -> {"idle", "fetch", "waiting", "decompress", "copy", "ahead",
                         "work", "asleep", "erase", "done"}]
  /\ block \in [Threads -> Blocks \cup {NoBlock}]
  /\ reader \in [Threads -> Readers \cup {NoReader}]
  /\ ahead \in [Clients -> [queued : 0..READAHEAD_DEPTH, room : Nat]]
  /\ last \in [Clients -> Blocks \cup {NoBlock}]
  /\ reads \in 0..MaxReads

\* A reader is one archive handle with its position: never two threads on it, and
\* none lost, whatever a decompression throws.
ReaderHasOneUser ==
  /\ \A t \in Threads : (pc[t] = "decompress") <=> (reader[t] # NoReader)
  /\ \A t, u \in Threads : reader[t] # NoReader /\ reader[t] = reader[u] => t = u
  /\ \A r \in Readers : (r \in free_readers_) <=> ~\E t \in Threads : reader[t] = r

\* The LRU is what is loaded, each block once: a block is not evicted twice, nor
\* one left in the index that nobody will ever evict.
LruIsWhatIsLoaded ==
  /\ \A j, k \in DOMAIN lru_ : lru_[j] = lru_[k] => j = k
  /\ {lru_[k] : k \in DOMAIN lru_} = {b \in Blocks : index_[b] = "loaded"}

\* The bytes counted, one block in and several out at a time, are those of the
\* blocks held, and within the budget but for a block on its own.
BytesCounted ==
  /\ total_bytes_ = Bytes(lru_)
  /\ total_bytes_ <= Budget \/ Len(lru_) = 1

\* "A block wanted by two threads is decompressed once, the second one waits":
\* a block is loading while exactly one thread decompresses it.
OneMaker ==
  /\ \A t, u \in Threads :
       pc[t] = "decompress" /\ pc[u] = "decompress" /\ block[t] = block[u] => t = u
  /\ \A b \in Blocks : index_[b] = "loading"
                      <=> \E t \in Threads : pc[t] = "decompress" /\ block[t] = b

\* "Read-ahead must not make a read slower": with more than one reader, the
\* prefetches never hold them all.
ReaderLeftForReads ==
  Cardinality(Readers) > 1 =>
    free_readers_ # {} \/ \E c \in Clients : pc[c] = "decompress"

\* A block asked for ahead is in the queue or with a worker: were it left in
\* pending_, it would never be read ahead again.
PendingIsOnItsWay ==
  pending_ = {queue_[k] : k \in DOMAIN queue_}
             \cup {block[w] : w \in {v \in Workers : block[v] # NoBlock}}

\* A read ends, with the data or with an error, whatever the others fetch; and
\* after the last one the workers can be joined.
Served ==
  /\ \A c \in Clients : pc[c] = "fetch" ~> pc[c] \in {"copy", "idle"}
  /\ shutdown_ ~> Unmounted
=============================================================================
