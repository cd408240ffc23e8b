-------------------------- MODULE CompressPipeline --------------------------
(***************************************************************************)
(* CompressJob: the queue of blocks between the main thread of add (or of  *)
(* repack), a compressThread per buffer and one writeThread.               *)
(*                                                                         *)
(* A buffer goes EMPTY -> FULL -> COMPRESSING -> COMPRESSED -> WRITING ->  *)
(* EMPTY.  Everything between lock(job.mutex) and release(job.mutex) is    *)
(* one step; compression and the write to the archive run outside it.      *)
(* A block is its number in the order of appendz; a compressed block is    *)
(* the sequence of the blocks in it (out is appended to by compressBlock). *)
(***************************************************************************)
EXTENDS Integers, Sequences, FiniteSets, Semaphore

CONSTANTS
  QSize,      \* buffers and compressThreads: tid.size()
  Threads,    \* howmanythreads: the compressors allowed to run at once
  NBlocks,    \* bound: the blocks the main thread compresses
  Client,     \* who drives the queue: "add" or "repack"
  Faults      \* whether compressing or writing may throw

ASSUME PipelineAssumption ==
  /\ QSize \in Nat \ {0}
  /\ Threads \in Nat \ {0}
  /\ NBlocks \in Nat
  /\ Client \in {"add", "repack"}
  /\ Faults \in BOOLEAN

VARIABLES
  q,            \* the buffers: state, in, out, method
  front,        \* next buffer to write
  job,          \* compressThreads that have taken a job number
  full,         \* per buffer: in is FULL
  compressed,   \* per buffer: out is COMPRESSED
  empty,        \* buffers ready to fill
  compressors,  \* compressors available to run
  csize,        \* what the writeThread pushed, one entry per block
  archive,      \* blocks in the archive, in file order
  given,        \* blocks appended by the main thread: blocklist.size()
  marks,        \* end marks appended by appendz("")
  mpc,          \* where the main thread is
  cpc,          \* where each compressThread is
  wpc           \* where the writeThread is

shared == <<q, front, job, full, compressed, empty, compressors>>
output == <<csize, archive>>
vars   == <<shared, output, given, marks, mpc, cpc, wpc>>

Slots == 0..QSize - 1
NoBlock == 0

EmptyBuffer == [state |-> "EMPTY", in |-> NoBlock, out |-> <<>>, method |-> "end"]

\* Mutant: one buffer too many is announced.
EmptySemaphore_OneTooMany == SemInit(QSize + 1)

EmptySemaphore == SemInit(QSize)

(***************************************************************************)
(* The constructor, before any thread has run.  CJ's method is "" until    *)
(* its first block, and "" is also the mark of the end of the data.        *)
(***************************************************************************)
Init ==
  /\ q = [i \in Slots |-> EmptyBuffer]
  /\ front = 0
  /\ job = 0
  /\ full = [i \in Slots |-> SemInit(0)]
  /\ compressed = [i \in Slots |-> SemInit(0)]
  /\ empty = EmptySemaphore
  /\ compressors = SemInit(Threads)
  /\ csize = <<>>
  /\ archive = <<>>
  /\ given = 0
  /\ marks = 0
  /\ mpc = "room"
  /\ cpc = [i \in Slots |-> "start"]
  /\ wpc = "wait"

-----------------------------------------------------------------------------
(* The main thread: appendz, and repack's polling before it.               *)

\* repack asks csize, under the mutex, before each appendz; add does not.
HasRoom ==
  IF given < NBlocks THEN given - Len(csize) < QSize
                     ELSE marks > 0 \/ Len(csize) >= given

\* rp_compressore: blocco() and finisci() poll scrittiora() until there is room.
MainRoom ==
  /\ mpc = "room"
  /\ Client = "repack" => HasRoom
  /\ mpc' = "wait"
  /\ UNCHANGED <<shared, output, given, marks, cpc, wpc>>

\* empty.wait() returns at once, or the main thread sleeps.
MainWait ==
  /\ mpc = "wait"
  /\ \/ Passes(empty) /\ empty' = Take(empty) /\ mpc' = "fill"
     \/ Sleeps(empty) /\ empty' = Sleep(empty) /\ mpc' = "asleep"
  /\ UNCHANGED <<q, front, job, full, compressed, compressors, output, given,
                 marks, cpc, wpc>>

MainWake ==
  /\ mpc = "asleep"
  /\ Wakes(empty)
  /\ empty' = Wake(empty)
  /\ mpc' = "fill"
  /\ UNCHANGED <<q, front, job, full, compressed, compressors, output, given,
                 marks, cpc, wpc>>

\* Mutant: the search for an EMPTY buffer starts at 0, not at front.
At_FromZero(i) == i

\* The buffers in the order appendz looks at them, from front.
At(i) == (i + front) % QSize

IsFirstEmpty(i) == /\ q[At(i)].state = "EMPTY"
                   /\ \A k \in 0..i - 1 : q[At(k)].state # "EMPTY"

\* Mutant: one end mark, not one per buffer.
AfterAppend_OneMark ==
  /\ given' = IF given < NBlocks THEN given + 1 ELSE given
  /\ marks' = IF given < NBlocks THEN marks ELSE marks + 1
  /\ mpc' = IF marks' = 1 THEN "join" ELSE "room"

\* After the loop over the buffers: the next block, the next mark, or join.
AfterAppend ==
  /\ given' = IF given < NBlocks THEN given + 1 ELSE given
  /\ marks' = IF given < NBlocks THEN marks ELSE marks + 1
  /\ mpc' = IF marks' = QSize THEN "join" ELSE "room"

\* The critical section of appendz: the first EMPTY buffer takes the data.
\* Where none is EMPTY the assert is compiled out and the data is dropped.
MainFill ==
  /\ mpc = "fill"
  /\ \/ \E i \in Slots :
          /\ IsFirstEmpty(i)
          /\ q' = [q EXCEPT ![At(i)] =
                     [@ EXCEPT !.state = "FULL",
                               !.in = IF given < NBlocks THEN given + 1 ELSE NoBlock,
                               !.method = IF given < NBlocks THEN "data" ELSE "end"]]
          /\ full' = [full EXCEPT ![At(i)] = Signal(@)]
     \/ /\ \A i \in Slots : q[i].state # "EMPTY"
        /\ UNCHANGED <<q, full>>
  /\ AfterAppend
  /\ UNCHANGED <<front, job, compressed, empty, compressors, output, cpc, wpc>>

\* join(tid[i]) of every compressThread, then join(wid).
MainJoin ==
  /\ mpc = "join"
  /\ \A i \in Slots : cpc[i] = "done"
  /\ wpc = "done"
  /\ mpc' = "done"
  /\ UNCHANGED <<shared, output, given, marks, cpc, wpc>>

-----------------------------------------------------------------------------
(* compressThread.  A thread is named by the job number it takes.          *)

Goto(i, pc) == cpc' = [cpc EXCEPT ![i] = pc]

CompressStart(i) ==
  /\ cpc[i] = "start"
  /\ i = job
  /\ job' = job + 1
  /\ Goto(i, "wait")
  /\ UNCHANGED <<q, front, full, compressed, empty, compressors, output, given,
                 marks, mpc, wpc>>

\* cj.full.wait()
CompressWait(i) ==
  /\ cpc[i] = "wait"
  /\ \/ /\ Passes(full[i])
        /\ full' = [full EXCEPT ![i] = Take(@)]
        /\ Goto(i, "take")
     \/ /\ Sleeps(full[i])
        /\ full' = [full EXCEPT ![i] = Sleep(@)]
        /\ Goto(i, "asleep")
  /\ UNCHANGED <<q, front, job, compressed, empty, compressors, output, given,
                 marks, mpc, wpc>>

CompressWake(i) ==
  /\ cpc[i] = "asleep"
  /\ Wakes(full[i])
  /\ full' = [full EXCEPT ![i] = Wake(@)]
  /\ Goto(i, "take")
  /\ UNCHANGED <<q, front, job, compressed, empty, compressors, output, given,
                 marks, mpc, wpc>>

\* First critical section: an end mark is passed on and the thread returns,
\* a block becomes COMPRESSING.
CompressTake(i) ==
  /\ cpc[i] = "take"
  /\ \/ /\ q[i].method = "end"
        /\ compressed' = [compressed EXCEPT ![i] = Signal(@)]
        /\ Goto(i, "done")
        /\ UNCHANGED q
     \/ /\ q[i].method # "end"
        /\ q' = [q EXCEPT ![i].state = "COMPRESSING"]
        /\ Goto(i, "slot")
        /\ UNCHANGED compressed
  /\ UNCHANGED <<front, job, full, empty, compressors, output, given, marks,
                 mpc, wpc>>

\* job.compressors.wait()
CompressorWait(i) ==
  /\ cpc[i] = "slot"
  /\ \/ Passes(compressors) /\ compressors' = Take(compressors) /\ Goto(i, "compress")
     \/ Sleeps(compressors) /\ compressors' = Sleep(compressors) /\ Goto(i, "queued")
  /\ UNCHANGED <<q, front, job, full, compressed, empty, output, given, marks,
                 mpc, wpc>>

CompressorWake(i) ==
  /\ cpc[i] = "queued"
  /\ Wakes(compressors)
  /\ compressors' = Wake(compressors)
  /\ Goto(i, "compress")
  /\ UNCHANGED <<q, front, job, full, compressed, empty, output, given, marks,
                 mpc, wpc>>

\* compressBlock appends to out; then, still outside the mutex, in.resize(0).
Compress(i) ==
  /\ cpc[i] = "compress"
  /\ q' = [q EXCEPT ![i].out = @ \o <<q[i].in>>, ![i].in = NoBlock]
  /\ Goto(i, "finish")
  /\ UNCHANGED <<front, job, full, compressed, empty, compressors, output, given,
                 marks, mpc, wpc>>

\* Second critical section: COMPRESSED, and a compressor is free.
CompressFinish(i) ==
  /\ cpc[i] = "finish"
  /\ q' = [q EXCEPT ![i].state = "COMPRESSED"]
  /\ compressed' = [compressed EXCEPT ![i] = Signal(@)]
  /\ compressors' = Signal(compressors)
  /\ Goto(i, "wait")
  /\ UNCHANGED <<front, job, full, empty, output, given, marks, mpc, wpc>>

\* exit(1): no thread runs any more.
ProcessExits ==
  /\ mpc' = "exit"
  /\ cpc' = [i \in Slots |-> "exit"]
  /\ wpc' = "exit"
  /\ UNCHANGED <<shared, output, given, marks>>

\* The codec throws: the catch of compressThread ends the whole process.
CompressThrows(i) ==
  /\ Faults
  /\ cpc[i] = "compress"
  /\ ProcessExits

-----------------------------------------------------------------------------
(* writeThread.  Nobody else moves front.                                  *)

\* cj.compressed.wait() of the buffer in front
WriterWait ==
  /\ wpc = "wait"
  /\ \/ /\ Passes(compressed[front])
        /\ compressed' = [compressed EXCEPT ![front] = Take(@)]
        /\ wpc' = "take"
     \/ /\ Sleeps(compressed[front])
        /\ compressed' = [compressed EXCEPT ![front] = Sleep(@)]
        /\ wpc' = "asleep"
  /\ UNCHANGED <<q, front, job, full, empty, compressors, output, given, marks,
                 mpc, cpc>>

WriterWake ==
  /\ wpc = "asleep"
  /\ Wakes(compressed[front])
  /\ compressed' = [compressed EXCEPT ![front] = Wake(@)]
  /\ wpc' = "take"
  /\ UNCHANGED <<q, front, job, full, empty, compressors, output, given, marks,
                 mpc, cpc>>

\* End of the data: the thread returns.
WriterQuit ==
  /\ wpc = "take"
  /\ q[front].method = "end"
  /\ wpc' = "done"
  /\ UNCHANGED <<shared, output, given, marks, mpc, cpc>>

\* The size is pushed before the block is written.
WriterTake ==
  /\ wpc = "take"
  /\ q[front].method # "end"
  /\ q' = [q EXCEPT ![front].state = "WRITING"]
  /\ csize' = Append(csize, q[front].out)
  /\ wpc' = IF q[front].out # <<>> THEN "write" ELSE "finish"
  /\ UNCHANGED <<front, job, full, compressed, empty, compressors, archive, given,
                 marks, mpc, cpc>>

\* job.out->write, with no lock held.
WriterWrite ==
  /\ wpc = "write"
  /\ archive' = archive \o q[front].out
  /\ wpc' = "finish"
  /\ UNCHANGED <<shared, csize, given, marks, mpc, cpc>>

\* Mutant: out.resize(0) is missing.
Emptied_KeepsOut(cj) == [cj EXCEPT !.state = "EMPTY"]

Emptied(cj) == [cj EXCEPT !.state = "EMPTY", !.out = <<>>]

\* Mutant: front is not taken modulo qsize.
NextFront_NoWrap == front + 1

\* The buffers form a ring.
NextFront == (front + 1) % QSize

\* The buffer is EMPTY again and front moves on.
WriterFinish ==
  /\ wpc = "finish"
  /\ q' = [q EXCEPT ![front] = Emptied(@)]
  /\ front' = NextFront
  /\ empty' = Signal(empty)
  /\ wpc' = "wait"
  /\ UNCHANGED <<job, full, compressed, compressors, output, given, marks, mpc,
                 cpc>>

\* The disk is full: the catch of writeThread ends the whole process.  (After a control-C it
\* leaves that to the handler, and ends alone: control-C is in Journal.)
WriterThrows ==
  /\ Faults
  /\ wpc = "write"
  /\ ProcessExits

-----------------------------------------------------------------------------
Main == MainRoom \/ MainWait \/ MainWake \/ MainFill \/ MainJoin

CompressThread(i) ==
  \/ CompressStart(i) \/ CompressWait(i) \/ CompressWake(i) \/ CompressTake(i)
  \/ CompressorWait(i) \/ CompressorWake(i) \/ Compress(i) \/ CompressFinish(i)

WriteThread == WriterWait \/ WriterWake \/ WriterQuit \/ WriterTake
               \/ WriterWrite \/ WriterFinish

\* The process has ended, past the joins or by exit(1).
Ended == mpc \in {"done", "exit"} /\ UNCHANGED vars

Next ==
  \/ Main
  \/ \E i \in Slots : CompressThread(i) \/ CompressThrows(i)
  \/ WriteThread
  \/ WriterThrows
  \/ Ended

(***************************************************************************)
(* The scheduler runs every thread that can run, and a thread asleep on a  *)
(* semaphore is not starved of it: blocks are finitely many.               *)
(***************************************************************************)
Fairness ==
  /\ WF_vars(Main)
  /\ WF_vars(WriteThread)
  /\ \A i \in Slots : WF_vars(CompressThread(i))

Spec == Init /\ [][Next]_vars

FairSpec == Spec /\ Fairness
-----------------------------------------------------------------------------
(* Properties.                                                             *)

Buffers == [state : {"EMPTY", "FULL", "COMPRESSING", "COMPRESSED", "WRITING"},
            in : 0..NBlocks, out : Seq(0..NBlocks), method : {"data", "end"}]

\* Every variable has its type; the threads' counters stay in range.
TypeOK ==
  /\ q \in [Slots -> Buffers]
  /\ front \in Slots
  /\ job \in 0..QSize
  /\ full \in [Slots -> Semaphores]
  /\ compressed \in [Slots -> Semaphores]
  /\ empty \in Semaphores
  /\ compressors \in Semaphores
  /\ csize \in Seq(Seq(0..NBlocks))
  /\ archive \in Seq(0..NBlocks)
  /\ given \in 0..NBlocks
  /\ marks \in Nat
  /\ mpc \in {"room", "wait", "asleep", "fill", "join", "done", "exit"}
  /\ cpc \in [Slots -> {"start", "wait", "asleep", "take", "slot", "queued",
                        "compress", "finish", "done", "exit"}]
  /\ wpc \in {"wait", "asleep", "take", "write", "finish", "done", "exit"}

\* appendz: "queue should not be full".  Whenever empty.wait() lets the main
\* thread into the critical section there is an EMPTY buffer to take the data,
\* so a block is never dropped by the loop that falls through.
AlwaysRoomToFill == mpc = "fill" => \E i \in Slots : q[i].state = "EMPTY"

\* add pairs csize[i] with blocklist[i] to write the h blocks, so the i-th size
\* pushed must be that of the i-th block appended, and the blocks must lie in
\* the archive in that same order, whichever compressor ended first.
SizesMatchBlocks ==
  /\ \A i \in DOMAIN csize : csize[i] = <<i>>
  /\ \A i \in DOMAIN archive : archive[i] = i
  /\ Len(csize) - Len(archive) \in CASE wpc = "write" -> {1}
                                      [] wpc = "exit"  -> {0, 1}
                                      [] OTHER         -> {0}

\* The writeThread returns at the first end mark it meets: when it has, and
\* when add goes on to write the h blocks, every block appended is written.
NothingLeftBehind ==
  (wpc = "done" \/ mpc \in {"join", "done"}) => Len(archive) = NBlocks

\* A buffer's in and out are used with no lock held by one thread at a time:
\* the writer and the compressor of a buffer never work on it together, and
\* an EMPTY buffer that appendz may take holds nothing of the block before.
BufferHasOneOwner ==
  /\ \A i \in Slots : q[i].state = "EMPTY" =>
       /\ q[i].out = <<>>
       /\ cpc[i] \notin {"take", "slot", "queued", "compress", "finish"}
  /\ wpc \in {"write", "finish"} => cpc[front] \notin {"slot", "queued", "compress", "finish"}

Running == {i \in Slots : cpc[i] \in {"compress", "finish"}}

\* compressors is the "number of compressors available to run": no more than
\* howmanythreads blocks are being compressed at once.
CompressorsBounded == Cardinality(Running) <= Threads

\* The assert of the POSIX wait(), after pthread_cond_wait has returned: a
\* woken thread finds the count above zero.
AssertAfterWait ==
  [][\A i \in Slots : CompressorWake(i) => compressors.val > 0]_vars

\* Unless a thread throws, every thread ends and add gets past the joins: no
\* signal is lost, nobody waits for ever on a semaphore.
Terminates == <>(mpc \in {"done", "exit"})

\* What the queue promises to add, whatever the threads do: an ordered
\* bounded FIFO, closed only once it has been written out.
Fifo == INSTANCE BlockFifo WITH accepted <- given, written <- archive,
                                closed <- (mpc = "done"), Capacity <- QSize

RefinesFifo == Fifo!Spec
RefinesLiveFifo == Fifo!LiveSpec
=============================================================================
