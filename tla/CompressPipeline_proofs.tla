---------------------- MODULE CompressPipeline_proofs ----------------------
(* Types of CompressPipeline, for every number of buffers, compressors and *)
(* blocks, on both semaphores; on those of Windows, the bound on the       *)
(* threads that compress at once; then its safety on both, for both        *)
(* clients, and that it implements BlockFifo.                              *)
EXTENDS CompressPipeline, FiniteSetTheorems, TLAPS

(* The operations of a semaphore give semaphores.                          *)
LEMMA SemaphoreTypes ==
  /\ \A n \in Int : SemInit(n) \in Semaphores
  /\ \A s \in Semaphores :
       /\ Take(s) \in Semaphores
       /\ Sleep(s) \in Semaphores
       /\ Signal(s) \in Semaphores
       /\ Wakes(s) => Wake(s) \in Semaphores
<1>1. \A n \in Int : SemInit(n) \in Semaphores
  BY DEF Semaphores, SemInit
<1>2. ASSUME NEW s \in Semaphores
      PROVE  /\ Take(s) \in Semaphores
             /\ Sleep(s) \in Semaphores
             /\ Signal(s) \in Semaphores
             /\ Wakes(s) => Wake(s) \in Semaphores
  <2>2. s.val \in Int /\ s.blocked \in Nat /\ s.woken \in Nat
    BY DEF Semaphores
  <2>3. Take(s) \in Semaphores
    BY <2>2 DEF Semaphores, Take
  <2>4. Sleep(s) \in Semaphores
    BY <2>2 DEF Semaphores, Sleep
  <2>5. Signal(s) \in Semaphores
    <3>1. CASE s.blocked > 0
      BY <2>2, <3>1 DEF Semaphores, Signal
    <3>2. CASE ~(s.blocked > 0)
      BY <2>2, <3>2 DEF Semaphores, Signal
    <3>3. QED
      BY <3>1, <3>2
  <2>6. ASSUME Wakes(s) PROVE Wake(s) \in Semaphores
    BY <2>2, <2>6 DEF Semaphores, Wakes, Wake
  <2>7. QED
    BY <2>3, <2>4, <2>5, <2>6
<1>3. QED
  BY <1>1, <1>2

LEMMA ModInSlots == \A n \in Nat : n % QSize \in Slots
BY PipelineAssumption DEF Slots

(* Main's part of the step that keeps the types.                           *)
LEMMA MainKeepsTypes == TypeOK /\ Main => TypeOK'
<1> SUFFICES ASSUME TypeOK, Main PROVE TypeOK'
  OBVIOUS
<1>e. /\ empty \in Semaphores /\ Take(empty) \in Semaphores /\ Sleep(empty) \in Semaphores
      /\ Wakes(empty) => Wake(empty) \in Semaphores
  BY SemaphoreTypes DEF TypeOK
<1>1. CASE MainRoom
  BY <1>1 DEF TypeOK, MainRoom, shared, output
<1>2. CASE MainWait
  BY <1>2, <1>e DEF TypeOK, MainWait, output
<1>3. CASE MainWake
  BY <1>3, <1>e DEF TypeOK, MainWake, output
<1>4. CASE MainFill
  <2>1. given' \in 0..NBlocks /\ marks' \in Nat /\ mpc' \in {"room", "join"}
    <3>1. AfterAppend /\ given \in 0..NBlocks /\ marks \in Nat
      BY <1>4 DEF MainFill, TypeOK
    <3>2. QED
      BY <3>1, PipelineAssumption DEF AfterAppend
  <2>2. q' \in [Slots -> Buffers] /\ full' \in [Slots -> Semaphores]
    <3>1. ASSUME NEW i \in Slots, NEW b \in 0..NBlocks, NEW m \in {"data", "end"},
                 q' = [q EXCEPT ![At(i)] = [@ EXCEPT !.state = "FULL", !.in = b, !.method = m]],
                 full' = [full EXCEPT ![At(i)] = Signal(@)]
          PROVE q' \in [Slots -> Buffers] /\ full' \in [Slots -> Semaphores]
      <4>1. At(i) \in Slots
        <5>1. i + front \in Nat
          BY PipelineAssumption DEF TypeOK, Slots
        <5>2. QED
          BY <5>1, ModInSlots DEF At
      <4>2. q[At(i)] \in Buffers /\ full[At(i)] \in Semaphores
        BY <4>1 DEF TypeOK
      <4>3. Signal(full[At(i)]) \in Semaphores
        BY <4>2, SemaphoreTypes
      <4>4. [q[At(i)] EXCEPT !.state = "FULL", !.in = b, !.method = m] \in Buffers
        BY <4>2 DEF Buffers
      <4>5. QED
        BY <3>1, <4>1, <4>3, <4>4 DEF TypeOK
    <3>2. CASE UNCHANGED <<q, full>>
      BY <3>2 DEF TypeOK
    <3>3. IF given < NBlocks THEN given + 1 \in 0..NBlocks ELSE NoBlock \in 0..NBlocks
      BY PipelineAssumption DEF TypeOK, NoBlock
    <3>4. QED
      BY <1>4, <3>1, <3>2, <3>3 DEF MainFill
  <2>3. QED
    BY <1>4, <2>1, <2>2 DEF TypeOK, MainFill, output
<1>5. CASE MainJoin
  BY <1>5 DEF TypeOK, MainJoin, shared, output
<1>6. QED
  BY <1>1, <1>2, <1>3, <1>4, <1>5 DEF Main

(* A compressThread's part.                                                *)
LEMMA CompressThreadKeepsTypes ==
  ASSUME TypeOK, NEW i \in Slots, CompressThread(i)
  PROVE  TypeOK'
<1>f. /\ full[i] \in Semaphores /\ Take(full[i]) \in Semaphores
      /\ Sleep(full[i]) \in Semaphores
      /\ Wakes(full[i]) => Wake(full[i]) \in Semaphores
  BY SemaphoreTypes DEF TypeOK
<1>c. compressed[i] \in Semaphores /\ Signal(compressed[i]) \in Semaphores
  BY SemaphoreTypes DEF TypeOK
<1>r. /\ compressors \in Semaphores /\ Take(compressors) \in Semaphores
      /\ Sleep(compressors) \in Semaphores /\ Signal(compressors) \in Semaphores
      /\ Wakes(compressors) => Wake(compressors) \in Semaphores
  BY SemaphoreTypes DEF TypeOK
<1>b. q[i] \in Buffers
  BY DEF TypeOK
<1>1. CASE CompressStart(i)
  <2>1. job' \in 0..QSize
    BY <1>1, PipelineAssumption DEF TypeOK, CompressStart, Slots
  <2>2. QED
    BY <1>1, <2>1 DEF TypeOK, CompressStart, Goto, output
<1>2. CASE CompressWait(i)
  BY <1>2, <1>f DEF TypeOK, CompressWait, Goto, output
<1>3. CASE CompressWake(i)
  BY <1>3, <1>f DEF TypeOK, CompressWake, Goto, output
<1>4. CASE CompressTake(i)
  <2>1. [q[i] EXCEPT !.state = "COMPRESSING"] \in Buffers
    BY <1>b DEF Buffers
  <2>2. q' \in [Slots -> Buffers] /\ compressed' \in [Slots -> Semaphores]
    BY <1>4, <1>c, <2>1 DEF TypeOK, CompressTake
  <2>3. QED
    BY <1>4, <2>2 DEF TypeOK, CompressTake, Goto, output
<1>5. CASE CompressorWait(i)
  BY <1>5, <1>r DEF TypeOK, CompressorWait, Goto, output
<1>6. CASE CompressorWake(i)
  BY <1>6, <1>r DEF TypeOK, CompressorWake, Goto, output
<1>7. CASE Compress(i)
  <2>1. q[i].out \in Seq(0..NBlocks) /\ <<q[i].in>> \in Seq(0..NBlocks)
    BY <1>b DEF Buffers
  <2>2. q[i].out \o <<q[i].in>> \in Seq(0..NBlocks)
    BY <2>1
  <2>3. NoBlock \in 0..NBlocks
    BY PipelineAssumption DEF NoBlock
  <2>4. [q[i] EXCEPT !.out = @ \o <<q[i].in>>, !.in = NoBlock] \in Buffers
    BY <1>b, <2>2, <2>3 DEF Buffers
  <2>5. q' = [q EXCEPT ![i] = [q[i] EXCEPT !.out = @ \o <<q[i].in>>, !.in = NoBlock]]
    BY <1>7 DEF Compress, TypeOK
  <2>6. QED
    BY <1>7, <2>4, <2>5 DEF TypeOK, Compress, Goto, output
<1>8. CASE CompressFinish(i)
  <2>1. [q[i] EXCEPT !.state = "COMPRESSED"] \in Buffers
    BY <1>b DEF Buffers
  <2>2. QED
    BY <1>8, <1>c, <1>r, <2>1 DEF TypeOK, CompressFinish, Goto, output
<1>9. QED
  BY <1>1, <1>2, <1>3, <1>4, <1>5, <1>6, <1>7, <1>8 DEF CompressThread

(* The writeThread's part.                                                 *)
LEMMA WriteThreadKeepsTypes == TypeOK /\ WriteThread => TypeOK'
<1> SUFFICES ASSUME TypeOK, WriteThread PROVE TypeOK'
  OBVIOUS
<1>c. /\ front \in Slots
      /\ compressed[front] \in Semaphores /\ Take(compressed[front]) \in Semaphores
      /\ Sleep(compressed[front]) \in Semaphores
      /\ Wakes(compressed[front]) => Wake(compressed[front]) \in Semaphores
  BY SemaphoreTypes DEF TypeOK
<1>b. q[front] \in Buffers /\ q[front].out \in Seq(0..NBlocks)
  BY <1>c DEF TypeOK, Buffers
<1>1. CASE WriterWait
  BY <1>1, <1>c DEF TypeOK, WriterWait, output
<1>2. CASE WriterWake
  BY <1>2, <1>c DEF TypeOK, WriterWake, output
<1>3. CASE WriterQuit
  BY <1>3 DEF TypeOK, WriterQuit, shared, output
<1>4. CASE WriterTake
  <2>1. [q[front] EXCEPT !.state = "WRITING"] \in Buffers
    BY <1>b DEF Buffers
  <2>2. csize' \in Seq(Seq(0..NBlocks))
    BY <1>4, <1>b DEF TypeOK, WriterTake
  <2>3. wpc' \in {"write", "finish"}
    BY <1>4 DEF WriterTake
  <2>4. QED
    BY <1>4, <1>c, <2>1, <2>2, <2>3 DEF TypeOK, WriterTake
<1>5. CASE WriterWrite
  <2>1. archive' \in Seq(0..NBlocks)
    BY <1>5, <1>b DEF TypeOK, WriterWrite
  <2>2. QED
    BY <1>5, <2>1 DEF TypeOK, WriterWrite, shared
<1>6. CASE WriterFinish
  <2>1. <<>> \in Seq(0..NBlocks)
    OBVIOUS
  <2>2. Emptied(q[front]) \in Buffers
    BY <1>b, <2>1 DEF Buffers, Emptied
  <2>3. front + 1 \in Nat
    BY <1>c, PipelineAssumption DEF Slots
  <2>4. NextFront \in Slots
    BY <2>3, ModInSlots DEF NextFront
  <2>5. Signal(empty) \in Semaphores
    BY SemaphoreTypes DEF TypeOK
  <2>6. QED
    BY <1>6, <1>c, <2>2, <2>4, <2>5 DEF TypeOK, WriterFinish, output
<1>7. QED
  BY <1>1, <1>2, <1>3, <1>4, <1>5, <1>6 DEF WriteThread

LEMMA TypesKept == TypeOK /\ [Next]_vars => TypeOK'
<1> SUFFICES ASSUME TypeOK, [Next]_vars PROVE TypeOK'
  OBVIOUS
<1>1. CASE ProcessExits
  BY <1>1 DEF TypeOK, ProcessExits, shared, output
<1>2. CASE UNCHANGED vars
  BY <1>2 DEF TypeOK, vars, shared, output
<1>3. QED
  BY <1>1, <1>2, MainKeepsTypes, CompressThreadKeepsTypes, WriteThreadKeepsTypes
  DEF Next, CompressThrows, WriterThrows, Ended

LEMMA TypesHoldFirst == Init => TypeOK
<1> SUFFICES ASSUME Init PROVE TypeOK
  OBVIOUS
<1>1. EmptyBuffer \in Buffers
  BY PipelineAssumption DEF EmptyBuffer, Buffers, NoBlock
<1>2. SemInit(0) \in Semaphores /\ SemInit(QSize) \in Semaphores /\ SemInit(Threads) \in Semaphores
  BY PipelineAssumption, SemaphoreTypes
<1>3. 0 \in Slots /\ 0 \in 0..QSize /\ 0 \in 0..NBlocks
  BY PipelineAssumption DEF Slots
<1>4. QED
  BY <1>1, <1>2, <1>3 DEF Init, TypeOK, EmptySemaphore

(* Type correctness of the queue and of the threads around it.             *)
THEOREM TypeCorrect == Spec => []TypeOK
BY TypesHoldFirst, TypesKept, PTL DEF Spec

-----------------------------------------------------------------------------
(* On kernel semaphores no more than howmanythreads blocks are being        *)
(* compressed: a thread that compresses has a count of compressors, and     *)
(* nobody is ever half-way through a wait, to take a count that somebody    *)
(* else has taken.                                                         *)

\* The counts left and the counts in use are those there were.
BoundInv ==
  /\ TypeOK
  /\ compressors.blocked = 0 /\ compressors.woken = 0 /\ compressors.val >= 0
  /\ compressors.val + Cardinality(Running) <= Threads

LEMMA RunningFinite ==
  /\ IsFiniteSet(Running) /\ Cardinality(Running) \in Nat
<1>1. IsFiniteSet(Slots)
  BY PipelineAssumption, FS_Interval DEF Slots
<1>2. Running \subseteq Slots
  BY DEF Running
<1>3. IsFiniteSet(Running)
  BY <1>1, <1>2, FS_Subset
<1>4. QED
  BY <1>3, FS_CardinalityType

\* A step that moves no thread in or out of a compression, and leaves the semaphore.
LEMMA QuietKeepsBound ==
  ASSUME BoundInv, TypeOK', UNCHANGED compressors, Running' = Running
  PROVE  BoundInv'
BY DEF BoundInv

\* A thread that goes from one place to another one, both outside a compression or
\* both within one.
LEMMA GotoKeepsRunning ==
  ASSUME TypeOK, NEW i \in Slots, NEW pc, Goto(i, pc),
         (pc \in {"compress", "finish"}) <=> (cpc[i] \in {"compress", "finish"})
  PROVE  Running' = Running
BY DEF TypeOK, Goto, Running

LEMMA CompressThreadKeepsBound ==
  ASSUME Build = "windows", BoundInv, TypeOK', NEW i \in Slots, CompressThread(i)
  PROVE  BoundInv'
<1>t. TypeOK /\ compressors \in Semaphores /\ compressors.val \in Int /\ Threads \in Nat
  BY PipelineAssumption DEF BoundInv, TypeOK, Semaphores
<1>c. Cardinality(Running) \in Nat /\ IsFiniteSet(Running)
  BY RunningFinite
<1>1. CASE \/ CompressStart(i) \/ CompressWait(i) \/ CompressWake(i) \/ CompressTake(i)
           \/ Compress(i)
  <2>1. UNCHANGED compressors
    BY <1>1 DEF CompressStart, CompressWait, CompressWake, CompressTake, Compress
  <2>2. Running' = Running
    BY <1>1, <1>t, GotoKeepsRunning
    DEF CompressStart, CompressWait, CompressWake, CompressTake, Compress
  <2>3. QED
    BY <2>1, <2>2, QuietKeepsBound
<1>2. CASE CompressorWait(i)
  <2>1. compressors.val > 0 /\ compressors' = Take(compressors) /\ Goto(i, "compress")
    BY <1>2 DEF CompressorWait, Passes, Sleeps
  <2>2. Running' = Running \cup {i} /\ i \notin Running
    BY <1>2, <1>t, <2>1 DEF CompressorWait, Goto, Running, TypeOK
  <2>3. Cardinality(Running') = Cardinality(Running) + 1
    BY <1>c, <2>2, FS_AddElement
  <2>4. /\ compressors'.val = compressors.val - 1
        /\ compressors'.blocked = compressors.blocked
        /\ compressors'.woken = compressors.woken
    BY <1>t, <2>1 DEF Take, Semaphores
  <2>5. QED
    BY <1>c, <1>t, <2>1, <2>3, <2>4 DEF BoundInv
<1>3. CASE CompressorWake(i)
  BY <1>3 DEF CompressorWake, Wakes, BoundInv
<1>4. CASE CompressFinish(i)
  <2>1. compressors' = Signal(compressors) /\ Goto(i, "wait") /\ cpc[i] = "finish"
    BY <1>4 DEF CompressFinish
  <2>2. Running' = Running \ {i} /\ i \in Running
    BY <1>t, <2>1 DEF Goto, Running, TypeOK
  <2>3. Cardinality(Running') = Cardinality(Running) - 1
    BY <1>c, <2>2, FS_RemoveElement
  <2>4. /\ compressors'.val = compressors.val + 1
        /\ compressors'.blocked = 0 /\ compressors'.woken = 0
    BY <1>t, <2>1 DEF Signal, Semaphores, BoundInv
  <2>5. QED
    BY <1>c, <1>t, <2>3, <2>4 DEF BoundInv
<1>5. QED
  BY <1>1, <1>2, <1>3, <1>4 DEF CompressThread

\* exit(1) leaves no thread that compresses.
LEMMA ExitKeepsBound ==
  ASSUME BoundInv, TypeOK', ProcessExits
  PROVE  BoundInv'
<1>1. Running' = {} /\ UNCHANGED compressors
  BY DEF ProcessExits, Running, shared
<1>2. Cardinality(Running') = 0
  BY <1>1, FS_EmptySet
<1>3. Cardinality(Running) \in Nat /\ compressors.val \in Int /\ Threads \in Nat
  BY RunningFinite, PipelineAssumption DEF BoundInv, TypeOK, Semaphores
<1>4. QED
  BY <1>1, <1>2, <1>3 DEF BoundInv

LEMMA BoundKept ==
  ASSUME Build = "windows", BoundInv, [Next]_vars
  PROVE  BoundInv'
<1>t. TypeOK'
  BY TypesKept DEF BoundInv
<1>1. CASE \/ Main \/ WriteThread \/ UNCHANGED vars
  <2>1. UNCHANGED compressors /\ UNCHANGED cpc
    BY <1>1 DEF Main, MainRoom, MainWait, MainWake, MainFill, MainJoin, WriteThread, WriterWait,
                WriterWake, WriterQuit, WriterTake, WriterWrite, WriterFinish, vars, shared
  <2>2. Running' = Running
    BY <2>1 DEF Running
  <2>3. QED
    BY <1>t, <2>1, <2>2, QuietKeepsBound
<1>2. CASE ProcessExits
  BY <1>t, <1>2, ExitKeepsBound
<1>3. CASE \E i \in Slots : CompressThread(i)
  BY <1>t, <1>3, CompressThreadKeepsBound
<1>4. QED
  BY <1>1, <1>2, <1>3 DEF Next, CompressThrows, WriterThrows, Ended

LEMMA BoundHoldsFirst == Init => BoundInv
<1> SUFFICES ASSUME Init PROVE BoundInv
  OBVIOUS
<1>1. compressors = SemInit(Threads) /\ Running = {}
  BY DEF Init, Running
<1>2. Cardinality(Running) = 0
  BY <1>1, FS_EmptySet
<1>3. QED
  BY <1>1, <1>2, TypesHoldFirst, PipelineAssumption DEF BoundInv, SemInit

\* On kernel semaphores, compressors is what its comment says: the "number of
\* compressors available to run".
THEOREM BoundTheorem == Build = "windows" => (Spec => []CompressorsBounded)
<1> SUFFICES ASSUME Build = "windows" PROVE Spec => []CompressorsBounded
  OBVIOUS
<1>1. Init => BoundInv
  BY BoundHoldsFirst
<1>2. BoundInv /\ [Next]_vars => BoundInv'
  BY BoundKept
<1>3. BoundInv => CompressorsBounded
  <2> SUFFICES ASSUME BoundInv PROVE CompressorsBounded
    OBVIOUS
  <2>1. Cardinality(Running) \in Nat /\ compressors.val \in Int /\ Threads \in Nat
    BY RunningFinite, PipelineAssumption DEF BoundInv, TypeOK, Semaphores
  <2>2. QED
    BY <2>1 DEF BoundInv, CompressorsBounded
<1>4. QED
  BY <1>1, <1>2, <1>3, PTL DEF Spec

-----------------------------------------------------------------------------
(* The inductive invariant of the queue.                                   *)
(*                                                                         *)
(* Number what appendz is given: the blocks are items 1..NBlocks, the end  *)
(* marks the items after them.  The writer is done with the first Done of  *)
(* them, the rest, Load of them, lie in the ring from front on.  A buffer  *)
(* therefore knows its item, and each is in one of a few phases.           *)

Items == given + marks
Done  == Len(csize) - (IF wpc \in {"write", "finish"} THEN 1 ELSE 0)
Load  == Items - Done

Offset(i) == IF i >= front THEN i - front ELSE i - front + QSize
Item(i)   == Done + Offset(i) + 1

\* The tokens of a buffer: in is FULL, out is COMPRESSED.
Tokens(i, f, c) == full[i].val = f /\ compressed[i].val = c

WriterHas(i) == i = front /\ wpc \in {"take", "write", "finish", "done"}

Free(i) ==
  /\ q[i].state = "EMPTY" /\ q[i].out = <<>> /\ Tokens(i, 0, 0)
  /\ cpc[i] \in {"start", "wait", "asleep"} /\ ~WriterHas(i)

\* An item that appendz has left, and then the compressThread has found.
Filled(i) ==
  /\ q[i].state = "FULL" /\ q[i].out = <<>> /\ ~WriterHas(i)
  /\ \/ Tokens(i, 1, 0) /\ cpc[i] \in {"start", "wait", "asleep"}
     \/ Tokens(i, 0, 0) /\ cpc[i] = "take"

\* A block on its way from there to the archive.
Compressing(i) ==
  /\ q[i].state = "COMPRESSING" /\ Tokens(i, 0, 0) /\ ~WriterHas(i)
  /\ \/ cpc[i] \in {"slot", "queued", "compress"} /\ q[i].out = <<>>
     \/ cpc[i] = "finish" /\ q[i].out = <<Item(i)>>

Leaving(i) ==
  /\ q[i].out = <<Item(i)>> /\ cpc[i] \in {"wait", "asleep"}
  /\ \/ q[i].state = "COMPRESSED" /\ Tokens(i, 0, 1) /\ ~WriterHas(i)
     \/ q[i].state = "COMPRESSED" /\ Tokens(i, 0, 0) /\ i = front /\ wpc = "take"
     \/ q[i].state = "WRITING" /\ Tokens(i, 0, 0) /\ i = front /\ wpc \in {"write", "finish"}

\* An end mark that is passed on, and met by the writer.
Passed(i) ==
  /\ q[i].state = "FULL" /\ q[i].out = <<>> /\ cpc[i] = "done"
  /\ \/ Tokens(i, 0, 1) /\ ~WriterHas(i)
     \/ Tokens(i, 0, 0) /\ i = front /\ wpc \in {"take", "done"}

HasBlock(i) ==
  /\ q[i].method = "data"
  /\ \/ (Filled(i) \/ (Compressing(i) /\ cpc[i] # "finish")) /\ q[i].in = Item(i)
     \/ Compressing(i) /\ cpc[i] = "finish"
     \/ Leaving(i)

HasMark(i) == q[i].method = "end" /\ (Filled(i) \/ Passed(i))

Buffer(i) == IF Offset(i) >= Load THEN Free(i)
             ELSE IF Item(i) <= NBlocks THEN HasBlock(i) ELSE HasMark(i)

\* A semaphore with one waiter: a signal that wakes it leaves it its count.
OneWaiter(s, asleep) ==
  /\ s.val >= 0
  /\ asleep => \/ s.blocked = 1 /\ s.woken = 0 /\ s.val = 0
               \/ s.blocked = 0 /\ s.woken = 1 /\ s.val >= 1
  /\ ~asleep => s.blocked = 0 /\ s.woken = 0

Counts ==
  /\ given < NBlocks => marks = 0
  /\ IF mpc \in {"join", "done"} THEN given = NBlocks /\ marks = QSize
                                 ELSE marks < QSize
  /\ Done >= 0 /\ Len(csize) <= given
  /\ Load >= 0 /\ Load <= QSize
  /\ empty.val + (IF mpc = "fill" THEN 1 ELSE 0) + Load = QSize

Waiters ==
  /\ OneWaiter(empty, mpc = "asleep")
  /\ \A i \in Slots : OneWaiter(full[i], cpc[i] = "asleep")
  /\ \A i \in Slots : OneWaiter(compressed[i], i = front /\ wpc = "asleep")

Ring == \A i \in Slots : Buffer(i)

\* What holds also when the process has ended by exit(1).
Written ==
  /\ \A k \in 1..Len(csize) : csize[k] = <<k>>
  /\ \A k \in 1..Len(archive) : archive[k] = k
  /\ wpc # "exit" => Len(csize) - Len(archive) = (IF wpc = "write" THEN 1 ELSE 0)
  /\ wpc = "exit" => Len(csize) - Len(archive) \in {0, 1}

EmptyIsEmpty == \A i \in Slots : q[i].state = "EMPTY" => q[i].out = <<>>

Alive == mpc # "exit" => /\ wpc # "exit" /\ (\A i \in Slots : cpc[i] # "exit")
                            /\ Counts /\ Waiters /\ Ring

Exited == mpc = "exit" => wpc = "exit" /\ \A i \in Slots : cpc[i] = "exit"

QueueInv == Written /\ EmptyIsEmpty /\ Alive /\ Exited

IInv == TypeOK /\ QueueInv

-----------------------------------------------------------------------------
(* Arithmetic of the ring.                                                 *)

LEMMA ModSmall ==
  \A n \in 0..2 * QSize - 1 : n % QSize = IF n < QSize THEN n ELSE n - QSize
<1> SUFFICES ASSUME NEW n \in 0..2 * QSize - 1
             PROVE  n % QSize = IF n < QSize THEN n ELSE n - QSize
  OBVIOUS
<1>1. QSize \in Nat /\ QSize > 0 /\ n \in Nat
  BY PipelineAssumption
<1>2. CASE n < QSize
  BY <1>1, <1>2
<1>3. CASE ~(n < QSize)
  BY <1>1, <1>3
<1>4. QED
  BY <1>2, <1>3

LEMMA OffsetInSlots == TypeOK => \A i \in Slots : Offset(i) \in Slots
BY PipelineAssumption DEF TypeOK, Slots, Offset

LEMMA OffsetInjective ==
  TypeOK => \A i, j \in Slots : Offset(i) = Offset(j) => i = j
<1> SUFFICES ASSUME TypeOK, NEW i \in Slots, NEW j \in Slots, Offset(i) = Offset(j)
             PROVE  i = j
  OBVIOUS
<1>1. /\ front \in Int /\ QSize \in Int /\ i \in Int /\ j \in Int
      /\ 0 <= front /\ front < QSize /\ 0 <= i /\ i < QSize /\ 0 <= j /\ j < QSize
  BY PipelineAssumption DEF TypeOK, Slots
<1>2. QED
  BY <1>1 DEF Offset

LEMMA AtOffset ==
  TypeOK => \A i \in Slots : At(i) \in Slots /\ Offset(At(i)) = i
<1> SUFFICES ASSUME TypeOK, NEW i \in Slots PROVE At(i) \in Slots /\ Offset(At(i)) = i
  OBVIOUS
<1>1. /\ front \in Int /\ QSize \in Int /\ i \in Int
      /\ 0 <= front /\ front < QSize /\ 0 <= i /\ i < QSize
  BY PipelineAssumption DEF TypeOK, Slots
<1>2. At(i) = IF i + front < QSize THEN i + front ELSE i + front - QSize
  BY <1>1, ModSmall DEF At
<1>3. At(i) \in Int /\ 0 <= At(i) /\ At(i) < QSize /\ Offset(At(i)) = i
  BY <1>1, <1>2 DEF Offset
<1>4. QED
  BY <1>1, <1>3 DEF Slots

LEMMA NextOffset ==
  ASSUME TypeOK, front' = NextFront, NEW i \in Slots
  PROVE  Offset(i)' = IF i = front THEN QSize - 1 ELSE Offset(i) - 1
<1>1. front \in Slots /\ front + 1 \in 0..2 * QSize - 1
  BY PipelineAssumption DEF TypeOK, Slots
<1>2. front' = IF front + 1 < QSize THEN front + 1 ELSE 0
  BY <1>1, ModSmall, PipelineAssumption DEF NextFront, Slots
<1>3. QED
  BY <1>1, <1>2, PipelineAssumption DEF Slots, Offset

-----------------------------------------------------------------------------
(* Semaphores with one waiter.                                             *)

LEMMA PassKeepsWaiter ==
  ASSUME NEW s \in Semaphores, OneWaiter(s, FALSE), Passes(s)
  PROVE  s.val >= 1 /\ Take(s).val = s.val - 1 /\ OneWaiter(Take(s), FALSE)
<1>1. s.val \in Int
  BY DEF Semaphores
<1>2. s.val >= 1
  BY <1>1 DEF OneWaiter, Passes
<1>3. Take(s).val = s.val - 1 /\ Take(s).blocked = s.blocked /\ Take(s).woken = s.woken
  BY DEF Take, Semaphores
<1>4. QED
  BY <1>1, <1>2, <1>3 DEF OneWaiter

LEMMA SleepKeepsWaiter ==
  ASSUME NEW s \in Semaphores, OneWaiter(s, FALSE), Sleeps(s)
  PROVE  Sleep(s).val = s.val /\ OneWaiter(Sleep(s), TRUE)
<1>1. Sleep(s).val = s.val /\ Sleep(s).blocked = s.blocked + 1 /\ Sleep(s).woken = s.woken
  BY DEF Sleep, Semaphores
<1>2. QED
  BY <1>1 DEF OneWaiter, Sleeps

LEMMA WakeKeepsWaiter ==
  ASSUME NEW s \in Semaphores, OneWaiter(s, TRUE), Wakes(s)
  PROVE  s.val >= 1 /\ Wake(s).val = s.val - 1 /\ OneWaiter(Wake(s), FALSE)
<1>1. s.val \in Int
  BY DEF Semaphores
<1>2. s.blocked = 0 /\ s.woken = 1 /\ s.val >= 1
  BY DEF OneWaiter, Wakes
<1>3. Wake(s).val = s.val - 1 /\ Wake(s).blocked = s.blocked /\ Wake(s).woken = s.woken - 1
  BY DEF Wake
<1>4. QED
  BY <1>1, <1>2, <1>3 DEF OneWaiter

LEMMA SignalKeepsWaiter ==
  ASSUME NEW s \in Semaphores, NEW asleep \in BOOLEAN, OneWaiter(s, asleep)
  PROVE  Signal(s).val = s.val + 1 /\ OneWaiter(Signal(s), asleep)
<1>1. s.val \in Int /\ s.blocked \in Nat /\ s.woken \in Nat
  BY DEF Semaphores
<1>2. CASE s.blocked > 0
  <2>1. asleep /\ s.blocked = 1 /\ s.woken = 0 /\ s.val = 0
    BY <1>2 DEF OneWaiter
  <2>2. /\ Signal(s).val = s.val + 1 /\ Signal(s).blocked = s.blocked - 1
        /\ Signal(s).woken = s.woken + 1
    BY <1>2 DEF Signal
  <2>3. QED
    BY <2>1, <2>2 DEF OneWaiter
<1>3. CASE ~(s.blocked > 0)
  <2>1. /\ Signal(s).val = s.val + 1 /\ Signal(s).blocked = s.blocked
        /\ Signal(s).woken = s.woken
    BY <1>3 DEF Signal, Semaphores
  <2>2. QED
    BY <1>1, <1>3, <2>1 DEF OneWaiter
<1>4. QED
  BY <1>2, <1>3

-----------------------------------------------------------------------------
(* A buffer that a step does not touch stays in its phase: its fields, its *)
(* tokens and its thread are the same, the item in it as well, and the     *)
(* writer has it as before or not at all.                                  *)
Untouched(j) == /\ q'[j] = q[j] /\ cpc'[j] = cpc[j]
                /\ full'[j] = full[j] /\ compressed'[j] = compressed[j]

LEMMA BufferStays ==
  ASSUME NEW j \in Slots, Buffer(j), Untouched(j),
         (Offset(j) >= Load)' <=> Offset(j) >= Load,
         Offset(j) >= Load \/ Item(j)' = Item(j),
         \/ (j = front)' /\ j = front /\ wpc' = wpc
         \/ /\ j = front => wpc \notin {"take", "write", "finish", "done"}
            /\ (j = front)' => wpc' \notin {"take", "write", "finish", "done"}
  PROVE  Buffer(j)'
<1>1. /\ \A f, c : Tokens(j, f, c)' <=> Tokens(j, f, c)
      /\ WriterHas(j)' <=> WriterHas(j)
      /\ \A w \in {"take", "write", "finish", "done"} :
           (j = front /\ wpc = w)' <=> (j = front /\ wpc = w)
  BY DEF Tokens, Untouched, WriterHas
<1>2. Free(j)' <=> Free(j)
  BY <1>1 DEF Free, Untouched
<1>3. Filled(j)' <=> Filled(j)
  BY <1>1 DEF Filled, Untouched
<1>4. Passed(j)' <=> Passed(j)
  BY <1>1 DEF Passed, Untouched
<1>5. ASSUME Item(j)' = Item(j)
      PROVE  /\ Compressing(j)' <=> Compressing(j)
             /\ Leaving(j)' <=> Leaving(j)
  <2>1. Compressing(j)' <=> Compressing(j)
    BY <1>1, <1>5 DEF Compressing, Untouched
  <2>2. Leaving(j)' <=> Leaving(j)
    BY <1>1, <1>5 DEF Leaving, Untouched
  <2>3. QED
    BY <2>1, <2>2
<1>6. CASE Offset(j) >= Load
  BY <1>2, <1>6 DEF Buffer
<1>7. CASE ~(Offset(j) >= Load)
  <2>1. Item(j)' = Item(j)
    BY <1>7
  <2>2. HasBlock(j)' <=> HasBlock(j)
    BY <1>3, <1>5, <2>1 DEF HasBlock, Untouched
  <2>3. HasMark(j)' <=> HasMark(j)
    BY <1>3, <1>4 DEF HasMark, Untouched
  <2>4. QED
    BY <1>7, <2>1, <2>2, <2>3 DEF Buffer
<1>8. QED
  BY <1>6, <1>7

-----------------------------------------------------------------------------
(* What a compressThread does concerns its own buffer, and the semaphore   *)
(* compressors, on which nothing here depends.                             *)
LEMMA CompressorStep ==
  ASSUME IInv, NEW i \in Slots, cpc[i] # "exit", cpc'[i] # "exit",
         UNCHANGED <<front, wpc, csize, archive, given, marks, mpc, empty>>,
         \A j \in Slots \ {i} : Untouched(j),
         Buffer(i)',
         OneWaiter(full[i], cpc[i] = "asleep")',
         OneWaiter(compressed[i], i = front /\ wpc = "asleep")',
         q'[i].state = "EMPTY" => q'[i].out = <<>>
  PROVE  QueueInv'
<1>1. mpc # "exit" /\ Counts /\ Waiters /\ Ring /\ wpc # "exit"
  BY DEF IInv, QueueInv, Exited, Alive
<1>2. Written'
  BY DEF IInv, QueueInv, Written
<1>3. EmptyIsEmpty'
  BY DEF IInv, QueueInv, EmptyIsEmpty, Untouched
<1>4. Counts'
  BY <1>1 DEF Counts, Done, Load, Items
<1>5. Waiters'
  BY <1>1 DEF Waiters, Untouched, OneWaiter
<1>6. Ring'
  <2>1. ASSUME NEW j \in Slots, j # i PROVE Buffer(j)'
    <3>1. Offset(j)' = Offset(j) /\ Load' = Load /\ Item(j)' = Item(j)
      BY DEF Offset, Load, Items, Done, Item
    <3>2. Buffer(j) /\ Untouched(j)
      BY <1>1, <2>1 DEF Ring
    <3>3. QED
      BY <3>1, <3>2, BufferStays
  <2>2. QED
    BY <2>1 DEF Ring
<1>7. \A j \in Slots : cpc'[j] # "exit"
  BY <1>1 DEF IInv, QueueInv, Alive, Untouched
<1>8. QED
  BY <1>1, <1>2, <1>3, <1>4, <1>5, <1>6, <1>7 DEF QueueInv, Alive, Exited

(* The phase of a buffer from where its compressThread is.                 *)
LEMMA PhaseOfThread ==
  ASSUME IInv, mpc # "exit", NEW i \in Slots
  PROVE  /\ Buffer(i)
         /\ cpc[i] \in {"slot", "queued", "compress", "finish"} =>
              /\ Offset(i) < Load /\ Item(i) <= NBlocks
              /\ q[i].method = "data" /\ Compressing(i)
              /\ cpc[i] # "finish" => q[i].in = Item(i)
         /\ cpc[i] = "take" => /\ Offset(i) < Load /\ Filled(i)
                               /\ IF Item(i) <= NBlocks
                                  THEN q[i].method = "data" /\ q[i].in = Item(i)
                                  ELSE q[i].method = "end"
         /\ (cpc[i] \in {"wait", "asleep"} /\ full[i].val # 0) =>
              /\ Offset(i) < Load /\ Filled(i)
              /\ IF Item(i) <= NBlocks
                 THEN q[i].method = "data" /\ q[i].in = Item(i)
                 ELSE q[i].method = "end"
<1>1. Buffer(i)
  BY DEF IInv, QueueInv, Alive, Ring
<1>2. Offset(i) \in Int /\ Load \in Int /\ Item(i) \in Int /\ NBlocks \in Int
  BY PipelineAssumption DEF IInv, TypeOK, Slots, Offset, Load, Items, Done, Item
<1>3. CASE Offset(i) >= Load
  BY <1>1, <1>3 DEF Buffer, Free, Tokens
<1>4. CASE Offset(i) < Load /\ Item(i) <= NBlocks
  <2>1. HasBlock(i)
    BY <1>1, <1>2, <1>4 DEF Buffer
  <2>2. Compressing(i) => cpc[i] \in {"slot", "queued", "compress", "finish"}
    BY DEF Compressing
  <2>3. Filled(i) => cpc[i] \in {"start", "wait", "asleep", "take"}
    BY DEF Filled
  <2>4. Leaving(i) => cpc[i] \in {"wait", "asleep"} /\ full[i].val = 0
    BY DEF Leaving, Tokens
  <2>5. QED
    BY <1>1, <1>4, <2>1, <2>2, <2>3, <2>4 DEF HasBlock
<1>5. CASE Offset(i) < Load /\ Item(i) > NBlocks
  <2>1. HasMark(i)
    BY <1>1, <1>2, <1>5 DEF Buffer
  <2>2. Filled(i) => cpc[i] \in {"start", "wait", "asleep", "take"}
    BY DEF Filled
  <2>3. Passed(i) => cpc[i] = "done"
    BY DEF Passed
  <2>4. QED
    BY <1>1, <1>2, <1>5, <2>1, <2>2, <2>3 DEF HasMark
<1>6. QED
  BY <1>2, <1>3, <1>4, <1>5

(* Each step of a compressThread takes its buffer from phase to phase.     *)
LEMMA CompressThreadKeepsQueue ==
  ASSUME IInv, NEW i \in Slots, CompressThread(i)
  PROVE  QueueInv'
<1>u. /\ UNCHANGED <<front, wpc, csize, archive, given, marks, mpc, empty>>
      /\ cpc[i] # "exit"
  BY DEF CompressThread, CompressStart, CompressWait, CompressWake, CompressTake,
         CompressorWait, CompressorWake, Compress, CompressFinish, output
<1>m. mpc # "exit" /\ Waiters
  BY <1>u DEF IInv, QueueInv, Exited, Alive
<1>w. /\ OneWaiter(full[i], cpc[i] = "asleep")
      /\ OneWaiter(compressed[i], i = front /\ wpc = "asleep")
  BY <1>m DEF Waiters
<1>t. /\ q \in [Slots -> Buffers]
      /\ cpc \in [Slots -> {"start", "wait", "asleep", "take", "slot", "queued",
                           "compress", "finish", "done", "exit"}]
      /\ full \in [Slots -> Semaphores] /\ compressed \in [Slots -> Semaphores]
      /\ full[i] \in Semaphores /\ compressed[i] \in Semaphores /\ q[i] \in Buffers
  BY DEF IInv, TypeOK
<1>o. Offset(i)' = Offset(i) /\ Load' = Load /\ Item(i)' = Item(i) /\ WriterHas(i)' = WriterHas(i)
  BY <1>u DEF Offset, Load, Items, Done, Item, WriterHas
<1>e. EmptyIsEmpty
  BY DEF IInv, QueueInv
<1>b. ASSUME Offset(i) < Load, IF Item(i) <= NBlocks THEN HasBlock(i)' ELSE HasMark(i)'
      PROVE  Buffer(i)'
  <2>1. Offset(i) \in Int /\ Load \in Int
    BY PipelineAssumption DEF IInv, TypeOK, Slots, Offset, Load, Items, Done
  <2>2. QED
    BY <1>b, <1>o, <2>1 DEF Buffer
<1> DEFINE Others == \A j \in Slots \ {i} : Untouched(j)
\* A step that leaves the buffer and its tokens as they are, and the thread
\* within the places that its phase allows.
<1>s. ASSUME Others, q'[i] = q[i], full'[i].val = full[i].val, compressed'[i] = compressed[i],
             \/ cpc[i] \in {"start", "wait", "asleep"} /\ cpc'[i] \in {"wait", "asleep"}
             \/ cpc[i] \in {"slot", "queued", "compress"} /\ cpc'[i] \in {"queued", "compress"},
             OneWaiter(full'[i], cpc'[i] = "asleep")
      PROVE  QueueInv'
  <2>1. Buffer(i)
    BY <1>m, PhaseOfThread
  <2>2. \A f, c : Tokens(i, f, c)' <=> Tokens(i, f, c)
    BY <1>s DEF Tokens
  <2>3. Free(i) => Free(i)'
    BY <1>s, <1>o, <2>2 DEF Free
  <2>4. Filled(i) => Filled(i)'
    BY <1>s, <1>o, <2>2 DEF Filled
  <2>5. /\ Compressing(i) => Compressing(i)'
        /\ (Compressing(i) /\ cpc[i] = "finish") => (Compressing(i) /\ cpc[i] = "finish")'
        /\ (Compressing(i) /\ cpc[i] # "finish") => (Compressing(i) /\ cpc[i] # "finish")'
    BY <1>s, <1>o, <2>2 DEF Compressing
  <2>6. Leaving(i) => Leaving(i)'
    BY <1>s, <1>o, <1>u, <2>2 DEF Leaving
  <2>7. Passed(i) => Passed(i)'
    BY <1>s, <1>o, <1>u, <2>2 DEF Passed
  <2>8. HasBlock(i) => HasBlock(i)'
    BY <1>s, <1>o, <2>4, <2>5, <2>6 DEF HasBlock
  <2>9. HasMark(i) => HasMark(i)'
    BY <1>s, <2>4, <2>7 DEF HasMark
  <2>10. Buffer(i)'
    BY <1>o, <2>1, <2>3, <2>8, <2>9 DEF Buffer
  <2>11. OneWaiter(compressed[i], i = front /\ wpc = "asleep")'
    BY <1>s, <1>u, <1>w DEF OneWaiter
  <2>12. OneWaiter(full[i], cpc[i] = "asleep")'
    BY <1>s DEF OneWaiter
  <2>13. cpc'[i] # "exit" /\ (q'[i].state = "EMPTY" => q'[i].out = <<>>)
    BY <1>s, <1>e DEF EmptyIsEmpty
  <2>14. QED
    BY <1>s, <1>u, <2>10, <2>11, <2>12, <2>13, CompressorStep
<1>1. CASE CompressStart(i)
  <2>1. /\ Others /\ q'[i] = q[i] /\ full' = full /\ compressed' = compressed
        /\ cpc[i] = "start" /\ cpc'[i] = "wait"
    BY <1>1, <1>t DEF CompressStart, Goto, Untouched
  <2>2. OneWaiter(full'[i], cpc'[i] = "asleep")
    BY <1>w, <2>1 DEF OneWaiter
  <2>3. QED
    BY <1>s, <2>1, <2>2
<1>5. CASE CompressorWait(i)
  <2>1. /\ Others /\ q'[i] = q[i] /\ full' = full /\ compressed' = compressed /\ cpc[i] = "slot"
        /\ cpc'[i] \in {"queued", "compress"}
    BY <1>5, <1>t DEF CompressorWait, Goto, Untouched
  <2>2. OneWaiter(full'[i], cpc'[i] = "asleep")
    BY <1>w, <2>1 DEF OneWaiter
  <2>3. QED
    BY <1>s, <2>1, <2>2
<1>6. CASE CompressorWake(i)
  <2>1. /\ Others /\ q'[i] = q[i] /\ full' = full /\ compressed' = compressed /\ cpc[i] = "queued"
        /\ cpc'[i] = "compress"
    BY <1>6, <1>t DEF CompressorWake, Goto, Untouched
  <2>2. OneWaiter(full'[i], cpc'[i] = "asleep")
    BY <1>w, <2>1 DEF OneWaiter
  <2>3. QED
    BY <1>s, <2>1, <2>2
\* full.wait() takes the token of what appendz has left.
<1>2. ASSUME cpc[i] \in {"wait", "asleep"}, full[i].val >= 1, full'[i].val = full[i].val - 1,
             OneWaiter(full'[i], FALSE), full' = [full EXCEPT ![i] = full'[i]],
             cpc' = [cpc EXCEPT ![i] = "take"], UNCHANGED <<q, compressed>>
      PROVE  QueueInv'
  <2>1. Others /\ q'[i] = q[i] /\ compressed'[i] = compressed[i] /\ cpc'[i] = "take"
    BY <1>2, <1>t DEF Untouched
  <2>2. full[i].val \in Int
    BY <1>t DEF Semaphores
  <2>3. /\ Offset(i) < Load /\ Filled(i)
        /\ IF Item(i) <= NBlocks THEN q[i].method = "data" /\ q[i].in = Item(i)
                                 ELSE q[i].method = "end"
    BY <1>2, <1>m, <2>2, PhaseOfThread
  <2>4. Tokens(i, 1, 0) /\ Tokens(i, 0, 0)'
    BY <1>2, <2>1, <2>3 DEF Filled, Tokens
  <2>5. Filled(i)'
    BY <1>o, <2>1, <2>3, <2>4 DEF Filled
  <2>6. Buffer(i)'
    BY <1>b, <1>o, <2>1, <2>3, <2>5 DEF HasBlock, HasMark
  <2>7. OneWaiter(compressed[i], i = front /\ wpc = "asleep")'
    BY <1>u, <1>w, <2>1 DEF OneWaiter
  <2>8. OneWaiter(full[i], cpc[i] = "asleep")'
    BY <1>2, <2>1 DEF OneWaiter
  <2>9. q'[i].state = "EMPTY" => q'[i].out = <<>>
    BY <1>e, <2>1 DEF EmptyIsEmpty
  <2>10. QED
    BY <1>u, <2>1, <2>6, <2>7, <2>8, <2>9, CompressorStep
<1>3. CASE CompressWait(i)
  <2>1. cpc[i] = "wait" /\ OneWaiter(full[i], FALSE) /\ UNCHANGED <<q, compressed>>
    BY <1>3, <1>w DEF CompressWait, OneWaiter
  <2>2. CASE Passes(full[i]) /\ full' = [full EXCEPT ![i] = Take(@)] /\ Goto(i, "take")
    <3>1. full'[i] = Take(full[i]) /\ full' = [full EXCEPT ![i] = full'[i]]
      BY <2>2, <1>t
    <3>2. full[i].val >= 1 /\ Take(full[i]).val = full[i].val - 1 /\ OneWaiter(Take(full[i]), FALSE)
      BY <1>t, <2>1, <2>2, PassKeepsWaiter
    <3>3. QED
      BY <1>2, <2>1, <2>2, <3>1, <3>2 DEF Goto
  <2>3. CASE Sleeps(full[i]) /\ full' = [full EXCEPT ![i] = Sleep(@)] /\ Goto(i, "asleep")
    <3>1. full'[i] = Sleep(full[i]) /\ cpc'[i] = "asleep" /\ Others
      BY <2>1, <2>3, <1>t DEF Goto, Untouched
    <3>2. Sleep(full[i]).val = full[i].val /\ OneWaiter(Sleep(full[i]), TRUE)
      BY <1>t, <2>1, <2>3, SleepKeepsWaiter
    <3>3. OneWaiter(full'[i], cpc'[i] = "asleep")
      BY <3>1, <3>2 DEF OneWaiter
    <3>4. QED
      BY <1>s, <2>1, <3>1, <3>2, <3>3
  <2>4. QED
    BY <1>3, <2>2, <2>3 DEF CompressWait
<1>4. CASE CompressWake(i)
  <2>1. /\ cpc[i] = "asleep" /\ OneWaiter(full[i], TRUE) /\ Wakes(full[i])
        /\ UNCHANGED <<q, compressed>>
    BY <1>4, <1>w DEF CompressWake, OneWaiter
  <2>2. full'[i] = Wake(full[i]) /\ full' = [full EXCEPT ![i] = full'[i]]
    BY <1>4, <1>t DEF CompressWake
  <2>3. full[i].val >= 1 /\ Wake(full[i]).val = full[i].val - 1 /\ OneWaiter(Wake(full[i]), FALSE)
    BY <1>t, <2>1, WakeKeepsWaiter
  <2>4. QED
    BY <1>2, <1>4, <2>1, <2>2, <2>3 DEF CompressWake, Goto
\* The token of what is taken says whether it is a block or a mark.
<1>7. CASE CompressTake(i)
  <2>1. /\ Offset(i) < Load /\ Filled(i) /\ cpc[i] = "take"
        /\ IF Item(i) <= NBlocks THEN q[i].method = "data" /\ q[i].in = Item(i)
                                 ELSE q[i].method = "end"
    BY <1>7, <1>m, PhaseOfThread DEF CompressTake
  <2>2. Tokens(i, 0, 0) /\ q[i].out = <<>> /\ ~WriterHas(i) /\ q[i].state = "FULL"
    BY <2>1 DEF Filled
  <2>3. full' = full /\ OneWaiter(full[i], FALSE)
    BY <1>7, <1>w, <2>1 DEF CompressTake, OneWaiter
  <2>4. CASE /\ q[i].method = "end" /\ compressed' = [compressed EXCEPT ![i] = Signal(@)]
             /\ Goto(i, "done") /\ UNCHANGED q
    <3>1. Others /\ q'[i] = q[i] /\ cpc'[i] = "done" /\ compressed'[i] = Signal(compressed[i])
      BY <1>t, <2>3, <2>4 DEF Goto, Untouched
    <3>2. /\ Signal(compressed[i]).val = compressed[i].val + 1
          /\ OneWaiter(Signal(compressed[i]), i = front /\ wpc = "asleep")
      BY <1>t, <1>w, SignalKeepsWaiter
    <3>3. Tokens(i, 0, 1)'
      BY <2>2, <2>3, <3>1, <3>2 DEF Tokens
    <3>4. Passed(i)'
      BY <1>o, <2>2, <3>1, <3>3 DEF Passed
    <3>5. Buffer(i)'
      BY <1>b, <2>1, <2>4, <3>1, <3>4 DEF HasMark
    <3>6. OneWaiter(full[i], cpc[i] = "asleep")'
      BY <2>3, <3>1 DEF OneWaiter
    <3>7. OneWaiter(compressed[i], i = front /\ wpc = "asleep")'
      BY <1>u, <3>1, <3>2 DEF OneWaiter
    <3>8. QED
      BY <1>u, <2>2, <3>1, <3>5, <3>6, <3>7, CompressorStep
  <2>5. CASE /\ q[i].method # "end" /\ q' = [q EXCEPT ![i].state = "COMPRESSING"]
             /\ Goto(i, "slot") /\ UNCHANGED compressed
    <3>1. /\ Others /\ cpc'[i] = "slot" /\ compressed'[i] = compressed[i]
          /\ q'[i].state = "COMPRESSING" /\ q'[i].out = <<>> /\ q'[i].in = q[i].in
          /\ q'[i].method = q[i].method
      BY <1>t, <2>2, <2>3, <2>5 DEF Goto, Untouched, Buffers
    <3>2. Compressing(i)'
      BY <1>o, <2>2, <2>3, <3>1 DEF Compressing, Tokens
    <3>3. Buffer(i)'
      BY <1>b, <1>o, <2>1, <2>5, <3>1, <3>2 DEF HasBlock
    <3>4. OneWaiter(full[i], cpc[i] = "asleep")'
      BY <2>3, <3>1 DEF OneWaiter
    <3>5. OneWaiter(compressed[i], i = front /\ wpc = "asleep")'
      BY <1>u, <1>w, <3>1 DEF OneWaiter
    <3>6. QED
      BY <1>u, <3>1, <3>3, <3>4, <3>5, CompressorStep
  <2>6. QED
    BY <1>7, <2>4, <2>5 DEF CompressTake
<1>8. CASE Compress(i)
  <2>1. /\ Offset(i) < Load /\ Item(i) <= NBlocks /\ q[i].method = "data" /\ Compressing(i)
        /\ q[i].in = Item(i) /\ cpc[i] = "compress"
    BY <1>8, <1>m, PhaseOfThread DEF Compress
  <2>2. q[i].out = <<>> /\ q[i].state = "COMPRESSING" /\ Tokens(i, 0, 0) /\ ~WriterHas(i)
    BY <2>1 DEF Compressing
  <2>3. /\ Others /\ cpc'[i] = "finish" /\ full' = full /\ compressed' = compressed
        /\ q'[i].state = q[i].state /\ q'[i].method = q[i].method
        /\ q'[i].out = q[i].out \o <<q[i].in>>
    BY <1>8, <1>t DEF Compress, Goto, Untouched, Buffers
  <2>4. q'[i].out = <<Item(i)>>
    BY <2>1, <2>2, <2>3
  <2>5. Compressing(i)'
    BY <1>o, <2>2, <2>3, <2>4 DEF Compressing, Tokens
  <2>6. Buffer(i)'
    BY <1>b, <1>o, <2>1, <2>3, <2>5 DEF HasBlock
  <2>7. OneWaiter(full[i], cpc[i] = "asleep")'
    BY <1>w, <2>1, <2>3 DEF OneWaiter
  <2>8. OneWaiter(compressed[i], i = front /\ wpc = "asleep")'
    BY <1>u, <1>w, <2>3 DEF OneWaiter
  <2>9. QED
    BY <1>u, <2>2, <2>3, <2>6, <2>7, <2>8, CompressorStep
<1>9. CASE CompressFinish(i)
  <2>1. /\ Offset(i) < Load /\ Item(i) <= NBlocks /\ q[i].method = "data" /\ Compressing(i)
        /\ cpc[i] = "finish"
    BY <1>9, <1>m, PhaseOfThread DEF CompressFinish
  <2>2. q[i].out = <<Item(i)>> /\ Tokens(i, 0, 0) /\ ~WriterHas(i)
    BY <2>1 DEF Compressing
  <2>3. /\ Others /\ cpc'[i] = "wait" /\ full' = full /\ compressed'[i] = Signal(compressed[i])
        /\ q'[i].state = "COMPRESSED" /\ q'[i].method = q[i].method /\ q'[i].out = q[i].out
    BY <1>9, <1>t DEF CompressFinish, Goto, Untouched, Buffers
  <2>4. /\ Signal(compressed[i]).val = compressed[i].val + 1
        /\ OneWaiter(Signal(compressed[i]), i = front /\ wpc = "asleep")
    BY <1>t, <1>w, SignalKeepsWaiter
  <2>5. Tokens(i, 0, 1)'
    BY <2>2, <2>3, <2>4 DEF Tokens
  <2>6. Leaving(i)'
    BY <1>o, <2>2, <2>3, <2>5 DEF Leaving
  <2>7. Buffer(i)'
    BY <1>b, <1>o, <2>1, <2>3, <2>6 DEF HasBlock
  <2>8. OneWaiter(full[i], cpc[i] = "asleep")'
    BY <1>w, <2>1, <2>3 DEF OneWaiter
  <2>9. OneWaiter(compressed[i], i = front /\ wpc = "asleep")'
    BY <1>u, <2>3, <2>4 DEF OneWaiter
  <2>10. QED
    BY <1>u, <2>3, <2>7, <2>8, <2>9, CompressorStep
<1>10. QED
  BY <1>1, <1>3, <1>4, <1>5, <1>6, <1>7, <1>8, <1>9 DEF CompressThread

-----------------------------------------------------------------------------
(* The main thread.                                                        *)

(* A step that leaves the buffers, what has been handed over and what has  *)
(* been written as they are has to keep the counts only.                   *)
LEMMA CountsStep ==
  ASSUME IInv, mpc # "exit", mpc' # "exit",
         UNCHANGED <<q, front, full, compressed, csize, archive, given, marks, cpc, wpc>>,
         Counts', OneWaiter(empty', mpc' = "asleep")
  PROVE  QueueInv'
<1>1. Waiters /\ Ring /\ wpc # "exit" /\ \A i \in Slots : cpc[i] # "exit"
  BY DEF IInv, QueueInv, Alive
<1>2. Written' /\ EmptyIsEmpty'
  BY DEF IInv, QueueInv, Written, EmptyIsEmpty
<1>3. Waiters'
  BY <1>1 DEF Waiters, OneWaiter
<1>4. Ring'
  <2>1. ASSUME NEW j \in Slots PROVE Buffer(j)'
    <3>1. Offset(j)' = Offset(j) /\ Load' = Load /\ Item(j)' = Item(j)
      BY DEF Offset, Load, Items, Done, Item
    <3>2. Buffer(j) /\ Untouched(j)
      BY <1>1 DEF Ring, Untouched
    <3>3. QED
      BY <3>1, <3>2, BufferStays
  <2>2. QED
    BY <2>1 DEF Ring
<1>5. QED
  BY <1>1, <1>2, <1>3, <1>4 DEF QueueInv, Alive, Exited

LEMMA CountTypes ==
  TypeOK => /\ given \in 0..NBlocks /\ marks \in Nat /\ Len(csize) \in Nat
            /\ Items \in Nat /\ Done \in Int /\ Load \in Int
            /\ empty.val \in Int /\ NBlocks \in Nat /\ QSize \in Nat /\ QSize > 0
BY PipelineAssumption DEF TypeOK, Semaphores, Items, Done, Load

(* appendz always finds its buffer, the one that is Load places from       *)
(* front, and no other.                                                    *)
LEMMA FirstEmptyIsNext ==
  ASSUME IInv, mpc = "fill"
  PROVE  /\ Load \in Slots
         /\ q[At(Load)].state = "EMPTY"
         /\ \A i \in Slots : IsFirstEmpty(i) => i = Load
<1>1. Counts /\ Ring /\ Waiters /\ TypeOK
  BY DEF IInv, QueueInv, Alive
<1>2. Load \in Slots
  <2>1. empty.val >= 0 /\ empty.val + 1 + Load = QSize /\ Load >= 0
    BY <1>1 DEF Counts, Waiters, OneWaiter
  <2>2. QED
    BY <1>1, <2>1, CountTypes DEF Slots
<1>3. ASSUME NEW i \in Slots
      PROVE  q[At(i)].state = "EMPTY" <=> i >= Load
  <2>1. At(i) \in Slots /\ Offset(At(i)) = i
    BY <1>1, AtOffset
  <2>2. Buffer(At(i))
    BY <1>1, <2>1 DEF Ring
  <2>3. CASE i >= Load
    BY <2>1, <2>2, <2>3 DEF Buffer, Free
  <2>4. CASE ~(i >= Load)
    <3>1. HasBlock(At(i)) \/ HasMark(At(i))
      BY <2>1, <2>2, <2>4 DEF Buffer
    <3>2. QED
      BY <2>4, <3>1 DEF HasBlock, HasMark, Filled, Compressing, Leaving, Passed
  <2>5. QED
    BY <2>3, <2>4
<1>4. q[At(Load)].state = "EMPTY"
  BY <1>2, <1>3 DEF Slots
<1>5. ASSUME NEW i \in Slots, IsFirstEmpty(i) PROVE i = Load
  <2>1. i >= Load
    BY <1>3, <1>5 DEF IsFirstEmpty
  <2>2. ~(Load \in 0..i - 1)
    BY <1>4, <1>5 DEF IsFirstEmpty
  <2>3. QED
    BY <1>2, <2>1, <2>2 DEF Slots
<1>6. QED
  BY <1>2, <1>4, <1>5

LEMMA FillKeepsQueue == ASSUME IInv, MainFill PROVE QueueInv'
<1>1. /\ Counts /\ Ring /\ Waiters /\ TypeOK /\ wpc # "exit"
      /\ mpc = "fill" /\ \A i \in Slots : cpc[i] # "exit"
  BY DEF IInv, QueueInv, Alive, MainFill
<1>0. PICK s \in Slots : s = At(Load)
  BY <1>1, FirstEmptyIsNext, AtOffset
<1>2. Load \in Slots /\ s \in Slots /\ Offset(s) = Load
  BY <1>0, <1>1, FirstEmptyIsNext, AtOffset
<1>3. /\ q' = [q EXCEPT ![s] =
                 [@ EXCEPT !.state = "FULL",
                           !.in = IF given < NBlocks THEN given + 1 ELSE NoBlock,
                           !.method = IF given < NBlocks THEN "data" ELSE "end"]]
      /\ full' = [full EXCEPT ![s] = Signal(@)]
  BY <1>0, <1>1, <1>2, FirstEmptyIsNext, AtOffset DEF MainFill
<1>4. UNCHANGED <<front, compressed, empty, csize, archive, cpc, wpc>>
  BY DEF MainFill, output
<1>5. /\ given' = IF given < NBlocks THEN given + 1 ELSE given
      /\ marks' = IF given < NBlocks THEN marks ELSE marks + 1
      /\ mpc' = IF marks' = QSize THEN "join" ELSE "room"
  BY DEF MainFill, AfterAppend
<1>t. /\ q \in [Slots -> Buffers] /\ full \in [Slots -> Semaphores]
      /\ q[s] \in Buffers /\ full[s] \in Semaphores
  BY <1>1, <1>2 DEF TypeOK
<1>n. /\ given \in Nat /\ marks \in Nat /\ NBlocks \in Nat /\ QSize \in Nat
      /\ Done \in Int /\ Load \in Int /\ empty.val \in Int
  BY <1>1, CountTypes
<1>6. Items' = Items + 1 /\ Done' = Done /\ Load' = Load + 1
  <2>1. Items' = Items + 1
    BY <1>5, <1>n DEF Items
  <2>2. Done' = Done
    BY <1>4 DEF Done
  <2>3. QED
    BY <1>1, <2>1, <2>2, CountTypes DEF Load
<1>7. Counts'
  <2>1. /\ given < NBlocks => marks = 0
        /\ marks < QSize /\ Len(csize) <= given /\ Done >= 0
        /\ Load >= 0 /\ empty.val + 1 + Load = QSize /\ Load < QSize
    BY <1>1, <1>2, CountTypes DEF Counts, Slots
  <2>2. /\ given' < NBlocks => marks' = 0
        /\ Len(csize)' <= given'
    BY <1>1, <1>4, <1>5, <2>1, CountTypes
  <2>6. /\ Done' >= 0 /\ Load' >= 0 /\ Load' <= QSize
        /\ empty'.val + Load' = QSize
    BY <1>4, <1>6, <1>n, <2>1
  <2>3. IF mpc' \in {"join", "done"} THEN given' = NBlocks /\ marks' = QSize
                                     ELSE marks' < QSize
    BY <1>1, <1>5, <2>1, CountTypes
  <2>4. mpc' # "fill"
    BY <1>5
  <2>5. QED
    BY <2>2, <2>3, <2>4, <2>6, <1>1, <1>4, <1>6, CountTypes DEF Counts
<1>8. \A j \in Slots \ {s} : Untouched(j)
  BY <1>2, <1>3, <1>4, <1>t DEF Untouched
<1>9. /\ q'[s].state = "FULL" /\ q'[s].out = q[s].out
      /\ q'[s].in = (IF given < NBlocks THEN given + 1 ELSE NoBlock)
      /\ q'[s].method = (IF given < NBlocks THEN "data" ELSE "end")
      /\ full'[s] = Signal(full[s])
  BY <1>2, <1>3, <1>t DEF Buffers
<1>10. Free(s)
  <2>1. Buffer(s)
    BY <1>1, <1>2 DEF Ring
  <2>2. QED
    BY <1>1, <1>2, <2>1, CountTypes DEF Buffer
<1>w. /\ Signal(full[s]).val = full[s].val + 1
      /\ OneWaiter(Signal(full[s]), cpc[s] = "asleep")
  <2>1. OneWaiter(full[s], cpc[s] = "asleep")
    BY <1>1, <1>2 DEF Waiters
  <2>2. QED
    BY <1>t, <2>1, SignalKeepsWaiter
<1>11. Waiters'
  <2>1. OneWaiter(empty', mpc' = "asleep")
    BY <1>1, <1>4, <1>5 DEF Waiters, OneWaiter
  <2>2. ASSUME NEW j \in Slots PROVE OneWaiter(full'[j], cpc'[j] = "asleep")
    <3>1. CASE j = s
      BY <1>4, <1>9, <1>w, <3>1 DEF OneWaiter
    <3>2. CASE j # s
      BY <1>1, <1>8, <3>2 DEF Waiters, Untouched, OneWaiter
    <3>3. QED
      BY <3>1, <3>2
  <2>3. \A j \in Slots : OneWaiter(compressed[j], j = front /\ wpc = "asleep")'
    BY <1>1, <1>4 DEF Waiters, OneWaiter
  <2>4. QED
    BY <2>1, <2>2, <2>3 DEF Waiters, OneWaiter
<1>12. Buffer(s)'
  <2>1. Offset(s)' = Load /\ Load' = Load + 1 /\ Load \in Int
    BY <1>1, <1>2, <1>4, <1>6, CountTypes DEF Offset
  <2>2. Item(s)' = Items + 1
    BY <1>1, <1>6, <2>1, CountTypes DEF Item, Load
  <2>3. Filled(s)'
    <3>1. /\ Tokens(s, 0, 0) /\ q[s].out = <<>> /\ cpc[s] \in {"start", "wait", "asleep"}
          /\ ~WriterHas(s)
      BY <1>10 DEF Free
    <3>2. Tokens(s, 1, 0)'
      BY <1>4, <1>9, <1>w, <3>1 DEF Tokens
    <3>3. QED
      BY <1>4, <1>9, <3>1, <3>2 DEF Filled, WriterHas
  <2>4. CASE given < NBlocks
    <3>1. marks = 0 /\ Item(s)' = given + 1 /\ Item(s)' <= NBlocks
      BY <1>1, <2>2, <2>4, CountTypes DEF Counts, Items
    <3>2. HasBlock(s)'
      BY <1>9, <2>3, <2>4, <3>1 DEF HasBlock
    <3>3. QED
      BY <2>1, <3>1, <3>2 DEF Buffer
  <2>5. CASE ~(given < NBlocks)
    <3>1. ~(Item(s)' <= NBlocks)
      BY <1>1, <2>2, <2>5, CountTypes DEF Items
    <3>2. HasMark(s)'
      BY <1>9, <2>3, <2>5 DEF HasMark
    <3>3. QED
      BY <2>1, <3>1, <3>2 DEF Buffer
  <2>6. QED
    BY <2>4, <2>5
<1>13. Ring'
  <2>1. ASSUME NEW j \in Slots, j # s PROVE Buffer(j)'
    <3>1. Offset(j) # Load
      BY <1>1, <1>2, <2>1, OffsetInjective
    <3>2. Offset(j)' = Offset(j) /\ Item(j)' = Item(j) /\ Offset(j) \in Int
      BY <1>1, <1>4, <1>6, OffsetInSlots DEF Offset, Item, Slots
    <3>3. (Offset(j) >= Load)' <=> Offset(j) >= Load
      BY <1>1, <1>6, <3>1, <3>2, CountTypes
    <3>4. Buffer(j) /\ Untouched(j)
      BY <1>1, <1>8, <2>1 DEF Ring
    <3>5. QED
      BY <1>4, <3>2, <3>3, <3>4, BufferStays
  <2>2. QED
    BY <1>12, <2>1 DEF Ring
<1>14. Written'
  BY <1>4 DEF IInv, QueueInv, Written
<1>15. EmptyIsEmpty'
  BY <1>8, <1>9 DEF IInv, QueueInv, EmptyIsEmpty, Untouched
<1>16. QED
  BY <1>1, <1>4, <1>5, <1>7, <1>11, <1>13, <1>14, <1>15 DEF QueueInv, Alive, Exited

LEMMA MainKeepsQueue == ASSUME IInv, Main PROVE QueueInv'
<1>1. TypeOK /\ empty \in Semaphores /\ CountTypes
  BY CountTypes DEF IInv, TypeOK
<1>2. ASSUME mpc # "exit"
      PROVE  Counts /\ OneWaiter(empty, mpc = "asleep")
  BY <1>2 DEF IInv, QueueInv, Alive, Waiters
\* The counts, when only empty and mpc change.
<1>3. ASSUME mpc # "exit", mpc' \notin {"exit"},
             UNCHANGED <<q, front, full, compressed, csize, archive, given, marks, cpc, wpc>>,
             mpc' \in {"join", "done"} <=> mpc \in {"join", "done"},
             empty'.val + (IF mpc' = "fill" THEN 1 ELSE 0)
               = empty.val + (IF mpc = "fill" THEN 1 ELSE 0),
             OneWaiter(empty', mpc' = "asleep")
      PROVE  QueueInv'
  <2>1. Items' = Items /\ Done' = Done /\ Load' = Load
    BY <1>3 DEF Items, Done, Load
  <2>2. empty.val + (IF mpc = "fill" THEN 1 ELSE 0) + Load = QSize
    BY <1>2, <1>3 DEF Counts
  <2>3. empty'.val + (IF mpc' = "fill" THEN 1 ELSE 0) + Load' = QSize
    BY <1>3, <2>1, <2>2
  <2>4. Counts'
    BY <1>2, <1>3, <2>1, <2>3 DEF Counts
  <2>5. QED
    BY <1>3, <2>4, CountsStep
<1>4. CASE MainRoom
  <2>1. /\ mpc = "room" /\ mpc' = "wait" /\ empty' = empty
        /\ UNCHANGED <<q, front, full, compressed, csize, archive, given, marks, cpc, wpc>>
    BY <1>4 DEF MainRoom, shared, output
  <2>2. OneWaiter(empty', mpc' = "asleep")
    BY <1>2, <2>1 DEF OneWaiter
  <2>3. QED
    BY <1>3, <2>1, <2>2
<1>5. CASE MainWait
  <2>1. /\ mpc = "wait" /\ OneWaiter(empty, FALSE)
        /\ UNCHANGED <<q, front, full, compressed, csize, archive, given, marks, cpc, wpc>>
    BY <1>2, <1>5 DEF MainWait, output, OneWaiter
  <2>2. CASE Passes(empty) /\ empty' = Take(empty) /\ mpc' = "fill"
    <3>1. Take(empty).val = empty.val - 1 /\ OneWaiter(Take(empty), FALSE)
      BY <1>1, <2>1, <2>2, PassKeepsWaiter
    <3>2. OneWaiter(empty', mpc' = "asleep")
      BY <2>2, <3>1 DEF OneWaiter
    <3>3. empty'.val + 1 = empty.val + 0
      BY <1>1, <2>2, <3>1 DEF Semaphores
    <3>4. QED
      BY <1>3, <2>1, <2>2, <3>2, <3>3
  <2>3. CASE Sleeps(empty) /\ empty' = Sleep(empty) /\ mpc' = "asleep"
    <3>1. Sleep(empty).val = empty.val /\ OneWaiter(Sleep(empty), TRUE)
      BY <1>1, <2>1, <2>3, SleepKeepsWaiter
    <3>2. OneWaiter(empty', mpc' = "asleep")
      BY <2>3, <3>1 DEF OneWaiter
    <3>3. QED
      BY <1>3, <2>1, <2>3, <3>1, <3>2
  <2>4. QED
    BY <1>5, <2>2, <2>3 DEF MainWait
<1>6. CASE MainWake
  <2>1. /\ mpc = "asleep" /\ mpc' = "fill" /\ OneWaiter(empty, TRUE) /\ Wakes(empty)
        /\ empty' = Wake(empty)
        /\ UNCHANGED <<q, front, full, compressed, csize, archive, given, marks, cpc, wpc>>
    BY <1>2, <1>6 DEF MainWake, output, OneWaiter
  <2>2. Wake(empty).val = empty.val - 1 /\ OneWaiter(Wake(empty), FALSE)
    BY <1>1, <2>1, WakeKeepsWaiter
  <2>3. OneWaiter(empty', mpc' = "asleep")
    BY <2>1, <2>2 DEF OneWaiter
  <2>4. empty'.val + 1 = empty.val + 0
    BY <1>1, <2>1, <2>2 DEF Semaphores
  <2>5. QED
    BY <1>3, <2>1, <2>3, <2>4
<1>7. CASE MainFill
  BY <1>7, FillKeepsQueue
<1>8. CASE MainJoin
  <2>1. /\ mpc = "join" /\ mpc' = "done" /\ empty' = empty
        /\ UNCHANGED <<q, front, full, compressed, csize, archive, given, marks, cpc, wpc>>
    BY <1>8 DEF MainJoin, shared, output
  <2>2. OneWaiter(empty', mpc' = "asleep")
    BY <1>2, <2>1 DEF OneWaiter
  <2>3. QED
    BY <1>3, <2>1, <2>2
<1>9. QED
  BY <1>4, <1>5, <1>6, <1>7, <1>8 DEF Main

-----------------------------------------------------------------------------
(* The writeThread.                                                        *)

(* What the writer has taken is the item in front: a block that is         *)
(* COMPRESSED or being written, or an end mark passed on.                  *)
LEMMA PhaseOfFront ==
  ASSUME IInv, mpc # "exit", NEW i \in Slots, i = front
  PROVE  /\ Buffer(i) /\ Offset(i) = 0 /\ Item(i) = Done + 1
         /\ wpc \in {"take", "write", "finish", "done"} =>
              /\ Load >= 1 /\ Tokens(i, 0, 0)
              /\ IF Item(i) <= NBlocks
                 THEN q[i].method = "data" /\ Leaving(i) /\ wpc # "done"
                 ELSE q[i].method = "end" /\ Passed(i) /\ wpc \in {"take", "done"}
         /\ (wpc \in {"wait", "asleep"} /\ compressed[i].val # 0) =>
              /\ Load >= 1 /\ Tokens(i, 0, 1)
              /\ IF Item(i) <= NBlocks THEN q[i].method = "data" /\ Leaving(i)
                                       ELSE q[i].method = "end" /\ Passed(i)
<1>1. Buffer(i)
  BY DEF IInv, QueueInv, Alive, Ring
<1>2. /\ Offset(i) = 0 /\ Load \in Int /\ Done \in Int /\ NBlocks \in Int
      /\ Item(i) = Done + 1
  <2>1. TypeOK /\ i \in Int
    BY DEF IInv, Slots
  <2>2. QED
    BY <2>1, CountTypes DEF Offset, Item
<1>3. WriterHas(i) <=> wpc \in {"take", "write", "finish", "done"}
  BY DEF WriterHas
<1>4. CASE Offset(i) >= Load
  BY <1>1, <1>2, <1>3, <1>4 DEF Buffer, Free, Tokens
<1>5. CASE Load >= 1 /\ Item(i) <= NBlocks
  <2>1. HasBlock(i)
    BY <1>1, <1>2, <1>5 DEF Buffer
  <2>2. Filled(i) \/ Compressing(i) => ~WriterHas(i) /\ compressed[i].val = 0
    BY DEF Filled, Compressing, Tokens
  <2>3. Leaving(i) /\ wpc \in {"take", "write", "finish"} => Tokens(i, 0, 0)
    BY <1>3 DEF Leaving
  <2>4. Leaving(i) => wpc # "done"
    BY <1>3 DEF Leaving
  <2>5. Leaving(i) /\ compressed[i].val # 0 => Tokens(i, 0, 1)
    BY DEF Leaving, Tokens
  <2>6. QED
    BY <1>1, <1>2, <1>3, <1>5, <2>1, <2>2, <2>3, <2>4, <2>5 DEF HasBlock
<1>6. CASE Load >= 1 /\ ~(Item(i) <= NBlocks)
  <2>1. HasMark(i)
    BY <1>1, <1>2, <1>6 DEF Buffer
  <2>2. Filled(i) => ~WriterHas(i) /\ compressed[i].val = 0
    BY DEF Filled, Tokens
  <2>3. Passed(i) /\ WriterHas(i) => Tokens(i, 0, 0) /\ wpc \in {"take", "done"}
    BY DEF Passed
  <2>4. Passed(i) /\ compressed[i].val # 0 => Tokens(i, 0, 1)
    BY DEF Passed, Tokens
  <2>5. QED
    BY <1>1, <1>2, <1>3, <1>6, <2>1, <2>2, <2>3, <2>4 DEF HasMark
<1>7. QED
  BY <1>2, <1>4, <1>5, <1>6

(* A step of the writer on the buffer in front, which stays in front.      *)
LEMMA FrontStep ==
  ASSUME IInv, mpc # "exit", wpc' # "exit", NEW i \in Slots, i = front,
         UNCHANGED <<front, full, cpc, given, marks, mpc, empty>>,
         \A j \in Slots \ {i} : Untouched(j),
         Done' = Done, Len(csize') <= given, Written', Buffer(i)',
         OneWaiter(compressed'[i], wpc' = "asleep"),
         q'[i].state = "EMPTY" => q'[i].out = <<>>
  PROVE  QueueInv'
<1>1. Counts /\ Waiters /\ Ring /\ \A j \in Slots : cpc[j] # "exit"
  BY DEF IInv, QueueInv, Alive
<1>2. Items' = Items /\ Load' = Load
  BY DEF Items, Load
<1>3. Counts'
  BY <1>1, <1>2 DEF Counts
<1>4. EmptyIsEmpty'
  BY DEF IInv, QueueInv, EmptyIsEmpty, Untouched
<1>5. Waiters'
  <2>1. OneWaiter(empty', mpc' = "asleep")
    BY <1>1 DEF Waiters, OneWaiter
  <2>2. \A j \in Slots : OneWaiter(full'[j], cpc'[j] = "asleep")
    BY <1>1 DEF Waiters, OneWaiter
  <2>3. ASSUME NEW j \in Slots
        PROVE  OneWaiter(compressed'[j], j = front' /\ wpc' = "asleep")
    <3>1. CASE j = i
      BY <3>1 DEF OneWaiter
    <3>2. CASE j # i
      BY <1>1, <3>2 DEF Waiters, Untouched, OneWaiter
    <3>3. QED
      BY <3>1, <3>2
  <2>4. QED
    BY <2>1, <2>2, <2>3 DEF Waiters, OneWaiter
<1>6. Ring'
  <2>1. ASSUME NEW j \in Slots, j # i PROVE Buffer(j)'
    <3>1. Offset(j)' = Offset(j) /\ Item(j)' = Item(j)
      BY DEF Offset, Item
    <3>2. Buffer(j) /\ Untouched(j)
      BY <1>1, <2>1 DEF Ring
    <3>3. QED
      BY <1>2, <2>1, <3>1, <3>2, BufferStays
  <2>2. QED
    BY <2>1 DEF Ring
<1>7. QED
  BY <1>1, <1>3, <1>4, <1>5, <1>6, Written' DEF QueueInv, Alive, Exited

(* What has been written, as far as the writer is: Done sizes are pushed   *)
(* before the one it has, and its block is the last of them.               *)
LEMMA WrittenSoFar ==
  ASSUME IInv, mpc # "exit"
  PROVE  /\ Len(archive) \in Nat /\ Len(csize) \in Nat /\ Done \in Nat
         /\ wpc \in {"wait", "asleep", "take", "done"} => Len(csize) = Done /\ Len(archive) = Done
         /\ wpc = "write"  => Len(csize) = Done + 1 /\ Len(archive) = Done
         /\ wpc = "finish" => Len(csize) = Done + 1 /\ Len(archive) = Done + 1
<1>1. TypeOK /\ Written /\ wpc # "exit" /\ Done >= 0
  BY DEF IInv, QueueInv, Alive, Counts
<1>2. Len(archive) \in Nat /\ Len(csize) \in Nat /\ Done \in Nat
  BY <1>1, CountTypes DEF TypeOK
<1>3. Len(csize) - Len(archive) = (IF wpc = "write" THEN 1 ELSE 0)
  BY <1>1 DEF Written
<1>4. Done = Len(csize) - (IF wpc \in {"write", "finish"} THEN 1 ELSE 0)
  BY DEF Done
<1>5. CASE wpc = "write"
  BY <1>2, <1>3, <1>4, <1>5
<1>6. CASE wpc = "finish"
  BY <1>2, <1>3, <1>4, <1>6
<1>7. CASE wpc \notin {"write", "finish"}
  BY <1>2, <1>3, <1>4, <1>7
<1>8. QED
  BY <1>2, <1>5, <1>6, <1>7

(* The block in front is one that appendz was given.                       *)
LEMMA FrontWasGiven ==
  ASSUME IInv, mpc # "exit", Load >= 1, Done + 1 <= NBlocks
  PROVE  Done + 1 <= given
<1>1. TypeOK /\ (given < NBlocks => marks = 0)
  BY DEF IInv, QueueInv, Alive, Counts
<1>2. given + marks - Done >= 1
  BY <1>1, CountTypes DEF Load, Items
<1>3. QED
  BY <1>1, <1>2, CountTypes

(* compressed.wait() takes the token of the item in front.                 *)
LEMMA FrontTaken ==
  ASSUME IInv, mpc # "exit", NEW i \in Slots, i = front, wpc \in {"wait", "asleep"},
         compressed[i].val >= 1, compressed'[i].val = compressed[i].val - 1,
         OneWaiter(compressed'[i], FALSE), wpc' = "take",
         \A j \in Slots \ {i} : compressed'[j] = compressed[j],
         UNCHANGED <<q, front, full, cpc, csize, archive, given, marks, mpc, empty>>
  PROVE  QueueInv'
<1>1. TypeOK /\ Counts /\ compressed[i].val \in Int
  BY DEF IInv, QueueInv, Alive, TypeOK, Semaphores
<1>2. /\ Load >= 1 /\ Tokens(i, 0, 1) /\ Offset(i) = 0
      /\ IF Item(i) <= NBlocks THEN q[i].method = "data" /\ Leaving(i)
                               ELSE q[i].method = "end" /\ Passed(i)
  BY <1>1, PhaseOfFront
<1>3. Done' = Done /\ Load' = Load /\ Item(i)' = Item(i) /\ Offset(i)' = Offset(i)
  BY DEF Done, Load, Items, Item, Offset
<1>4. Tokens(i, 0, 0)'
  BY <1>2 DEF Tokens
<1>5. Leaving(i) => Leaving(i)'
  BY <1>2, <1>3, <1>4 DEF Leaving, Tokens
<1>6. Passed(i) => Passed(i)'
  BY <1>2, <1>4 DEF Passed, Tokens
<1>7. Buffer(i)'
  <2>1. ~(Offset(i)' >= Load')
    BY <1>1, <1>2, <1>3, CountTypes
  <2>2. QED
    BY <1>2, <1>3, <1>5, <1>6, <2>1 DEF Buffer, HasBlock, HasMark
<1>8. Written'
  BY DEF IInv, QueueInv, Written
<1>9. q'[i].state = "EMPTY" => q'[i].out = <<>>
  BY DEF IInv, QueueInv, EmptyIsEmpty
<1>10. /\ OneWaiter(compressed'[i], wpc' = "asleep") /\ Len(csize') <= given
       /\ \A j \in Slots \ {i} : Untouched(j)
  BY <1>1 DEF OneWaiter, Counts, Untouched
<1>11. QED
  BY <1>3, <1>7, <1>8, <1>9, <1>10, FrontStep

(* Where a writer step starts, with the buffer in front.                   *)
LEMMA FrontOfStep ==
  ASSUME IInv, mpc # "exit", NEW i \in Slots, i = front
  PROVE  /\ TypeOK /\ Counts /\ Written /\ EmptyIsEmpty
         /\ q[i] \in Buffers /\ q \in [Slots -> Buffers]
         /\ compressed[i] \in Semaphores /\ compressed \in [Slots -> Semaphores]
         /\ csize \in Seq(Seq(0..NBlocks)) /\ archive \in Seq(0..NBlocks)
         /\ OneWaiter(compressed[i], wpc = "asleep") /\ Len(csize) <= given
<1>1. TypeOK /\ Counts /\ Written /\ EmptyIsEmpty /\ Waiters
  BY DEF IInv, QueueInv, Alive
<1>2. OneWaiter(compressed[i], wpc = "asleep")
  BY <1>1 DEF Waiters, OneWaiter
<1>3. QED
  BY <1>1, <1>2 DEF TypeOK, Counts

LEMMA WriterWaitsKeepQueue ==
  ASSUME IInv, mpc # "exit", WriterWait \/ WriterWake
  PROVE  QueueInv'
<1>1. PICK i \in Slots : i = front
  BY DEF IInv, TypeOK
<1>2. /\ compressed[i] \in Semaphores /\ compressed \in [Slots -> Semaphores]
      /\ OneWaiter(compressed[i], wpc = "asleep") /\ Written /\ EmptyIsEmpty
      /\ Len(csize) <= given
  BY <1>1, FrontOfStep
<1>3. UNCHANGED <<q, front, full, cpc, csize, archive, given, marks, mpc, empty>>
  BY DEF WriterWait, WriterWake, output
<1>4. CASE /\ wpc = "wait" /\ Passes(compressed[front])
           /\ compressed' = [compressed EXCEPT ![front] = Take(@)] /\ wpc' = "take"
  <2>1. /\ compressed'[i] = Take(compressed[i]) /\ Passes(compressed[i])
        /\ \A j \in Slots \ {i} : compressed'[j] = compressed[j]
    BY <1>1, <1>2, <1>4
  <2>2. OneWaiter(compressed[i], FALSE)
    BY <1>2, <1>4 DEF OneWaiter
  <2>3. /\ compressed[i].val >= 1 /\ Take(compressed[i]).val = compressed[i].val - 1
        /\ OneWaiter(Take(compressed[i]), FALSE)
    BY <1>2, <2>1, <2>2, PassKeepsWaiter
  <2>4. QED
    BY <1>1, <1>3, <1>4, <2>1, <2>3, FrontTaken
<1>5. CASE /\ wpc = "asleep" /\ Wakes(compressed[front])
           /\ compressed' = [compressed EXCEPT ![front] = Wake(@)] /\ wpc' = "take"
  <2>1. /\ compressed'[i] = Wake(compressed[i]) /\ Wakes(compressed[i])
        /\ \A j \in Slots \ {i} : compressed'[j] = compressed[j]
    BY <1>1, <1>2, <1>5
  <2>2. OneWaiter(compressed[i], TRUE)
    BY <1>2, <1>5 DEF OneWaiter
  <2>3. /\ compressed[i].val >= 1 /\ Wake(compressed[i]).val = compressed[i].val - 1
        /\ OneWaiter(Wake(compressed[i]), FALSE)
    BY <1>2, <2>1, <2>2, WakeKeepsWaiter
  <2>4. QED
    BY <1>1, <1>3, <1>5, <2>1, <2>3, FrontTaken
<1>6. CASE /\ wpc = "wait" /\ Sleeps(compressed[front])
           /\ compressed' = [compressed EXCEPT ![front] = Sleep(@)] /\ wpc' = "asleep"
  <2>1. /\ compressed'[i] = Sleep(compressed[i]) /\ Sleeps(compressed[i])
        /\ \A j \in Slots \ {i} : compressed'[j] = compressed[j]
    BY <1>1, <1>2, <1>6
  <2>2. OneWaiter(compressed[i], FALSE)
    BY <1>2, <1>6 DEF OneWaiter
  <2>3. Sleep(compressed[i]).val = compressed[i].val /\ OneWaiter(Sleep(compressed[i]), TRUE)
    BY <1>2, <2>1, <2>2, SleepKeepsWaiter
  <2>4. OneWaiter(compressed'[i], wpc' = "asleep") /\ wpc' # "exit" /\ Done' = Done
    BY <1>3, <1>6, <2>1, <2>3 DEF OneWaiter, Done
  <2>5. Written' /\ (q'[i].state = "EMPTY" => q'[i].out = <<>>)
    BY <1>2, <1>3, <1>6 DEF Written, EmptyIsEmpty
  <2>6. Buffer(i)'
    <3>1. Buffer(i)
      BY <1>1, PhaseOfFront
    <3>2. Load' = Load /\ Item(i)' = Item(i) /\ Offset(i)' = Offset(i)
      BY <1>3, <2>4 DEF Load, Items, Item, Offset
    <3>3. \A f, c : Tokens(i, f, c)' <=> Tokens(i, f, c)
      BY <1>3, <2>1, <2>3 DEF Tokens
    <3>4. WriterHas(i)' <=> WriterHas(i)
      BY <1>3, <1>6 DEF WriterHas
    <3>5. Free(i) => Free(i)'
      BY <1>3, <3>3, <3>4 DEF Free
    <3>6. Filled(i) => Filled(i)'
      BY <1>3, <3>3, <3>4 DEF Filled
    <3>7. Compressing(i) => Compressing(i)'
      BY <1>3, <3>2, <3>3, <3>4 DEF Compressing
    <3>8. Leaving(i) => Leaving(i)'
      BY <1>3, <1>6, <3>2, <3>3, <3>4 DEF Leaving
    <3>9. Passed(i) => Passed(i)'
      BY <1>3, <1>6, <3>3, <3>4 DEF Passed
    <3>10. HasBlock(i) => HasBlock(i)'
      BY <1>3, <3>2, <3>6, <3>7, <3>8 DEF HasBlock
    <3>11. HasMark(i) => HasMark(i)'
      BY <1>3, <3>6, <3>9 DEF HasMark
    <3>12. QED
      BY <3>1, <3>2, <3>5, <3>10, <3>11 DEF Buffer
  <2>7. \A j \in Slots \ {i} : Untouched(j)
    BY <1>3, <2>1 DEF Untouched
  <2>8. QED
    BY <1>1, <1>2, <1>3, <2>4, <2>5, <2>6, <2>7, FrontStep
<1>7. QED
  BY <1>4, <1>5, <1>6 DEF WriterWait, WriterWake

LEMMA WriterQuitKeepsQueue ==
  ASSUME IInv, mpc # "exit", WriterQuit
  PROVE  QueueInv'
<1>1. PICK i \in Slots : i = front
  BY DEF IInv, TypeOK
<1>2. /\ wpc = "take" /\ wpc' = "done" /\ q[i].method = "end"
      /\ UNCHANGED <<q, front, full, compressed, cpc, csize, archive, given, marks, mpc, empty>>
  BY <1>1 DEF WriterQuit, shared, output
<1>3. /\ TypeOK /\ Written /\ EmptyIsEmpty /\ Len(csize) <= given
      /\ OneWaiter(compressed[i], wpc = "asleep")
  BY <1>1, FrontOfStep
<1>4. /\ Offset(i) = 0 /\ Load >= 1 /\ Tokens(i, 0, 0) /\ Passed(i) /\ ~(Item(i) <= NBlocks)
  BY <1>1, <1>2, PhaseOfFront
<1>5. Done' = Done /\ Load' = Load /\ Item(i)' = Item(i) /\ Offset(i)' = Offset(i)
  BY <1>2 DEF Done, Load, Items, Item, Offset
<1>6. Passed(i)'
  BY <1>1, <1>2, <1>4 DEF Passed, Tokens, WriterHas
<1>7. Buffer(i)'
  <2>1. ~(Offset(i)' >= Load')
    BY <1>3, <1>4, <1>5, CountTypes
  <2>2. QED
    BY <1>2, <1>4, <1>5, <1>6, <2>1 DEF Buffer, HasMark
<1>8. Written' /\ (q'[i].state = "EMPTY" => q'[i].out = <<>>)
  BY <1>2, <1>3 DEF Written, EmptyIsEmpty
<1>9. /\ OneWaiter(compressed'[i], wpc' = "asleep") /\ wpc' # "exit" /\ Len(csize') <= given
      /\ \A j \in Slots \ {i} : Untouched(j)
  BY <1>2, <1>3 DEF OneWaiter, Untouched
<1>10. QED
  BY <1>1, <1>2, <1>5, <1>7, <1>8, <1>9, FrontStep

LEMMA WriterTakeKeepsQueue ==
  ASSUME IInv, mpc # "exit", WriterTake
  PROVE  QueueInv'
<1>1. PICK i \in Slots : i = front
  BY DEF IInv, TypeOK
<1>2. /\ wpc = "take" /\ q[i].method # "end"
      /\ q' = [q EXCEPT ![i].state = "WRITING"] /\ csize' = Append(csize, q[i].out)
      /\ wpc' = IF q[i].out # <<>> THEN "write" ELSE "finish"
      /\ UNCHANGED <<front, full, compressed, cpc, archive, given, marks, mpc, empty>>
  BY <1>1 DEF WriterTake
<1>3. /\ TypeOK /\ Counts /\ Written /\ EmptyIsEmpty /\ q[i] \in Buffers
      /\ q \in [Slots -> Buffers] /\ csize \in Seq(Seq(0..NBlocks))
      /\ OneWaiter(compressed[i], wpc = "asleep")
  BY <1>1, FrontOfStep
<1>4. /\ Offset(i) = 0 /\ Load >= 1 /\ Tokens(i, 0, 0) /\ Leaving(i) /\ Item(i) = Done + 1
      /\ Item(i) <= NBlocks /\ q[i].method = "data"
  BY <1>1, <1>2, PhaseOfFront
<1>5. Len(csize) = Done /\ Len(archive) = Done /\ Done \in Nat
  BY <1>2, WrittenSoFar
<1>6. q[i].out = <<Item(i)>> /\ cpc[i] \in {"wait", "asleep"} /\ wpc' = "write"
  BY <1>2, <1>4 DEF Leaving
<1>7. /\ Len(csize') = Done + 1 /\ csize'[Done + 1] = <<Done + 1>>
      /\ \A k \in 1..Done : csize'[k] = csize[k]
  BY <1>2, <1>3, <1>4, <1>5, <1>6
<1>8. Done' = Done
  BY <1>5, <1>6, <1>7 DEF Done
<1>9. Load' = Load /\ Item(i)' = Item(i) /\ Offset(i)' = Offset(i)
  BY <1>2, <1>8 DEF Load, Items, Item, Offset
<1>10. Len(csize') <= given
  BY <1>4, <1>7, FrontWasGiven
<1>11. Written'
  <2>1. \A k \in 1..Done + 1 : csize'[k] = <<k>>
    BY <1>3, <1>5, <1>7 DEF Written
  <2>2. QED
    BY <1>2, <1>3, <1>5, <1>6, <1>7, <2>1 DEF Written
<1>12. /\ q'[i].state = "WRITING" /\ q'[i].out = q[i].out /\ q'[i].method = q[i].method
       /\ \A j \in Slots \ {i} : q'[j] = q[j]
  BY <1>2, <1>3 DEF Buffers
<1>13. Leaving(i)'
  BY <1>1, <1>2, <1>4, <1>6, <1>9, <1>12 DEF Leaving, Tokens
<1>14. Buffer(i)'
  <2>1. ~(Offset(i)' >= Load')
    BY <1>3, <1>4, <1>9, CountTypes
  <2>2. QED
    BY <1>4, <1>9, <1>12, <1>13, <2>1 DEF Buffer, HasBlock
<1>15. /\ OneWaiter(compressed'[i], wpc' = "asleep") /\ wpc' # "exit"
       /\ \A j \in Slots \ {i} : Untouched(j)
  BY <1>2, <1>3, <1>6, <1>12 DEF OneWaiter, Untouched
<1>16. QED
  BY <1>1, <1>2, <1>8, <1>10, <1>11, <1>12, <1>14, <1>15, FrontStep

LEMMA WriterWriteKeepsQueue ==
  ASSUME IInv, mpc # "exit", WriterWrite
  PROVE  QueueInv'
<1>1. PICK i \in Slots : i = front
  BY DEF IInv, TypeOK
<1>2. /\ wpc = "write" /\ wpc' = "finish" /\ archive' = archive \o q[i].out
      /\ UNCHANGED <<q, front, full, compressed, cpc, csize, given, marks, mpc, empty>>
  BY <1>1 DEF WriterWrite, shared
<1>3. /\ TypeOK /\ Counts /\ Written /\ EmptyIsEmpty /\ archive \in Seq(0..NBlocks)
      /\ OneWaiter(compressed[i], wpc = "asleep") /\ Len(csize) <= given
  BY <1>1, FrontOfStep
<1>4. /\ Offset(i) = 0 /\ Load >= 1 /\ Tokens(i, 0, 0) /\ Leaving(i) /\ Item(i) = Done + 1
      /\ Item(i) <= NBlocks /\ q[i].method = "data"
  BY <1>1, <1>2, PhaseOfFront
<1>5. Len(csize) = Done + 1 /\ Len(archive) = Done /\ Done \in Nat
  BY <1>2, WrittenSoFar
<1>6. q[i].out = <<Done + 1>>
  BY <1>4 DEF Leaving
<1>7. /\ Len(archive') = Done + 1 /\ archive'[Done + 1] = Done + 1
      /\ \A k \in 1..Done : archive'[k] = archive[k]
  BY <1>2, <1>3, <1>5, <1>6
<1>8. Done' = Done /\ Load' = Load /\ Item(i)' = Item(i) /\ Offset(i)' = Offset(i)
  BY <1>2 DEF Done, Load, Items, Item, Offset
<1>9. Written'
  <2>1. \A k \in 1..Done + 1 : archive'[k] = k
    BY <1>3, <1>5, <1>7 DEF Written
  <2>2. QED
    BY <1>2, <1>3, <1>5, <1>7, <2>1 DEF Written
<1>10. Leaving(i)'
  BY <1>1, <1>2, <1>4, <1>8 DEF Leaving, Tokens, WriterHas
<1>11. Buffer(i)'
  <2>1. ~(Offset(i)' >= Load')
    BY <1>3, <1>4, <1>8, CountTypes
  <2>2. QED
    BY <1>2, <1>4, <1>8, <1>10, <2>1 DEF Buffer, HasBlock
<1>12. /\ OneWaiter(compressed'[i], wpc' = "asleep") /\ wpc' # "exit" /\ Len(csize') <= given
       /\ \A j \in Slots \ {i} : Untouched(j)
       /\ q'[i].state = "EMPTY" => q'[i].out = <<>>
  BY <1>2, <1>3 DEF OneWaiter, Untouched, EmptyIsEmpty
<1>13. QED
  BY <1>1, <1>2, <1>8, <1>9, <1>11, <1>12, FrontStep

(* The buffer in front goes to the end of the ring, free.                  *)
LEMMA WriterFinishKeepsQueue ==
  ASSUME IInv, mpc # "exit", WriterFinish
  PROVE  QueueInv'
<1>1. PICK i \in Slots : i = front
  BY DEF IInv, TypeOK
<1>2. /\ wpc = "finish" /\ wpc' = "wait" /\ q' = [q EXCEPT ![i] = Emptied(@)]
      /\ front' = NextFront /\ empty' = Signal(empty)
      /\ UNCHANGED <<full, compressed, cpc, csize, archive, given, marks, mpc>>
  BY <1>1 DEF WriterFinish, output
<1>3. /\ TypeOK /\ Counts /\ Written /\ EmptyIsEmpty /\ q[i] \in Buffers
      /\ q \in [Slots -> Buffers]
  BY <1>1, FrontOfStep
<1>4. Ring /\ Waiters /\ wpc # "exit" /\ \A j \in Slots : cpc[j] # "exit"
  BY DEF IInv, QueueInv, Alive
<1>5. /\ Load >= 1 /\ Tokens(i, 0, 0) /\ Leaving(i)
  BY <1>1, <1>2, PhaseOfFront
<1>6. /\ Len(csize) = Done + 1 /\ Done \in Nat /\ Len(csize) \in Nat
      /\ Len(archive) = Done + 1 /\ Len(archive) \in Nat
  BY <1>2, WrittenSoFar
<1>7. Done' = Done + 1
  BY <1>2, <1>6 DEF Done
<1>8. Items' = Items /\ Load' = Load - 1
  BY <1>2, <1>3, <1>7, CountTypes DEF Load, Items
<1>9. q'[i].state = "EMPTY" /\ q'[i].out = <<>> /\ \A j \in Slots \ {i} : Untouched(j)
  BY <1>2, <1>3 DEF Emptied, Buffers, Untouched
<1>10. Written'
  BY <1>2, <1>3, <1>6 DEF Written
<1>11. EmptyIsEmpty'
  BY <1>3, <1>9 DEF EmptyIsEmpty, Untouched
<1>w. Signal(empty).val = empty.val + 1 /\ OneWaiter(Signal(empty), mpc = "asleep")
  <2>1. empty \in Semaphores /\ OneWaiter(empty, mpc = "asleep")
    BY <1>3, <1>4 DEF TypeOK, Waiters
  <2>2. QED
    BY <2>1, SignalKeepsWaiter
<1>n. Load \in Int /\ empty.val \in Int /\ QSize \in Nat
  BY <1>3, CountTypes
<1>12. Counts'
  <2>1. Done' >= 0 /\ Load' >= 0 /\ Load' <= QSize
    BY <1>3, <1>5, <1>7, <1>8, CountTypes DEF Counts
  <2>2. empty'.val + (IF mpc' = "fill" THEN 1 ELSE 0) + Load' = QSize
    <3>1. /\ empty.val + (IF mpc = "fill" THEN 1 ELSE 0) + Load = QSize
          /\ empty'.val = empty.val + 1 /\ mpc' = mpc
      BY <1>2, <1>3, <1>w DEF Counts
    <3>2. CASE mpc = "fill"
      <4>1. mpc' = "fill" /\ empty.val + 1 + Load = QSize
        BY <3>1, <3>2
      <4>2. empty'.val + 1 + Load' = QSize
        BY <1>8, <1>n, <3>1, <4>1
      <4>3. QED
        BY <4>1, <4>2
    <3>3. CASE mpc # "fill"
      BY <1>3, <1>8, <3>1, <3>3, CountTypes
    <3>4. QED
      BY <3>2, <3>3
  <2>3. QED
    BY <1>2, <1>3, <2>1, <2>2 DEF Counts
<1>13. Waiters'
  <2>1. OneWaiter(empty', mpc' = "asleep")
    BY <1>2, <1>w DEF OneWaiter
  <2>2. \A j \in Slots : OneWaiter(full'[j], cpc'[j] = "asleep")
    BY <1>2, <1>4 DEF Waiters, OneWaiter
  <2>3. \A j \in Slots : OneWaiter(compressed'[j], j = front' /\ wpc' = "asleep")
    BY <1>2, <1>4 DEF Waiters, OneWaiter
  <2>4. QED
    BY <2>1, <2>2, <2>3 DEF Waiters, OneWaiter
<1>14. Buffer(i)'
  <2>1. Offset(i)' = QSize - 1
    BY <1>1, <1>2, <1>3, NextOffset
  <2>2. Offset(i)' >= Load'
    BY <1>3, <1>8, <2>1, CountTypes DEF Counts
  <2>3. cpc'[i] \in {"wait", "asleep"} /\ Tokens(i, 0, 0)' /\ ~WriterHas(i)'
    BY <1>2, <1>5 DEF Leaving, Tokens, WriterHas
  <2>4. Free(i)'
    BY <1>9, <2>3 DEF Free
  <2>5. QED
    BY <2>2, <2>4 DEF Buffer
<1>15. Ring'
  <2>1. ASSUME NEW j \in Slots, j # i PROVE Buffer(j)'
    <3>1. Offset(j)' = Offset(j) - 1
      BY <1>1, <1>2, <1>3, <2>1, NextOffset
    <3>2. Offset(j) \in Int
      BY <1>3, OffsetInSlots DEF Slots
    <3>3. (Offset(j) >= Load)' <=> Offset(j) >= Load
      BY <1>3, <1>8, <3>1, <3>2, CountTypes
    <3>4. Item(j)' = Item(j)
      BY <1>6, <1>7, <3>1, <3>2 DEF Item
    <3>5. Buffer(j) /\ Untouched(j)
      BY <1>4, <1>9, <2>1 DEF Ring
    <3>6. /\ j = front => wpc \notin {"take", "write", "finish", "done"}
          /\ (j = front)' => wpc' \notin {"take", "write", "finish", "done"}
      BY <1>1, <1>2, <2>1
    <3>7. QED
      BY <3>3, <3>4, <3>5, <3>6, BufferStays
  <2>2. QED
    BY <1>14, <2>1 DEF Ring
<1>16. QED
  BY <1>2, <1>4, <1>10, <1>11, <1>12, <1>13, <1>15 DEF QueueInv, Alive, Exited

LEMMA WriteThreadKeepsQueue == ASSUME IInv, WriteThread PROVE QueueInv'
<1>1. mpc # "exit"
  BY DEF IInv, QueueInv, Exited, WriteThread, WriterWait, WriterWake, WriterQuit,
         WriterTake, WriterWrite, WriterFinish
<1>2. QED
  BY <1>1, WriterWaitsKeepQueue, WriterQuitKeepsQueue, WriterTakeKeepsQueue,
     WriterWriteKeepsQueue, WriterFinishKeepsQueue DEF WriteThread

(* exit(1) leaves the archive, at most one block short of its sizes.       *)
LEMMA ExitKeepsQueue ==
  ASSUME IInv, mpc # "exit", ProcessExits
  PROVE  QueueInv'
<1>1. Written /\ EmptyIsEmpty /\ wpc # "exit"
  BY DEF IInv, QueueInv, Alive
<1>2. /\ mpc' = "exit" /\ wpc' = "exit" /\ cpc' = [i \in Slots |-> "exit"]
      /\ UNCHANGED <<q, csize, archive>>
  BY DEF ProcessExits, shared, output
<1>3. Written'
  BY <1>1, <1>2 DEF Written
<1>4. EmptyIsEmpty' /\ Alive' /\ Exited'
  BY <1>1, <1>2 DEF EmptyIsEmpty, Alive, Exited
<1>5. QED
  BY <1>3, <1>4 DEF QueueInv

-----------------------------------------------------------------------------
(* The invariant holds.                                                    *)

LEMMA InvHoldsFirst == ASSUME Init PROVE IInv
<1>1. TypeOK
  BY TypesHoldFirst
<1>2. /\ q = [i \in Slots |-> EmptyBuffer] /\ front = 0 /\ csize = <<>> /\ archive = <<>>
      /\ full = [i \in Slots |-> SemInit(0)] /\ compressed = [i \in Slots |-> SemInit(0)]
      /\ empty = SemInit(QSize) /\ given = 0 /\ marks = 0 /\ mpc = "room"
      /\ cpc = [i \in Slots |-> "start"] /\ wpc = "wait"
  BY DEF Init, EmptySemaphore
<1>3. Items = 0 /\ Done = 0 /\ Load = 0
  <2>1. Items = 0
    BY <1>2 DEF Items
  <2>2. Done = 0
    BY <1>2 DEF Done
  <2>3. QED
    BY <2>1, <2>2 DEF Load
<1>4. Counts
  BY <1>2, <1>3, PipelineAssumption DEF Counts, SemInit
<1>5. Waiters
  BY <1>2, PipelineAssumption DEF Waiters, OneWaiter, SemInit
<1>6. Written
  BY <1>2 DEF Written
<1>7. EmptyIsEmpty
  BY <1>2 DEF EmptyIsEmpty, EmptyBuffer
<1>8. Ring
  <2>1. ASSUME NEW i \in Slots PROVE Free(i)
    BY <1>2 DEF Free, Tokens, WriterHas, EmptyBuffer, SemInit
  <2>2. ASSUME NEW i \in Slots PROVE Offset(i) >= Load
    BY <1>1, <1>3, OffsetInSlots DEF Slots
  <2>3. QED
    BY <2>1, <2>2 DEF Ring, Buffer
<1>9. QED
  BY <1>1, <1>2, <1>4, <1>5, <1>6, <1>7, <1>8 DEF IInv, QueueInv, Alive, Exited

LEMMA InvKept == ASSUME IInv, [Next]_vars PROVE IInv'
<1>1. TypeOK'
  BY TypesKept DEF IInv
<1>2. CASE Main
  BY <1>1, <1>2, MainKeepsQueue DEF IInv
<1>3. ASSUME NEW i \in Slots, CompressThread(i) PROVE IInv'
  BY <1>1, <1>3, CompressThreadKeepsQueue DEF IInv
<1>4. CASE WriteThread
  BY <1>1, <1>4, WriteThreadKeepsQueue DEF IInv
<1>5. ASSUME NEW i \in Slots, CompressThrows(i) PROVE IInv'
  <2>1. mpc # "exit" /\ ProcessExits
    BY <1>5 DEF CompressThrows, IInv, QueueInv, Exited
  <2>2. QED
    BY <1>1, <2>1, ExitKeepsQueue DEF IInv
<1>6. CASE WriterThrows
  <2>1. mpc # "exit" /\ ProcessExits
    BY <1>6 DEF WriterThrows, IInv, QueueInv, Exited
  <2>2. QED
    BY <1>1, <2>1, ExitKeepsQueue DEF IInv
<1>7. CASE UNCHANGED vars
  BY <1>7 DEF vars, shared, output, IInv, TypeOK, QueueInv, Written, EmptyIsEmpty, Alive, Exited,
     Counts, Waiters, OneWaiter, Ring, Buffer, Free, Filled, Compressing, Leaving, Passed,
     HasBlock, HasMark, Tokens, WriterHas, Offset, Item, Load, Items, Done
<1>8. QED
  BY <1>2, <1>3, <1>4, <1>5, <1>6, <1>7 DEF Next, Ended

LEMMA InvHolds == Spec => []IInv
<1>1. Init => IInv
  BY InvHoldsFirst
<1>2. IInv /\ [Next]_vars => IInv'
  BY InvKept
<1>3. QED
  BY <1>1, <1>2, PTL DEF Spec

-----------------------------------------------------------------------------
(* What follows from it.                                                   *)

LEMMA LenArchive ==
  ASSUME IInv
  PROVE  /\ Len(archive) \in Nat /\ Len(csize) \in Nat
         /\ DOMAIN archive = 1..Len(archive) /\ DOMAIN csize = 1..Len(csize)
BY DEF IInv, TypeOK

(* appendz: whenever empty.wait() has let the main thread in, a buffer is  *)
(* EMPTY; the loop over the buffers never falls through and drops a block. *)
THEOREM RoomTheorem == Spec => []AlwaysRoomToFill
<1>1. ASSUME IInv PROVE AlwaysRoomToFill
  <2>1. SUFFICES ASSUME mpc = "fill" PROVE \E i \in Slots : q[i].state = "EMPTY"
    BY DEF AlwaysRoomToFill
  <2>2. Load \in Slots /\ q[At(Load)].state = "EMPTY" /\ TypeOK
    BY <1>1, <2>1, FirstEmptyIsNext DEF IInv
  <2>3. At(Load) \in Slots
    BY <2>2, AtOffset
  <2>4. QED
    BY <2>2, <2>3
<1>2. QED
  BY <1>1, InvHolds, PTL

(* add and the writer: the i-th size pushed is that of the i-th block, and *)
(* the blocks lie in the archive in that order, after exit(1) as well.     *)
THEOREM OrderTheorem == Spec => []SizesMatchBlocks
<1>1. ASSUME IInv PROVE SizesMatchBlocks
  <2>1. Written
    BY <1>1 DEF IInv, QueueInv
  <2>2. /\ \A i \in DOMAIN csize : csize[i] = <<i>>
        /\ \A i \in DOMAIN archive : archive[i] = i
    BY <1>1, <2>1, LenArchive DEF Written
  <2>3. Len(csize) - Len(archive) \in CASE wpc = "write" -> {1}
                                         [] wpc = "exit"  -> {0, 1}
                                         [] OTHER         -> {0}
    <3>1. CASE wpc = "write"
      BY <2>1, <3>1 DEF Written
    <3>2. CASE wpc = "exit"
      BY <2>1, <3>2 DEF Written
    <3>3. CASE wpc \notin {"write", "exit"}
      BY <2>1, <3>3 DEF Written
    <3>4. QED
      BY <3>1, <3>2, <3>3
  <2>4. QED
    BY <2>2, <2>3 DEF SizesMatchBlocks
<1>2. QED
  BY <1>1, InvHolds, PTL

LEMMA AllWritten ==
  ASSUME IInv, wpc = "done" \/ mpc \in {"join", "done"}
  PROVE  Len(archive) = NBlocks /\ Done = NBlocks
<1>1. mpc # "exit"
  BY DEF IInv, QueueInv, Exited
<1>2. Counts /\ TypeOK
  BY <1>1 DEF IInv, QueueInv, Alive
<1>3. Len(archive) \in Nat /\ Len(csize) \in Nat /\ Done \in Nat
  BY <1>1, WrittenSoFar
<1>4. Done >= NBlocks
  <2>1. CASE wpc = "done"
    <3>1. PICK i \in Slots : i = front
      BY <1>2 DEF TypeOK
    <3>2. Item(i) = Done + 1 /\ ~(Item(i) <= NBlocks)
      BY <1>1, <2>1, <3>1, PhaseOfFront
    <3>3. QED
      BY <1>2, <1>3, <3>2, CountTypes
  <2>2. CASE mpc \in {"join", "done"}
    <3>1. given = NBlocks /\ marks = QSize /\ Load <= QSize
      BY <1>2, <2>2 DEF Counts
    <3>2. NBlocks + QSize - Done <= QSize
      BY <1>2, <3>1, CountTypes DEF Load, Items
    <3>3. QED
      BY <1>2, <1>3, <3>2, CountTypes
  <2>3. QED
    BY <2>1, <2>2
<1>5. Len(csize) <= given /\ given <= NBlocks
  BY <1>2, CountTypes DEF Counts
<1>6. wpc \in {"wait", "asleep", "take", "write", "finish", "done"}
  BY <1>1, <1>2 DEF TypeOK, IInv, QueueInv, Alive
<1>7. QED
  BY <1>1, <1>2, <1>3, <1>4, <1>5, <1>6, WrittenSoFar, CountTypes

(* The end marks: when the writer has returned, and when the main thread   *)
(* goes to join the threads, every block appended is in the archive.       *)
THEOREM EndTheorem == Spec => []NothingLeftBehind
<1>1. ASSUME IInv PROVE NothingLeftBehind
  BY <1>1, AllWritten DEF NothingLeftBehind
<1>2. QED
  BY <1>1, InvHolds, PTL

(* The unlocked work: no two threads use a buffer's in and out at once.    *)
THEOREM OwnerTheorem == Spec => []BufferHasOneOwner
<1>1. ASSUME IInv PROVE BufferHasOneOwner
  <2>1. EmptyIsEmpty /\ TypeOK
    BY <1>1 DEF IInv, QueueInv
  <2>2. ASSUME NEW i \in Slots, q[i].state = "EMPTY"
        PROVE  cpc[i] \notin {"take", "slot", "queued", "compress", "finish"}
    <3>1. CASE mpc = "exit"
      BY <1>1, <3>1 DEF IInv, QueueInv, Exited
    <3>2. CASE mpc # "exit"
      BY <1>1, <2>2, <3>2, PhaseOfThread DEF Filled, Compressing
    <3>3. QED
      BY <3>1, <3>2
  <2>3. ASSUME wpc \in {"write", "finish"}
        PROVE  cpc[front] \notin {"slot", "queued", "compress", "finish"}
    <3>1. PICK i \in Slots : i = front
      BY <2>1 DEF TypeOK
    <3>2. mpc # "exit"
      BY <1>1, <2>3 DEF IInv, QueueInv, Exited
    <3>3. Leaving(i)
      BY <1>1, <2>3, <3>1, <3>2, PhaseOfFront
    <3>4. QED
      BY <3>1, <3>3 DEF Leaving
  <2>4. QED
    BY <2>1, <2>2, <2>3 DEF BufferHasOneOwner, EmptyIsEmpty
<1>2. QED
  BY <1>1, InvHolds, PTL

-----------------------------------------------------------------------------
(* The queue is the bounded FIFO of BlockFifo.                             *)

LEMMA FifoStep ==
  ASSUME IInv, [Next]_vars
  PROVE  [Fifo!Next]_<<given, archive, mpc = "done">>
<1>1. TypeOK
  BY DEF IInv
<1> DEFINE Same == given' = given /\ archive' = archive /\ (mpc' = "done") = (mpc = "done")
<1>2. ASSUME Same PROVE UNCHANGED <<given, archive, mpc = "done">>
  BY <1>2
<1>3. CASE MainFill
  <2>1. mpc = "fill" /\ mpc' \in {"join", "room"} /\ archive' = archive
    BY <1>3 DEF MainFill, AfterAppend, output
  <2>2. CASE given < NBlocks
    <3>1. given' = given + 1
      BY <1>3, <2>2 DEF MainFill, AfterAppend
    <3>2. given - Len(archive) < QSize
      <4>1. Load < QSize /\ Load >= 0
        BY <2>1, <1>1, FirstEmptyIsNext, CountTypes DEF Slots
      <4>2. Len(archive) >= Done /\ Len(archive) \in Nat
        BY <1>1, <2>1, WrittenSoFar DEF IInv, QueueInv, Alive, TypeOK
      <4>3. given + marks - Done < QSize
        BY <1>1, <4>1, CountTypes DEF Load, Items
      <4>4. QED
        BY <1>1, <4>2, <4>3, CountTypes
    <3>3. Fifo!Accept
      BY <2>1, <2>2, <3>1, <3>2 DEF Fifo!Accept
    <3>4. QED
      BY <3>3 DEF Fifo!Next
  <2>3. CASE ~(given < NBlocks)
    <3>1. given' = given
      BY <1>3, <2>3 DEF MainFill, AfterAppend
    <3>2. QED
      BY <1>2, <2>1, <3>1
  <2>4. QED
    BY <2>2, <2>3
<1>4. CASE MainJoin
  <2>1. /\ mpc = "join" /\ mpc' = "done" /\ UNCHANGED <<given, archive>>
    BY <1>4 DEF MainJoin, output
  <2>2. Len(archive) = NBlocks /\ given = NBlocks
    BY <2>1, AllWritten DEF IInv, QueueInv, Alive, Counts
  <2>3. Fifo!Close
    BY <2>1, <2>2 DEF Fifo!Close
  <2>4. QED
    BY <2>3 DEF Fifo!Next
<1>5. CASE WriterWrite
  <2>1. wpc = "write" /\ archive' = archive \o q[front].out /\ UNCHANGED <<given, mpc>>
    BY <1>5 DEF WriterWrite
  <2>2. mpc # "exit"
    BY <2>1 DEF IInv, QueueInv, Exited
  <2>3. PICK i \in Slots : i = front
    BY <1>1 DEF TypeOK
  <2>4. Leaving(i) /\ Item(i) = Done + 1 /\ Item(i) <= NBlocks /\ Load >= 1
    BY <2>1, <2>2, <2>3, PhaseOfFront
  <2>5. Len(archive) = Done /\ Done \in Nat
    BY <2>1, <2>2, WrittenSoFar
  <2>6. q[front].out = <<Len(archive) + 1>>
    BY <2>3, <2>4, <2>5 DEF Leaving
  <2>7. archive' = Append(archive, Len(archive) + 1)
    BY <1>1, <2>1, <2>5, <2>6 DEF TypeOK
  <2>8. Len(archive) < given
    BY <1>1, <2>2, <2>4, <2>5, FrontWasGiven, CountTypes
  <2>9. Fifo!Write
    BY <2>1, <2>7, <2>8 DEF Fifo!Write
  <2>10. QED
    BY <2>9 DEF Fifo!Next
<1>6. CASE MainRoom \/ MainWait \/ MainWake
  <2>1. Same
    BY <1>6 DEF MainRoom, MainWait, MainWake, output
  <2>2. QED
    BY <1>2, <2>1
<1>7. ASSUME NEW i \in Slots, CompressThread(i) PROVE Same
  BY <1>7 DEF CompressThread, CompressStart, CompressWait, CompressWake, CompressTake,
     CompressorWait, CompressorWake, Compress, CompressFinish, output
<1>8. CASE WriterWait \/ WriterWake \/ WriterQuit \/ WriterTake \/ WriterFinish
  <2>1. Same
    BY <1>8 DEF WriterWait, WriterWake, WriterQuit, WriterTake, WriterFinish, output
  <2>2. QED
    BY <1>2, <2>1
<1>9. CASE ProcessExits /\ mpc # "done"
  <2>1. Same
    BY <1>9 DEF ProcessExits, output
  <2>2. QED
    BY <1>2, <2>1
<1>10. CASE UNCHANGED vars
  <2>1. Same
    BY <1>10 DEF vars, output
  <2>2. QED
    BY <1>2, <2>1
\* Nobody throws once all have been joined.
<1>11. (\E i \in Slots : CompressThrows(i)) \/ WriterThrows => mpc # "done"
  <2>1. SUFFICES ASSUME mpc = "done" PROVE /\ \A i \in Slots : ~CompressThrows(i)
                                           /\ ~WriterThrows
    OBVIOUS
  <2>2. Done = NBlocks /\ mpc # "exit"
    BY <2>1, AllWritten
  <2>3. ASSUME NEW i \in Slots, CompressThrows(i) PROVE FALSE
    <3>1. Item(i) <= NBlocks
      BY <2>2, <2>3, PhaseOfThread DEF CompressThrows
    <3>2. Offset(i) \in Slots
      BY <1>1, OffsetInSlots
    <3>3. QED
      BY <1>1, <2>2, <3>1, <3>2, CountTypes DEF Item, Slots
  <2>4. ASSUME WriterThrows PROVE FALSE
    <3>1. PICK i \in Slots : i = front
      BY <1>1 DEF TypeOK
    <3>2. Done + 1 <= NBlocks
      BY <2>2, <2>4, <3>1, PhaseOfFront DEF WriterThrows
    <3>3. QED
      BY <1>1, <2>2, <3>2, CountTypes
  <2>5. QED
    BY <2>3, <2>4
<1>12. QED
  BY <1>2, <1>3, <1>4, <1>5, <1>6, <1>7, <1>8, <1>9, <1>10, <1>11
  DEF Next, Main, WriteThread, CompressThrows, WriterThrows, Ended

(* What the queue promises to add and repack, whatever the threads do: at  *)
(* most QSize blocks wait, they are written once and in order, and the     *)
(* threads are joined only once the last of them is in the archive.        *)
THEOREM FifoTheorem == Spec => RefinesFifo
<1>1. Init => Fifo!Init
  BY DEF Init, Fifo!Init
<1>2. IInv /\ [Next]_vars => [Fifo!Next]_<<given, archive, mpc = "done">>
  BY FifoStep
<1>3. QED
  BY <1>1, <1>2, InvHolds, PTL DEF Spec, RefinesFifo, Fifo!Spec, Fifo!fifoVars
=============================================================================
