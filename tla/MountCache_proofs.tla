------------------------- MODULE MountCache_proofs -------------------------
(***************************************************************************)
(* Proofs about MountCache, for any threads, readers, blocks and budget.   *)
(*                                                                         *)
(* Only three steps move a reader or a loading block: a thread takes a     *)
(* block to decompress it, and the decompression ends, or throws.  All the *)
(* others are Quiet: they neither begin nor end a decompression.           *)
(*                                                                         *)
(* On top of that: what is asked for ahead is in the queue or with one     *)
(* worker (AheadInv), and the bytes counted are those in the LRU.          *)
(***************************************************************************)
EXTENDS MountCache, SumLemmas, SequenceTheorems

Steps == {"idle", "fetch", "waiting", "decompress", "copy", "ahead",
          "work", "asleep", "erase", "done"}

OnBlock == {"fetch", "waiting", "decompress", "copy", "ahead", "erase"}

\* The types the proofs need.
Typed ==
  /\ pc \in [Threads -> Steps]
  /\ block \in [Threads -> Blocks \cup {NoBlock}]
  /\ reader \in [Threads -> Readers \cup {NoReader}]
  /\ free_readers_ \subseteq Readers
  /\ index_ \in [Blocks -> {"absent", "loading", "loaded"}]
  /\ lru_ \in Seq(Blocks)
  /\ queue_ \in Seq(Blocks)
  /\ pending_ \subseteq Blocks
  /\ \A t \in Threads : pc[t] \in OnBlock => block[t] \in Blocks
  /\ \A t \in Threads : (pc[t] = "decompress") <=> (reader[t] # NoReader)

(* A thread that is woken does not leave a decompression, nor begin one.   *)
LEMMA WokenSteps ==
  ASSUME NEW from \in [Threads -> Steps]
  PROVE  /\ Woken(from) \in [Threads -> Steps]
         /\ \A t \in Threads : (Woken(from)[t] = "decompress") <=> (from[t] = "decompress")
         /\ \A t \in Threads : (Woken(from)[t] \in OnBlock) <=> (from[t] \in OnBlock)
         /\ \A t \in Threads : from[t] # "waiting" => Woken(from)[t] = from[t]
BY DEF Woken, Steps, OnBlock

LEMMA WakeWorkerSteps ==
  ASSUME NEW from \in [Threads -> Steps], WakeWorker(from)
  PROVE  /\ pc' \in [Threads -> Steps]
         /\ \A t \in Threads : (pc'[t] = "decompress") <=> (from[t] = "decompress")
         /\ \A t \in Threads : (pc'[t] \in OnBlock) <=> (from[t] \in OnBlock)
<1> DEFINE asleep == {w \in Workers : from[w] = "asleep"}
<1>1. CASE asleep = {}
  BY <1>1 DEF WakeWorker
<1>2. CASE asleep # {}
  <2>1. PICK w \in asleep : pc' = [from EXCEPT ![w] = "work"]
    BY <1>2 DEF WakeWorker
  <2>2. w \in Threads /\ from[w] = "asleep"
    BY <2>1 DEF Threads
  <2>3. QED
    BY <2>1, <2>2 DEF Steps, OnBlock
<1>3. QED
  BY <1>1, <1>2

(* The length of what stays in the LRU: there is always one to choose.     *)
LEMMA KeptLength ==
  ASSUME NEW total, NEW l \in Seq(Blocks), l # <<>>
  PROVE  /\ Kept(total, l) \in 1..Len(l)
         /\ Kept(total, l) = 1 \/ Fits(total, l, Kept(total, l))
<1> DEFINE fits(n) == Fits(total, l, n)
           T == {n \in 1..Len(l) : n = 1 \/ fits(n)}
           U == {k \in Nat : Len(l) - k \in T}
<1>0. Len(l) \in Nat /\ Len(l) >= 1
  BY Len(l) # 0
<1> HIDE DEF fits
<1>1. U \subseteq Nat /\ U # {}
  <2>1. Len(l) - 1 \in Nat /\ Len(l) - (Len(l) - 1) = 1
    BY <1>0
  <2>2. 1 \in T
    BY <1>0
  <2>3. QED
    BY <2>1, <2>2
<1>2. PICK k \in U : \A j \in U : ~(<<j, k>> \in OpToRel(<, Nat))
  <2> HIDE DEF U
  <2>1. QED
    BY <1>1, WFMin, NatLessThanWellFounded
<1>3. \A j \in U : ~(j < k)
  BY <1>2, <1>1 DEF OpToRel
<1>4. Len(l) - k \in T /\ k \in Nat
  BY <1>2
<1>5. \A m \in Len(l) - k + 1..Len(l) : ~fits(m)
  <2> SUFFICES ASSUME NEW m \in Len(l) - k + 1..Len(l), fits(m)
               PROVE  FALSE
    OBVIOUS
  <2>1. m \in 1..Len(l)
    BY <1>0, <1>4
  <2>2. Len(l) - m \in Nat /\ Len(l) - (Len(l) - m) = m /\ Len(l) - m < k
    BY <1>0, <1>4, <2>1
  <2>3. Len(l) - m \in U
    BY <2>1, <2>2
  <2>4. QED
    BY <1>3, <2>2, <2>3
<1>6. \E n \in 1..Len(l) : /\ n = 1 \/ fits(n)
                           /\ \A m \in n + 1..Len(l) : ~fits(m)
  BY <1>4, <1>5
<1>7. QED
  BY <1>6 DEF Kept, fits

-----------------------------------------------------------------------------
(* The steps that neither begin nor end a decompression.                   *)

Quiet ==
  /\ UNCHANGED <<reader, free_readers_, index_>>
  /\ \A t \in Threads : (pc'[t] = "decompress") <=> (pc[t] = "decompress")
  /\ \A t \in Threads : pc[t] = "decompress" => block'[t] = block[t]

QuietNext ==
  \/ \E c \in Clients : \/ ReadCopy(c) \/ ReadAhead(c) \/ ReadReturn(c)
                        \/ \E b \in Blocks : ReadStart(c, b)
  \/ \E w \in Workers : \/ WorkerTake(w) \/ WorkerSleep(w) \/ WorkerReturn(w)
                        \/ WorkerErase(w) \/ WorkerSpurious(w)
  \/ \E t \in Threads : \/ FetchHit(t) \/ FetchGiveUp(t) \/ FetchWait(t)
                        \/ FetchSpurious(t)
  \/ Destroy
  \/ UNCHANGED vars

LEMMA NextIsQuietOr ==
  [Next]_vars => QuietNext \/ \E t \in Threads : FetchTake(t) \/ FetchLoaded(t) \/ FetchThrows(t)
<1> SUFFICES ASSUME [Next]_vars
             PROVE  QuietNext \/ \E t \in Threads : FetchTake(t) \/ FetchLoaded(t) \/ FetchThrows(t)
  OBVIOUS
<1>1. Clients \subseteq Threads /\ Workers \subseteq Threads
  BY DEF Threads
<1>2. CASE \E c \in Clients : Client(c) \/ \E b \in Blocks : ReadStart(c, b)
  BY <1>1, <1>2 DEF Client, Fetch, QuietNext
<1>3. CASE \E w \in Workers : Worker(w)
  BY <1>1, <1>3 DEF Worker, Fetch, QuietNext
<1>4. CASE \E t \in Threads : Spurious(t)
  BY <1>4 DEF Spurious, QuietNext
<1>5. CASE Destroy \/ Ended \/ UNCHANGED vars
  BY <1>5 DEF QuietNext, Ended
<1>6. QED
  BY <1>2, <1>3, <1>4, <1>5 DEF Next

LEMMA QuietStep == Typed /\ QuietNext => Quiet
<1> SUFFICES ASSUME Typed, QuietNext PROVE Quiet
  OBVIOUS
<1>t. /\ pc \in [Threads -> Steps] /\ block \in [Threads -> Blocks \cup {NoBlock}]
      /\ Clients \subseteq Threads /\ Workers \subseteq Threads
  BY DEF Typed, Threads
<1>1. ASSUME NEW c \in Clients, ReadCopy(c) PROVE Quiet
  BY <1>t, <1>1 DEF ReadCopy, ReadEnd, Quiet, cache
<1>2. ASSUME NEW c \in Clients, ReadAhead(c) PROVE Quiet
  <2>1. CASE UNCHANGED pc
    BY <1>t, <1>2, <2>1 DEF ReadAhead, Quiet, cache
  <2>2. CASE WakeWorker(pc)
    BY <1>t, <1>2, <2>2, WakeWorkerSteps DEF ReadAhead, Quiet, cache
  <2>3. QED
    BY <1>2, <2>1, <2>2 DEF ReadAhead
<1>3. ASSUME NEW c \in Clients, ReadReturn(c) PROVE Quiet
  BY <1>t, <1>3 DEF ReadReturn, ReadEnd, Quiet, cache
<1>4. ASSUME NEW c \in Clients, NEW b \in Blocks, ReadStart(c, b) PROVE Quiet
  BY <1>t, <1>4 DEF ReadStart, Quiet, cache
<1>5. ASSUME NEW w \in Workers, WorkerTake(w) PROVE Quiet
  BY <1>t, <1>5 DEF WorkerTake, Quiet, cache
<1>6. ASSUME NEW w \in Workers, WorkerSleep(w) \/ WorkerReturn(w) \/ WorkerSpurious(w)
      PROVE  Quiet
  BY <1>t, <1>6 DEF WorkerSleep, WorkerReturn, WorkerSpurious, Quiet, cache, locals
<1>7. ASSUME NEW w \in Workers, WorkerErase(w) PROVE Quiet
  BY <1>t, <1>7 DEF WorkerErase, Quiet, cache
<1>8. ASSUME NEW t \in Threads, FetchHit(t) PROVE Quiet
  BY <1>t, <1>8 DEF FetchHit, Fetched, Quiet, locals
<1>9. ASSUME NEW t \in Threads, FetchGiveUp(t) \/ FetchWait(t) \/ FetchSpurious(t)
      PROVE  Quiet
  BY <1>t, <1>9 DEF FetchGiveUp, FetchWait, FetchSpurious, Quiet, cache, locals
<1>10. ASSUME Destroy PROVE Quiet
  BY <1>t, <1>10, WokenSteps DEF Destroy, Quiet, cache, locals
<1>11. ASSUME UNCHANGED vars PROVE Quiet
  BY <1>11 DEF vars, Quiet, cache, locals
<1>12. QED
  BY <1>1, <1>2, <1>3, <1>4, <1>5, <1>6, <1>7, <1>8, <1>9, <1>10, <1>11 DEF QuietNext

-----------------------------------------------------------------------------
(* Types.                                                                  *)

\* What the LRU is after a block of it is used again.
LEMMA TouchedLru ==
  ASSUME NEW l \in Seq(Blocks), NEW k \in DOMAIN l
  PROVE  LET m == <<l[k]>> \o RemoveAt(l, k) IN
         /\ m \in Seq(Blocks)
         /\ Len(m) = Len(l)
         /\ m[1] = l[k]
         /\ \A i \in 2..Len(m) : m[i] = l[IF i <= k THEN i - 1 ELSE i]
<1> DEFINE front == SubSeq(l, 1, k - 1)
           back  == SubSeq(l, k + 1, Len(l))
<1>0. k \in 1..Len(l) /\ Len(l) \in Nat /\ l[k] \in Blocks
  OBVIOUS
<1>1. /\ front \in Seq(Blocks) /\ Len(front) = k - 1
      /\ \A i \in 1..k - 1 : front[i] = l[i]
  BY <1>0
<1>2. /\ back \in Seq(Blocks) /\ Len(back) = Len(l) - k
      /\ \A i \in 1..Len(l) - k : back[i] = l[k + i]
  BY <1>0
<1>3. RemoveAt(l, k) = front \o back
  BY DEF RemoveAt
<1> HIDE DEF front, back
<1>4. /\ front \o back \in Seq(Blocks) /\ Len(front \o back) = Len(l) - 1
      /\ \A i \in 1..Len(l) - 1 : (front \o back)[i] = IF i <= k - 1 THEN front[i] ELSE back[i - (k - 1)]
  BY <1>0, <1>1, <1>2, ConcatProperties
<1>5. \A i \in 1..Len(l) - 1 : (front \o back)[i] = l[IF i <= k - 1 THEN i ELSE i + 1]
  <2> SUFFICES ASSUME NEW i \in 1..Len(l) - 1
               PROVE  (front \o back)[i] = l[IF i <= k - 1 THEN i ELSE i + 1]
    OBVIOUS
  <2>1. CASE i <= k - 1
    BY <1>0, <1>1, <1>4, <2>1
  <2>2. CASE ~(i <= k - 1)
    <3>1. i - (k - 1) \in 1..Len(l) - k /\ k + (i - (k - 1)) = i + 1
      BY <1>0, <2>2
    <3>2. QED
      BY <1>2, <1>4, <2>2, <3>1
  <2>3. QED
    BY <2>1, <2>2
<1> DEFINE rest == front \o back
           m == <<l[k]>> \o rest
<1> HIDE DEF rest
<1>6. /\ m \in Seq(Blocks) /\ Len(m) = Len(l) /\ m[1] = l[k]
      /\ \A i \in 2..Len(m) : m[i] = rest[i - 1]
  BY <1>0, <1>4 DEF rest
<1>7. \A i \in 2..Len(m) : m[i] = l[IF i <= k THEN i - 1 ELSE i]
  <2> SUFFICES ASSUME NEW i \in 2..Len(m)
               PROVE  m[i] = l[IF i <= k THEN i - 1 ELSE i]
    OBVIOUS
  <2> HIDE DEF m
  <2>1. i - 1 \in 1..Len(l) - 1
    BY <1>0, <1>6
  <2>2. rest[i - 1] = l[IF i - 1 <= k - 1 THEN i - 1 ELSE (i - 1) + 1]
    BY <1>5, <2>1 DEF rest
  <2>3. QED
    BY <1>0, <1>6, <2>1, <2>2
<1>8. QED
  BY <1>3, <1>6, <1>7 DEF rest

(* The step of a decompression that ends: what stays in the cache.         *)
LEMMA LoadedLru ==
  ASSUME Typed, NEW t \in Threads, FetchLoaded(t)
  PROVE  \E n \in 1..Len(lru_) + 1 :
           LET l == <<block[t]>> \o lru_ IN
           /\ block[t] \in Blocks /\ l \in Seq(Blocks) /\ Len(l) = Len(lru_) + 1
           /\ l[1] = block[t] /\ \A i \in 2..Len(l) : l[i] = lru_[i - 1]
           /\ lru_' = SubSeq(l, 1, n)
           /\ index_' = [c \in Blocks |-> IF c = block[t] THEN "loaded"
                                          ELSE IF \E k \in n + 1..Len(l) : l[k] = c
                                          THEN "absent" ELSE index_[c]]
<1> DEFINE l == <<block[t]>> \o lru_
           n == Kept(total_bytes_ + Size[block[t]], l)
<1>1. block[t] \in Blocks /\ lru_ \in Seq(Blocks)
  BY DEF FetchLoaded, Typed, OnBlock
<1>2. /\ l \in Seq(Blocks) /\ Len(l) = Len(lru_) + 1 /\ l # <<>>
      /\ l[1] = block[t] /\ \A i \in 2..Len(l) : l[i] = lru_[i - 1]
  BY <1>1
<1>3. n \in 1..Len(l)
  <2> HIDE DEF l
  <2>1. QED
    BY <1>2, KeptLength
<1>4. /\ lru_' = SubSeq(l, 1, n)
      /\ index_' = [c \in Blocks |-> IF c = block[t] THEN "loaded"
                                     ELSE IF \E k \in n + 1..Len(l) : l[k] = c
                                     THEN "absent" ELSE index_[c]]
  BY DEF FetchLoaded
<1> HIDE DEF n
<1>5. QED
  BY <1>1, <1>2, <1>3, <1>4

LEMMA FreeReaders ==
  ASSUME Typed, NEW t \in Threads, Cardinality(free_readers_) >= Need(t)
  PROVE  /\ free_readers_ # {}
         /\ (t \in Workers /\ Cardinality(Readers) > 1) =>
              \A r : free_readers_ \ {r} # {}
<1>1. IsFiniteSet(free_readers_) /\ Cardinality(free_readers_) \in Nat
  BY MountAssumption, FS_Subset, FS_CardinalityType DEF Typed
<1>2. free_readers_ # {}
  BY <1>1, FS_EmptySet DEF Need
<1>3. ASSUME t \in Workers /\ Cardinality(Readers) > 1, NEW r
      PROVE  free_readers_ \ {r} # {}
  <2>1. Cardinality(free_readers_) >= 2
    BY <1>3 DEF Need
  <2>2. /\ IsFiniteSet(free_readers_ \ {r})
        /\ Cardinality(free_readers_ \ {r}) = IF r \in free_readers_
             THEN Cardinality(free_readers_) - 1 ELSE Cardinality(free_readers_)
    BY <1>1, FS_RemoveElement
  <2>3. Cardinality(free_readers_ \ {r}) # 0
    BY <1>1, <2>1, <2>2
  <2>4. QED
    BY <2>2, <2>3, FS_EmptySet
<1>4. QED
  BY <1>2, <1>3

\* What the steps of a reader's way through fetch do to the threads.
LEMMA TakeStep ==
  ASSUME Typed, NEW t \in Threads, FetchTake(t)
  PROVE  \E r \in free_readers_ :
           /\ r \in Readers /\ r # NoReader /\ block[t] \in Blocks
           /\ index_[block[t]] = "absent"
           /\ free_readers_' = free_readers_ \ {r}
           /\ reader' = [reader EXCEPT ![t] = r]
           /\ index_' = [index_ EXCEPT ![block[t]] = "loading"]
           /\ pc[t] = "fetch" /\ pc' = [pc EXCEPT ![t] = "decompress"]
           /\ block' = block /\ lru_' = lru_
           /\ (t \in Workers /\ Cardinality(Readers) > 1) => free_readers_' # {}
<1>1. free_readers_ # {}
  BY FreeReaders DEF FetchTake, ToMake
<1>2. PICK r \in free_readers_ : r = CHOOSE s \in free_readers_ : TRUE
  BY <1>1
<1>3. /\ free_readers_' = free_readers_ \ {r}
      /\ reader' = [reader EXCEPT ![t] = r]
  BY <1>2 DEF FetchTake
<1>4. r \in Readers /\ r # NoReader
  BY <1>2, MountAssumption DEF Typed
<1>5. (t \in Workers /\ Cardinality(Readers) > 1) => free_readers_' # {}
  BY <1>3, FreeReaders DEF FetchTake, ToMake
<1>6. QED
  BY <1>3, <1>4, <1>5 DEF FetchTake, ToMake, Typed, OnBlock

LEMMA EndStep ==
  ASSUME Typed, NEW t \in Threads, FetchLoaded(t) \/ FetchThrows(t)
  PROVE  /\ pc[t] = "decompress" /\ block[t] \in Blocks
         /\ free_readers_' = free_readers_ \cup {reader[t]}
         /\ reader' = [reader EXCEPT ![t] = NoReader]
         /\ pc' \in [Threads -> Steps]
         /\ \A u \in Threads : (pc'[u] = "decompress") <=> (u # t /\ pc[u] = "decompress")
         /\ \A u \in Threads : u # t => /\ block'[u] = block[u]
                                       /\ (pc'[u] \in OnBlock <=> pc[u] \in OnBlock)
         /\ block' \in [Threads -> Blocks \cup {NoBlock}]
         /\ pc'[t] \in OnBlock => block'[t] = block[t]
<1>t. /\ pc \in [Threads -> Steps] /\ block \in [Threads -> Blocks \cup {NoBlock}]
      /\ pc[t] = "decompress" /\ block[t] \in Blocks
  BY DEF Typed, FetchLoaded, FetchThrows, OnBlock
<1>1. PICK s \in {"erase", "copy", "idle"} :
        /\ pc' = Woken([pc EXCEPT ![t] = s])
        /\ \/ block' = block
           \/ s = "idle" /\ block' = [block EXCEPT ![t] = NoBlock]
  <2>1. CASE FetchLoaded(t)
    BY <2>1 DEF FetchLoaded, Fetched
  <2>2. CASE FetchThrows(t)
    <3>1. CASE t \in Clients
      <4>1. t \notin Workers
        BY <3>1, MountAssumption
      <4>2. /\ pc' = Woken([pc EXCEPT ![t] = "idle"])
            /\ block' = [block EXCEPT ![t] = NoBlock]
        BY <2>2, <3>1, <4>1 DEF FetchThrows, WokenByFailure, ReadEnd
      <4>3. QED
        BY <4>2
    <3>2. CASE t \notin Clients
      <4>1. t \in Workers
        BY <3>2 DEF Threads
      <4>2. pc' = Woken([pc EXCEPT ![t] = "erase"]) /\ block' = block
        BY <2>2, <3>2, <4>1 DEF FetchThrows, WokenByFailure
      <4>3. QED
        BY <4>2
    <3>3. QED
      BY <3>1, <3>2
  <2>3. QED
    BY <2>1, <2>2
<1>2. [pc EXCEPT ![t] = s] \in [Threads -> Steps]
  BY <1>t DEF Steps
<1>3. /\ pc' \in [Threads -> Steps]
      /\ \A u \in Threads : (pc'[u] = "decompress") <=> (u # t /\ pc[u] = "decompress")
      /\ \A u \in Threads : u # t => (pc'[u] \in OnBlock <=> pc[u] \in OnBlock)
      /\ pc'[t] = s
  <2> DEFINE p == [pc EXCEPT ![t] = s]
  <2>1. /\ p[t] = s /\ s # "decompress" /\ s # "waiting" /\ p \in [Threads -> Steps]
        /\ \A u \in Threads : u # t => p[u] = pc[u]
    BY <1>t, <1>2
  <2> HIDE DEF p
  <2>2. QED
    BY <1>1, <2>1, WokenSteps DEF p
<1>4. /\ block' \in [Threads -> Blocks \cup {NoBlock}]
      /\ \A u \in Threads : u # t => block'[u] = block[u]
      /\ pc'[t] \in OnBlock => block'[t] = block[t]
  BY <1>t, <1>1, <1>3 DEF OnBlock
<1>5. /\ free_readers_' = free_readers_ \cup {reader[t]}
      /\ reader' = [reader EXCEPT ![t] = NoReader]
  BY DEF FetchLoaded, FetchThrows, GivenBack
<1>6. QED
  BY <1>t, <1>3, <1>4, <1>5

LEMMA TypedStep == Typed /\ [Next]_vars => Typed'
<1> SUFFICES ASSUME Typed, [Next]_vars PROVE Typed'
  OBVIOUS
<1> USE DEF Typed, OnBlock
<1>t. Clients \subseteq Threads /\ Workers \subseteq Threads /\ NoBlock \in Blocks \cup {NoBlock}
  BY DEF Threads
<1>1. ASSUME NEW c \in Clients, ReadCopy(c) PROVE Typed'
  BY <1>t, <1>1 DEF ReadCopy, ReadEnd, Steps, cache, work
<1>2. ASSUME NEW c \in Clients, ReadAhead(c) PROVE Typed'
  <2>1. NextAhead(c) \in Blocks
    BY <1>2 DEF ReadAhead, MoreAhead
  <2>2. CASE UNCHANGED <<work, pc>>
    BY <1>2, <2>2 DEF ReadAhead, cache, work
  <2>3. CASE ~UNCHANGED <<work, pc>>
    <3>1. /\ pending_' = pending_ \cup {NextAhead(c)}
          /\ queue_' = Append(queue_, NextAhead(c))
          /\ WakeWorker(pc)
          /\ UNCHANGED <<cache, free_readers_, block, reader>>
      BY <1>2, <2>3 DEF ReadAhead
    <3>2. queue_' \in Seq(Blocks) /\ pending_' \subseteq Blocks
      BY <2>1, <3>1
    <3>3. /\ pc' \in [Threads -> Steps]
          /\ \A t \in Threads : pc'[t] \in OnBlock => block'[t] \in Blocks
          /\ \A t \in Threads : (pc'[t] = "decompress") <=> (reader'[t] # NoReader)
      <4>1. pc \in [Threads -> Steps]
        OBVIOUS
      <4>2. QED
        BY <3>1, <4>1, WakeWorkerSteps
    <3>4. QED
      BY <3>1, <3>2, <3>3 DEF cache
  <2>4. QED
    BY <2>2, <2>3
<1>3. ASSUME NEW c \in Clients, ReadReturn(c) PROVE Typed'
  BY <1>t, <1>3 DEF ReadReturn, ReadEnd, Steps, cache, work
<1>4. ASSUME NEW c \in Clients, NEW b \in Blocks, ReadStart(c, b) PROVE Typed'
  BY <1>t, <1>4 DEF ReadStart, Steps, cache, work
<1>5. ASSUME NEW w \in Workers, WorkerTake(w) PROVE Typed'
  <2>1. Head(queue_) \in Blocks /\ Tail(queue_) \in Seq(Blocks)
    BY <1>5 DEF WorkerTake
  <2>2. QED
    BY <1>t, <1>5, <2>1 DEF WorkerTake, Steps, cache
<1>6. ASSUME NEW w \in Workers, WorkerSleep(w) \/ WorkerReturn(w) \/ WorkerSpurious(w)
      PROVE  Typed'
  BY <1>t, <1>6 DEF WorkerSleep, WorkerReturn, WorkerSpurious, Steps, cache, work, locals
<1>7. ASSUME NEW w \in Workers, WorkerErase(w) PROVE Typed'
  BY <1>t, <1>7 DEF WorkerErase, StillPending, Steps, cache
<1>8. ASSUME NEW t \in Threads, FetchHit(t) PROVE Typed'
  <2>1. PICK k \in DOMAIN lru_ : lru_' = Touched(k)
    BY <1>8 DEF FetchHit
  <2>2. lru_' \in Seq(Blocks)
    BY <2>1, TouchedLru DEF Touched
  <2>3. QED
    BY <1>8, <2>2 DEF FetchHit, Fetched, Steps, work, locals
<1>9. ASSUME NEW t \in Threads, FetchGiveUp(t) \/ FetchWait(t) \/ FetchSpurious(t)
      PROVE  Typed'
  <2>1. block[t] \in Blocks
    BY <1>9 DEF FetchGiveUp, FetchWait, FetchSpurious
  <2>2. QED
    BY <1>9, <2>1 DEF FetchGiveUp, FetchWait, FetchSpurious, Steps, cache, work, locals
<1>10. ASSUME Destroy PROVE Typed'
  BY <1>10, WokenSteps DEF Destroy, Steps, cache, work, locals
<1>11. ASSUME NEW t \in Threads, FetchTake(t) PROVE Typed'
  <2>1. queue_' = queue_ /\ pending_' = pending_
    BY <1>11 DEF FetchTake, work
  <2>2. PICK r \in Readers :
          /\ r # NoReader /\ block[t] \in Blocks
          /\ free_readers_' = free_readers_ \ {r}
          /\ reader' = [reader EXCEPT ![t] = r]
          /\ index_' = [index_ EXCEPT ![block[t]] = "loading"]
          /\ pc' = [pc EXCEPT ![t] = "decompress"]
          /\ block' = block /\ lru_' = lru_
    BY <1>11, TakeStep
  <2>3. /\ pc' \in [Threads -> Steps] /\ reader' \in [Threads -> Readers \cup {NoReader}]
        /\ index_' \in [Blocks -> {"absent", "loading", "loaded"}]
    BY <2>2 DEF Steps
  <2>4. /\ \A u \in Threads : pc'[u] \in OnBlock => block'[u] \in Blocks
        /\ \A u \in Threads : (pc'[u] = "decompress") <=> (reader'[u] # NoReader)
    BY <2>2
  <2>5. QED
    BY <2>1, <2>2, <2>3, <2>4
<1>12. ASSUME NEW t \in Threads, FetchLoaded(t) \/ FetchThrows(t) PROVE Typed'
  <2>1. queue_' = queue_ /\ pending_' = pending_
    BY <1>12 DEF FetchLoaded, FetchThrows, work
  <2>2. lru_' \in Seq(Blocks) /\ index_' \in [Blocks -> {"absent", "loading", "loaded"}]
    <3>1. CASE FetchLoaded(t)
      <4>1. PICK n \in 1..Len(lru_) + 1 :
              LET l == <<block[t]>> \o lru_ IN
              /\ l \in Seq(Blocks) /\ Len(l) = Len(lru_) + 1
              /\ lru_' = SubSeq(l, 1, n)
              /\ index_' = [c \in Blocks |-> IF c = block[t] THEN "loaded"
                                             ELSE IF \E k \in n + 1..Len(l) : l[k] = c
                                             THEN "absent" ELSE index_[c]]
        BY <3>1, LoadedLru
      <4>2. lru_' \in Seq(Blocks)
        BY <4>1
      <4>3. index_' \in [Blocks -> {"absent", "loading", "loaded"}]
        BY <4>1
      <4>4. QED
        BY <4>2, <4>3
    <3>2. CASE FetchThrows(t)
      BY <3>2 DEF FetchThrows
    <3>3. QED
      BY <1>12, <3>1, <3>2
  <2>0. block'[t] \in Blocks \/ pc'[t] \notin OnBlock
    BY <1>12, EndStep
  <2>3. free_readers_' \subseteq Readers
    <3>1. reader[t] \in Readers
      BY <1>12, EndStep
    <3>2. QED
      BY <1>12, <3>1, EndStep
  <2>4. QED
    BY <1>12, <2>1, <2>2, <2>3, EndStep
<1>13. ASSUME UNCHANGED vars PROVE Typed'
  BY <1>13 DEF vars, cache, work, locals
<1>14. QED
  BY <1>1, <1>2, <1>3, <1>4, <1>5, <1>6, <1>7, <1>8, <1>9, <1>10, <1>11, <1>12, <1>13,
     NextIsQuietOr DEF QuietNext

-----------------------------------------------------------------------------
(* The readers.                                                            *)

LEMMA OneUserStep == Typed /\ ReaderHasOneUser /\ [Next]_vars => ReaderHasOneUser'
<1> SUFFICES ASSUME Typed, ReaderHasOneUser, [Next]_vars PROVE ReaderHasOneUser'
  OBVIOUS
<1>1. CASE QuietNext
  BY <1>1, QuietStep DEF ReaderHasOneUser, Quiet
<1>2. ASSUME NEW t \in Threads, FetchTake(t) PROVE ReaderHasOneUser'
  <2>1. PICK r \in free_readers_ :
          /\ r \in Readers /\ r # NoReader
          /\ free_readers_' = free_readers_ \ {r}
          /\ reader' = [reader EXCEPT ![t] = r]
          /\ pc' = [pc EXCEPT ![t] = "decompress"]
    BY <1>2, TakeStep
  <2>2. \A u \in Threads : reader'[u] = (IF u = t THEN r ELSE reader[u])
    BY <2>1 DEF Typed
  <2>3. \A u \in Threads : reader[u] # r
    BY <2>1 DEF ReaderHasOneUser
  <2>4. \A u \in Threads : (pc'[u] = "decompress") <=> (reader'[u] # NoReader)
    BY <1>2, TypedStep DEF Typed
  <2>5. reader[t] = NoReader
    BY <1>2 DEF Typed, FetchTake
  <2>6. \A s \in Readers : (s \in free_readers_') <=> ~\E u \in Threads : reader'[u] = s
    BY <2>1, <2>2, <2>3, <2>5, MountAssumption DEF ReaderHasOneUser
  <2>7. QED
    BY <2>2, <2>3, <2>4, <2>6 DEF ReaderHasOneUser
<1>3. ASSUME NEW t \in Threads, FetchLoaded(t) \/ FetchThrows(t) PROVE ReaderHasOneUser'
  <2>1. /\ free_readers_' = free_readers_ \cup {reader[t]}
        /\ \A u \in Threads : reader'[u] = (IF u = t THEN NoReader ELSE reader[u])
        /\ reader[t] \in Readers
    BY <1>3, EndStep DEF Typed
  <2>2. \A u \in Threads : (pc'[u] = "decompress") <=> (reader'[u] # NoReader)
    BY <1>3, TypedStep DEF Typed
  <2>3. \A s \in Readers : (s \in free_readers_') <=> ~\E u \in Threads : reader'[u] = s
    BY <2>1, MountAssumption DEF ReaderHasOneUser
  <2>4. QED
    BY <2>1, <2>2, <2>3 DEF ReaderHasOneUser
<1>4. QED
  BY <1>1, <1>2, <1>3, NextIsQuietOr

LEMMA ReaderLeftStep == Typed /\ ReaderLeftForReads /\ [Next]_vars => ReaderLeftForReads'
<1> SUFFICES ASSUME Typed, ReaderLeftForReads, [Next]_vars, Cardinality(Readers) > 1
             PROVE  free_readers_' # {} \/ \E c \in Clients : pc'[c] = "decompress"
  BY DEF ReaderLeftForReads
<1>t. Clients \subseteq Threads
  BY DEF Threads
<1>1. CASE QuietNext
  BY <1>t, <1>1, QuietStep DEF ReaderLeftForReads, Quiet
<1>2. ASSUME NEW t \in Threads, FetchTake(t)
      PROVE  free_readers_' # {} \/ \E c \in Clients : pc'[c] = "decompress"
  <2>1. CASE t \in Workers
    BY <1>2, <2>1, TakeStep
  <2>2. CASE t \notin Workers
    <3>1. t \in Clients /\ pc' = [pc EXCEPT ![t] = "decompress"]
      BY <1>2, <2>2, TakeStep DEF Threads
    <3>2. QED
      BY <3>1 DEF Typed
  <2>3. QED
    BY <2>1, <2>2
<1>3. ASSUME NEW t \in Threads, FetchLoaded(t) \/ FetchThrows(t)
      PROVE  free_readers_' # {}
  BY <1>3, EndStep
<1>4. QED
  BY <1>1, <1>2, <1>3, NextIsQuietOr

-----------------------------------------------------------------------------
(* The blocks.                                                             *)

LEMMA OneMakerStep ==
  Typed /\ OneMaker /\ LruIsWhatIsLoaded /\ [Next]_vars => OneMaker'
<1> SUFFICES ASSUME Typed, OneMaker, LruIsWhatIsLoaded, [Next]_vars PROVE OneMaker'
  OBVIOUS
<1>1. CASE QuietNext
  BY <1>1, QuietStep DEF OneMaker, Quiet
<1>2. ASSUME NEW t \in Threads, FetchTake(t) PROVE OneMaker'
  <2>1. /\ block[t] \in Blocks /\ index_[block[t]] = "absent"
        /\ \A b \in Blocks : index_'[b] = (IF b = block[t] THEN "loading" ELSE index_[b])
        /\ \A u \in Threads : pc'[u] = (IF u = t THEN "decompress" ELSE pc[u])
        /\ block' = block
    BY <1>2, TakeStep DEF Typed
  <2>2. \A u \in Threads : pc[u] = "decompress" => block[u] # block[t]
    BY <2>1 DEF OneMaker
  <2>3. \A u, v \in Threads :
          pc'[u] = "decompress" /\ pc'[v] = "decompress" /\ block'[u] = block'[v] => u = v
    BY <2>1, <2>2 DEF OneMaker
  <2>4. \A b \in Blocks : index_'[b] = "loading"
                         <=> \E u \in Threads : pc'[u] = "decompress" /\ block'[u] = b
    <3>1. pc[t] # "decompress"
      BY <1>2 DEF FetchTake
    <3>2. QED
      BY <2>1, <3>1 DEF OneMaker
  <2>5. QED
    BY <2>3, <2>4 DEF OneMaker
<1>3. ASSUME NEW t \in Threads, FetchLoaded(t) \/ FetchThrows(t) PROVE OneMaker'
  <2>1. /\ pc[t] = "decompress" /\ block[t] \in Blocks
        /\ \A u \in Threads : (pc'[u] = "decompress") <=> (u # t /\ pc[u] = "decompress")
        /\ \A u \in Threads : u # t => block'[u] = block[u]
    BY <1>3, EndStep
  <2>2. \A b \in Blocks : (index_'[b] = "loading") <=> (b # block[t] /\ index_[b] = "loading")
    <3>1. CASE FetchLoaded(t)
      <4>1. PICK n \in 1..Len(lru_) + 1 :
              LET l == <<block[t]>> \o lru_ IN
              /\ Len(l) = Len(lru_) + 1
              /\ \A i \in 2..Len(l) : l[i] = lru_[i - 1]
              /\ index_' = [c \in Blocks |-> IF c = block[t] THEN "loaded"
                                             ELSE IF \E k \in n + 1..Len(l) : l[k] = c
                                             THEN "absent" ELSE index_[c]]
        BY <3>1, LoadedLru
      <4> DEFINE l == <<block[t]>> \o lru_
      <4>2. \A k \in n + 1..Len(l) : l[k] = lru_[k - 1] /\ k - 1 \in DOMAIN lru_
        <5>1. lru_ \in Seq(Blocks) /\ Len(lru_) \in Nat /\ DOMAIN lru_ = 1..Len(lru_)
          BY DEF Typed
        <5> HIDE DEF l
        <5>2. Len(l) = Len(lru_) + 1 /\ \A i \in 2..Len(l) : l[i] = lru_[i - 1]
          BY <4>1 DEF l
        <5>3. QED
          BY <5>1, <5>2
      <4>3. \A k \in n + 1..Len(l) : index_[l[k]] = "loaded"
        <5> HIDE DEF l
        <5>1. \A k \in DOMAIN lru_ : index_[lru_[k]] = "loaded"
          BY DEF LruIsWhatIsLoaded
        <5>2. QED
          BY <4>2, <5>1
      <4>4. \A c \in Blocks : index_'[c] = IF c = block[t] THEN "loaded"
                                     ELSE IF \E k \in n + 1..Len(l) : l[k] = c
                                     THEN "absent" ELSE index_[c]
        BY <4>1
      <4> HIDE DEF l
      <4>5. QED
        BY <4>3, <4>4
    <3>2. CASE FetchThrows(t)
      BY <2>1, <3>2 DEF FetchThrows, Typed
    <3>3. QED
      BY <1>3, <3>1, <3>2
  <2>3. QED
    BY <2>1, <2>2 DEF OneMaker
<1>4. QED
  BY <1>1, <1>2, <1>3, NextIsQuietOr

\* A block used again goes to the front: the LRU holds what it held, each once.
LEMMA HitLru ==
  ASSUME Typed, LruIsWhatIsLoaded, NEW t \in Threads, FetchHit(t)
  PROVE  LruIsWhatIsLoaded'
<1>1. PICK k \in DOMAIN lru_ : lru_' = <<lru_[k]>> \o RemoveAt(lru_, k)
  BY DEF FetchHit, Touched
<1>2. lru_ \in Seq(Blocks) /\ Len(lru_) \in Nat /\ DOMAIN lru_ = 1..Len(lru_)
  BY DEF Typed
<1>3. /\ lru_' \in Seq(Blocks) /\ Len(lru_') = Len(lru_) /\ lru_'[1] = lru_[k]
      /\ \A i \in 2..Len(lru_') : lru_'[i] = lru_[IF i <= k THEN i - 1 ELSE i]
  BY <1>1, <1>2, TouchedLru
<1>4. DOMAIN lru_' = 1..Len(lru_)
  BY <1>3
<1> DEFINE was(i) == IF i = 1 THEN k ELSE IF i <= k THEN i - 1 ELSE i
<1>5. \A i \in DOMAIN lru_' : was(i) \in DOMAIN lru_ /\ lru_'[i] = lru_[was(i)]
  BY <1>2, <1>3, <1>4
<1>6. \A i, j \in DOMAIN lru_' : was(i) = was(j) => i = j
  BY <1>2, <1>4
<1>7. \A j \in DOMAIN lru_ : \E i \in DOMAIN lru_' : was(i) = j
  <2> SUFFICES ASSUME NEW j \in DOMAIN lru_ PROVE \E i \in DOMAIN lru_' : was(i) = j
    OBVIOUS
  <2>1. CASE j < k
    <3>1. j + 1 \in DOMAIN lru_' /\ was(j + 1) = j
      BY <1>2, <1>4, <2>1
    <3>2. QED
      BY <3>1
  <2>2. CASE j = k
    <3>1. 1 \in DOMAIN lru_' /\ was(1) = j
      BY <1>2, <1>4, <2>2
    <3>2. QED
      BY <3>1
  <2>3. CASE j > k
    <3>1. j \in DOMAIN lru_' /\ was(j) = j
      BY <1>2, <1>4, <2>3
    <3>2. QED
      BY <3>1
  <2>4. QED
    BY <1>2, <2>1, <2>2, <2>3
<1>8. index_' = index_
  BY DEF FetchHit
<1> HIDE DEF was
<1>9. QED
  BY <1>5, <1>6, <1>7, <1>8 DEF LruIsWhatIsLoaded

\* A block that was loading is not in the LRU yet, and a victim leaves both the LRU
\* and the index.
LEMMA LoadLru ==
  ASSUME Typed, OneMaker, LruIsWhatIsLoaded, NEW t \in Threads, FetchLoaded(t)
  PROVE  LruIsWhatIsLoaded'
<1>1. PICK n \in 1..Len(lru_) + 1 :
        LET l == <<block[t]>> \o lru_ IN
        /\ block[t] \in Blocks /\ l \in Seq(Blocks) /\ Len(l) = Len(lru_) + 1
        /\ l[1] = block[t] /\ \A i \in 2..Len(l) : l[i] = lru_[i - 1]
        /\ lru_' = SubSeq(l, 1, n)
        /\ index_' = [c \in Blocks |-> IF c = block[t] THEN "loaded"
                                       ELSE IF \E k \in n + 1..Len(l) : l[k] = c
                                       THEN "absent" ELSE index_[c]]
  BY LoadedLru
<1> DEFINE l == <<block[t]>> \o lru_
<1>2. /\ block[t] \in Blocks /\ l \in Seq(Blocks) /\ Len(l) = Len(lru_) + 1
      /\ l[1] = block[t] /\ \A i \in 2..Len(l) : l[i] = lru_[i - 1]
      /\ lru_' = SubSeq(l, 1, n)
  BY <1>1
<1>3. \A c \in Blocks : index_'[c] = IF c = block[t] THEN "loaded"
                               ELSE IF \E k \in n + 1..Len(l) : l[k] = c
                               THEN "absent" ELSE index_[c]
  BY <1>1
<1>4. Len(lru_) \in Nat /\ DOMAIN lru_ = 1..Len(lru_)
  BY DEF Typed
<1> HIDE DEF l
<1>5. index_[block[t]] = "loading"
  BY <1>2 DEF FetchLoaded, OneMaker
<1>6. \A k \in DOMAIN lru_ : lru_[k] \in Blocks /\ index_[lru_[k]] = "loaded"
  BY DEF LruIsWhatIsLoaded
<1>7. \A k \in DOMAIN lru_ : lru_[k] # block[t]
  BY <1>5, <1>6
<1>8. /\ n \in Nat /\ 1 <= n /\ n <= Len(lru_) + 1
      /\ DOMAIN lru_' = 1..n /\ \A i \in 1..n : lru_'[i] = l[i]
  BY <1>2, <1>4
<1>9. \A i, j \in 1..Len(lru_) + 1 : l[i] = l[j] => i = j
  <2> SUFFICES ASSUME NEW i \in 1..Len(lru_) + 1, NEW j \in 1..Len(lru_) + 1, l[i] = l[j]
               PROVE  i = j
    OBVIOUS
  <2>1. CASE i = 1 /\ j # 1
    <3>1. j - 1 \in DOMAIN lru_ /\ l[j] = lru_[j - 1]
      BY <1>2, <1>4, <2>1
    <3>2. QED
      BY <1>2, <1>7, <2>1, <3>1
  <2>2. CASE j = 1 /\ i # 1
    <3>1. i - 1 \in DOMAIN lru_ /\ l[i] = lru_[i - 1]
      BY <1>2, <1>4, <2>2
    <3>2. QED
      BY <1>2, <1>7, <2>2, <3>1
  <2>3. CASE i # 1 /\ j # 1
    <3>1. i - 1 \in DOMAIN lru_ /\ j - 1 \in DOMAIN lru_ /\ lru_[i - 1] = lru_[j - 1]
      BY <1>2, <1>4, <2>3
    <3>2. i - 1 = j - 1
      BY <3>1 DEF LruIsWhatIsLoaded
    <3>3. QED
      BY <3>2
  <2>4. QED
    BY <2>1, <2>2, <2>3
<1>10. \A j, k \in DOMAIN lru_' : lru_'[j] = lru_'[k] => j = k
  BY <1>4, <1>8, <1>9
<1>11. \A k \in DOMAIN lru_' : lru_'[k] \in Blocks /\ index_'[lru_'[k]] = "loaded"
  <2> SUFFICES ASSUME NEW k \in 1..n PROVE l[k] \in Blocks /\ index_'[l[k]] = "loaded"
    BY <1>8
  <2>1. CASE k = 1
    BY <1>2, <1>3, <2>1
  <2>2. CASE k # 1
    <3>1. k - 1 \in DOMAIN lru_ /\ l[k] = lru_[k - 1]
      BY <1>2, <1>4, <1>8, <2>2
    <3>2. \A i \in n + 1..Len(l) : l[i] # l[k]
      BY <1>2, <1>4, <1>8, <1>9
    <3>3. QED
      BY <1>3, <1>6, <1>7, <3>1, <3>2
  <2>3. QED
    BY <2>1, <2>2
<1>12. \A c \in Blocks : index_'[c] = "loaded" => \E k \in DOMAIN lru_' : lru_'[k] = c
  <2> SUFFICES ASSUME NEW c \in Blocks, index_'[c] = "loaded"
               PROVE  \E k \in 1..n : l[k] = c
    BY <1>8
  <2>1. CASE c = block[t]
    BY <1>2, <1>8, <2>1
  <2>2. CASE c # block[t]
    <3>1. index_[c] = "loaded" /\ ~\E k \in n + 1..Len(l) : l[k] = c
      BY <1>3, <2>2
    <3>2. PICK k \in DOMAIN lru_ : lru_[k] = c
      BY <3>1 DEF LruIsWhatIsLoaded
    <3>3. k + 1 \in 2..Len(l) /\ (k + 1) - 1 = k
      BY <1>2, <1>4
    <3>4. l[k + 1] = c
      BY <1>2, <3>2, <3>3
    <3>5. k + 1 \in 1..n
      BY <1>2, <1>4, <1>8, <3>1, <3>3, <3>4
    <3>6. QED
      BY <3>4, <3>5
  <2>3. QED
    BY <2>1, <2>2
<1>13. QED
  BY <1>10, <1>11, <1>12 DEF LruIsWhatIsLoaded

LEMMA LruStep ==
  Typed /\ OneMaker /\ LruIsWhatIsLoaded /\ [Next]_vars => LruIsWhatIsLoaded'
<1> SUFFICES ASSUME Typed, OneMaker, LruIsWhatIsLoaded, [Next]_vars PROVE LruIsWhatIsLoaded'
  OBVIOUS
<1>1. CASE QuietNext
  <2>1. CASE \E t \in Threads : FetchHit(t)
    BY <2>1, HitLru
  <2>2. CASE ~\E t \in Threads : FetchHit(t)
    <3>1. lru_' = lru_ /\ index_' = index_
      BY <1>1, <2>2 DEF QuietNext, ReadCopy, ReadAhead, ReadReturn, ReadStart, WorkerTake,
         WorkerSleep, WorkerReturn, WorkerErase, WorkerSpurious, FetchGiveUp, FetchWait,
         FetchSpurious, Destroy, vars, cache
    <3>2. QED
      BY <3>1 DEF LruIsWhatIsLoaded
  <2>3. QED
    BY <2>1, <2>2
<1>2. ASSUME NEW t \in Threads, FetchTake(t) PROVE LruIsWhatIsLoaded'
  <2>1. /\ block[t] \in Blocks /\ index_[block[t]] = "absent" /\ lru_' = lru_
        /\ \A b \in Blocks : index_'[b] = (IF b = block[t] THEN "loading" ELSE index_[b])
    BY <1>2, TakeStep DEF Typed
  <2>2. {b \in Blocks : index_'[b] = "loaded"} = {b \in Blocks : index_[b] = "loaded"}
    BY <2>1
  <2>3. QED
    BY <2>1, <2>2 DEF LruIsWhatIsLoaded
<1>3. ASSUME NEW t \in Threads, FetchLoaded(t) PROVE LruIsWhatIsLoaded'
  BY <1>3, LoadLru
<1>4. ASSUME NEW t \in Threads, FetchThrows(t) PROVE LruIsWhatIsLoaded'
  <2>1. /\ block[t] \in Blocks /\ lru_' = lru_ /\ pc[t] = "decompress"
        /\ \A b \in Blocks : index_'[b] = (IF b = block[t] THEN "absent" ELSE index_[b])
    BY <1>4, EndStep DEF FetchThrows, Typed
  <2>2. index_[block[t]] = "loading"
    BY <2>1 DEF OneMaker
  <2>3. {b \in Blocks : index_'[b] = "loaded"} = {b \in Blocks : index_[b] = "loaded"}
    BY <2>1, <2>2
  <2>4. QED
    BY <2>1, <2>3 DEF LruIsWhatIsLoaded
<1>5. QED
  BY <1>1, <1>2, <1>3, <1>4, NextIsQuietOr

-----------------------------------------------------------------------------
(* The theorems.                                                           *)

CacheInv == Typed /\ ReaderHasOneUser /\ ReaderLeftForReads /\ OneMaker /\ LruIsWhatIsLoaded

LEMMA InitCache == Init => CacheInv
<1> SUFFICES ASSUME Init PROVE CacheInv
  OBVIOUS
<1>1. Typed
  BY DEF Init, Typed, Steps, OnBlock, Threads
<1>2. \A t \in Threads : pc[t] # "decompress"
  BY DEF Init
<1>3. ReaderHasOneUser
  BY <1>2, MountAssumption DEF Init, ReaderHasOneUser
<1>4. ReaderLeftForReads
  BY MountAssumption DEF Init, ReaderLeftForReads
<1>5. OneMaker
  BY <1>2 DEF Init, OneMaker
<1>6. LruIsWhatIsLoaded
  BY DEF Init, LruIsWhatIsLoaded
<1>7. QED
  BY <1>1, <1>3, <1>4, <1>5, <1>6 DEF CacheInv

LEMMA CacheInvariant == Spec => []CacheInv
<1>1. CacheInv /\ [Next]_vars => CacheInv'
  BY TypedStep, OneUserStep, ReaderLeftStep, OneMakerStep, LruStep DEF CacheInv
<1>2. QED
  BY InitCache, <1>1, PTL DEF Spec

(* No reader, an archive handle with its position (164264-164300), ever has *)
(* two threads on it, and none is lost, whatever a decompression throws.   *)
THEOREM ReaderTheorem == Spec => []ReaderHasOneUser
<1>1. CacheInv => ReaderHasOneUser
  BY DEF CacheInv
<1>2. QED
  BY CacheInvariant, <1>1, PTL

(* The prefetches never hold all the readers: a read that needs one now     *)
(* waits for another read at most, never for prefetches alone.             *)
THEOREM LeftTheorem == Spec => []ReaderLeftForReads
<1>1. CacheInv => ReaderLeftForReads
  BY DEF CacheInv
<1>2. QED
  BY CacheInvariant, <1>1, PTL

(* A block two threads want is decompressed by one of them at a time, and   *)
(* is "loading" exactly while it is.                                       *)
THEOREM MakerTheorem == Spec => []OneMaker
<1>1. CacheInv => OneMaker
  BY DEF CacheInv
<1>2. QED
  BY CacheInvariant, <1>1, PTL

(* The LRU is what is loaded, each block once, through every eviction.      *)
THEOREM LruTheorem == Spec => []LruIsWhatIsLoaded
<1>1. CacheInv => LruIsWhatIsLoaded
  BY DEF CacheInv
<1>2. QED
  BY CacheInvariant, <1>1, PTL

-----------------------------------------------------------------------------
(* That pending_ holds the blocks of the queue and of the workers, and no   *)
(* other, is kept only because none of them is there twice: a worker that   *)
(* takes its own block out of pending_ would take out another one's.       *)

\* Where a worker has no block.
Jobless == {"work", "asleep", "done"}

InQueue(b) == \E k \in DOMAIN queue_ : queue_[k] = b

WithWorker(b) == \E w \in Workers : block[w] = b /\ b # NoBlock

JoblessHasNone == \A w \in Workers : (pc[w] \in Jobless) <=> (block[w] = NoBlock)

\* No block is twice in the queue, with two workers, or with one and in the queue.
AskedOnce ==
  /\ \A j, k \in DOMAIN queue_ : queue_[j] = queue_[k] => j = k
  /\ \A v, w \in Workers : block[v] = block[w] /\ block[v] # NoBlock => v = w
  /\ \A b \in Blocks : ~(InQueue(b) /\ WithWorker(b))

PendingIs == \A b \in Blocks : (b \in pending_) <=> (InQueue(b) \/ WithWorker(b))

AheadInv == JoblessHasNone /\ AskedOnce /\ PendingIs

LEMMA PendingIsProperty ==
  ASSUME Typed, PendingIs
  PROVE  PendingIsOnItsWay
<1>1. /\ pending_ \subseteq Blocks /\ queue_ \in Seq(Blocks) /\ Workers \subseteq Threads
      /\ block \in [Threads -> Blocks \cup {NoBlock}] /\ NoBlock \notin Blocks
  BY DEF Typed, Threads, Blocks, NoBlock
<1>2. \A b : InQueue(b) => b \in Blocks
  BY <1>1 DEF InQueue
<1>3. \A b : WithWorker(b) => b \in Blocks
  BY <1>1 DEF WithWorker
<1>4. \A b : (b \in pending_) <=> (InQueue(b) \/ WithWorker(b))
  BY <1>1, <1>2, <1>3 DEF PendingIs
<1>5. /\ \A b : InQueue(b) <=> b \in {queue_[k] : k \in DOMAIN queue_}
      /\ \A b : WithWorker(b) <=> b \in {block[w] : w \in {v \in Workers : block[v] # NoBlock}}
  BY DEF InQueue, WithWorker
<1>6. QED
  BY <1>4, <1>5 DEF PendingIsOnItsWay

-----------------------------------------------------------------------------
(* The steps that leave the queue and the blocks of the workers.           *)

Keeps ==
  /\ UNCHANGED work
  /\ \A w \in Workers : block'[w] = block[w]
  /\ \A w \in Workers : (pc'[w] \in Jobless) <=> (pc[w] \in Jobless)

LEMMA KeepsStep ==
  ASSUME AheadInv, Keeps
  PROVE  AheadInv'
<1>1. queue_' = queue_ /\ pending_' = pending_
  BY DEF Keeps, work
<1>2. \A b : InQueue(b)' <=> InQueue(b)
  BY <1>1 DEF InQueue
<1>3. \A b : WithWorker(b)' <=> WithWorker(b)
  BY DEF WithWorker, Keeps
<1>4. JoblessHasNone'
  BY DEF AheadInv, JoblessHasNone, Keeps
<1>5. AskedOnce'
  <2>1. \A v, w \in Workers : block'[v] = block'[w] /\ block'[v] # NoBlock => v = w
    BY DEF AheadInv, AskedOnce, Keeps
  <2>2. QED
    BY <1>1, <1>2, <1>3, <2>1 DEF AheadInv, AskedOnce
<1>6. PendingIs'
  BY <1>1, <1>2, <1>3 DEF AheadInv, PendingIs
<1>7. QED
  BY <1>4, <1>5, <1>6 DEF AheadInv

LEMMA WokenJobless ==
  ASSUME NEW from \in [Threads -> Steps]
  PROVE  \A t \in Threads : (Woken(from)[t] \in Jobless) <=> (from[t] \in Jobless)
BY DEF Woken, Steps, Jobless

LEMMA WakeWorkerJobless ==
  ASSUME NEW from \in [Threads -> Steps], WakeWorker(from)
  PROVE  \A t \in Threads : (pc'[t] \in Jobless) <=> (from[t] \in Jobless)
<1> DEFINE asleep == {w \in Workers : from[w] = "asleep"}
<1>1. CASE asleep = {}
  BY <1>1 DEF WakeWorker
<1>2. CASE asleep # {}
  <2>1. PICK w \in asleep : pc' = [from EXCEPT ![w] = "work"]
    BY <1>2 DEF WakeWorker
  <2>2. QED
    BY <2>1 DEF Jobless
<1>3. QED
  BY <1>1, <1>2

\* A read asks for one more block, the first of the three steps that do not.
AsksAhead(c) ==
  /\ NextAhead(c) \in Blocks /\ NextAhead(c) \notin pending_
  /\ pending_' = pending_ \cup {NextAhead(c)}
  /\ queue_' = Append(queue_, NextAhead(c))
  /\ block' = block
  /\ \A t \in Threads : (pc'[t] \in Jobless) <=> (pc[t] \in Jobless)

LEMMA ClientKeeps ==
  ASSUME Typed, NEW c \in Clients,
         ReadCopy(c) \/ ReadAhead(c) \/ ReadReturn(c) \/ \E b \in Blocks : ReadStart(c, b)
  PROVE  Keeps \/ AsksAhead(c)
<1>t. /\ pc \in [Threads -> Steps] /\ block \in [Threads -> Blocks \cup {NoBlock}]
      /\ c \in Threads /\ Workers \subseteq Threads /\ c \notin Workers
  BY MountAssumption DEF Typed, Threads
<1>1. CASE ReadCopy(c)
  BY <1>1, <1>t DEF ReadCopy, ReadEnd, Keeps
<1>2. CASE ReadAhead(c)
  <2>1. CASE shutdown_ \/ Workers = {} \/ Known(NextAhead(c))
    BY <1>2, <2>1 DEF ReadAhead, Keeps, work
  <2>2. CASE ~(shutdown_ \/ Workers = {} \/ Known(NextAhead(c)))
    <3>1. WakeWorker(pc)
      BY <1>2, <2>2 DEF ReadAhead
    <3>2. \A t \in Threads : (pc'[t] \in Jobless) <=> (pc[t] \in Jobless)
      BY <1>t, <3>1, WakeWorkerJobless
    <3>3. QED
      BY <1>2, <2>2, <3>2 DEF ReadAhead, MoreAhead, Known, AsksAhead
  <2>3. QED
    BY <2>1, <2>2
<1>3. CASE ReadReturn(c)
  BY <1>3, <1>t DEF ReadReturn, ReadEnd, Keeps
<1>4. CASE \E b \in Blocks : ReadStart(c, b)
  BY <1>4, <1>t DEF ReadStart, Keeps
<1>5. QED
  BY <1>1, <1>2, <1>3, <1>4

LEMMA FetchKeeps ==
  ASSUME Typed, NEW t \in Threads, Fetch(t)
  PROVE  Keeps
<1>t. /\ pc \in [Threads -> Steps] /\ block \in [Threads -> Blocks \cup {NoBlock}]
      /\ Workers \subseteq Threads /\ Clients \cap Workers = {}
  BY MountAssumption DEF Typed, Threads
<1>f. Fetched(t) \in Steps \ Jobless
  BY DEF Fetched, Steps, Jobless
<1>1. CASE FetchHit(t)
  BY <1>1, <1>t, <1>f DEF FetchHit, Keeps, Jobless, locals
<1>2. CASE FetchGiveUp(t)
  BY <1>2, <1>t DEF FetchGiveUp, Keeps, Jobless, locals
<1>3. CASE FetchTake(t)
  BY <1>3, <1>t DEF FetchTake, Keeps, Jobless
<1>4. CASE FetchWait(t)
  BY <1>4, <1>t DEF FetchWait, Keeps, Jobless, locals
<1>5. CASE FetchLoaded(t)
  <2> DEFINE from == [pc EXCEPT ![t] = Fetched(t)]
  <2>1. from \in [Threads -> Steps] /\ pc' = Woken(from) /\ pc[t] = "decompress"
    BY <1>5, <1>t, <1>f DEF FetchLoaded
  <2>2. \A u \in Threads : (from[u] \in Jobless) <=> (pc[u] \in Jobless)
    BY <1>t, <1>f, <2>1 DEF Jobless
  <2>3. \A u \in Threads : (pc'[u] \in Jobless) <=> (from[u] \in Jobless)
    <3> HIDE DEF from
    <3>1. QED
      BY <2>1, WokenJobless
  <2>4. QED
    BY <1>5, <1>t, <2>2, <2>3 DEF FetchLoaded, Keeps
<1>6. CASE FetchThrows(t)
  <2> DEFINE from == [pc EXCEPT ![t] = IF t \in Workers THEN "erase" ELSE "idle"]
  <2>1. from \in [Threads -> Steps] /\ pc' = Woken(from) /\ pc[t] = "decompress"
    BY <1>6, <1>t DEF FetchThrows, WokenByFailure, Steps
  <2>2. \A u \in Threads : (from[u] \in Jobless) <=> (pc[u] \in Jobless)
    BY <1>t, <2>1 DEF Jobless
  <2>3. \A u \in Threads : (pc'[u] \in Jobless) <=> (from[u] \in Jobless)
    <3> HIDE DEF from
    <3>1. QED
      BY <2>1, WokenJobless
  <2>4. \A w \in Workers : block'[w] = block[w]
    BY <1>6, <1>t DEF FetchThrows, ReadEnd
  <2>5. QED
    BY <1>6, <1>t, <2>2, <2>3, <2>4 DEF FetchThrows, Keeps
<1>7. QED
  BY <1>1, <1>2, <1>3, <1>4, <1>5, <1>6 DEF Fetch

-----------------------------------------------------------------------------
(* The steps that change them.                                             *)

LEMMA AskedStep ==
  ASSUME Typed, AheadInv, NEW c \in Clients, AsksAhead(c)
  PROVE  AheadInv'
<1> DEFINE n == NextAhead(c)
           L == Len(queue_)
<1>1. /\ n \in Blocks /\ n \notin pending_ /\ pending_' = pending_ \cup {n}
      /\ block' = block /\ \A t \in Threads : (pc'[t] \in Jobless) <=> (pc[t] \in Jobless)
      /\ Workers \subseteq Threads
  BY DEF AsksAhead, Threads
<1>2. /\ L \in Nat /\ DOMAIN queue_ = 1..L /\ DOMAIN queue_' = 1..L + 1
      /\ \A k \in 1..L : queue_'[k] = queue_[k]
      /\ queue_'[L + 1] = n
  BY DEF AsksAhead, Typed
<1>3. ~InQueue(n) /\ ~WithWorker(n)
  BY <1>1 DEF AheadInv, PendingIs
<1> HIDE DEF n, L
<1>4. \A b : InQueue(b)' <=> (InQueue(b) \/ b = n)
  BY <1>2 DEF InQueue
<1>5. \A b : WithWorker(b)' <=> WithWorker(b)
  BY <1>1 DEF WithWorker
<1>6. \A j, k \in DOMAIN queue_' : queue_'[j] = queue_'[k] => j = k
  BY <1>2, <1>3 DEF AheadInv, AskedOnce, InQueue
<1>7. AskedOnce'
  BY <1>1, <1>3, <1>4, <1>5, <1>6 DEF AheadInv, AskedOnce
<1>8. PendingIs'
  BY <1>1, <1>4, <1>5 DEF AheadInv, PendingIs
<1>9. JoblessHasNone'
  BY <1>1 DEF AheadInv, JoblessHasNone
<1>10. QED
  BY <1>7, <1>8, <1>9 DEF AheadInv

LEMMA TakenStep ==
  ASSUME Typed, AheadInv, NEW w \in Workers, WorkerTake(w)
  PROVE  AheadInv'
<1> DEFINE h == Head(queue_)
           L == Len(queue_)
<1>1. /\ pending_' = pending_ /\ pc[w] = "work" /\ w \in Threads /\ Workers \subseteq Threads
      /\ \A v \in Threads : block'[v] = (IF v = w THEN h ELSE block[v])
      /\ \A v \in Threads : pc'[v] = (IF v = w THEN "fetch" ELSE pc[v])
  BY DEF WorkerTake, Typed, Threads
<1>2. /\ L \in Nat \ {0} /\ DOMAIN queue_ = 1..L /\ DOMAIN queue_' = 1..L - 1
      /\ \A k \in 1..L - 1 : queue_'[k] = queue_[k + 1]
      /\ h = queue_[1] /\ h \in Blocks
  BY DEF WorkerTake, Typed
<1>3. block[w] = NoBlock /\ h # NoBlock
  BY <1>1, <1>2 DEF AheadInv, JoblessHasNone, Jobless, Blocks, NoBlock
<1> HIDE DEF h, L
<1>4. InQueue(h) /\ ~WithWorker(h)
  BY <1>2 DEF InQueue, AheadInv, AskedOnce
<1>5. \A j, k \in 1..L : queue_[j] = queue_[k] => j = k
  BY <1>2 DEF AheadInv, AskedOnce
<1>6. \A b : InQueue(b)' <=> (InQueue(b) /\ b # h)
  <2>1. \A k \in 1..L - 1 : k + 1 \in 1..L /\ queue_'[k] = queue_[k + 1] /\ queue_[k + 1] # h
    BY <1>2, <1>5
  <2>2. \A k \in 1..L : k # 1 => k - 1 \in 1..L - 1 /\ queue_'[k - 1] = queue_[k]
    BY <1>2
  <2>3. ASSUME NEW b, InQueue(b), b # h PROVE \E k \in 1..L - 1 : queue_'[k] = b
    <3>1. PICK k \in 1..L : queue_[k] = b
      BY <1>2, <2>3 DEF InQueue
    <3>2. k - 1 \in 1..L - 1 /\ queue_'[k - 1] = b
      BY <1>2, <2>2, <2>3, <3>1
    <3>3. QED
      BY <3>2
  <2>4. ASSUME NEW b, NEW k \in 1..L - 1, queue_'[k] = b PROVE InQueue(b) /\ b # h
    BY <1>2, <2>1, <2>4 DEF InQueue
  <2>5. \A b : InQueue(b)' <=> \E k \in 1..L - 1 : queue_'[k] = b
    BY <1>2 DEF InQueue
  <2>6. QED
    BY <2>3, <2>4, <2>5
<1>7. \A b : WithWorker(b)' <=> (WithWorker(b) \/ b = h)
  BY <1>1, <1>3 DEF WithWorker
<1>8. \A j, k \in DOMAIN queue_' : queue_'[j] = queue_'[k] => j = k
  BY <1>2, <1>5
<1>9. \A u, v \in Workers : block'[u] = block'[v] /\ block'[u] # NoBlock => u = v
  BY <1>1, <1>4 DEF AheadInv, AskedOnce, WithWorker
<1>10. AskedOnce'
  BY <1>6, <1>7, <1>8, <1>9 DEF AheadInv, AskedOnce
<1>11. PendingIs'
  BY <1>1, <1>4, <1>6, <1>7 DEF AheadInv, PendingIs
<1>12. JoblessHasNone'
  BY <1>1, <1>3 DEF AheadInv, JoblessHasNone, Jobless
<1>13. QED
  BY <1>10, <1>11, <1>12 DEF AheadInv

LEMMA ErasedStep ==
  ASSUME Typed, AheadInv, NEW w \in Workers, WorkerErase(w)
  PROVE  AheadInv'
<1> DEFINE e == block[w]
<1>1. /\ pending_' = pending_ \ {e} /\ queue_' = queue_ /\ Workers \subseteq Threads
      /\ pc[w] = "erase" /\ w \in Threads
      /\ \A v \in Threads : block'[v] = (IF v = w THEN NoBlock ELSE block[v])
      /\ \A v \in Threads : pc'[v] = (IF v = w THEN "work" ELSE pc[v])
  BY DEF WorkerErase, StillPending, Typed, Threads
<1>2. e \in Blocks /\ e # NoBlock
  BY <1>1 DEF Typed, OnBlock, Blocks, NoBlock
<1>3. WithWorker(e) /\ ~InQueue(e) /\ \A v \in Workers : block[v] = e => v = w
  BY <1>2 DEF AheadInv, AskedOnce, WithWorker
<1> HIDE DEF e
<1>4. \A b : InQueue(b)' <=> InQueue(b)
  BY <1>1 DEF InQueue
<1>5. \A b : WithWorker(b)' <=> (WithWorker(b) /\ b # e)
  BY <1>1, <1>3 DEF WithWorker, e
<1>6. \A u, v \in Workers : block'[u] = block'[v] /\ block'[u] # NoBlock => u = v
  BY <1>1 DEF AheadInv, AskedOnce
<1>7. AskedOnce'
  BY <1>1, <1>4, <1>5, <1>6 DEF AheadInv, AskedOnce
<1>8. PendingIs'
  BY <1>1, <1>3, <1>4, <1>5 DEF AheadInv, PendingIs
<1>9. JoblessHasNone'
  BY <1>1 DEF AheadInv, JoblessHasNone, Jobless
<1>10. QED
  BY <1>7, <1>8, <1>9 DEF AheadInv

LEMMA OthersKeep ==
  ASSUME Typed,
         \/ UNCHANGED vars
         \/ Destroy
         \/ \E t \in Threads : FetchSpurious(t)
         \/ \E w \in Workers : WorkerSleep(w) \/ WorkerReturn(w) \/ WorkerSpurious(w)
  PROVE  Keeps
<1>t. pc \in [Threads -> Steps] /\ Workers \subseteq Threads
  BY DEF Typed, Threads
<1>1. CASE UNCHANGED vars
  BY <1>1 DEF vars, locals, Keeps
<1>2. CASE Destroy
  <2>1. \A t \in Threads : pc'[t] = IF pc[t] = "asleep" THEN "work" ELSE Woken(pc)[t]
    BY <1>2 DEF Destroy
  <2>2. \A t \in Threads : (pc'[t] \in Jobless) <=> (pc[t] \in Jobless)
    BY <1>t, <2>1, WokenJobless DEF Jobless
  <2>3. QED
    BY <1>2, <1>t, <2>2 DEF Destroy, locals, Keeps
<1>3. ASSUME NEW t \in Threads, FetchSpurious(t) PROVE Keeps
  BY <1>3, <1>t DEF FetchSpurious, locals, Keeps, Jobless
<1>4. ASSUME NEW w \in Workers, WorkerSleep(w) \/ WorkerReturn(w) \/ WorkerSpurious(w)
      PROVE  Keeps
  BY <1>4, <1>t DEF WorkerSleep, WorkerReturn, WorkerSpurious, locals, Keeps, Jobless
<1>5. QED
  BY <1>1, <1>2, <1>3, <1>4

LEMMA AheadStep == Typed /\ AheadInv /\ [Next]_vars => AheadInv'
<1> SUFFICES ASSUME Typed, AheadInv, [Next]_vars PROVE AheadInv'
  OBVIOUS
<1>t. Clients \subseteq Threads /\ Workers \subseteq Threads
  BY DEF Threads
<1>1. ASSUME NEW c \in Clients, Client(c) \/ \E b \in Blocks : ReadStart(c, b)
      PROVE  AheadInv'
  <2>1. CASE Fetch(c)
    BY <1>t, <2>1, FetchKeeps, KeepsStep
  <2>2. CASE ~Fetch(c)
    <3>1. Keeps \/ AsksAhead(c)
      BY <1>1, <2>2, ClientKeeps DEF Client
    <3>2. QED
      BY <3>1, KeepsStep, AskedStep
  <2>3. QED
    BY <2>1, <2>2
<1>2. ASSUME NEW w \in Workers, Worker(w)
      PROVE  AheadInv'
  <2>1. CASE WorkerTake(w)
    BY <2>1, TakenStep
  <2>2. CASE WorkerErase(w)
    BY <2>2, ErasedStep
  <2>3. CASE Fetch(w)
    BY <1>t, <2>3, FetchKeeps, KeepsStep
  <2>4. CASE WorkerSleep(w) \/ WorkerReturn(w)
    BY <2>4, OthersKeep, KeepsStep
  <2>5. QED
    BY <1>2, <2>1, <2>2, <2>3, <2>4 DEF Worker
<1>3. CASE (\E t \in Threads : Spurious(t)) \/ Destroy \/ Ended \/ UNCHANGED vars
  BY <1>3, OthersKeep, KeepsStep DEF Spurious, Ended
<1>4. QED
  BY <1>1, <1>2, <1>3 DEF Next

LEMMA InitAhead == Init => AheadInv
<1> SUFFICES ASSUME Init PROVE AheadInv
  OBVIOUS
<1>1. \A w \in Workers : block[w] = NoBlock /\ pc[w] = "work"
  BY DEF Init, Threads
<1>2. DOMAIN queue_ = {} /\ pending_ = {}
  BY DEF Init
<1>3. (\A b : ~InQueue(b)) /\ \A b : ~WithWorker(b)
  BY <1>1, <1>2 DEF InQueue, WithWorker
<1>4. QED
  BY <1>1, <1>2, <1>3 DEF AheadInv, JoblessHasNone, AskedOnce, PendingIs, Jobless

-----------------------------------------------------------------------------
(* A block asked for ahead of time is in the queue or with the worker that  *)
(* took it, until the worker is done with it (prefetch_async, worker_loop), *)
(* so that it may be asked for again.                                      *)
THEOREM PendingTheorem == Spec => []PendingIsOnItsWay
<1>1. CacheInv => Typed
  BY DEF CacheInv
<1>2. Typed /\ AheadInv => PendingIsOnItsWay
  BY PendingIsProperty DEF AheadInv
<1>3. Spec => []Typed
  BY CacheInvariant, <1>1, PTL
<1>4. Spec => []AheadInv
  BY InitAhead, AheadStep, <1>3, PTL DEF Spec
<1>5. QED
  BY <1>2, <1>3, <1>4, PTL

-----------------------------------------------------------------------------
(* The bytes.  Each block is in the LRU once, so that what the LRU holds   *)
(* adds up to the sizes of the blocks that are loaded.                     *)

LoadedBlocks == {b \in Blocks : index_[b] = "loaded"}

BytesInv == /\ total_bytes_ = SumFunctionOnSet(Size, LoadedBlocks)
            /\ total_bytes_ <= Budget \/ Len(lru_) = 1

LEMMA SizesAreNat ==
  /\ \A b \in Blocks : Size[b] \in Nat
  /\ \A S \in SUBSET Blocks : IsFiniteSet(S) /\ SumFunctionOnSet(Size, S) \in Nat
<1>1. \A b \in Blocks : Size[b] \in Nat
  BY MountAssumption
<1>2. ASSUME NEW S \in SUBSET Blocks PROVE IsFiniteSet(S) /\ SumFunctionOnSet(Size, S) \in Nat
  <2>1. IsFiniteSet(Blocks)
    BY MountAssumption, FS_Interval DEF Blocks
  <2>2. IsFiniteSet(S)
    BY <2>1, FS_Subset
  <2>3. QED
    BY <1>1, <2>2, SumNat
<1>3. QED
  BY <1>1, <1>2

LEMMA BytesOfList ==
  ASSUME NEW s \in Seq(Blocks), \A j, k \in DOMAIN s : s[j] = s[k] => j = k
  PROVE  Bytes(s) = SumFunctionOnSet(Size, {s[k] : k \in DOMAIN s})
<1> DEFINE f == [k \in DOMAIN s |-> Size[s[k]]]
<1>1. IsFiniteSet(DOMAIN s)
  <2>1. DOMAIN s = 1..Len(s) /\ Len(s) \in Nat
    OBVIOUS
  <2>2. QED
    BY <2>1, FS_Interval
<1>2. \A k \in DOMAIN s : f[k] = Size[s[k]] /\ f[k] \in Nat
  BY SizesAreNat
<1>3. Bytes(s) = SumFunctionOnSet(f, DOMAIN s)
  BY DEF Bytes, SumFunction
<1> HIDE DEF f
<1>4. SumFunctionOnSet(f, DOMAIN s) = SumFunctionOnSet(Size, {s[k] : k \in DOMAIN s})
  BY <1>1, <1>2, SumOverPlaces
<1>5. QED
  BY <1>3, <1>4

LEMMA LoadBytes ==
  ASSUME Typed, OneMaker, LruIsWhatIsLoaded, BytesInv, NEW t \in Threads, FetchLoaded(t)
  PROVE  BytesInv'
<1> DEFINE b == block[t]
           l == <<b>> \o lru_
           total == total_bytes_ + Size[b]
           n == Kept(total, l)
           evicted == SubSeq(l, n + 1, Len(l))
           gone == {l[k] : k \in n + 1..Len(l)}
<1>1. /\ b \in Blocks /\ lru_ \in Seq(Blocks) /\ Len(lru_) \in Nat
      /\ pc[t] = "decompress" /\ index_[b] = "loading" /\ b \notin LoadedBlocks
  BY DEF FetchLoaded, Typed, OnBlock, OneMaker, LoadedBlocks
<1>2. /\ l \in Seq(Blocks) /\ Len(l) = Len(lru_) + 1 /\ l # <<>>
      /\ l[1] = b /\ \A i \in 2..Len(l) : l[i] = lru_[i - 1]
  BY <1>1
<1>3. /\ lru_' = SubSeq(l, 1, n)
      /\ total_bytes_' = total - Evicted(l, n)
      /\ index_' = [c \in Blocks |-> IF c = b THEN "loaded"
                                     ELSE IF \E k \in n + 1..Len(l) : l[k] = c
                                     THEN "absent" ELSE index_[c]]
  BY DEF FetchLoaded
<1>4. n \in 1..Len(l) /\ (n = 1 \/ Fits(total, l, n))
  <2> HIDE DEF l, total
  <2>1. QED
    BY <1>2, KeptLength
<1> HIDE DEF n
<1>5. /\ evicted \in Seq(Blocks) /\ DOMAIN evicted = 1..Len(l) - n
      /\ \A i \in DOMAIN evicted : /\ evicted[i] = l[n + i] /\ n + i \in 2..Len(l)
                                   /\ evicted[i] = lru_[n + i - 1] /\ n + i - 1 \in DOMAIN lru_
  <2>1. n \in Nat /\ n >= 1 /\ n <= Len(l) /\ Len(l) \in Nat
    BY <1>1, <1>2, <1>4
  <2>2. DOMAIN lru_ = 1..Len(lru_)
    BY <1>1
  <2>3. \A i \in 1..Len(l) - n : n + i \in 2..Len(l) /\ n + i - 1 \in DOMAIN lru_
    BY <1>1, <1>2, <2>1, <2>2
  <2>4. /\ evicted \in Seq(Blocks) /\ DOMAIN evicted = 1..Len(l) - n
        /\ \A i \in 1..Len(l) - n : evicted[i] = l[n + i]
    <3> HIDE DEF l
    <3>1. n + 1 \in 1..Len(l) + 1 /\ Len(l) \in 0..Len(l)
      BY <2>1
    <3>2. QED
      BY <1>2, <2>1, <3>1
  <2> HIDE DEF l, evicted
  <2>5. ASSUME NEW i \in 1..Len(l) - n PROVE evicted[i] = lru_[n + i - 1]
    <3>1. evicted[i] = l[n + i] /\ n + i \in 2..Len(l)
      BY <2>3, <2>4
    <3>2. l[n + i] = lru_[n + i - 1]
      BY <1>2, <2>1, <3>1
    <3>3. QED
      BY <3>1, <3>2
  <2>6. QED
    BY <2>3, <2>4, <2>5
<1>6. {evicted[i] : i \in DOMAIN evicted} = gone
  <2>1. n \in Nat /\ Len(l) \in Nat
    BY <1>1, <1>2, <1>4
  <2> HIDE DEF l, evicted
  <2>2. ASSUME NEW k \in n + 1..Len(l) PROVE \E i \in DOMAIN evicted : evicted[i] = l[k]
    <3>1. k - n \in DOMAIN evicted /\ n + (k - n) = k
      BY <1>5, <2>1
    <3>2. QED
      BY <1>5, <3>1
  <2>3. ASSUME NEW i \in DOMAIN evicted PROVE \E k \in n + 1..Len(l) : evicted[i] = l[k]
    <3>1. n + i \in n + 1..Len(l) /\ evicted[i] = l[n + i]
      BY <1>5, <2>1
    <3>2. QED
      BY <3>1
  <2>4. QED
    BY <2>2, <2>3
<1>7. Evicted(l, n) = SumFunctionOnSet(Size, gone)
  <2>1. \A i, j \in DOMAIN evicted : evicted[i] = evicted[j] => i = j
    <3> SUFFICES ASSUME NEW i \in DOMAIN evicted, NEW j \in DOMAIN evicted,
                        evicted[i] = evicted[j]
                 PROVE  i = j
      OBVIOUS
    <3> HIDE DEF l, evicted
    <3>1. n + i - 1 = n + j - 1
      BY <1>5 DEF LruIsWhatIsLoaded
    <3>2. QED
      BY <1>4, <1>5, <3>1
  <2> HIDE DEF evicted, l
  <2>2. Bytes(evicted) = SumFunctionOnSet(Size, {evicted[i] : i \in DOMAIN evicted})
    BY <1>5, <2>1, BytesOfList
  <2>3. Evicted(l, n) = Bytes(evicted)
    BY DEF Evicted, evicted
  <2>4. QED
    BY <1>6, <2>2, <2>3
<1>8. gone \subseteq LoadedBlocks
  <2>1. \A k \in DOMAIN lru_ : lru_[k] \in LoadedBlocks
    BY DEF LruIsWhatIsLoaded, LoadedBlocks
  <2> HIDE DEF l, evicted, gone
  <2>2. QED
    BY <1>5, <1>6, <2>1
<1>9. LoadedBlocks' = (LoadedBlocks \cup {b}) \ gone
  <2> HIDE DEF l
  <2>1. \A c \in Blocks : index_'[c] = "loaded" <=> c = b \/ (c \notin gone /\ index_[c] = "loaded")
    BY <1>3
  <2> HIDE DEF b, gone
  <2>2. QED
    BY <1>1, <1>8, <2>1 DEF LoadedBlocks
<1>10. total_bytes_' = SumFunctionOnSet(Size, LoadedBlocks')
  <2> DEFINE all == LoadedBlocks \cup {b}
  <2>1. /\ all \in SUBSET Blocks /\ gone \in SUBSET all /\ all \ {b} = LoadedBlocks /\ b \in all
        /\ all \ gone = LoadedBlocks' /\ all \ gone \in SUBSET Blocks
        /\ LoadedBlocks \in SUBSET Blocks /\ gone \in SUBSET Blocks
    BY <1>1, <1>8, <1>9 DEF LoadedBlocks
  <2> HIDE DEF all, gone, b, l
  <2>2. SumFunctionOnSet(Size, all) = Size[b] + SumFunctionOnSet(Size, LoadedBlocks)
    BY <2>1, SizesAreNat, SumOne
  <2>3. SumFunctionOnSet(Size, all) = SumFunctionOnSet(Size, gone) + SumFunctionOnSet(Size, all \ gone)
    BY <2>1, SizesAreNat, SumSplit
  <2>4. /\ SumFunctionOnSet(Size, LoadedBlocks) \in Nat /\ SumFunctionOnSet(Size, gone) \in Nat
        /\ SumFunctionOnSet(Size, all \ gone) \in Nat /\ Size[b] \in Nat
    BY <1>1, <2>1, SizesAreNat
  <2>5. total_bytes_ = SumFunctionOnSet(Size, LoadedBlocks)
    BY DEF BytesInv
  <2>6. total_bytes_' = (total_bytes_ + Size[b]) - SumFunctionOnSet(Size, gone)
    BY <1>3, <1>7
  <2>7. total_bytes_' = SumFunctionOnSet(Size, all \ gone)
    BY <2>2, <2>3, <2>4, <2>5, <2>6
  <2>8. QED
    BY <2>1, <2>7
<1>11. total_bytes_' <= Budget \/ Len(lru_') = 1
  <2>1. Len(lru_') = n
    <3> HIDE DEF l
    <3>1. QED
      BY <1>2, <1>3, <1>4
  <2>2. QED
    BY <1>3, <1>4, <2>1 DEF Fits
<1>12. QED
  BY <1>10, <1>11 DEF BytesInv

LEMMA BytesStep ==
  Typed /\ OneMaker /\ LruIsWhatIsLoaded /\ BytesInv /\ [Next]_vars => BytesInv'
<1> SUFFICES ASSUME Typed, OneMaker, LruIsWhatIsLoaded, BytesInv, [Next]_vars PROVE BytesInv'
  OBVIOUS
<1>0. ASSUME LoadedBlocks' = LoadedBlocks, Len(lru_') = Len(lru_), total_bytes_' = total_bytes_
      PROVE  BytesInv'
  BY <1>0 DEF BytesInv
<1>1. CASE QuietNext
  <2>1. ASSUME NEW t \in Threads, FetchHit(t) PROVE BytesInv'
    <3>1. PICK k \in DOMAIN lru_ : lru_' = <<lru_[k]>> \o RemoveAt(lru_, k)
      BY <2>1 DEF FetchHit, Touched
    <3>2. Len(lru_') = Len(lru_)
      BY <3>1, TouchedLru DEF Typed
    <3>3. LoadedBlocks' = LoadedBlocks /\ total_bytes_' = total_bytes_
      BY <2>1 DEF FetchHit, LoadedBlocks
    <3>4. QED
      BY <1>0, <3>2, <3>3
  <2>2. CASE ~\E t \in Threads : FetchHit(t)
    <3>1. lru_' = lru_ /\ index_' = index_ /\ total_bytes_' = total_bytes_
      BY <1>1, <2>2 DEF QuietNext, ReadCopy, ReadAhead, ReadReturn, ReadStart, WorkerTake,
         WorkerSleep, WorkerReturn, WorkerErase, WorkerSpurious, FetchGiveUp, FetchWait,
         FetchSpurious, Destroy, vars, cache
    <3>2. QED
      BY <1>0, <3>1 DEF LoadedBlocks
  <2>3. QED
    BY <2>1, <2>2
<1>2. ASSUME NEW t \in Threads, FetchTake(t) PROVE BytesInv'
  <2>1. /\ block[t] \in Blocks /\ index_[block[t]] = "absent" /\ lru_' = lru_
        /\ \A b \in Blocks : index_'[b] = (IF b = block[t] THEN "loading" ELSE index_[b])
    BY <1>2, TakeStep DEF Typed
  <2>2. LoadedBlocks' = LoadedBlocks /\ total_bytes_' = total_bytes_
    BY <1>2, <2>1 DEF FetchTake, LoadedBlocks
  <2>3. QED
    BY <1>0, <2>1, <2>2
<1>3. ASSUME NEW t \in Threads, FetchLoaded(t) PROVE BytesInv'
  BY <1>3, LoadBytes
<1>4. ASSUME NEW t \in Threads, FetchThrows(t) PROVE BytesInv'
  <2>1. /\ block[t] \in Blocks /\ lru_' = lru_ /\ pc[t] = "decompress"
        /\ \A b \in Blocks : index_'[b] = (IF b = block[t] THEN "absent" ELSE index_[b])
    BY <1>4, EndStep DEF FetchThrows, Typed
  <2>2. index_[block[t]] = "loading"
    BY <2>1 DEF OneMaker
  <2>3. LoadedBlocks' = LoadedBlocks /\ total_bytes_' = total_bytes_
    BY <1>4, <2>1, <2>2 DEF FetchThrows, LoadedBlocks
  <2>4. QED
    BY <1>0, <2>1, <2>3
<1>5. QED
  BY <1>1, <1>2, <1>3, <1>4, NextIsQuietOr

LEMMA InitBytes == Init => BytesInv
<1> SUFFICES ASSUME Init PROVE BytesInv
  OBVIOUS
<1>1. LoadedBlocks = {}
  BY DEF Init, LoadedBlocks
<1>2. SumFunctionOnSet(Size, {}) = 0
  BY SumEmpty
<1>3. QED
  BY <1>1, <1>2, MountAssumption DEF Init, BytesInv

LEMMA BytesInvariant == Spec => [](CacheInv /\ BytesInv)
<1>1. CacheInv /\ BytesInv /\ [Next]_vars => BytesInv'
  BY BytesStep DEF CacheInv
<1>2. QED
  BY InitBytes, CacheInvariant, <1>1, PTL DEF Spec

(* The bytes counted against the budget are those of the blocks in the      *)
(* LRU, whatever came in and went out, and they are within it but for a     *)
(* block on its own.                                                       *)
THEOREM BytesTheorem == Spec => []BytesCounted
<1>1. CacheInv /\ BytesInv => BytesCounted
  <2> SUFFICES ASSUME CacheInv, BytesInv PROVE BytesCounted
    OBVIOUS
  <2>1. lru_ \in Seq(Blocks) /\ LruIsWhatIsLoaded
    BY DEF CacheInv, Typed
  <2>2. Bytes(lru_) = SumFunctionOnSet(Size, {lru_[k] : k \in DOMAIN lru_})
    BY <2>1, BytesOfList DEF LruIsWhatIsLoaded
  <2>3. {lru_[k] : k \in DOMAIN lru_} = LoadedBlocks
    BY <2>1 DEF LruIsWhatIsLoaded, LoadedBlocks
  <2>4. QED
    BY <2>2, <2>3 DEF BytesInv, BytesCounted
<1>2. QED
  BY BytesInvariant, <1>1, PTL

-----------------------------------------------------------------------------
(* The types that nothing above needed.                                    *)

OtherTypes ==
  /\ shutdown_ \in BOOLEAN
  /\ ahead \in [Clients -> [queued : 0..READAHEAD_DEPTH, room : Nat]]
  /\ last \in [Clients -> Blocks \cup {NoBlock}]
  /\ reads \in 0..MaxReads

LEMMA ReadEndTypes ==
  ASSUME Typed, OtherTypes, NEW c \in Clients, NEW done, ReadEnd(c, done)
  PROVE  /\ ahead' \in [Clients -> [queued : 0..READAHEAD_DEPTH, room : Nat]]
         /\ last' \in [Clients -> Blocks \cup {NoBlock}]
BY DEF Typed, OtherTypes, ReadEnd, Nothing, READAHEAD_DEPTH, Threads

LEMMA OtherTypesStep == Typed /\ OtherTypes /\ [Next]_vars => OtherTypes'
<1> SUFFICES ASSUME Typed, OtherTypes, [Next]_vars PROVE OtherTypes'
  OBVIOUS
<1>0. ASSUME UNCHANGED <<shutdown_, ahead, last, reads>> PROVE OtherTypes'
  BY <1>0 DEF OtherTypes
<1>1. ASSUME NEW c \in Clients, ReadCopy(c) PROVE OtherTypes'
  <2>1. CASE ReadEnd(c, TRUE)
    BY <1>1, <2>1, ReadEndTypes DEF ReadCopy, OtherTypes
  <2>2. CASE ahead' = [ahead EXCEPT ![c] = [queued |-> 0, room |-> Room]] /\ last' = last
    <3>1. Room \in Nat
      BY MountAssumption DEF Room
    <3>2. QED
      BY <1>1, <2>2, <3>1 DEF ReadCopy, OtherTypes, READAHEAD_DEPTH
  <2>3. QED
    BY <1>1, <2>1, <2>2 DEF ReadCopy
<1>2. ASSUME NEW c \in Clients, ReadAhead(c) PROVE OtherTypes'
  <2>1. PICK s \in Nat : s = Size[NextAhead(c)] /\ s <= ahead[c].room
    BY <1>2, SizesAreNat DEF ReadAhead, MoreAhead
  <2>2. ahead' = [ahead EXCEPT ![c] = [queued |-> ahead[c].queued + 1, room |-> ahead[c].room - s]]
    BY <1>2, <2>1 DEF ReadAhead
  <2>3. ahead[c].queued < READAHEAD_DEPTH /\ ahead[c].queued \in 0..READAHEAD_DEPTH /\ ahead[c].room \in Nat
    BY <1>2 DEF ReadAhead, MoreAhead, OtherTypes
  <2>4. [queued |-> ahead[c].queued + 1, room |-> ahead[c].room - s]
          \in [queued : 0..READAHEAD_DEPTH, room : Nat]
    BY <2>1, <2>3 DEF READAHEAD_DEPTH
  <2>5. QED
    BY <1>2, <2>2, <2>4 DEF ReadAhead, OtherTypes, files
<1>3. ASSUME NEW c \in Clients, ReadReturn(c) PROVE OtherTypes'
  BY <1>3, ReadEndTypes DEF ReadReturn, OtherTypes
<1>4. ASSUME NEW c \in Clients, NEW b \in Blocks, ReadStart(c, b) PROVE OtherTypes'
  BY <1>4, MountAssumption DEF ReadStart, OtherTypes
<1>5. ASSUME NEW t \in Threads, FetchThrows(t) PROVE OtherTypes'
  <2>1. CASE t \in Clients
    BY <1>5, <2>1, ReadEndTypes DEF FetchThrows, OtherTypes
  <2>2. CASE t \notin Clients
    BY <1>0, <1>5, <2>2 DEF FetchThrows
  <2>3. QED
    BY <2>1, <2>2
<1>6. ASSUME Destroy PROVE OtherTypes'
  BY <1>6 DEF Destroy, OtherTypes, files, locals
<1>7. CASE \/ \E w \in Workers : \/ WorkerTake(w) \/ WorkerSleep(w) \/ WorkerReturn(w)
                                 \/ WorkerErase(w) \/ WorkerSpurious(w)
           \/ \E t \in Threads : \/ FetchHit(t) \/ FetchGiveUp(t) \/ FetchWait(t)
                                 \/ FetchSpurious(t) \/ FetchTake(t) \/ FetchLoaded(t)
           \/ UNCHANGED vars
  BY <1>0, <1>7 DEF WorkerTake, WorkerSleep, WorkerReturn, WorkerErase, WorkerSpurious,
     FetchHit, FetchGiveUp, FetchWait, FetchSpurious, FetchTake, FetchLoaded, vars, files, locals
<1>8. QED
  BY <1>1, <1>2, <1>3, <1>4, <1>5, <1>6, <1>7, NextIsQuietOr DEF QuietNext

LEMMA InitOtherTypes == Init => OtherTypes
<1> SUFFICES ASSUME Init PROVE OtherTypes
  OBVIOUS
<1>1. /\ ahead \in [Clients -> [queued : 0..READAHEAD_DEPTH, room : Nat]]
      /\ last \in [Clients -> Blocks \cup {NoBlock}]
  BY DEF Init, Nothing, READAHEAD_DEPTH
<1>2. shutdown_ \in BOOLEAN
  BY DEF Init
<1>3. reads \in 0..MaxReads
  BY MountAssumption DEF Init
<1>4. QED
  BY <1>1, <1>2, <1>3 DEF OtherTypes

(* Every variable has its type; the bytes, which are added to and taken     *)
(* from, are never below zero, nor is the room left to read ahead.         *)
THEOREM TypeTheorem == Spec => []TypeOK
<1>1. CacheInv /\ BytesInv /\ OtherTypes => TypeOK
  <2> SUFFICES ASSUME CacheInv, BytesInv, OtherTypes PROVE TypeOK
    OBVIOUS
  <2>1. total_bytes_ \in Nat
    BY SizesAreNat DEF BytesInv, LoadedBlocks
  <2>2. QED
    BY <2>1 DEF CacheInv, Typed, OtherTypes, TypeOK, Steps
<1>2. CacheInv /\ OtherTypes /\ [Next]_vars => OtherTypes'
  BY OtherTypesStep DEF CacheInv
<1>3. QED
  BY BytesInvariant, InitOtherTypes, <1>1, <1>2, PTL DEF Spec
=============================================================================
