-------------------------- MODULE Extract_proofs ---------------------------
(***************************************************************************)
(* Proofs about Extract, for any threads, blocks, files, budget and faults.*)
(*                                                                         *)
(* A block belongs to the thread that marked it until its turn ends        *)
(* (BlockHasOneThread, with the types); a permit is held only between      *)
(* franzpermesso and the end of the turn (PermitPlace).                    *)
(*                                                                         *)
(* What is in a file is what is counted for it, and what the threads that  *)
(* are writing to it have still to write (FilesAre).                       *)
(***************************************************************************)
EXTENDS Extract, SumLemmas

InTurn == {"header", "permit", "decompress", "decompressed", "write"}

ExtractTypes ==
  /\ state \in [Blocks -> {"READY", "WORKING"}]
  /\ next \in [Threads -> Blocks]
  /\ pc \in [Threads -> Points]

TurnInv == ExtractTypes /\ BlockHasOneThread

LEMMA BusyIsInTurn ==
  ASSUME ExtractTypes, NEW t \in Threads
  PROVE  Busy(t) <=> pc[t] \in InTurn
BY DEF ExtractTypes, Points, Busy, InTurn

\* The block that Find takes is one that may be taken.
LEMMA FoundIsTakeable ==
  ASSUME ExtractAssumption, ExtractTypes, NEW t \in Threads,
         NEW found, found = {i \in 0..Len(Start) - 1 : Takeable(Around(t, i))}, found # {}
  PROVE  Around(t, Min(found)) \in Blocks /\ Takeable(Around(t, Min(found)))
<1>1. found \subseteq Nat
  OBVIOUS
<1>2. PICK k \in found : \A j \in found : ~(<<j, k>> \in OpToRel(<, Nat))
  BY <1>1, WFMin, NatLessThanWellFounded
<1>3. \A j \in found : k <= j
  <2>1. \A j \in found : ~(j < k)
    BY <1>1, <1>2 DEF OpToRel
  <2>2. QED
    BY <1>1, <2>1
<1>4. Min(found) \in found
  BY <1>2, <1>3 DEF Min
<1>5. PICK i \in 0..Len(Start) - 1 : i = Min(found) /\ Takeable(Around(t, i))
  BY <1>4
<1>6. Blocks = 1..Len(Start) /\ Len(Start) \in Nat \ {0}
  BY DEF Blocks, ExtractAssumption
<1>7. next[t] \in 1..Len(Start)
  BY <1>6 DEF ExtractTypes
<1>8. next[t] - 1 + i \in Nat
  BY <1>5, <1>6, <1>7
<1>9. (next[t] - 1 + i) % Len(Start) \in 0..Len(Start) - 1
  <2>1. \A m \in Nat : \A n \in Nat \ {0} : m % n \in 0..n - 1
    OBVIOUS
  <2>2. QED
    BY <1>6, <1>8, <2>1
<1>10. Around(t, i) \in Blocks
  BY <1>6, <1>9 DEF Around
<1>11. QED
  BY <1>5, <1>10

\* A step that takes no block, and leaves every block to the thread that has it.
LEMMA SameTurn ==
  ASSUME TurnInv, NEW t \in Threads, NEW to \in Points,
         pc[t] \in InTurn \/ to \notin InTurn,
         pc' = [pc EXCEPT ![t] = to], UNCHANGED <<state, next>>
  PROVE  TurnInv'
<1>1. ExtractTypes'
  BY DEF TurnInv, ExtractTypes
<1>2. \A u \in Threads : Busy(u)' => Busy(u)
  BY <1>1, BusyIsInTurn DEF TurnInv, ExtractTypes, Busy, InTurn, Points
<1>3. BlockHasOneThread'
  BY <1>2 DEF TurnInv, BlockHasOneThread, Busy
<1>4. QED
  BY <1>1, <1>3 DEF TurnInv

LEMMA FindTurn ==
  ASSUME ExtractAssumption, TurnInv, NEW t \in Threads, Find(t)
  PROVE  TurnInv'
<1>1. PICK found : found = {i \in 0..Len(Start) - 1 : Takeable(Around(t, i))}
  OBVIOUS
<1>2. CASE found = {}
  <2>1. pc' = [pc EXCEPT ![t] = "ended"] /\ UNCHANGED <<state, next>>
    BY <1>1, <1>2 DEF Find, Goes, blocks
  <2>2. QED
    BY <2>1, SameTurn DEF Points, InTurn
<1>3. CASE found # {}
  <2>1. PICK b : b = Around(t, Min(found))
    OBVIOUS
  <2>2. b \in Blocks /\ Takeable(b)
    BY <1>1, <1>3, <2>1, FoundIsTakeable DEF TurnInv
  <2>3. /\ pc[t] = "find" /\ pc' = [pc EXCEPT ![t] = "header"]
        /\ state' = [state EXCEPT ![b] = "WORKING"] /\ next' = [next EXCEPT ![t] = b]
    BY <1>1, <1>3, <2>1 DEF Find, Goes, Marked
  <2>4. ExtractTypes'
    BY <2>2, <2>3 DEF TurnInv, ExtractTypes, Points
  <2>5. \A u \in Threads : u # t => pc'[u] = pc[u] /\ next'[u] = next[u]
    BY <2>3 DEF TurnInv, ExtractTypes
  <2>6. next'[t] = b /\ state'[b] = "WORKING" /\ state[b] = "READY"
    BY <2>2, <2>3 DEF TurnInv, ExtractTypes, Takeable
  <2>7. \A u \in Threads : u # t /\ Busy(u) => next[u] # b
    BY <2>6 DEF TurnInv, BlockHasOneThread
  <2>8. \A u \in Threads : state[next[u]] = "WORKING" => state'[next[u]] = "WORKING"
    BY <2>3 DEF TurnInv, ExtractTypes
  <2>9. BlockHasOneThread'
    <3> SUFFICES ASSUME NEW u \in Threads, Busy(u)'
                 PROVE  /\ state'[next'[u]] = "WORKING"
                        /\ \A v \in Threads : Busy(v)' /\ next'[v] = next'[u] => v = u
      BY DEF BlockHasOneThread
    <3>1. \A v \in Threads : v # t => (Busy(v)' <=> Busy(v))
      BY <2>5 DEF Busy
    <3>2. CASE u = t
      BY <2>5, <2>6, <2>7, <3>1, <3>2
    <3>3. CASE u # t
      <4>1. Busy(u) /\ next'[u] = next[u] /\ state[next[u]] = "WORKING"
        BY <2>5, <3>1, <3>3 DEF TurnInv, BlockHasOneThread
      <4>2. state'[next'[u]] = "WORKING"
        BY <2>8, <4>1
      <4>3. ASSUME NEW v \in Threads, Busy(v)', next'[v] = next'[u] PROVE v = u
        <5>1. v # t
          BY <2>6, <2>7, <3>3, <4>1, <4>3
        <5>2. Busy(v) /\ next[v] = next[u]
          BY <2>5, <3>1, <4>1, <4>3, <5>1
        <5>3. QED
          BY <4>1, <5>2 DEF TurnInv, BlockHasOneThread
      <4>4. QED
        BY <4>2, <4>3
    <3>4. QED
      BY <3>2, <3>3
  <2>10. QED
    BY <2>4, <2>9 DEF TurnInv
<1>4. QED
  BY <1>2, <1>3

\* Out of memory, a thread puts its block back: it is the only one that has it.
LEMMA KilledTurn ==
  ASSUME TurnInv, NEW t \in Threads, Killed(t)
  PROVE  TurnInv'
<1>1. /\ pc[t] \in {"header", "decompress"} /\ pc' = [pc EXCEPT ![t] = "killed"]
      /\ state' = [state EXCEPT ![next[t]] = "READY"] /\ UNCHANGED next
  BY DEF Killed, Goes
<1>2. ExtractTypes'
  BY <1>1 DEF TurnInv, ExtractTypes, Points
<1>3. Busy(t) /\ ~Busy(t)'
  BY <1>1 DEF Busy, TurnInv, ExtractTypes
<1>4. \A u \in Threads : u # t => (Busy(u)' <=> Busy(u))
  BY <1>1 DEF Busy, TurnInv, ExtractTypes
<1>5. \A u \in Threads : u # t /\ Busy(u) => next[u] # next[t]
  BY <1>3 DEF TurnInv, BlockHasOneThread
<1>6. \A u \in Threads : u # t /\ Busy(u) => state'[next[u]] = "WORKING"
  BY <1>1, <1>5 DEF TurnInv, BlockHasOneThread, ExtractTypes
<1>7. BlockHasOneThread'
  BY <1>1, <1>3, <1>4, <1>6 DEF TurnInv, BlockHasOneThread
<1>8. QED
  BY <1>2, <1>7 DEF TurnInv

LEMMA ThreadTurn ==
  ASSUME ExtractAssumption, TurnInv, NEW t \in Threads, Thread(t)
  PROVE  TurnInv'
<1>1. CASE Find(t)
  BY <1>1, FindTurn
<1>2. CASE Killed(t)
  BY <1>2, KilledTurn
<1>3. CASE Open(t) \/ Look(t)
  <2>1. PICK to \in {"look", "find", "killed", "ended"} : pc' = [pc EXCEPT ![t] = to]
    BY <1>3 DEF Open, Look, Goes
  <2>2. UNCHANGED <<state, next>>
    BY <1>3 DEF Open, Look, blocks
  <2>3. QED
    BY <2>1, <2>2, SameTurn DEF Points, InTurn
<1>4. CASE ReadHeader(t) \/ TakePermit(t) \/ Decompress(t) \/ LockFiles(t)
  <2>1. PICK to \in InTurn : pc[t] \in InTurn /\ pc' = [pc EXCEPT ![t] = to]
    BY <1>4 DEF ReadHeader, TakePermit, Decompress, LockFiles, Goes, InTurn
  <2>2. UNCHANGED <<state, next>>
    BY <1>4 DEF ReadHeader, TakePermit, Decompress, LockFiles, blocks
  <2>3. QED
    BY <2>1, <2>2, SameTurn DEF Points, InTurn
<1>5. CASE Skip(t) \/ UnlockFiles(t) \/ WriteThrows(t)
  <2>1. PICK to \in {"look", "killed"} : pc[t] \in InTurn /\ pc' = [pc EXCEPT ![t] = to]
    BY <1>5 DEF Skip, AfterDamage, UnlockFiles, WriteThrows, Goes, InTurn
  <2>2. UNCHANGED <<state, next>>
    BY <1>5 DEF Skip, UnlockFiles, WriteThrows, blocks
  <2>3. QED
    BY <2>1, <2>2, SameTurn DEF Points, InTurn
<1>6. CASE WriteRun(t) \/ OpenFails(t) \/ NextFile(t)
  <2>1. UNCHANGED <<state, next, pc>>
    BY <1>6 DEF WriteRun, OpenFails, NextFile, blocks
  <2>2. QED
    BY <2>1 DEF TurnInv, ExtractTypes, BlockHasOneThread, Busy
<1>7. QED
  BY <1>1, <1>2, <1>3, <1>4, <1>5, <1>6 DEF Thread

LEMMA InitTurn == Init => TurnInv
<1> SUFFICES ASSUME Init PROVE TurnInv
  OBVIOUS
<1>1. 1 \in Blocks
  BY ExtractAssumption DEF ExtractAssumption, Blocks
<1>2. QED
  BY <1>1 DEF Init, TurnInv, ExtractTypes, Points, BlockHasOneThread, Busy

LEMMA StepTurn == TurnInv /\ [Next]_vars => TurnInv'
<1>1. CASE Next
  BY <1>1, ThreadTurn, ExtractAssumption DEF Next
<1>2. CASE UNCHANGED vars
  BY <1>2 DEF vars, blocks, TurnInv, ExtractTypes, BlockHasOneThread, Busy
<1>3. QED
  BY <1>1, <1>2

(* While a thread has a block, it is WORKING and no other thread has it,   *)
(* whatever the faults: also when a block is put back for another to try.  *)
THEOREM BlockThreadTheorem == Spec => []BlockHasOneThread
<1>1. TurnInv => BlockHasOneThread
  BY DEF TurnInv
<1>2. QED
  BY InitTurn, StepTurn, <1>1, PTL DEF Spec

-----------------------------------------------------------------------------
(* The permits of the RAM.                                                 *)

WithPermit == {"decompress", "decompressed", "write"}

PermitTypes ==
  /\ next \in [Threads -> Blocks] /\ pc \in [Threads -> Points]
  /\ preso \in [Threads -> BOOLEAN]
  /\ ram_inuso \in Int /\ ram_attivi \in Int

PermitPlace == \A t \in Threads : preso[t] => pc[t] \in WithPermit

PermitInv == PermitTypes /\ PermitPlace /\ PermitsHold

LEMMA HoldersFinite ==
  ASSUME ExtractAssumption
  PROVE  IsFiniteSet(Holders) /\ Cardinality(Holders) \in Nat
<1>1. Holders \subseteq Threads /\ IsFiniteSet(Threads)
  BY DEF Holders, ExtractAssumption
<1>2. QED
  BY <1>1, FS_Subset, FS_CardinalityType

LEMMA RamIsNat ==
  ASSUME ExtractAssumption, PermitTypes, NEW t \in Threads
  PROVE  Ram[next[t]] \in Nat /\ Budget \in Nat
BY DEF ExtractAssumption, PermitTypes

\* A thread that takes a permit is one more.
LEMMA TakePermitHolds ==
  ASSUME ExtractAssumption, PermitInv, NEW t \in Threads, TakePermit(t)
  PROVE  PermitInv'
<1>1. /\ pc[t] = "permit" /\ pc' = [pc EXCEPT ![t] = "decompress"] /\ UNCHANGED next
      /\ Granted(Ram[next[t]])
      /\ ram_attivi' = ram_attivi + 1 /\ ram_inuso' = ram_inuso + Ram[next[t]]
      /\ preso' = [preso EXCEPT ![t] = TRUE]
  BY DEF TakePermit, Goes
<1>2. ~preso[t]
  BY <1>1 DEF PermitInv, PermitPlace, WithPermit
<1>3. Holders' = Holders \cup {t} /\ t \notin Holders
  BY <1>1, <1>2 DEF Holders, PermitInv, PermitTypes
<1>4. Cardinality(Holders') = Cardinality(Holders) + 1
  BY <1>3, HoldersFinite, FS_AddElement
<1>5. PermitTypes'
  BY <1>1, RamIsNat DEF PermitInv, PermitTypes, Points
<1>6. PermitPlace'
  BY <1>1 DEF PermitInv, PermitPlace, PermitTypes, WithPermit
<1>7. ram_inuso' <= Budget \/ ram_attivi' <= 1
  BY <1>1, RamIsNat DEF Granted, PermitInv, PermitTypes
<1>8. PermitsHold'
  BY <1>1, <1>4, <1>7 DEF PermitsHold, PermitInv
<1>9. QED
  BY <1>5, <1>6, <1>8 DEF PermitInv

\* A turn that ends gives back the permit of its thread, if it had one.
LEMMA GivenBackHolds ==
  ASSUME ExtractAssumption, PermitInv, NEW t \in Threads, GivePermitBack(t),
         NEW to \in Points, pc' = [pc EXCEPT ![t] = to], UNCHANGED next
  PROVE  PermitInv'
<1>1. CASE preso[t]
  <2>1. /\ ram_attivi' = ram_attivi - 1 /\ ram_inuso' = ram_inuso - Ram[next[t]]
        /\ preso' = [preso EXCEPT ![t] = FALSE]
    BY <1>1 DEF GivePermitBack
  <2>2. Holders' = Holders \ {t} /\ t \in Holders
    BY <1>1, <2>1 DEF Holders, PermitInv, PermitTypes
  <2>3. Cardinality(Holders') = Cardinality(Holders) - 1
    BY <2>2, HoldersFinite, FS_RemoveElement
  <2>4. PermitTypes'
    BY <2>1, RamIsNat DEF PermitInv, PermitTypes
  <2>5. PermitPlace'
    BY <2>1 DEF PermitInv, PermitPlace, PermitTypes
  <2>6. ram_inuso' <= Budget \/ ram_attivi' <= 1
    BY <2>1, RamIsNat DEF PermitInv, PermitTypes, PermitsHold
  <2>7. PermitsHold'
    BY <2>1, <2>3, <2>6 DEF PermitsHold, PermitInv
  <2>8. QED
    BY <2>4, <2>5, <2>7 DEF PermitInv
<1>2. CASE ~preso[t]
  <2>1. UNCHANGED ram
    BY <1>2 DEF GivePermitBack
  <2>2. QED
    BY <1>2, <2>1 DEF ram, PermitInv, PermitTypes, PermitPlace, PermitsHold, Holders
<1>3. QED
  BY <1>1, <1>2

\* The other steps change no permit, and keep those who have one in their place.
LEMMA SamePermits ==
  ASSUME PermitInv, NEW t \in Threads, UNCHANGED <<ram, next>>,
         pc' \in [Threads -> Points],
         \A u \in Threads : pc[u] \in WithPermit => pc'[u] \in WithPermit
  PROVE  PermitInv'
BY DEF ram, PermitInv, PermitTypes, PermitPlace, PermitsHold, Holders

LEMMA ThreadPermits ==
  ASSUME ExtractAssumption, PermitInv, TurnInv', NEW t \in Threads, Thread(t)
  PROVE  PermitInv'
<1>1. CASE TakePermit(t)
  BY <1>1, TakePermitHolds
<1>2. CASE Skip(t) \/ Killed(t) \/ UnlockFiles(t) \/ WriteThrows(t)
  <2>1. PICK to \in Points : pc' = [pc EXCEPT ![t] = to]
    BY <1>2 DEF Skip, AfterDamage, Killed, UnlockFiles, WriteThrows, Goes, Points
  <2>2. GivePermitBack(t) /\ UNCHANGED next
    BY <1>2 DEF Skip, Killed, UnlockFiles, WriteThrows
  <2>3. QED
    BY <2>1, <2>2, GivenBackHolds
<1>3. CASE Open(t) \/ Look(t) \/ ReadHeader(t)
  <2>1. PICK to \in Points : pc[t] \notin WithPermit /\ pc' = [pc EXCEPT ![t] = to]
    BY <1>3 DEF Open, Look, ReadHeader, Goes, WithPermit, Points
  <2>2. UNCHANGED <<ram, next>>
    BY <1>3 DEF Open, Look, ReadHeader
  <2>3. QED
    BY <2>1, <2>2, SamePermits DEF PermitInv, PermitTypes
<1>4. CASE Decompress(t) \/ LockFiles(t)
  <2>1. PICK to \in WithPermit : pc' = [pc EXCEPT ![t] = to]
    BY <1>4 DEF Decompress, LockFiles, Goes, WithPermit
  <2>2. UNCHANGED <<ram, next>>
    BY <1>4 DEF Decompress, LockFiles
  <2>3. QED
    BY <2>1, <2>2, SamePermits DEF PermitInv, PermitTypes, Points, WithPermit
<1>5. CASE WriteRun(t) \/ OpenFails(t) \/ NextFile(t)
  <2>1. UNCHANGED <<ram, next, pc>>
    BY <1>5 DEF WriteRun, OpenFails, NextFile
  <2>2. QED
    BY <2>1, SamePermits DEF PermitInv, PermitTypes
<1>6. CASE Find(t)
  <2>1. PICK to \in Points : pc[t] = "find" /\ pc' = [pc EXCEPT ![t] = to]
    BY <1>6 DEF Find, Goes, Points
  <2>2. UNCHANGED ram
    BY <1>6 DEF Find
  <2>3. PermitTypes'
    BY <2>1, <2>2 DEF TurnInv, ExtractTypes, ram, PermitInv, PermitTypes
  <2>4. PermitPlace' /\ PermitsHold'
    BY <2>1, <2>2 DEF ram, PermitInv, PermitTypes, PermitPlace, WithPermit, PermitsHold, Holders
  <2>5. QED
    BY <2>3, <2>4 DEF PermitInv
<1>7. QED
  BY <1>1, <1>2, <1>3, <1>4, <1>5, <1>6 DEF Thread

LEMMA InitPermits == Init => PermitInv
<1> SUFFICES ASSUME Init PROVE PermitInv
  OBVIOUS
<1>1. 1 \in Blocks
  BY ExtractAssumption DEF ExtractAssumption, Blocks
<1>2. Holders = {}
  BY DEF Init, Holders
<1>3. PermitsHold
  BY <1>2, FS_EmptySet DEF Init, PermitsHold
<1>4. QED
  BY <1>1, <1>3 DEF Init, PermitInv, PermitTypes, PermitPlace, Points

LEMMA StepPermits == TurnInv /\ PermitInv /\ [Next]_vars => PermitInv'
<1> SUFFICES ASSUME TurnInv, PermitInv, [Next]_vars PROVE PermitInv'
  OBVIOUS
<1>1. CASE Next
  BY <1>1, StepTurn, ThreadPermits, ExtractAssumption DEF Next
<1>2. CASE UNCHANGED vars
  BY <1>2 DEF vars, ram, PermitInv, PermitTypes, PermitPlace, PermitsHold, Holders
<1>3. QED
  BY <1>1, <1>2

(* The threads with a permit are those that are counted, and they keep to  *)
(* the budget unless one decompresses alone, whatever ends their turns: a  *)
(* permit is never given back twice, nor kept.                             *)
THEOREM PermitTheorem == Spec => []PermitsHold
<1>1. PermitInv => PermitsHold
  BY DEF PermitInv
<1>2. QED
  BY <1>1, InitTurn, StepTurn, InitPermits, StepPermits, PTL DEF Spec

-----------------------------------------------------------------------------
(* What is in use of the RAM.                                              *)

RamOf == [t \in Threads |-> Ram[next[t]]]

RamCounted == ram_inuso = SumFunctionOnSet(RamOf, Holders)

LEMMA RamOfNat ==
  ASSUME ExtractAssumption, PermitTypes
  PROVE  \A t \in Threads : RamOf[t] = Ram[next[t]] /\ RamOf[t] \in Nat
BY RamIsNat DEF RamOf

\* The same holders with the same blocks.
LEMMA SameRam ==
  ASSUME ExtractAssumption, RamCounted, Holders' = Holders, ram_inuso' = ram_inuso,
         \A t \in Holders : next'[t] = next[t]
  PROVE  RamCounted'
<1>1. \A t \in Holders : RamOf[t] = RamOf'[t]
  BY DEF RamOf, Holders
<1>2. PICK f, g : f = RamOf /\ g = RamOf'
  OBVIOUS
<1>3. SumFunctionOnSet(f, Holders) = SumFunctionOnSet(g, Holders)
  BY <1>1, <1>2, HoldersFinite, SumSame
<1>4. QED
  BY <1>2, <1>3 DEF RamCounted

LEMMA ThreadRam ==
  ASSUME ExtractAssumption, PermitInv, RamCounted, NEW t \in Threads, Thread(t)
  PROVE  RamCounted'
<1>t. PermitTypes /\ \A u \in Holders : RamOf[u] \in Nat
  BY RamOfNat DEF PermitInv, Holders
<1>1. CASE TakePermit(t)
  <2>1. /\ pc[t] = "permit" /\ UNCHANGED next /\ ram_inuso' = ram_inuso + Ram[next[t]]
        /\ preso' = [preso EXCEPT ![t] = TRUE]
    BY <1>1 DEF TakePermit, Goes
  <2>2. ~preso[t]
    BY <2>1 DEF PermitInv, PermitPlace, WithPermit
  <2>3. Holders' = Holders \cup {t} /\ t \notin Holders
    BY <2>1, <2>2 DEF Holders, PermitInv, PermitTypes
  <2>4. PICK all : all = Holders \cup {t}
    OBVIOUS
  <2>5. IsFiniteSet(all) /\ t \in all /\ all \ {t} = Holders /\ \A u \in all : RamOf[u] \in Nat
    BY <1>t, <2>3, <2>4, HoldersFinite, FS_AddElement, RamOfNat
  <2>6. SumFunctionOnSet(RamOf, all) = RamOf[t] + SumFunctionOnSet(RamOf, Holders)
    BY <2>5, SumOne
  <2>7. SumFunctionOnSet(RamOf, Holders) \in Nat /\ RamOf[t] \in Nat /\ RamOf[t] = Ram[next[t]]
    BY <1>t, HoldersFinite, SumNat, RamOfNat
  <2>8. RamOf' = RamOf
    BY <2>1 DEF RamOf
  <2>9. ram_inuso' = SumFunctionOnSet(RamOf, all)
    BY <2>1, <2>6, <2>7 DEF RamCounted
  <2>10. QED
    BY <2>3, <2>4, <2>8, <2>9 DEF RamCounted
<1>2. CASE GivePermitBack(t) /\ UNCHANGED next
  <2>1. CASE preso[t]
    <3>1. ram_inuso' = ram_inuso - Ram[next[t]] /\ preso' = [preso EXCEPT ![t] = FALSE]
      BY <1>2, <2>1 DEF GivePermitBack
    <3>2. Holders' = Holders \ {t} /\ t \in Holders
      BY <2>1, <3>1 DEF Holders, PermitInv, PermitTypes
    <3>3. PICK left : left = Holders \ {t}
      OBVIOUS
    <3>4. SumFunctionOnSet(RamOf, Holders) = RamOf[t] + SumFunctionOnSet(RamOf, left)
      <4>1. IsFiniteSet(Holders) /\ t \in Holders /\ \A u \in Holders : RamOf[u] \in Nat
        BY <1>t, <3>2, HoldersFinite, RamOfNat
      <4>2. QED
        BY <3>3, <4>1, SumOne
    <3>5. SumFunctionOnSet(RamOf, left) \in Nat /\ RamOf[t] \in Nat /\ RamOf[t] = Ram[next[t]]
      <4>1. IsFiniteSet(left)
        BY <3>3, HoldersFinite, FS_Subset
      <4>2. QED
        BY <1>t, <3>3, <4>1, SumNat, RamOfNat
    <3>6. RamOf' = RamOf
      BY <1>2 DEF RamOf
    <3>7. ram_inuso' = SumFunctionOnSet(RamOf, left)
      BY <3>1, <3>4, <3>5 DEF RamCounted
    <3>8. QED
      BY <3>2, <3>3, <3>6, <3>7 DEF RamCounted
  <2>2. CASE ~preso[t]
    <3>1. UNCHANGED ram
      BY <1>2, <2>2 DEF GivePermitBack
    <3>2. QED
      BY <1>2, <3>1, SameRam DEF ram, Holders
  <2>3. QED
    BY <2>1, <2>2
<1>3. CASE Skip(t) \/ Killed(t) \/ UnlockFiles(t) \/ WriteThrows(t)
  BY <1>2, <1>3 DEF Skip, Killed, UnlockFiles, WriteThrows
<1>4. CASE \/ Open(t) \/ Look(t) \/ ReadHeader(t) \/ Decompress(t) \/ LockFiles(t)
           \/ WriteRun(t) \/ OpenFails(t) \/ NextFile(t)
  <2>1. UNCHANGED <<ram, next>>
    BY <1>4 DEF Open, Look, ReadHeader, Decompress, LockFiles, WriteRun, OpenFails, NextFile
  <2>2. QED
    BY <2>1, SameRam DEF ram, Holders
<1>5. CASE Find(t)
  <2>1. pc[t] = "find" /\ UNCHANGED ram /\ \A u \in Threads : u # t => next'[u] = next[u]
    BY <1>5 DEF Find, Goes, PermitInv, PermitTypes
  <2>2. t \notin Holders
    BY <2>1 DEF Holders, PermitInv, PermitPlace, WithPermit
  <2>3. QED
    BY <2>1, <2>2, SameRam DEF ram, Holders
<1>6. QED
  BY <1>1, <1>3, <1>4, <1>5 DEF Thread

LEMMA RamInductive == Spec => [](TurnInv /\ PermitInv /\ RamCounted)
<1>1. Init => TurnInv /\ PermitInv /\ RamCounted
  <2> SUFFICES ASSUME Init PROVE TurnInv /\ PermitInv /\ RamCounted
    OBVIOUS
  <2>1. Holders = {}
    BY DEF Init, Holders
  <2>2. RamCounted
    BY <2>1, SumEmpty DEF Init, RamCounted
  <2>3. QED
    BY <2>2, InitTurn, InitPermits
<1>2. TurnInv /\ PermitInv /\ RamCounted /\ [Next]_vars => (TurnInv /\ PermitInv /\ RamCounted)'
  <2> SUFFICES ASSUME TurnInv, PermitInv, RamCounted, [Next]_vars
               PROVE  TurnInv' /\ PermitInv' /\ RamCounted'
    OBVIOUS
  <2>1. CASE Next
    BY <2>1, StepTurn, StepPermits, ThreadRam, ExtractAssumption DEF Next
  <2>2. CASE UNCHANGED vars
    BY <2>2, StepTurn, StepPermits, SameRam, ExtractAssumption DEF vars, ram, Holders
  <2>3. QED
    BY <2>1, <2>2
<1>3. QED
  BY <1>1, <1>2, PTL DEF Spec

(* franzpermesso: what is in use is what the blocks being decompressed     *)
(* take, and within the budget unless one is alone, also when a damaged    *)
(* block, a lack of memory or a failed write ends the turn.                *)
THEOREM RamTheorem == Spec => []RamWithinBudget
<1>1. PermitInv /\ RamCounted => RamWithinBudget
  BY DEF PermitInv, RamCounted, RamOf, RamWithinBudget
<1>2. QED
  BY <1>1, RamInductive, PTL

-----------------------------------------------------------------------------
(* The blocks and the fragments of the files.                              *)

AllPlaces(p) == 1..Len(Ptr[p])

LEMMA LeastIs ==
  ASSUME NEW S, S \subseteq Nat, S # {}
  PROVE  Min(S) \in S /\ \A x \in S : Min(S) <= x
<1>1. PICK n \in S : \A m \in S : n <= m
  BY LeastNat
<1>2. QED
  BY <1>1 DEF Min

LEMMA GreatestIs ==
  ASSUME NEW n \in Nat, NEW S, S \subseteq 0..n, S # {}
  PROVE  Max(S) \in S /\ \A x \in S : x <= Max(S)
<1> DEFINE U == {k \in 0..n : n - k \in S}
<1>1. PICK x \in S : TRUE
  OBVIOUS
<1>2. n - x \in U
  <2>1. x \in 0..n /\ n - x \in 0..n /\ n - (n - x) = x
    BY <1>1
  <2>2. QED
    BY <1>1, <2>1
<1>3. PICK k \in U : \A j \in U : k <= j
  <2>1. U \subseteq Nat
    OBVIOUS
  <2>2. U # {}
    BY <1>2
  <2> HIDE DEF U
  <2>3. QED
    BY <2>1, <2>2, LeastNat
<1>4. \A y \in S : y <= n - k
  <2> SUFFICES ASSUME NEW y \in S PROVE y <= n - k
    OBVIOUS
  <2>1. y \in 0..n /\ n - y \in 0..n /\ n - (n - y) = y
    OBVIOUS
  <2>2. k <= n - y /\ k \in 0..n
    BY <1>3, <2>1
  <2>3. QED
    BY <2>1, <2>2
<1>5. \E m \in S : \A y \in S : m >= y
  <2>1. n - k \in S /\ \A y \in S : n - k >= y
    BY <1>3, <1>4
  <2>2. QED
    BY <2>1
<1>6. Max(S) \in S /\ \A y \in S : Max(S) >= y
  BY <1>5 DEF Max
<1>7. QED
  BY <1>6

LEMMA ConstantTypes ==
  ASSUME ExtractAssumption
  PROVE  /\ Blocks = 1..Len(Start) /\ Len(Start) \in Nat \ {0} /\ Files = 1..Len(Ptr) /\ Len(Ptr) \in Nat
         /\ NFragments \in Nat /\ \A b \in Blocks : Start[b] \in Fragments /\ Start[b] \in Nat \ {0}
         /\ \A p \in Files : /\ Ptr[p] \in Seq(Fragments) /\ Len(Ptr[p]) \in Nat \ {0}
                             /\ \A i \in AllPlaces(p) : Ptr[p][i] \in Fragments /\ Ptr[p][i] \in Nat
<1>1. /\ Start \in Seq(Fragments) /\ Start # <<>> /\ NFragments \in Nat /\ Ptr \in Seq(Seq(Fragments) \ {<<>>})
  BY DEF ExtractAssumption
<1>2. /\ Blocks = 1..Len(Start) /\ Len(Start) \in Nat \ {0} /\ Files = 1..Len(Ptr) /\ Len(Ptr) \in Nat
  BY <1>1 DEF Blocks, Files
<1>3. \A b \in Blocks : Start[b] \in Fragments /\ Start[b] \in Nat \ {0}
  BY <1>1, <1>2 DEF Fragments
<1>4. ASSUME NEW p \in Files
      PROVE  /\ Ptr[p] \in Seq(Fragments) /\ Len(Ptr[p]) \in Nat \ {0}
             /\ \A i \in AllPlaces(p) : Ptr[p][i] \in Fragments /\ Ptr[p][i] \in Nat
  <2>1. PICK s \in Seq(Fragments) : s = Ptr[p] /\ s # <<>>
    BY <1>1, <1>2
  <2>2. Len(s) \in Nat \ {0} /\ \A i \in 1..Len(s) : s[i] \in Fragments
    BY <2>1
  <2>3. Fragments \subseteq Nat
    BY <1>1 DEF Fragments
  <2>4. AllPlaces(p) = 1..Len(s)
    BY <2>1 DEF AllPlaces
  <2>5. QED
    BY <2>1, <2>2, <2>3, <2>4
<1>5. QED
  BY <1>1, <1>2, <1>3, <1>4

\* A fragment is in one block, and in one only.
LEMMA OneBlock ==
  ASSUME ExtractAssumption, NEW f \in Fragments
  PROVE  /\ \E b \in Blocks : InBlock(b, f)
         /\ \A b, c \in Blocks : InBlock(b, f) /\ InBlock(c, f) => b = c
<1>1. /\ Blocks = 1..Len(Start) /\ Len(Start) \in Nat \ {0} /\ f \in Nat \ {0} /\ Start[1] = 1
      /\ \A b \in Blocks : Start[b] \in Nat
  BY ConstantTypes DEF Fragments, ExtractAssumption
<1>2. \A b, c \in Blocks : b < c => Start[b] < Start[c]
  BY DEF ExtractAssumption
<1>3. \E b \in Blocks : InBlock(b, f)
  <2> DEFINE S == {b \in Blocks : Start[b] <= f}
  <2>1. S \subseteq 0..Len(Start) /\ 1 \in S
    BY <1>1
  <2>2. PICK b \in S : \A c \in S : c <= b
    <3> HIDE DEF S
    <3>1. QED
      BY <1>1, <2>1, GreatestIs
  <2>3. b # Len(Start) => f < Start[b + 1]
    <3> SUFFICES ASSUME b # Len(Start), ~(f < Start[b + 1]) PROVE FALSE
      OBVIOUS
    <3>1. b + 1 \in Blocks
      BY <1>1
    <3>2. b + 1 \in S
      BY <1>1, <3>1
    <3>3. b + 1 <= b
      BY <2>2, <3>2
    <3>4. QED
      BY <1>1, <3>3
  <2>4. QED
    BY <1>1, <2>3 DEF InBlock
<1>4. ASSUME NEW b \in Blocks, NEW c \in Blocks, InBlock(b, f), InBlock(c, f), b < c PROVE FALSE
  <2>1. b + 1 \in Blocks /\ f < Start[b + 1] /\ Start[c] <= f
    BY <1>1, <1>4 DEF InBlock
  <2>2. b + 1 = c \/ b + 1 < c
    BY <1>1, <1>4
  <2>3. Start[b + 1] <= Start[c]
    BY <1>1, <1>2, <2>1, <2>2
  <2>4. QED
    BY <1>1, <2>1, <2>3
<1>5. QED
  BY <1>1, <1>3, <1>4

LEMMA SizeIs ==
  ASSUME ExtractAssumption, NEW b \in Blocks
  PROVE  /\ Size(b) \in Nat
         /\ \A p \in Files : \A i \in AllPlaces(p) : InBlock(b, Ptr[p][i]) =>
              Size(b) > 0 /\ Ptr[p][i] \in Start[b]..Start[b] + Size(b) - 1
         /\ \A f \in Start[b]..Start[b] + Size(b) - 1 : InBlock(b, f)
<1>1. Used(b) \subseteq 0..NFragments /\ NFragments \in Nat /\ Start[b] \in Nat
  BY ConstantTypes DEF Used, Fragments
<1>2. ASSUME NEW p \in Files, NEW i \in AllPlaces(p), InBlock(b, Ptr[p][i])
      PROVE  Ptr[p][i] \in Used(b)
  BY <1>2, ConstantTypes DEF Used, Range, AllPlaces
<1>3. CASE Used(b) = {}
  BY <1>1, <1>2, <1>3 DEF Size
<1>4. CASE Used(b) # {}
  <2>1. PICK m : m = Max(Used(b))
    OBVIOUS
  <2>2. m \in Used(b) /\ \A f \in Used(b) : f <= m
    BY <1>1, <1>4, <2>1, GreatestIs
  <2>3. m \in Nat /\ InBlock(b, m) /\ m >= Start[b]
    BY <1>1, <2>2 DEF Used, InBlock
  <2>s. Size(b) = m - Start[b] + 1
    BY <1>4, <2>1 DEF Size
  <2>4. Size(b) \in Nat /\ Size(b) > 0 /\ Start[b] + Size(b) - 1 = m
    <3>1. \A x, y \in Nat : x >= y => x - y + 1 \in Nat /\ x - y + 1 > 0 /\ y + (x - y + 1) - 1 = x
      OBVIOUS
    <3>2. QED
      BY <1>1, <2>3, <2>s, <3>1
  <2>5. \A p \in Files : \A i \in AllPlaces(p) : InBlock(b, Ptr[p][i]) =>
          Ptr[p][i] \in Start[b]..m
    <3> SUFFICES ASSUME NEW p \in Files, NEW i \in AllPlaces(p), InBlock(b, Ptr[p][i])
                 PROVE  Ptr[p][i] \in Start[b]..m
      OBVIOUS
    <3>1. Ptr[p][i] <= m /\ Ptr[p][i] \in Nat /\ Ptr[p][i] >= Start[b]
      BY <1>2, <2>2, ConstantTypes DEF InBlock
    <3>2. QED
      BY <1>1, <2>3, <3>1
  <2>6. \A f \in Start[b]..m : InBlock(b, f)
    <3> SUFFICES ASSUME NEW f \in Start[b]..m PROVE InBlock(b, f)
      OBVIOUS
    <3>1. CASE b = Len(Start)
      BY <1>1, <3>1 DEF InBlock
    <3>2. CASE b # Len(Start)
      <4>1. b + 1 \in Blocks /\ m < Start[b + 1] /\ Start[b + 1] \in Nat
        BY <2>3, <3>2, ConstantTypes DEF InBlock
      <4>2. QED
        BY <1>1, <2>3, <4>1 DEF InBlock
    <3>3. QED
      BY <3>1, <3>2
  <2>7. QED
    BY <2>4, <2>5, <2>6
<1>5. QED
  BY <1>3, <1>4

-----------------------------------------------------------------------------
(* What is in a file, with the places of S done and the others zeros or    *)
(* beyond the end.                                                         *)

FileIs(p, S, d) ==
  /\ Len(d) <= Len(Ptr[p])
  /\ \A i \in AllPlaces(p) :
       IF i \in S
       THEN IF i <= Len(d) THEN d[i] = Content(Ptr[p][i])
                           ELSE i < Len(Ptr[p]) /\ Content(Ptr[p][i]) = 0
       ELSE i <= Len(d) => d[i] = 0

LEMMA ContentIs ==
  ASSUME NEW f \in Fragments
  PROVE  Content(f) \in Fragments \cup {0}
BY DEF Content

LEMMA SeqIs ==
  ASSUME NEW S, NEW n \in Nat, NEW w \in [1..n -> S]
  PROVE  w \in Seq(S) /\ Len(w) = n
OBVIOUS

\* Wherever it goes, a write leaves fragments and zeros.
LEMMA WrittenType ==
  ASSUME ExtractAssumption, NEW p \in Files, NEW d \in Seq(Fragments \cup {0}),
         NEW i \in AllPlaces(p), NEW m \in i - 1..Len(Ptr[p]), NEW s \in Nat \ {0}
  PROVE  Written(p, s, i, m, d) \in Seq(Fragments \cup {0})
<1> DEFINE e == s + m - i
           n == IF e > Len(d) THEN e ELSE Len(d)
           w == [l \in 1..n |-> IF l \in s..e THEN Content(Ptr[p][i + l - s]) ELSE IF l <= Len(d) THEN d[l] ELSE 0]
<1>1. /\ Len(Ptr[p]) \in Nat /\ Len(d) \in Nat /\ i \in Nat /\ i >= 1 /\ m \in Int /\ m <= Len(Ptr[p])
      /\ \A l \in AllPlaces(p) : Content(Ptr[p][l]) \in Fragments \cup {0}
  BY ConstantTypes, ContentIs DEF AllPlaces
<1>2. CASE m < i
  BY <1>2 DEF Written
<1>3. CASE ~(m < i)
  <2>1. Written(p, s, i, m, d) = w
    BY <1>3 DEF Written
  <2>2. n \in Nat
    BY <1>1, <1>3
  <2>3. ASSUME NEW l \in 1..n PROVE w[l] \in Fragments \cup {0}
    <3>1. CASE l \in s..e
      <4>1. i + l - s \in AllPlaces(p)
        BY <1>1, <1>3, <3>1 DEF AllPlaces
      <4>2. QED
        BY <1>1, <3>1, <4>1
    <3>2. CASE l \notin s..e
      <4>1. l <= Len(d) => d[l] \in Fragments \cup {0}
        <5>1. l <= Len(d) => l \in 1..Len(d)
          BY <1>1, <2>2
        <5>2. QED
          BY <5>1
      <4>2. QED
        BY <3>2, <4>1
    <3>3. QED
      BY <3>1, <3>2
  <2>4. w \in [1..n -> Fragments \cup {0}]
    <3>1. w = [l \in 1..n |-> w[l]]
      OBVIOUS
    <3> HIDE DEF w, n
    <3>2. QED
      BY <2>3, <3>1
  <2> HIDE DEF w, n
  <2>5. QED
    BY <2>1, <2>2, <2>4, SeqIs
<1>4. QED
  BY <1>2, <1>3

LEMMA WrittenIs ==
  ASSUME ExtractAssumption, NEW p \in Files, NEW d \in Seq(Fragments \cup {0}),
         NEW i \in AllPlaces(p), NEW k \in i..Len(Ptr[p])
  PROVE  \A S : FileIs(p, S, d) => FileIs(p, S \cup (i..k), Written(p, i, i, k, d))
<1> DEFINE n == IF k > Len(d) THEN k ELSE Len(d)
           w == Written(p, i, i, k, d)
<1>1. /\ Len(Ptr[p]) \in Nat /\ Len(d) \in Nat /\ i \in Nat /\ i >= 1 /\ k \in Nat /\ n \in Nat
      /\ \A l \in AllPlaces(p) : Content(Ptr[p][l]) \in Fragments \cup {0}
  BY ConstantTypes, ContentIs DEF AllPlaces
<1>2. w = [l \in 1..n |-> IF l \in i..k THEN Content(Ptr[p][l]) ELSE IF l <= Len(d) THEN d[l] ELSE 0]
  <2>1. i + k - i = k /\ ~(k < i) /\ \A l \in 1..n : i + l - i = l
    BY <1>1
  <2>2. w = [l \in 1..n |-> IF l \in i..k THEN Content(Ptr[p][i + l - i]) ELSE IF l <= Len(d) THEN d[l] ELSE 0]
    BY <2>1 DEF Written
  <2>3. QED
    BY <2>1, <2>2
<1>3. \A l \in 1..n : w[l] = IF l \in i..k THEN Content(Ptr[p][l]) ELSE IF l <= Len(d) THEN d[l] ELSE 0
  BY <1>2
<1>4. \A l \in i..k : l \in AllPlaces(p)
  BY <1>1 DEF AllPlaces
<1>5. ASSUME NEW l \in 1..n PROVE w[l] \in Fragments \cup {0}
  <2>1. CASE l \in i..k
    BY <1>1, <1>3, <1>4, <2>1
  <2>2. CASE l \notin i..k /\ l <= Len(d)
    <3>1. l \in 1..Len(d)
      BY <1>1, <2>2
    <3>2. d[l] \in Fragments \cup {0}
      BY <3>1
    <3>3. QED
      BY <1>3, <2>2, <3>2
  <2>3. CASE l \notin i..k /\ ~(l <= Len(d))
    BY <1>3, <2>3
  <2>4. QED
    BY <2>1, <2>2, <2>3
<1>6. Len(w) = n
  <2>1. w \in [1..n -> Fragments \cup {0}]
    <3> HIDE DEF w, n
    <3>1. w = [l \in 1..n |-> w[l]]
      BY <1>2
    <3>2. QED
      BY <1>5, <3>1
  <2> HIDE DEF w, n
  <2>2. n \in Nat
    BY <1>1
  <2>3. QED
    BY <2>1, <2>2, SeqIs
<1>7. ASSUME NEW S, FileIs(p, S, d) PROVE FileIs(p, S \cup (i..k), w)
  <2> HIDE DEF w
  <2>1. Len(w) <= Len(Ptr[p])
    BY <1>1, <1>6, <1>7 DEF FileIs
  <2>2. ASSUME NEW l \in AllPlaces(p)
        PROVE  IF l \in S \cup (i..k)
               THEN IF l <= Len(w) THEN w[l] = Content(Ptr[p][l])
                                   ELSE l < Len(Ptr[p]) /\ Content(Ptr[p][l]) = 0
               ELSE l <= Len(w) => w[l] = 0
    <3>1. l \in Nat /\ l >= 1
      BY DEF AllPlaces
    <3>2. IF l \in S THEN IF l <= Len(d) THEN d[l] = Content(Ptr[p][l])
                                        ELSE l < Len(Ptr[p]) /\ Content(Ptr[p][l]) = 0
                     ELSE l <= Len(d) => d[l] = 0
      BY <1>7 DEF FileIs
    <3>3. CASE l \in i..k
      <4>1. l \in 1..n
        BY <1>1, <3>1, <3>3
      <4>2. l <= Len(w)
        BY <1>1, <1>6, <4>1
      <4>3. w[l] = Content(Ptr[p][l])
        BY <1>3, <3>3, <4>1
      <4>4. QED
        BY <3>3, <4>2, <4>3
    <3>4. CASE l \notin i..k /\ l <= Len(d)
      <4>1. l \in 1..n
        BY <1>1, <3>1, <3>4
      <4>2. w[l] = d[l] /\ l <= Len(w)
        <5>1. w[l] = d[l]
          BY <1>3, <3>4, <4>1
        <5>2. l <= Len(w)
          BY <1>1, <1>6, <4>1
        <5>3. QED
          BY <5>1, <5>2
      <4>3. QED
        BY <3>2, <3>4, <4>2
    <3>5. CASE l \notin i..k /\ ~(l <= Len(d))
      <4>1. l <= Len(w) => l \in 1..n
        BY <1>1, <1>6, <3>1
      <4>2. l <= Len(w) => w[l] = 0
        BY <1>3, <3>5, <4>1
      <4>3. l \in S => l < Len(Ptr[p]) /\ Content(Ptr[p][l]) = 0
        BY <3>2, <3>5
      <4>4. QED
        BY <3>5, <4>2, <4>3
    <3>6. QED
      BY <3>3, <3>4, <3>5
  <2>3. QED
    BY <2>1, <2>2 DEF FileIs
<1>8. QED
  BY <1>7

\* Zeros that are not the end of the file need not be written.
LEMMA NotWrittenIs ==
  ASSUME ExtractAssumption, NEW p \in Files, NEW d \in Seq(Fragments \cup {0}),
         NEW i \in AllPlaces(p), NEW k \in i..Len(Ptr[p]), ~IsWritten(p, i, k),
         NEW S, FileIs(p, S, d), S \cap (i..k) = {}
  PROVE  FileIs(p, S \cup (i..k), d)
<1>1. /\ Len(Ptr[p]) \in Nat /\ Len(d) \in Nat /\ i \in Nat /\ i >= 1 /\ k \in Nat
  BY ConstantTypes DEF AllPlaces
<1>2. k < Len(Ptr[p]) /\ \A l \in i..k : Content(Ptr[p][l]) = 0
  BY <1>1 DEF IsWritten
<1>3. ASSUME NEW l \in AllPlaces(p)
      PROVE  IF l \in S \cup (i..k)
             THEN IF l <= Len(d) THEN d[l] = Content(Ptr[p][l])
                                 ELSE l < Len(Ptr[p]) /\ Content(Ptr[p][l]) = 0
             ELSE l <= Len(d) => d[l] = 0
  <2>1. IF l \in S THEN IF l <= Len(d) THEN d[l] = Content(Ptr[p][l])
                                      ELSE l < Len(Ptr[p]) /\ Content(Ptr[p][l]) = 0
                   ELSE l <= Len(d) => d[l] = 0
    BY DEF FileIs
  <2>2. CASE l \in i..k
    BY <1>1, <1>2, <2>1, <2>2
  <2>3. CASE l \notin i..k
    BY <2>1, <2>3
  <2>4. QED
    BY <2>2, <2>3
<1>4. QED
  BY <1>3 DEF FileIs

\* With every place done there is nothing else in it.
LEMMA AllDoneIsWhole ==
  ASSUME ExtractAssumption, NEW p \in Files, NEW d \in Seq(Fragments \cup {0}),
         FileIs(p, AllPlaces(p), d)
  PROVE  d = Whole(p)
<1>1. Len(Ptr[p]) \in Nat \ {0} /\ Len(d) \in Nat /\ Len(Ptr[p]) \in AllPlaces(p)
  BY ConstantTypes DEF AllPlaces
<1>2. Len(d) = Len(Ptr[p])
  BY <1>1 DEF FileIs
<1>3. \A i \in 1..Len(Ptr[p]) : d[i] = Content(Ptr[p][i])
  BY <1>1, <1>2 DEF FileIs, AllPlaces
<1>4. d = [i \in 1..Len(Ptr[p]) |-> d[i]]
  BY <1>2
<1>5. QED
  BY <1>3, <1>4 DEF Whole

-----------------------------------------------------------------------------
(* The places that are done.                                               *)

Passed(t, p, i) == p < at[t].file \/ (p = at[t].file /\ i < at[t].place)

Has(t, b) == pc[t] \in InTurn /\ next[t] = b

\* They are as many as are counted.
Counted(D) ==
  \A p \in Files : D[p] \subseteq AllPlaces(p) /\ data[p] = Cardinality(D[p])

\* They are of blocks that were taken, and that the thread that has one has written.
OfWritten(D) ==
  \A p \in Files : \A i \in D[p] : \A b \in Blocks : InBlock(b, Ptr[p][i]) =>
    /\ state[b] = "WORKING"
    /\ \A t \in Threads : Has(t, b) => pc[t] = "write" /\ Passed(t, p, i)

\* But in the files of which the disk refused what stdio had taken.
InPlace(D) == \A p \in Files : p \notin lost => FileIs(p, D[p], disk[p])

\* A thread has left no place of its block behind, but of a file that did not open.
WrittenSoFar(D) ==
  \A t \in Threads : pc[t] = "write" =>
    \A p \in Files \ unopened : \A i \in AllPlaces(p) :
      InBlock(next[t], Ptr[p][i]) /\ Passed(t, p, i) => i \in D[p]

\* Nor did the threads that are done with a block that was good.
WrittenAll(D) ==
  \A b \in Blocks : extracted[b] = Size(b) /\ Size(b) > 0 /\ (\A t \in Threads : ~Has(t, b)) =>
    \A p \in Files \ unopened : \A i \in AllPlaces(p) : InBlock(b, Ptr[p][i]) => i \in D[p]

Dates ==
  \A p \in Files : /\ dated[p] => data[p] = Len(Ptr[p])
                   /\ data[p] = Len(Ptr[p]) => dated[p] \/ detto

FilesInv(D) ==
  /\ D \in [Files -> SUBSET Nat]
  /\ Counted(D) /\ OfWritten(D) /\ Dates
  /\ ~huge_errore /\ ~detto => InPlace(D)
  /\ ~detto => WrittenSoFar(D) /\ WrittenAll(D)

FileTypes ==
  /\ extracted \in [Blocks -> Nat] /\ data \in [Files -> Nat]
  /\ disk \in [Files -> Seq(Fragments \cup {0})] /\ dated \in [Files -> BOOLEAN]
  /\ outf \in Files \cup {NoFile} /\ lastdt \in Files \cup {NoFile} /\ outf = lastdt
  /\ stands \in Nat /\ lost \subseteq Files /\ unopened \subseteq Files
  /\ stands # 0 => lastdt \in lost
  /\ huge_errore \in BOOLEAN /\ detto \in BOOLEAN /\ g_diskfull \in BOOLEAN
  /\ write_mutex \in Threads \cup {Nobody}
  /\ at \in [Threads -> [file : Nat \ {0}, place : Nat \ {0}]]

DecompressedWhole ==
  \A t \in Threads : pc[t] \in {"decompressed", "write"} => extracted[next[t]] = Size(next[t])

\* A thread that ends found nothing to take, and only a thread lost puts a block back.
NoneLeft ==
  ~g_diskfull /\ (\A t \in Threads : pc[t] # "killed") /\ (\E t \in Threads : pc[t] = "ended") =>
    \A b \in Blocks : ~Takeable(b)

FilesOf == FileTypes /\ DecompressedWhole /\ NoneLeft

LEMMA PlacesAreFinite ==
  ASSUME ExtractAssumption, NEW p \in Files, NEW S, S \subseteq AllPlaces(p)
  PROVE  /\ IsFiniteSet(S) /\ Cardinality(S) \in Nat /\ Cardinality(S) <= Len(Ptr[p])
         /\ Cardinality(S) = Len(Ptr[p]) => S = AllPlaces(p)
<1>1. Len(Ptr[p]) \in Nat
  BY ConstantTypes
<1>2. IsFiniteSet(AllPlaces(p)) /\ Cardinality(AllPlaces(p)) = Len(Ptr[p])
  <2>1. \A n \in Nat : IsFiniteSet(1..n) /\ Cardinality(1..n) = IF 1 > n THEN 0 ELSE n - 1 + 1
    BY FS_Interval
  <2>2. \A n \in Nat : (IF 1 > n THEN 0 ELSE n - 1 + 1) = n
    OBVIOUS
  <2>3. QED
    BY <1>1, <2>1, <2>2 DEF AllPlaces
<1>3. QED
  BY <1>2, FS_Subset, FS_CardinalityType

\* The places that the next write of a thread is about.
LEMMA RunIs ==
  ASSUME ExtractAssumption, TurnInv, FileTypes, DecompressedWhole,
         NEW t \in Threads, pc[t] = "write", HasRun(t)
  PROVE  LET p == at[t].file
         IN  /\ p \in Files /\ First(t) \in AllPlaces(p) /\ Last(t) \in First(t)..Len(Ptr[p])
             /\ at[t].place <= First(t)
             /\ \A l \in First(t)..Last(t) : l \in AllPlaces(p) /\ InBlock(next[t], Ptr[p][l])
             /\ \A l \in AllPlaces(p) :
                  InBlock(next[t], Ptr[p][l]) /\ l <= Last(t)
                    => l < at[t].place \/ l \in First(t)..Last(t)
<1> DEFINE p == at[t].file
           b == next[t]
           S == Places(t, p, at[t].place)
<1>1. p \in Files /\ S # {} /\ b \in Blocks /\ at[t].place \in Nat \ {0} /\ Len(Ptr[p]) \in Nat
      /\ Len(Ptr[p]) \in Nat
  BY ConstantTypes DEF HasRun, TurnInv, ExtractTypes, FileTypes
<1>2. Good(b) = Start[b]..Start[b] + Size(b) - 1
  BY DEF Good, DecompressedWhole
<1>3. \A l \in AllPlaces(p) : Ptr[p][l] \in Good(b) <=> InBlock(b, Ptr[p][l])
  <2>1. \A l \in AllPlaces(p) : InBlock(b, Ptr[p][l]) => Ptr[p][l] \in Good(b)
    BY <1>1, <1>2, SizeIs
  <2>2. \A f \in Good(b) : InBlock(b, f)
    BY <1>1, <1>2, SizeIs
  <2>3. QED
    BY <2>1, <2>2
<1>4. S = {l \in at[t].place..Len(Ptr[p]) : Ptr[p][l] \in Good(b)} /\ S \subseteq Nat
  BY <1>1 DEF Places
<1> HIDE DEF S
<1>5. First(t) \in S /\ \A l \in S : First(t) <= l
  <2>1. First(t) = Min(S)
    BY DEF First, S
  <2>2. QED
    <3>1. S \subseteq Nat /\ S # {}
      BY <1>1, <1>4
    <3>2. Min(S) \in S /\ \A x \in S : Min(S) <= x
      BY <3>1, LeastIs
    <3>3. QED
      BY <2>1, <3>2
<1> DEFINE T == {k \in First(t)..Len(Ptr[p]) : IsRun(t, p, First(t), k)}
<1>6. First(t) \in Nat /\ First(t) >= at[t].place /\ First(t) <= Len(Ptr[p]) /\ First(t) \in AllPlaces(p)
      /\ Ptr[p][First(t)] \in Good(b)
  BY <1>1, <1>4, <1>5 DEF AllPlaces
<1>7. First(t) \in T
  <2>1. First(t) \in First(t)..Len(Ptr[p])
    BY <1>1, <1>6
  <2>2. ASSUME NEW l \in First(t)..First(t)
        PROVE  Ptr[p][l] = Ptr[p][First(t)] + l - First(t) /\ Ptr[p][l] \in Good(b)
    <3>1. l = First(t)
      BY <1>6
    <3>2. Ptr[p][First(t)] \in Nat
      BY <1>1, <1>6, ConstantTypes
    <3>3. QED
      BY <1>6, <3>1, <3>2
  <2>3. QED
    BY <2>1, <2>2 DEF IsRun
<1>8. Last(t) \in T
  <2>1. Last(t) = Max(T)
    BY DEF Last
  <2>2. T \subseteq 0..Len(Ptr[p])
    BY <1>1, <1>6
  <2> HIDE DEF T
  <2>3. QED
    BY <1>1, <1>7, <2>1, <2>2, GreatestIs
<1>9. Last(t) \in First(t)..Len(Ptr[p]) /\ Last(t) \in Nat
      /\ \A l \in First(t)..Last(t) : Ptr[p][l] \in Good(b)
  BY <1>1, <1>6, <1>8 DEF IsRun
<1>10. \A l \in First(t)..Last(t) : l \in AllPlaces(p) /\ InBlock(b, Ptr[p][l])
  <2>1. \A l \in First(t)..Last(t) : l \in AllPlaces(p)
    BY <1>1, <1>6, <1>9 DEF AllPlaces
  <2>2. QED
    BY <1>3, <1>9, <2>1
<1>11. ASSUME NEW l \in AllPlaces(p), InBlock(b, Ptr[p][l]), l <= Last(t), ~(l < at[t].place)
       PROVE  l \in First(t)..Last(t)
  <2>1. l \in Nat /\ l \in at[t].place..Len(Ptr[p]) /\ Ptr[p][l] \in Good(b)
    BY <1>1, <1>3, <1>11 DEF AllPlaces
  <2>2. First(t) <= l
    BY <1>4, <1>5, <2>1
  <2>3. QED
    BY <1>6, <1>9, <1>11, <2>1, <2>2
<1>12. QED
  BY <1>1, <1>6, <1>9, <1>10, <1>11

\* After a file is passed over, no place of it that the block has is left.
LEMMA NoRunLeft ==
  ASSUME ExtractAssumption, TurnInv, FileTypes, DecompressedWhole, NEW D, FilesInv(D),
         ~detto,
         NEW t \in Threads, pc[t] = "write", ~HasRun(t), at[t].file \in Files, at[t].file \notin unopened,
         NEW i \in AllPlaces(at[t].file), InBlock(next[t], Ptr[at[t].file][i])
  PROVE  i \in D[at[t].file]
<1> DEFINE p == at[t].file
           b == next[t]
<1>1. /\ p \in Files /\ b \in Blocks /\ at[t].place \in Nat \ {0} /\ Len(Ptr[p]) \in Nat
      /\ i \in 1..Len(Ptr[p])
  BY ConstantTypes DEF TurnInv, ExtractTypes, FileTypes, AllPlaces
<1>2. CASE at[t].place > 1 \/ data[p] < Len(Ptr[p])
  <2>1. Places(t, p, at[t].place) = {}
    BY <1>1, <1>2 DEF HasRun
  <2>2. Ptr[p][i] \in Good(b)
    BY <1>1, SizeIs DEF Good, DecompressedWhole
  <2>3. ~(i \in at[t].place..Len(Ptr[p]))
    BY <2>1, <2>2 DEF Places
  <2>4. Passed(t, p, i)
    BY <1>1, <2>3 DEF Passed
  <2>5. QED
    BY <1>1, <2>4 DEF FilesInv, WrittenSoFar
<1>3. CASE ~(data[p] < Len(Ptr[p]))
  <2>1. D[p] \subseteq AllPlaces(p) /\ data[p] = Cardinality(D[p])
    BY <1>1 DEF FilesInv, Counted
  <2>2. Cardinality(D[p]) = Len(Ptr[p])
    BY <1>1, <1>3, <2>1, PlacesAreFinite
  <2>3. QED
    BY <1>1, <2>1, <2>2, PlacesAreFinite
<1>4. QED
  BY <1>2, <1>3

\* The places of a run are done once: no thread has been there.
LEMMA RunCounted ==
  ASSUME ExtractAssumption, TurnInv, FileTypes, DecompressedWhole, NEW D, FilesInv(D),
         NEW t \in Threads, pc[t] = "write", HasRun(t),
         data' = [data EXCEPT ![at[t].file] = @ + (Last(t) - First(t) + 1)],
         UNCHANGED <<state, next>>,
         \/ pc' = pc /\ at' = [at EXCEPT ![t].place = Last(t) + 1]
         \/ pc' = [pc EXCEPT ![t] = "killed"] /\ at' = at,
         NEW E, E = [D EXCEPT ![at[t].file] = @ \cup (First(t)..Last(t))]
  PROVE  /\ E \in [Files -> SUBSET Nat] /\ D[at[t].file] \cap (First(t)..Last(t)) = {}
         /\ Counted(E)' /\ OfWritten(E)'
         /\ data[at[t].file] < Len(Ptr[at[t].file])
         /\ data'[at[t].file] \in Nat
<1>1. PICK p, i, k :
        /\ p \in Files /\ i \in AllPlaces(p) /\ k \in i..Len(Ptr[p])
        /\ p = at[t].file /\ i = First(t) /\ k = Last(t) /\ at[t].place <= i
        /\ \A l \in i..k : l \in AllPlaces(p) /\ InBlock(next[t], Ptr[p][l])
  BY RunIs
<1> DEFINE run == i..k
<1>2. /\ i \in Nat /\ k \in Nat /\ i <= k /\ at[t].place \in Nat /\ Len(Ptr[p]) \in Nat
      /\ next[t] \in Blocks /\ Has(t, next[t])
  <2>1. Len(Ptr[p]) \in Nat /\ i \in Nat
    BY <1>1, ConstantTypes DEF AllPlaces
  <2>2. at[t].place \in Nat
    BY DEF FileTypes
  <2>3. next[t] \in Blocks /\ Has(t, next[t])
    BY DEF TurnInv, ExtractTypes, Has, InTurn
  <2>4. QED
    BY <1>1, <2>1, <2>2, <2>3
<1>3. D[p] \cap run = {}
  <2> SUFFICES ASSUME NEW l \in D[p], l \in run PROVE FALSE
    OBVIOUS
  <2>1. Passed(t, p, l)
    BY <1>1, <1>2 DEF FilesInv, OfWritten
  <2>2. l < i /\ p \in Nat
    <3>1. l < at[t].place
      BY <1>1, <2>1, ConstantTypes DEF Passed
    <3>2. p \in Nat
      BY <1>1, ConstantTypes
    <3>3. QED
      BY <1>1, <1>2, <3>1, <3>2
  <2>3. QED
    BY <1>2, <2>2
<1>4. /\ E \in [Files -> SUBSET Nat] /\ E[p] = D[p] \cup run
      /\ \A q \in Files : q # p => E[q] = D[q]
  BY <1>1, <1>2 DEF FilesInv
<1>5. data'[p] = data[p] + (k - i + 1) /\ \A q \in Files : q # p => data'[q] = data[q]
  BY <1>1 DEF FileTypes
<1>6. /\ D[p] \subseteq AllPlaces(p) /\ E[p] \subseteq AllPlaces(p)
      /\ data[p] = Cardinality(D[p]) /\ data[p] \in Nat
      /\ Cardinality(E[p]) = data[p] + (k - i + 1)
  <2>1. D[p] \subseteq AllPlaces(p) /\ E[p] \subseteq AllPlaces(p) /\ data[p] = Cardinality(D[p])
    BY <1>1, <1>4 DEF FilesInv, Counted
  <2>2. IsFiniteSet(D[p]) /\ IsFiniteSet(run) /\ Cardinality(D[p]) \in Nat
    BY <1>1, <2>1, PlacesAreFinite
  <2>3. Cardinality(run) = k - i + 1
    <3>1. \A a, b \in Int : Cardinality(a..b) = IF a > b THEN 0 ELSE b - a + 1
      BY FS_Interval
    <3>2. QED
      BY <1>2, <3>1
  <2>4. D[p] \cap run = {} /\ Cardinality({}) = 0
    BY <1>3, FS_EmptySet
  <2>5. Cardinality(D[p] \cup run) = Cardinality(D[p]) + Cardinality(run) - Cardinality(D[p] \cap run)
    BY <2>2, FS_Union
  <2>6. Cardinality(E[p]) = Cardinality(D[p]) + (k - i + 1)
    <3>1. \A x, y \in Nat : x + y - 0 = x + y
      OBVIOUS
    <3>2. k - i + 1 \in Nat
      BY <1>2
    <3>3. Cardinality(E[p]) = Cardinality(D[p]) + Cardinality(run) - 0
      BY <1>4, <2>4, <2>5
    <3> HIDE DEF run
    <3>4. QED
      BY <2>2, <2>3, <3>1, <3>2, <3>3
  <2>7. QED
    BY <2>1, <2>2, <2>6
<1>7. data[p] < Len(Ptr[p]) /\ data'[p] \in Nat
  <2>1. Cardinality(E[p]) <= Len(Ptr[p]) /\ Cardinality(E[p]) \in Nat
    BY <1>1, <1>6, PlacesAreFinite
  <2>2. QED
    BY <1>2, <1>5, <1>6, <2>1
<1>8. Counted(E)'
  <2> SUFFICES ASSUME NEW q \in Files
               PROVE  E[q] \subseteq AllPlaces(q) /\ data'[q] = Cardinality(E[q])
    BY DEF Counted
  <2>1. CASE q = p
    BY <1>5, <1>6, <2>1
  <2>2. CASE q # p
    BY <1>4, <1>5, <2>2 DEF FilesInv, Counted
  <2>3. QED
    BY <2>1, <2>2
<1>9. \A u \in Threads, q \in Files, l \in Nat : Passed(u, q, l) => Passed(u, q, l)'
  <2> SUFFICES ASSUME NEW u \in Threads, NEW q \in Files, NEW l \in Nat, Passed(u, q, l)
               PROVE  Passed(u, q, l)'
    OBVIOUS
  <2>1. at' = at \/ at' = [at EXCEPT ![t].place = k + 1]
    BY <1>1
  <2>2. at'[u].file = at[u].file /\ (at'[u].place = at[u].place \/ (u = t /\ at'[u].place = k + 1))
    <3>1. CASE at' = at
      BY <3>1
    <3>2. CASE at' = [at EXCEPT ![t].place = k + 1]
      <4>1. at \in [Threads -> [file : Nat \ {0}, place : Nat \ {0}]]
        BY DEF FileTypes
      <4>2. CASE u = t
        BY <3>2, <4>1, <4>2
      <4>3. CASE u # t
        BY <3>2, <4>1, <4>3
      <4>4. QED
        BY <4>2, <4>3
    <3>3. QED
      BY <2>1, <3>1, <3>2
  <2>3. at[t].place <= k + 1 /\ at[u].place \in Nat
    <3>1. at[t].place <= i
      BY <1>1
    <3>2. at[u].place \in Nat
      BY DEF FileTypes
    <3>3. QED
      BY <1>2, <3>1, <3>2
  <2>4. QED
    BY <1>2, <2>2, <2>3 DEF Passed
<1>10. \A u \in Threads : \A b : Has(u, b)' => Has(u, b) /\ pc'[u] = pc[u] /\ (u = t => pc' = pc)
  <2>1. pc \in [Threads -> Points] /\ "killed" \notin InTurn
    BY DEF TurnInv, ExtractTypes, InTurn
  <2>2. QED
    BY <2>1 DEF Has
<1>11. OfWritten(E)'
  <2> SUFFICES ASSUME NEW q \in Files, NEW l \in E[q], NEW b \in Blocks, InBlock(b, Ptr[q][l])
               PROVE  /\ state[b] = "WORKING"
                      /\ \A u \in Threads : Has(u, b)' => pc'[u] = "write" /\ Passed(u, q, l)'
    BY DEF OfWritten
  <2>l. l \in Nat
    BY <1>4
  <2>1. CASE l \in D[q]
    <3>1. state[b] = "WORKING" /\ \A u \in Threads : Has(u, b) => pc[u] = "write" /\ Passed(u, q, l)
      BY <2>1 DEF FilesInv, OfWritten
    <3>2. QED
      BY <1>9, <1>10, <2>l, <3>1
  <2>2. CASE l \notin D[q]
    <3>1. q = p /\ l \in run
      BY <1>4, <2>2
    <3>2. Ptr[p][l] \in Fragments /\ InBlock(next[t], Ptr[p][l])
      BY <1>1, <3>1, ConstantTypes
    <3>3. b = next[t]
      BY <1>2, <3>1, <3>2, OneBlock
    <3>4. Busy(t) /\ state[b] = "WORKING" /\ \A u \in Threads : Busy(u) /\ next[u] = b => u = t
      BY <3>3 DEF TurnInv, BlockHasOneThread, Busy
    <3>5. ASSUME NEW u \in Threads, Has(u, b)' PROVE pc'[u] = "write" /\ Passed(u, q, l)'
      <4>1. Has(u, b)
        BY <1>10, <3>5
      <4>2. u = t
        BY <3>4, <4>1, BusyIsInTurn DEF Has, TurnInv
      <4>3. pc' = pc /\ at' = [at EXCEPT ![t].place = Last(t) + 1]
        <5>1. pc' = pc
          BY <1>10, <3>5, <4>2
        <5>2. pc[t] # "killed" /\ pc \in [Threads -> Points]
          BY DEF TurnInv, ExtractTypes
        <5>3. QED
          BY <5>1, <5>2
      <4>4. at'[t].file = p /\ at'[t].place = k + 1
        BY <1>1, <4>3 DEF FileTypes
      <4>5. QED
        BY <1>2, <3>1, <4>2, <4>3, <4>4 DEF Passed
    <3>6. QED
      BY <3>4, <3>5
  <2>3. QED
    BY <2>1, <2>2
<1>12. QED
  BY <1>1, <1>3, <1>4, <1>7, <1>8, <1>11

LEMMA BeforeIs ==
  ASSUME ExtractAssumption, FileTypes, NEW D, FilesInv(D), NEW p \in Files
  PROVE  /\ Before(p) \in Seq(Fragments \cup {0})
         /\ InPlace(D) /\ p \notin lost => FileIs(p, D[p], Before(p))
<1>1. disk[p] \in Seq(Fragments \cup {0})
  BY DEF FileTypes
<1>2. CASE Before(p) = disk[p]
  BY <1>1, <1>2 DEF InPlace
<1>3. CASE Before(p) # disk[p]
  <2>1. Before(p) = <<>> /\ data[p] = 0
    BY <1>3 DEF Before, Opened
  <2>2. D[p] = {}
    <3>1. D[p] \subseteq AllPlaces(p) /\ Cardinality(D[p]) = 0
      BY <2>1 DEF FilesInv, Counted
    <3>2. IsFiniteSet(D[p])
      BY <3>1, PlacesAreFinite
    <3>3. QED
      BY <3>1, <3>2, FS_EmptySet
  <2>3. FileIs(p, {}, <<>>)
    <3>1. Len(<<>>) = 0 /\ Len(Ptr[p]) \in Nat /\ \A i \in AllPlaces(p) : ~(i <= 0)
      BY ConstantTypes DEF AllPlaces
    <3>2. QED
      BY <3>1 DEF FileIs
  <2>4. <<>> \in Seq(Fragments \cup {0})
    OBVIOUS
  <2>5. QED
    BY <2>1, <2>2, <2>3, <2>4
<1>4. QED
  BY <1>2, <1>3

\* A run that is written, or not: the file has it, unless it was told or it is lost.
LEMMA WritesIs ==
  ASSUME ExtractAssumption, FileTypes, NEW D, FilesInv(D), NEW p \in Files,
         NEW i \in AllPlaces(p), NEW k \in i..Len(Ptr[p]), Writes(p, i, k),
         D[p] \cap (i..k) = {}
  PROVE  /\ disk' \in [Files -> Seq(Fragments \cup {0})]
         /\ stands' \in Nat /\ lost' \subseteq Files /\ lost \subseteq lost' /\ huge_errore' \in BOOLEAN
         /\ stands' # 0 => p \in lost' /\ ~IsLastRun(p, i, k)
         /\ ~huge_errore' => ~huge_errore
         /\ InPlace(D) /\ ~huge_errore' =>
              /\ p \notin lost' => FileIs(p, D[p] \cup (i..k), disk'[p])
              /\ \A q \in Files : q # p => disk'[q] = disk[q]
<1> DEFINE old == [disk EXCEPT ![p] = Before(p)]
           s == From(p, i)
           Put(m) == [old EXCEPT ![p] = Written(p, s, i, m, Before(p))]
<1>1. /\ i \in Nat \ {0} /\ k \in Nat /\ i <= k /\ k <= Len(Ptr[p]) /\ Len(Ptr[p]) \in Nat
  BY ConstantTypes DEF AllPlaces
<1>2. /\ Target(p) = p
      /\ s \in Nat \ {0} /\ (p \notin lost => s = i)
      /\ StillStands(p) \in Nat /\ (StillStands(p) # 0 => p \in lost)
  BY <1>1 DEF Target, IsOpen, From, StillStands, FileTypes
<1>3. /\ old \in [Files -> Seq(Fragments \cup {0})] /\ old[p] = Before(p)
      /\ \A q \in Files : q # p => old[q] = disk[q]
      /\ Before(p) \in Seq(Fragments \cup {0})
      /\ InPlace(D) /\ p \notin lost => FileIs(p, D[p], old[p])
  <2>1. Before(p) \in Seq(Fragments \cup {0}) /\ (InPlace(D) /\ p \notin lost => FileIs(p, D[p], Before(p)))
    BY BeforeIs
  <2>2. disk \in [Files -> Seq(Fragments \cup {0})]
    BY DEF FileTypes
  <2>3. QED
    BY <2>1, <2>2
<1> HIDE DEF old, s
<1>4. ASSUME NEW m \in i - 1..k
      PROVE  /\ Put(m) \in [Files -> Seq(Fragments \cup {0})]
             /\ Put(m)[p] = Written(p, s, i, m, Before(p))
             /\ \A q \in Files : q # p => Put(m)[q] = disk[q]
  <2>1. m \in i - 1..Len(Ptr[p])
    BY <1>1
  <2>2. Written(p, s, i, m, Before(p)) \in Seq(Fragments \cup {0})
    BY <1>2, <1>3, <2>1, WrittenType
  <2>3. QED
    BY <1>3, <2>2
<1>5. CASE ~IsWritten(p, i, k) /\ disk' = old /\ Stands(p, i, k, StillStands(p)) /\ UNCHANGED <<huge_errore, lost>>
  <2>1. /\ stands' \in Nat /\ (stands' # 0 => p \in lost /\ ~IsLastRun(p, i, k))
    BY <1>2, <1>5 DEF Stands
  <2>2. InPlace(D) /\ p \notin lost => FileIs(p, D[p] \cup (i..k), old[p])
    BY <1>3, <1>5, NotWrittenIs
  <2>3. QED
    BY <1>3, <1>5, <2>1, <2>2 DEF FileTypes
<1>6. CASE disk' = Put(k) /\ stands' = 0 /\ UNCHANGED <<huge_errore, lost>>
  <2>1. k \in i - 1..k
    BY <1>1
  <2>2. InPlace(D) /\ p \notin lost => FileIs(p, D[p] \cup (i..k), disk'[p])
    <3> SUFFICES ASSUME InPlace(D), p \notin lost PROVE FileIs(p, D[p] \cup (i..k), disk'[p])
      OBVIOUS
    <3>1. disk'[p] = Written(p, i, i, k, Before(p))
      BY <1>2, <1>4, <1>6, <2>1
    <3>2. FileIs(p, D[p], Before(p))
      BY <1>3
    <3>3. FileIs(p, D[p] \cup (i..k), Written(p, i, i, k, Before(p)))
      <4>1. \A S : FileIs(p, S, Before(p)) => FileIs(p, S \cup (i..k), Written(p, i, i, k, Before(p)))
        BY <1>3, WrittenIs
      <4>2. QED
        BY <3>2, <4>1
    <3>4. QED
      BY <3>1, <3>3
  <2>3. /\ disk' \in [Files -> Seq(Fragments \cup {0})]
        /\ \A q \in Files : q # p => disk'[q] = disk[q]
    BY <1>4, <1>6, <2>1
  <2>4. QED
    BY <1>6, <2>2, <2>3 DEF FileTypes
<1>7. CASE \E m \in i - 1..k - 1 :
             /\ disk' = Put(m)
             /\ \/ huge_errore' = TRUE /\ stands' = 0 /\ UNCHANGED lost
                \/ lost' = lost \cup {p} /\ Stands(p, i, k, s + (m - i + 1)) /\ UNCHANGED huge_errore
  <2>1. PICK m \in i - 1..k - 1 :
             /\ disk' = Put(m)
             /\ \/ huge_errore' = TRUE /\ stands' = 0 /\ UNCHANGED lost
                \/ lost' = lost \cup {p} /\ Stands(p, i, k, s + (m - i + 1)) /\ UNCHANGED huge_errore
    BY <1>7
  <2>2. m \in i - 1..k /\ s + (m - i + 1) \in Nat
    <3>1. m \in Int /\ i - 1 <= m /\ m <= k - 1
      BY <1>1, <2>1
    <3>2. m - i + 1 \in Nat /\ m \in i - 1..k
      BY <1>1, <3>1
    <3>3. QED
      BY <1>2, <3>2
  <2>3. /\ disk' \in [Files -> Seq(Fragments \cup {0})]
        /\ \A q \in Files : q # p => disk'[q] = disk[q]
    BY <1>4, <2>1, <2>2
  <2>4. CASE huge_errore' = TRUE /\ stands' = 0 /\ UNCHANGED lost
    BY <2>3, <2>4 DEF FileTypes
  <2>5. CASE lost' = lost \cup {p} /\ Stands(p, i, k, s + (m - i + 1)) /\ UNCHANGED huge_errore
    <3>1. stands' \in Nat /\ (stands' # 0 => ~IsLastRun(p, i, k))
      BY <2>2, <2>5 DEF Stands
    <3>2. QED
      BY <2>3, <2>5, <3>1 DEF FileTypes
  <2>6. QED
    BY <2>1, <2>4, <2>5
<1>8. \A m : [old EXCEPT ![p] = Written(p, s, i, m, @)] = Put(m)
  BY <1>3
<1>9. QED
  BY <1>2, <1>5, <1>6, <1>7, <1>8 DEF Writes, old, s

LEMMA WriteRunFiles ==
  ASSUME ExtractAssumption, TurnInv, FilesOf, NEW D, FilesInv(D), NEW t \in Threads, WriteRun(t)
  PROVE  FileTypes' /\ \E E : FilesInv(E)'
<1>0. pc[t] = "write" /\ HasRun(t) /\ FileTypes /\ DecompressedWhole
  BY DEF WriteRun, FilesOf
<1>1. PICK p, i, k :
        /\ p \in Files /\ i \in AllPlaces(p) /\ k \in i..Len(Ptr[p])
        /\ p = at[t].file /\ i = First(t) /\ k = Last(t) /\ at[t].place <= i
        /\ \A l \in AllPlaces(p) : InBlock(next[t], Ptr[p][l]) /\ l <= k => l < at[t].place \/ l \in i..k
  BY <1>0, RunIs
<1>2. i \in Nat /\ k \in Nat /\ i <= k /\ k + 1 \in Nat \ {0} /\ at[t].place \in Nat
  <2>1. Len(Ptr[p]) \in Nat /\ i \in Nat
    BY <1>1, ConstantTypes DEF AllPlaces
  <2>2. at[t].place \in Nat
    BY <1>0 DEF FileTypes
  <2>3. QED
    BY <1>1, <2>1, <2>2
<1> DEFINE E == [D EXCEPT ![p] = @ \cup (i..k)]
           n == data[p] + (k - i + 1)
<1>3. /\ data' = [data EXCEPT ![p] = n] /\ Writes(p, i, k)
      /\ at' = [at EXCEPT ![t].place = k + 1]
      /\ UNCHANGED <<state, extracted, detto, unopened, g_diskfull, write_mutex, pc, next>>
  BY <1>1 DEF WriteRun, Count, blocks
<1>4. /\ E \in [Files -> SUBSET Nat] /\ D[p] \cap (i..k) = {}
      /\ Counted(E)' /\ OfWritten(E)' /\ data[p] < Len(Ptr[p]) /\ data'[p] \in Nat
  <2>1. PICK F : F = [D EXCEPT ![at[t].file] = @ \cup (First(t)..Last(t))]
    OBVIOUS
  <2>2. data' = [data EXCEPT ![at[t].file] = @ + (Last(t) - First(t) + 1)]
    BY <1>1, <1>3
  <2>3. pc' = pc /\ at' = [at EXCEPT ![t].place = Last(t) + 1] /\ UNCHANGED <<state, next>>
    BY <1>1, <1>3
  <2>4. /\ F \in [Files -> SUBSET Nat] /\ D[at[t].file] \cap (First(t)..Last(t)) = {}
        /\ Counted(F)' /\ OfWritten(F)'
        /\ data[at[t].file] < Len(Ptr[at[t].file]) /\ data'[at[t].file] \in Nat
    BY <1>0, <2>1, <2>2, <2>3, RunCounted
  <2>5. F = E
    BY <1>1, <2>1
  <2> HIDE DEF E
  <2>6. QED
    BY <1>1, <2>4, <2>5
<1>t. Target(p) = p
  BY <1>0 DEF Target, IsOpen, FileTypes
<1>w. /\ FileTypes /\ FilesInv(D) /\ p \in Files /\ i \in AllPlaces(p) /\ k \in i..Len(Ptr[p])
      /\ Writes(p, i, k) /\ D[p] \cap (i..k) = {}
  BY <1>0, <1>1, <1>3, <1>4
<1> HIDE DEF E, n
<1>5. /\ disk' \in [Files -> Seq(Fragments \cup {0})]
      /\ stands' \in Nat /\ lost' \subseteq Files /\ lost \subseteq lost' /\ huge_errore' \in BOOLEAN
      /\ stands' # 0 => p \in lost' /\ ~IsLastRun(p, i, k)
      /\ ~huge_errore' => ~huge_errore
      /\ InPlace(D) /\ ~huge_errore' =>
           /\ p \notin lost' => FileIs(p, D[p] \cup (i..k), disk'[p])
           /\ \A q \in Files : q # p => disk'[q] = disk[q]
  BY <1>w, WritesIs
<1> USE DEF E, n
<1>7. IF n = Len(Ptr[p])
      THEN outf' = NoFile /\ lastdt' = NoFile /\ dated' = [dated EXCEPT ![p] = TRUE]
      ELSE outf' = p /\ lastdt' = p /\ dated' = dated
  BY <1>1, <1>t DEF WriteRun, IsLastRun
<1>8. FileTypes'
  <2>1. data' \in [Files -> Nat] /\ at' \in [Threads -> [file : Nat \ {0}, place : Nat \ {0}]]
    <3>1. n \in Nat
      BY <1>0, <1>2, <1>3, <1>4 DEF FileTypes
    <3> HIDE DEF n
    <3>2. QED
      BY <1>0, <1>2, <1>3, <3>1 DEF FileTypes
  <2>3. /\ dated' \in [Files -> BOOLEAN] /\ outf' \in Files \cup {NoFile}
        /\ lastdt' \in Files \cup {NoFile} /\ outf' = lastdt'
    <3> HIDE DEF n
    <3>1. dated \in [Files -> BOOLEAN] /\ p \in Files
      BY <1>0, <1>1 DEF FileTypes
    <3>2. dated' \in [Files -> BOOLEAN]
      BY <1>7, <3>1
    <3>3. QED
      BY <1>7, <3>1, <3>2
  <2>4. extracted' \in [Blocks -> Nat] /\ detto' \in BOOLEAN /\ unopened' \subseteq Files
        /\ g_diskfull' \in BOOLEAN /\ write_mutex' \in Threads \cup {Nobody}
    BY <1>0, <1>3 DEF FileTypes
  <2>5. stands' # 0 => lastdt' \in lost'
    <3>1. IsLastRun(p, i, k) <=> n = Len(Ptr[p])
      BY DEF IsLastRun
    <3> HIDE DEF n
    <3>2. QED
      BY <1>5, <1>7, <3>1
  <2>6. QED
    BY <1>5, <2>1, <2>3, <2>4, <2>5 DEF FileTypes
<1>9. E[p] = D[p] \cup (i..k) /\ \A q \in Files : q # p => E[q] = D[q]
  BY <1>1 DEF FilesInv
<1>10. Dates'
  <2> SUFFICES ASSUME NEW q \in Files
               PROVE  /\ dated'[q] => data'[q] = Len(Ptr[q])
                      /\ data'[q] = Len(Ptr[q]) => dated'[q] \/ detto
    BY <1>3 DEF Dates
  <2>0. /\ dated[q] => data[q] = Len(Ptr[q])
        /\ data[q] = Len(Ptr[q]) => dated[q] \/ detto
    BY DEF FilesInv, Dates
  <2>1. CASE q # p
    <3>1. data'[q] = data[q] /\ dated'[q] = dated[q]
      BY <1>0, <1>3, <1>7, <2>1 DEF FileTypes
    <3>2. QED
      BY <2>0, <3>1
  <2>2. CASE q = p
    <3>1. ~dated[p]
      BY <1>0, <1>4, <2>0, <2>2, ConstantTypes DEF FileTypes
    <3>2. data'[p] = n
      <4> HIDE DEF n
      <4>1. QED
        BY <1>0, <1>1, <1>3 DEF FileTypes
    <3> HIDE DEF n
    <3>3. dated'[p] <=> n = Len(Ptr[p])
      <4>1. dated \in [Files -> BOOLEAN] /\ p \in Files
        BY <1>0, <1>1 DEF FileTypes
      <4>2. QED
        BY <1>7, <3>1, <4>1
    <3>4. QED
      BY <2>2, <3>2, <3>3
  <2>3. QED
    BY <2>1, <2>2
<1> HIDE DEF E, n
<1>11. ASSUME ~huge_errore', ~detto' PROVE InPlace(E)'
  <2>1. InPlace(D)
    BY <1>3, <1>5, <1>11 DEF FilesInv
  <2>2. ASSUME NEW q \in Files, q \notin lost' PROVE FileIs(q, E[q], disk'[q])
    <3>1. CASE q = p
      BY <1>5, <1>9, <1>11, <2>1, <2>2, <3>1
    <3>2. CASE q # p
      <4>1. disk'[q] = disk[q] /\ E[q] = D[q] /\ q \notin lost
        BY <1>5, <1>9, <1>11, <2>1, <2>2, <3>2
      <4>2. QED
        BY <2>1, <4>1 DEF InPlace
    <3>3. QED
      BY <3>1, <3>2
  <2>3. QED
    BY <2>2 DEF InPlace
<1>12. ASSUME ~detto' PROVE WrittenSoFar(E)' /\ WrittenAll(E)'
  <2>0. WrittenSoFar(D) /\ WrittenAll(D) /\ \A q \in Files : D[q] \subseteq E[q]
    BY <1>3, <1>9, <1>12 DEF FilesInv
  <2>1. WrittenSoFar(E)'
    <3> SUFFICES ASSUME NEW u \in Threads, pc[u] = "write",
                        NEW q \in Files \ unopened, NEW l \in AllPlaces(q),
                        InBlock(next[u], Ptr[q][l]), Passed(u, q, l)'
                 PROVE  l \in E[q]
      BY <1>3 DEF WrittenSoFar
    <3>1. CASE u # t
      <4>1. at'[u] = at[u]
        BY <1>3, <3>1
      <4>2. QED
        BY <2>0, <4>1 DEF WrittenSoFar, Passed
    <3>2. CASE u = t
      <4>1. at'[t].file = p /\ at'[t].place = k + 1 /\ l \in Nat
        BY <1>0, <1>1, <1>3 DEF FileTypes, AllPlaces
      <4>2. CASE q # p
        <5>1. Passed(t, q, l)
          BY <1>1, <3>2, <4>1, <4>2 DEF Passed
        <5>2. QED
          BY <2>0, <3>2, <5>1 DEF WrittenSoFar
      <4>3. CASE q = p
        <5>1. l <= k
          BY <1>2, <3>2, <4>1, <4>3, ConstantTypes DEF Passed
        <5>2. CASE l \in i..k
          BY <1>9, <4>3, <5>2
        <5>3. CASE l < at[t].place
          BY <1>1, <2>0, <3>2, <4>3, <5>3 DEF WrittenSoFar, Passed
        <5>4. QED
          BY <1>1, <3>2, <4>3, <5>1, <5>2, <5>3
      <4>4. QED
        BY <4>2, <4>3
    <3>3. QED
      BY <3>1, <3>2
  <2>2. WrittenAll(E)'
    <3>1. \A u \in Threads : \A b : Has(u, b)' <=> Has(u, b)
      BY <1>3 DEF Has
    <3>2. QED
      BY <1>3, <2>0, <3>1 DEF WrittenAll
  <2>3. QED
    BY <2>1, <2>2
<1>13. FilesInv(E)'
  BY <1>4, <1>10, <1>11, <1>12 DEF FilesInv
<1>14. QED
  BY <1>8, <1>13

-----------------------------------------------------------------------------
(* The steps that do not write.                                            *)

FilesKept(D) ==
  /\ Counted(D) /\ OfWritten(D) /\ Dates
  /\ ~huge_errore /\ ~detto => InPlace(D)

\* The same places, and the blocks of their fragments with those who had them.
LEMMA SamePlaces ==
  ASSUME NEW D, FilesInv(D), UNCHANGED <<data, disk, dated, lost, huge_errore>>,
         detto => detto',
         \A p \in Files : \A i \in D[p] : \A b \in Blocks :
           InBlock(b, Ptr[p][i]) => /\ state'[b] = "WORKING"
                                    /\ \A u \in Threads : Has(u, b)' =>
                                         Has(u, b) /\ pc'[u] = pc[u] /\ (Passed(u, p, i) => Passed(u, p, i)')
  PROVE  FilesKept(D)'
<1>1. Counted(D)' /\ Dates'
  BY DEF FilesInv, Counted, Dates
<1>2. OfWritten(D)'
  BY DEF FilesInv, OfWritten
<1>3. ASSUME ~huge_errore', ~detto' PROVE InPlace(D)'
  BY <1>3 DEF FilesInv, InPlace
<1>4. QED
  BY <1>1, <1>2, <1>3 DEF FilesKept

LEMMA SameEnds ==
  ASSUME NoneLeft, g_diskfull => g_diskfull', \A b \in Blocks : Takeable(b)' => Takeable(b),
         \A u \in Threads : /\ pc[u] = "killed" => pc'[u] = "killed"
                            /\ pc'[u] = "ended" => pc[u] = "ended"
  PROVE  NoneLeft'
BY DEF NoneLeft

FilesStep(D) == FilesOf' /\ FilesInv(D)'

\* A step outside the files of a block, that neither takes it nor leaves it.
LEMMA QuietFiles ==
  ASSUME ExtractAssumption, TurnInv, FilesOf, NEW D, FilesInv(D), NEW t \in Threads,
         NEW to \in Points, pc' = [pc EXCEPT ![t] = to], pc[t] \in InTurn <=> to \in InTurn,
         pc[t] \notin {"write", "killed", "ended"}, to \notin {"decompressed", "write"},
         to = "ended" => g_diskfull \/ \A b \in Blocks : ~Takeable(b),
         UNCHANGED <<blocks, output, g_diskfull, write_mutex, next, at>>
  PROVE  FilesStep(D)
<1>1. UNCHANGED <<state, extracted, data, disk, dated, outf, lastdt, stands, lost, unopened, huge_errore, detto>>
  BY DEF blocks, output
<1>2. /\ \A u \in Threads : u # t => pc'[u] = pc[u]
      /\ pc'[t] = to
      /\ \A u \in Threads : \A b : Has(u, b)' <=> Has(u, b)
      /\ \A u \in Threads : \A p, i : Passed(u, p, i)' <=> Passed(u, p, i)
  <2>1. \A u \in Threads : u # t => pc'[u] = pc[u]
    BY DEF TurnInv, ExtractTypes
  <2>2. pc'[t] = to
    BY DEF TurnInv, ExtractTypes
  <2>3. \A u \in Threads : \A b : Has(u, b)' <=> Has(u, b)
    BY <2>1, <2>2 DEF Has
  <2>4. \A u \in Threads : \A p, i : Passed(u, p, i)' <=> Passed(u, p, i)
    BY DEF Passed
  <2>5. QED
    BY <2>1, <2>2, <2>3, <2>4
<1>3. FileTypes'
  BY <1>1 DEF FilesOf, FileTypes
<1>4. DecompressedWhole'
  BY <1>1, <1>2 DEF FilesOf, DecompressedWhole
<1>5. NoneLeft'
  <2>1. \A b \in Blocks : Takeable(b)' <=> Takeable(b)
    BY <1>1 DEF Takeable
  <2>2. CASE to = "ended"
    BY <2>1, <2>2 DEF NoneLeft
  <2>3. CASE to # "ended"
    <3>1. \A u \in Threads : /\ pc[u] = "killed" => pc'[u] = "killed"
                             /\ pc'[u] = "ended" => pc[u] = "ended"
      BY <1>2, <2>3
    <3>2. QED
      BY <2>1, <3>1, SameEnds DEF FilesOf
  <2>4. QED
    BY <2>2, <2>3
<1>6. FilesKept(D)'
  <2>1. \A p \in Files : \A i \in D[p] : \A b \in Blocks :
           InBlock(b, Ptr[p][i]) => /\ state'[b] = "WORKING"
                                    /\ \A u \in Threads : Has(u, b)' =>
                                         Has(u, b) /\ pc'[u] = pc[u] /\ (Passed(u, p, i) => Passed(u, p, i)')
    <3> SUFFICES ASSUME NEW p \in Files, NEW i \in D[p], NEW b \in Blocks, InBlock(b, Ptr[p][i])
                 PROVE  /\ state'[b] = "WORKING"
                        /\ \A u \in Threads : Has(u, b)' =>
                             Has(u, b) /\ pc'[u] = pc[u] /\ (Passed(u, p, i) => Passed(u, p, i)')
      OBVIOUS
    <3>1. state[b] = "WORKING" /\ \A u \in Threads : Has(u, b) => pc[u] = "write" /\ Passed(u, p, i)
      BY DEF FilesInv, OfWritten
    <3>2. QED
      BY <1>1, <1>2, <3>1
  <2>2. QED
    BY <1>1, <2>1, SamePlaces
<1>7. WrittenSoFar(D) => WrittenSoFar(D)'
  <2>1. \A u \in Threads : pc'[u] = "write" => pc[u] = "write"
    BY <1>2
  <2>2. QED
    BY <1>1, <1>2, <2>1 DEF WrittenSoFar
<1>8. WrittenAll(D) => WrittenAll(D)'
  BY <1>1, <1>2 DEF WrittenAll
<1>9. QED
  BY <1>1, <1>3, <1>4, <1>5, <1>6, <1>7, <1>8 DEF FilesStep, FilesOf, FilesInv, FilesKept

LEMMA SmallRemainder ==
  \A k \in Nat \ {0} : \A j \in 0..k - 1 : j % k = j /\ (j + k) % k = j
<1>1. \A k \in Nat \ {0} : \A j \in 0..k - 1 : j % k = j
  BY Z3
<1>2. \A k \in Nat \ {0} : \A j \in 0..k - 1 : (j + k) % k = j
  BY Z3
<1>3. QED
  BY <1>1, <1>2

\* No block is left if none is found, wherever the thread was.
LEMMA AroundCoversAll ==
  ASSUME ExtractAssumption, ExtractTypes, NEW t \in Threads, NEW b \in Blocks
  PROVE  \E i \in 0..Len(Start) - 1 : Around(t, i) = b
<1>1. PICK n, m : n = Len(Start) /\ m = next[t]
  OBVIOUS
<1>2. n \in Nat \ {0} /\ m \in 1..n /\ b \in 1..n
  BY <1>1, ConstantTypes DEF ExtractTypes
<1>3. \A j \in 0..n - 1 : j % n = j /\ (j + n) % n = j
  BY <1>2, SmallRemainder
<1>4. CASE b >= m
  <2>1. b - m \in 0..n - 1 /\ m - 1 + (b - m) = b - 1 /\ b - 1 \in 0..n - 1
    BY <1>2, <1>4
  <2>2. ((m - 1 + (b - m)) % n) + 1 = b
    <3>1. (b - 1) % n = b - 1
      BY <1>3, <2>1
    <3>2. b - 1 + 1 = b
      BY <1>2
    <3>3. QED
      BY <2>1, <3>1, <3>2
  <2>3. QED
    BY <1>1, <2>1, <2>2 DEF Around
<1>5. CASE b < m
  <2>1. b - m + n \in 0..n - 1 /\ m - 1 + (b - m + n) = (b - 1) + n /\ b - 1 \in 0..n - 1
    BY <1>2, <1>5
  <2>2. ((m - 1 + (b - m + n)) % n) + 1 = b
    <3>1. ((b - 1) + n) % n = b - 1
      BY <1>3, <2>1
    <3>2. b - 1 + 1 = b
      BY <1>2
    <3>3. QED
      BY <2>1, <3>1, <3>2
  <2>3. QED
    BY <1>1, <2>1, <2>2 DEF Around
<1>6. QED
  BY <1>2, <1>4, <1>5

LEMMA FindFiles ==
  ASSUME ExtractAssumption, TurnInv, FilesOf, NEW D, FilesInv(D), NEW t \in Threads, Find(t)
  PROVE  FilesStep(D)
<1>1. PICK found : found = {i \in 0..Len(Start) - 1 : Takeable(Around(t, i))}
  OBVIOUS
<1>2. CASE found = {}
  <2>1. /\ pc[t] = "find" /\ pc' = [pc EXCEPT ![t] = "ended"]
        /\ UNCHANGED <<blocks, output, g_diskfull, write_mutex, next, at>>
    BY <1>1, <1>2 DEF Find, Goes
  <2>2. \A b \in Blocks : ~Takeable(b)
    BY <1>1, <1>2, AroundCoversAll DEF TurnInv
  <2>3. QED
    BY <2>1, <2>2, QuietFiles DEF Points, InTurn
<1>3. CASE found # {}
  <2>1. PICK b : b = Around(t, Min(found))
    OBVIOUS
  <2>2. b \in Blocks /\ Takeable(b)
    BY <1>1, <1>3, <2>1, FoundIsTakeable DEF TurnInv
  <2>3. /\ pc[t] = "find" /\ pc' = [pc EXCEPT ![t] = "header"]
        /\ state' = [state EXCEPT ![b] = "WORKING"] /\ next' = [next EXCEPT ![t] = b]
        /\ UNCHANGED <<extracted, output, g_diskfull, write_mutex, at>>
    BY <1>1, <1>3, <2>1 DEF Find, Goes, Marked
  <2>4. UNCHANGED <<data, disk, dated, outf, lastdt, stands, lost, unopened, huge_errore, detto>>
    BY <2>3 DEF output
  <2>5. /\ \A u \in Threads : u # t => pc'[u] = pc[u] /\ next'[u] = next[u]
        /\ pc'[t] = "header" /\ next'[t] = b
    BY <2>3 DEF TurnInv, ExtractTypes
  <2>6. state[b] = "READY" /\ \A c \in Blocks : state'[c] = IF c = b THEN "WORKING" ELSE state[c]
    BY <2>2, <2>3 DEF TurnInv, ExtractTypes, Takeable
  <2>7. \A u \in Threads : \A c : c # b => (Has(u, c)' <=> Has(u, c))
    BY <2>3, <2>5 DEF Has, InTurn
  <2>8. \A u \in Threads : \A p, i : Passed(u, p, i)' <=> Passed(u, p, i)
    BY <2>3 DEF Passed
  <2>9. FileTypes'
    BY <2>3, <2>4 DEF FilesOf, FileTypes
  <2>10. DecompressedWhole'
    BY <2>3, <2>5 DEF FilesOf, DecompressedWhole
  <2>11. NoneLeft'
    <3>1. \A c \in Blocks : Takeable(c)' => Takeable(c)
      BY <2>6 DEF Takeable
    <3>2. \A u \in Threads : /\ pc[u] = "killed" => pc'[u] = "killed"
                             /\ pc'[u] = "ended" => pc[u] = "ended"
      BY <2>3, <2>5
    <3>3. QED
      BY <2>3, <3>1, <3>2, SameEnds DEF FilesOf
  <2>12. FilesKept(D)'
    <3>1. \A p \in Files : \A i \in D[p] : \A c \in Blocks :
             InBlock(c, Ptr[p][i]) => /\ state'[c] = "WORKING"
                                      /\ \A u \in Threads : Has(u, c)' =>
                                           Has(u, c) /\ pc'[u] = pc[u] /\ (Passed(u, p, i) => Passed(u, p, i)')
      <4> SUFFICES ASSUME NEW p \in Files, NEW i \in D[p], NEW c \in Blocks, InBlock(c, Ptr[p][i])
                   PROVE  /\ state'[c] = "WORKING"
                          /\ \A u \in Threads : Has(u, c)' =>
                               Has(u, c) /\ pc'[u] = pc[u] /\ (Passed(u, p, i) => Passed(u, p, i)')
        OBVIOUS
      <4>1. state[c] = "WORKING" /\ c # b
        BY <2>6 DEF FilesInv, OfWritten
      <4>2. \A u \in Threads : Has(u, c)' => u # t /\ Has(u, c)
        BY <2>5, <2>7, <4>1 DEF Has
      <4>3. QED
        BY <2>5, <2>6, <2>8, <4>1, <4>2
    <3>2. QED
      BY <2>4, <3>1, SamePlaces
  <2>13. WrittenSoFar(D) => WrittenSoFar(D)'
    <3>1. \A u \in Threads : pc'[u] = "write" => pc[u] = "write" /\ next'[u] = next[u]
      BY <2>5
    <3>2. QED
      BY <2>4, <2>8, <3>1 DEF WrittenSoFar
  <2>14. WrittenAll(D) => WrittenAll(D)'
    <3>1. Has(t, b)'
      BY <2>5 DEF Has, InTurn
    <3>2. QED
      BY <2>3, <2>4, <2>7, <3>1 DEF WrittenAll
  <2>15. QED
    BY <2>3, <2>4, <2>9, <2>10, <2>11, <2>12, <2>13, <2>14 DEF FilesStep, FilesOf, FilesInv, FilesKept
<1>4. QED
  BY <1>2, <1>3

\* A step of a thread with its block: the fragments of the others stay as they are.
LEMMA TurnKeeps ==
  ASSUME ExtractAssumption, TurnInv, FileTypes, NEW D, FilesInv(D),
         NEW t \in Threads, pc[t] \in InTurn,
         NEW to \in Points, pc' = [pc EXCEPT ![t] = to],
         UNCHANGED <<data, disk, dated, lost, huge_errore, next>>, detto => detto',
         \A u \in Threads : u # t => at'[u] = at[u],
         \A b \in Blocks : b # next[t] \/ pc[t] = "write" => state'[b] = state[b],
         pc[t] = "write" /\ to \in InTurn => to = "write" /\ at'[t].file = at[t].file + 1
  PROVE  /\ FilesKept(D)'
         /\ \A u \in Threads : u # t => pc'[u] = pc[u]
         /\ pc'[t] = to
         /\ \A u \in Threads : \A b : b # next[t] \/ u # t => (Has(u, b)' <=> Has(u, b))
         /\ \A u \in Threads : u # t => \A p, i : Passed(u, p, i)' <=> Passed(u, p, i)
<1>1. (\A u \in Threads : u # t => pc'[u] = pc[u]) /\ pc'[t] = to
  BY DEF TurnInv, ExtractTypes
<1>2. \A u \in Threads : \A b : b # next[t] \/ u # t => (Has(u, b)' <=> Has(u, b))
  BY <1>1 DEF Has
<1>3. \A u \in Threads : u # t => \A p, i : Passed(u, p, i)' <=> Passed(u, p, i)
  BY DEF Passed
<1>4. ASSUME NEW p \in Files, NEW i \in D[p], NEW b \in Blocks, InBlock(b, Ptr[p][i])
      PROVE  /\ state'[b] = "WORKING"
             /\ \A u \in Threads : Has(u, b)' =>
                  Has(u, b) /\ pc'[u] = pc[u] /\ (Passed(u, p, i) => Passed(u, p, i)')
  <2>1. state[b] = "WORKING" /\ \A u \in Threads : Has(u, b) => pc[u] = "write" /\ Passed(u, p, i)
    BY <1>4 DEF FilesInv, OfWritten
  <2>2. b # next[t] \/ pc[t] = "write"
    BY <2>1 DEF Has
  <2>3. state'[b] = "WORKING"
    BY <2>1, <2>2
  <2>4. i \in Nat
    BY DEF FilesInv
  <2>5. ASSUME NEW u \in Threads, Has(u, b)'
        PROVE  Has(u, b) /\ pc'[u] = pc[u] /\ (Passed(u, p, i) => Passed(u, p, i)')
    <3>1. CASE u # t
      BY <1>1, <1>2, <1>3, <2>5, <3>1
    <3>2. CASE u = t
      <4>1. b = next[t] /\ to \in InTurn /\ pc[t] = "write"
        BY <1>1, <2>2, <2>5, <3>2 DEF Has
      <4>2. to = "write" /\ (Passed(t, p, i) => Passed(t, p, i)')
        <5>1. to = "write" /\ at'[t].file = at[t].file + 1 /\ at[t].file \in Nat
          BY <4>1 DEF FileTypes
        <5>2. QED
          BY <5>1, ConstantTypes DEF Passed
      <4>3. QED
        BY <1>1, <3>2, <4>1, <4>2 DEF Has
    <3>3. QED
      BY <3>1, <3>2
  <2>6. QED
    BY <2>3, <2>5
<1>5. FilesKept(D)'
  BY <1>4, SamePlaces
<1>6. QED
  BY <1>1, <1>2, <1>3, <1>5

LEMMA TurnEnds ==
  ASSUME TurnInv, FilesOf, NEW t \in Threads, pc[t] \in InTurn, NEW to \in Points,
         pc' = [pc EXCEPT ![t] = to], to # "ended", g_diskfull => g_diskfull',
         UNCHANGED state \/ to = "killed"
  PROVE  NoneLeft'
<1>1. /\ \A u \in Threads : u # t => pc'[u] = pc[u]
      /\ pc'[t] = to
  BY DEF TurnInv, ExtractTypes
<1>2. CASE to = "killed"
  BY <1>1, <1>2 DEF NoneLeft
<1>3. CASE UNCHANGED state
  <2>1. \A b \in Blocks : Takeable(b)' => Takeable(b)
    BY <1>3 DEF Takeable
  <2>2. \A u \in Threads : /\ pc[u] = "killed" => pc'[u] = "killed"
                           /\ pc'[u] = "ended" => pc[u] = "ended"
    BY <1>1 DEF InTurn
  <2>3. QED
    BY <2>1, <2>2, SameEnds DEF FilesOf
<1>4. QED
  BY <1>2, <1>3

LEMMA DecompressFiles ==
  ASSUME ExtractAssumption, TurnInv, FilesOf, NEW D, FilesInv(D), NEW t \in Threads, Decompress(t)
  PROVE  FilesStep(D)
<1>1. /\ pc[t] = "decompress" /\ pc' = [pc EXCEPT ![t] = "decompressed"]
      /\ extracted' = [extracted EXCEPT ![next[t]] = Size(next[t])]
      /\ UNCHANGED <<state, data, disk, dated, outf, lastdt, stands, lost, unopened, huge_errore, detto, g_diskfull,
                     write_mutex, next, at>>
  BY DEF Decompress, Goes, output
<1>2. next[t] \in Blocks /\ Size(next[t]) \in Nat /\ "decompressed" \in Points
  BY SizeIs DEF TurnInv, ExtractTypes, Points
<1>3. \A b \in Blocks : extracted'[b] = IF b = next[t] THEN Size(b) ELSE extracted[b]
  BY <1>1, <1>2 DEF FilesOf, FileTypes
<1>4. FileTypes'
  BY <1>1, <1>2 DEF FilesOf, FileTypes
<1>5. /\ FilesKept(D)'
      /\ \A u \in Threads : u # t => pc'[u] = pc[u]
      /\ pc'[t] = "decompressed"
      /\ \A u \in Threads : \A b : b # next[t] \/ u # t => (Has(u, b)' <=> Has(u, b))
  BY <1>1, <1>2, TurnKeeps DEF InTurn, FilesOf
<1>6. DecompressedWhole'
  <2> SUFFICES ASSUME NEW u \in Threads, pc'[u] \in {"decompressed", "write"}
               PROVE  extracted'[next[u]] = Size(next[u])
    BY <1>1 DEF DecompressedWhole
  <2>1. next[u] \in Blocks
    BY DEF TurnInv, ExtractTypes
  <2>2. CASE next[u] = next[t]
    BY <1>2, <1>3, <2>2
  <2>3. CASE next[u] # next[t]
    BY <1>3, <1>5, <2>1, <2>3 DEF FilesOf, DecompressedWhole
  <2>4. QED
    BY <2>2, <2>3
<1>7. NoneLeft'
  BY <1>1, <1>2, TurnEnds DEF InTurn
<1>8. WrittenSoFar(D) => WrittenSoFar(D)'
  <2>1. \A u \in Threads : pc'[u] = "write" => pc[u] = "write"
    BY <1>5
  <2>2. QED
    BY <1>1, <2>1 DEF WrittenSoFar, Passed
<1>9. WrittenAll(D) => WrittenAll(D)'
  <2> SUFFICES ASSUME WrittenAll(D), NEW b \in Blocks, extracted'[b] = Size(b), Size(b) > 0,
                      \A u \in Threads : ~Has(u, b)',
                      NEW p \in Files \ unopened, NEW i \in AllPlaces(p), InBlock(b, Ptr[p][i])
               PROVE  i \in D[p]
    BY <1>1 DEF WrittenAll
  <2>1. b # next[t]
    BY <1>1, <1>5 DEF Has, InTurn
  <2>2. extracted[b] = Size(b)
    BY <1>3, <2>1
  <2>3. \A u \in Threads : ~Has(u, b)
    BY <1>5, <2>1
  <2>4. QED
    BY <2>2, <2>3 DEF WrittenAll
<1>10. QED
  BY <1>1, <1>4, <1>5, <1>6, <1>7, <1>8, <1>9 DEF FilesStep, FilesOf, FilesInv, FilesKept

\* A block that is damaged, or put back: none of its fragments was written.
LEMMA GivenUpFiles ==
  ASSUME ExtractAssumption, TurnInv, FilesOf, NEW D, FilesInv(D), NEW t \in Threads,
         Skip(t) \/ Killed(t)
  PROVE  FilesStep(D)
<1>1. PICK to \in {"look", "killed"}, n \in Nat :
        /\ pc[t] \in {"header", "decompress"} /\ pc' = [pc EXCEPT ![t] = to]
        /\ extracted' = [extracted EXCEPT ![next[t]] = n]
        /\ n # Size(next[t]) \/ Size(next[t]) = 0
        /\ \A b \in Blocks : b # next[t] => state'[b] = state[b]
        /\ UNCHANGED state \/ to = "killed"
        /\ UNCHANGED <<output, g_diskfull, write_mutex, next, at>>
  <2>1. Size(next[t]) \in Nat
    BY SizeIs DEF TurnInv, ExtractTypes
  <2>2. CASE Skip(t)
    <3>1. PICK n \in 0..Size(next[t]) - 1 : extracted' = [extracted EXCEPT ![next[t]] = n]
      BY <2>2 DEF Skip
    <3>2. n \in Nat /\ n # Size(next[t])
      BY <2>1, <3>1
    <3>3. QED
      BY <2>2, <3>1, <3>2 DEF Skip, Goes, AfterDamage
  <2>3. CASE Killed(t)
    <3>1. /\ pc[t] \in {"header", "decompress"} /\ pc' = [pc EXCEPT ![t] = "killed"]
          /\ extracted' = [extracted EXCEPT ![next[t]] = 0]
          /\ state' = [state EXCEPT ![next[t]] = "READY"]
          /\ UNCHANGED <<output, g_diskfull, write_mutex, next, at>>
      BY <2>3 DEF Killed, Goes
    <3>2. \A b \in Blocks : b # next[t] => state'[b] = state[b]
      BY <3>1 DEF TurnInv, ExtractTypes
    <3>3. 0 \in Nat /\ (0 # Size(next[t]) \/ Size(next[t]) = 0)
      OBVIOUS
    <3>4. QED
      BY <3>1, <3>2, <3>3
  <2>4. QED
    BY <2>2, <2>3
<1>2. next[t] \in Blocks /\ to \in Points /\ to \notin InTurn /\ to # "ended" /\ pc[t] \in InTurn
  BY <1>1 DEF TurnInv, ExtractTypes, Points, InTurn
<1>3. \A b \in Blocks : extracted'[b] = IF b = next[t] THEN n ELSE extracted[b]
  BY <1>1, <1>2 DEF FilesOf, FileTypes
<1>o. UNCHANGED <<data, disk, dated, outf, lastdt, stands, lost, unopened, huge_errore, detto>>
  BY <1>1 DEF output
<1>4. FileTypes'
  BY <1>1, <1>2, <1>o DEF FilesOf, FileTypes
<1>5. /\ FilesKept(D)'
      /\ \A u \in Threads : u # t => pc'[u] = pc[u]
      /\ pc'[t] = to
      /\ \A u \in Threads : \A b : b # next[t] \/ u # t => (Has(u, b)' <=> Has(u, b))
  <2>1. \A b \in Blocks : b # next[t] \/ pc[t] = "write" => state'[b] = state[b]
    BY <1>1
  <2>2. QED
    BY <1>1, <1>2, <1>o, <2>1, TurnKeeps DEF FilesOf
<1>6. DecompressedWhole'
  <2> SUFFICES ASSUME NEW u \in Threads, pc'[u] \in {"decompressed", "write"}
               PROVE  extracted'[next[u]] = Size(next[u])
    BY <1>1 DEF DecompressedWhole
  <2>1. u # t /\ next[u] \in Blocks /\ pc[u] \in {"decompressed", "write"}
    BY <1>1, <1>5 DEF TurnInv, ExtractTypes
  <2>2. next[u] # next[t]
    BY <1>2, <2>1, BusyIsInTurn DEF TurnInv, BlockHasOneThread, InTurn
  <2>3. QED
    BY <1>3, <2>1, <2>2 DEF FilesOf, DecompressedWhole
<1>7. NoneLeft'
  BY <1>1, <1>2, TurnEnds
<1>8. WrittenSoFar(D) => WrittenSoFar(D)'
  <2>1. \A u \in Threads : pc'[u] = "write" => pc[u] = "write"
    BY <1>1, <1>5
  <2>2. QED
    BY <1>1, <1>o, <2>1 DEF WrittenSoFar, Passed
<1>9. WrittenAll(D) => WrittenAll(D)'
  <2> SUFFICES ASSUME WrittenAll(D), NEW b \in Blocks, extracted'[b] = Size(b), Size(b) > 0,
                      \A u \in Threads : ~Has(u, b)',
                      NEW p \in Files \ unopened, NEW i \in AllPlaces(p), InBlock(b, Ptr[p][i])
               PROVE  i \in D[p]
    BY <1>o DEF WrittenAll
  <2>1. b # next[t]
    BY <1>1, <1>3
  <2>2. extracted[b] = Size(b)
    BY <1>3, <2>1
  <2>3. \A u \in Threads : ~Has(u, b)
    BY <1>5, <2>1
  <2>4. QED
    BY <2>2, <2>3 DEF WrittenAll
<1>10. QED
  BY <1>1, <1>o, <1>4, <1>5, <1>6, <1>7, <1>8, <1>9 DEF FilesStep, FilesOf, FilesInv, FilesKept

LEMMA LockFilesFiles ==
  ASSUME ExtractAssumption, TurnInv, FilesOf, NEW D, FilesInv(D), NEW t \in Threads, LockFiles(t)
  PROVE  FilesStep(D)
<1>1. /\ pc[t] = "decompressed" /\ pc' = [pc EXCEPT ![t] = "write"] /\ write_mutex' = t
      /\ at' = [at EXCEPT ![t] = [file |-> 1, place |-> 1]]
      /\ UNCHANGED <<state, extracted, data, disk, dated, outf, lastdt, stands, lost, unopened, huge_errore, detto,
                     g_diskfull, next>>
  BY DEF LockFiles, Goes, output, blocks
<1>2. /\ "write" \in Points /\ at \in [Threads -> [file : Nat \ {0}, place : Nat \ {0}]]
      /\ \A u \in Threads : u # t => at'[u] = at[u]
      /\ at'[t] = [file |-> 1, place |-> 1]
  BY <1>1 DEF Points, FilesOf, FileTypes
<1>3. FileTypes'
  <2>1. at' \in [Threads -> [file : Nat \ {0}, place : Nat \ {0}]]
    BY <1>1, <1>2
  <2>2. QED
    BY <1>1, <2>1 DEF FilesOf, FileTypes
<1>4. /\ FilesKept(D)'
      /\ \A u \in Threads : u # t => pc'[u] = pc[u]
      /\ pc'[t] = "write"
      /\ \A u \in Threads : \A b : b # next[t] \/ u # t => (Has(u, b)' <=> Has(u, b))
      /\ \A u \in Threads : u # t => \A p, i : Passed(u, p, i)' <=> Passed(u, p, i)
  BY <1>1, <1>2, TurnKeeps DEF InTurn, FilesOf
<1>5. DecompressedWhole'
  BY <1>1, <1>4 DEF FilesOf, DecompressedWhole
<1>6. NoneLeft'
  BY <1>1, <1>2, TurnEnds DEF InTurn
<1>7. WrittenSoFar(D) => WrittenSoFar(D)'
  <2> SUFFICES ASSUME WrittenSoFar(D), NEW u \in Threads, pc'[u] = "write",
                      NEW p \in Files \ unopened, NEW i \in AllPlaces(p), InBlock(next[u], Ptr[p][i]), Passed(u, p, i)'
               PROVE  i \in D[p]
    BY <1>1 DEF WrittenSoFar
  <2>1. p \in Nat \ {0} /\ i \in Nat \ {0}
    BY ConstantTypes DEF AllPlaces
  <2>2. u # t
    BY <1>2, <2>1 DEF Passed
  <2>3. QED
    BY <1>4, <2>2 DEF WrittenSoFar
<1>8. WrittenAll(D) => WrittenAll(D)'
  <2>1. Has(t, next[t])'
    BY <1>1, <1>4 DEF Has, InTurn
  <2>2. QED
    BY <1>1, <1>4, <2>1 DEF WrittenAll
<1>9. QED
  BY <1>1, <1>3, <1>4, <1>5, <1>6, <1>7, <1>8 DEF FilesStep, FilesOf, FilesInv, FilesKept

\* On to the next file: what the block has of this one is done, or it did not open.
LEMMA NextFileFiles ==
  ASSUME ExtractAssumption, TurnInv, FilesOf, NEW D, FilesInv(D), NEW t \in Threads,
         NextFile(t) \/ OpenFails(t)
  PROVE  FilesStep(D)
<1>1. /\ pc[t] = "write" /\ at[t].file \in Files
      /\ at' = [at EXCEPT ![t] = [file |-> at[t].file + 1, place |-> 1]]
      /\ UNCHANGED <<state, extracted, data, disk, dated, lost, huge_errore, detto, write_mutex, pc, next>>
      /\ g_diskfull => g_diskfull'
      /\ g_diskfull' \in BOOLEAN /\ outf' = lastdt' /\ outf' \in Files \cup {NoFile}
      /\ stands' \in Nat /\ (stands' # 0 => lastdt' \in lost)
      /\ unopened' \subseteq Files /\ unopened \subseteq unopened'
      /\ at[t].file \in unopened' \/ ~HasRun(t)
  <2>1. CASE NextFile(t)
    <3>1. /\ UNCHANGED <<blocks, output, g_diskfull, write_mutex, pc, next>>
          /\ pc[t] = "write" /\ ~HasRun(t) /\ at[t].file \in Files
          /\ at' = [at EXCEPT ![t] = [file |-> @.file + 1, place |-> 1]]
      BY <2>1 DEF NextFile
    <3>2. UNCHANGED <<state, extracted, data, disk, dated, outf, lastdt, stands, lost, unopened, huge_errore, detto>>
      BY <3>1 DEF blocks, output
    <3>3. QED
      BY <3>1, <3>2 DEF FilesOf, FileTypes
  <2>2. CASE OpenFails(t)
    <3>1. /\ pc[t] = "write" /\ HasRun(t) /\ at[t].file \in Files
          /\ at' = [at EXCEPT ![t] = [file |-> at[t].file + 1, place |-> 1]]
          /\ g_diskfull' = TRUE \/ UNCHANGED g_diskfull
          /\ outf' = NoFile /\ lastdt' = NoFile /\ stands' = 0
          /\ unopened' = unopened \cup {at[t].file}
          /\ UNCHANGED <<state, extracted, data, disk, dated, lost, huge_errore, detto, write_mutex, pc, next>>
      BY <2>2 DEF OpenFails, HasRun, blocks
    <3>2. g_diskfull' \in BOOLEAN /\ unopened' \subseteq Files
      BY <3>1 DEF FilesOf, FileTypes
    <3>3. QED
      BY <3>1, <3>2
  <2>3. QED
    BY <2>1, <2>2
<1>2. /\ at \in [Threads -> [file : Nat \ {0}, place : Nat \ {0}]]
      /\ \A u \in Threads : u # t => at'[u] = at[u]
      /\ at'[t].file = at[t].file + 1 /\ at'[t].place = 1
      /\ at[t].file \in Nat /\ at' \in [Threads -> [file : Nat \ {0}, place : Nat \ {0}]]
  <2>1. at \in [Threads -> [file : Nat \ {0}, place : Nat \ {0}]]
    BY DEF FilesOf, FileTypes
  <2>2. at[t].file + 1 \in Nat \ {0}
    BY <2>1
  <2>3. QED
    BY <1>1, <2>1, <2>2
<1>3. FileTypes'
  BY <1>1, <1>2 DEF FilesOf, FileTypes
<1>5. pc' = [pc EXCEPT ![t] = "write"] /\ "write" \in Points /\ pc[t] \in InTurn
  BY <1>1 DEF TurnInv, ExtractTypes, InTurn, Points
<1>6. /\ FilesKept(D)'
      /\ \A u \in Threads : u # t => \A p, i : Passed(u, p, i)' <=> Passed(u, p, i)
  <2>1. /\ UNCHANGED <<data, disk, dated, lost, huge_errore, next>>
        /\ detto => detto'
        /\ \A b \in Blocks : state'[b] = state[b]
    BY <1>1
  <2>2. \A u \in Threads : u # t => at'[u] = at[u]
    BY <1>2
  <2>3. QED
    BY <1>2, <1>5, <2>1, <2>2, TurnKeeps DEF FilesOf
<1>7. DecompressedWhole'
  BY <1>1 DEF FilesOf, DecompressedWhole
<1>8. NoneLeft'
  BY <1>1, <1>5, TurnEnds
<1>9. ASSUME ~detto' PROVE WrittenSoFar(D)' /\ WrittenAll(D)'
  <2>1. ~detto /\ WrittenSoFar(D) /\ WrittenAll(D)
    BY <1>1, <1>9 DEF FilesInv
  <2>2. WrittenSoFar(D)'
    <3> SUFFICES ASSUME NEW u \in Threads, pc[u] = "write",
                        NEW p \in Files \ unopened', NEW i \in AllPlaces(p),
                        InBlock(next[u], Ptr[p][i]), Passed(u, p, i)'
                 PROVE  i \in D[p]
      BY <1>1 DEF WrittenSoFar
    <3>0. p \in Files \ unopened
      BY <1>1
    <3>1. CASE u # t \/ Passed(u, p, i)
      BY <1>6, <2>1, <3>0, <3>1 DEF WrittenSoFar
    <3>2. CASE u = t /\ ~Passed(u, p, i)
      <4>1. p = at[t].file
        <5>1. p \in Nat /\ i \in Nat /\ i >= 1
          BY ConstantTypes DEF AllPlaces
        <5>2. QED
          BY <1>2, <3>2, <5>1 DEF Passed
      <4>2. QED
        BY <1>1, <2>1, <3>0, <3>2, <4>1, NoRunLeft DEF FilesOf
    <3>3. QED
      BY <3>1, <3>2
  <2>3. WrittenAll(D)'
    <3>1. \A u \in Threads : \A b : Has(u, b)' <=> Has(u, b)
      BY <1>1 DEF Has
    <3>2. QED
      BY <1>1, <2>1, <3>1 DEF WrittenAll
  <2>4. QED
    BY <2>2, <2>3
<1>10. QED
  BY <1>3, <1>6, <1>7, <1>8, <1>9 DEF FilesStep, FilesOf, FilesInv, FilesKept

\* All the files are passed: what the block has is done.
LEMMA UnlockFilesFiles ==
  ASSUME ExtractAssumption, TurnInv, FilesOf, NEW D, FilesInv(D), NEW t \in Threads, UnlockFiles(t)
  PROVE  FilesStep(D)
<1>1. /\ pc[t] = "write" /\ pc' = [pc EXCEPT ![t] = "look"] /\ write_mutex' = Nobody
      /\ at[t].file \notin Files
      /\ UNCHANGED <<state, extracted, data, disk, dated, outf, lastdt, stands, lost, unopened, huge_errore, detto,
                     g_diskfull, next, at>>
  BY DEF UnlockFiles, Goes, output, blocks
<1>2. "look" \in Points /\ "look" \notin InTurn /\ pc[t] \in InTurn
  BY <1>1 DEF Points, InTurn
<1>3. FileTypes'
  BY <1>1 DEF FilesOf, FileTypes
<1>4. /\ FilesKept(D)'
      /\ \A u \in Threads : u # t => pc'[u] = pc[u]
      /\ pc'[t] = "look"
      /\ \A u \in Threads : \A b : b # next[t] \/ u # t => (Has(u, b)' <=> Has(u, b))
  BY <1>1, <1>2, TurnKeeps DEF FilesOf
<1>5. DecompressedWhole'
  BY <1>1, <1>4 DEF FilesOf, DecompressedWhole
<1>6. NoneLeft'
  BY <1>1, <1>2, TurnEnds
<1>7. WrittenSoFar(D) => WrittenSoFar(D)'
  <2>1. \A u \in Threads : pc'[u] = "write" => pc[u] = "write"
    BY <1>1, <1>4
  <2>2. QED
    BY <1>1, <2>1 DEF WrittenSoFar, Passed
<1>8. \A p \in Files : \A i : Passed(t, p, i)
  <2>1. at[t].file \in Nat \ {0} /\ at[t].file > Len(Ptr) /\ Len(Ptr) \in Nat
    BY <1>1, ConstantTypes DEF FilesOf, FileTypes
  <2>2. QED
    BY <2>1, ConstantTypes DEF Passed
<1>9. ASSUME WrittenSoFar(D), WrittenAll(D) PROVE WrittenAll(D)'
  <2> SUFFICES ASSUME NEW b \in Blocks, extracted[b] = Size(b), Size(b) > 0,
                      \A u \in Threads : ~Has(u, b)',
                      NEW p \in Files \ unopened, NEW i \in AllPlaces(p), InBlock(b, Ptr[p][i])
               PROVE  i \in D[p]
    BY <1>1 DEF WrittenAll
  <2>1. CASE b = next[t]
    BY <1>1, <1>8, <1>9, <2>1 DEF WrittenSoFar
  <2>2. CASE b # next[t]
    <3>1. \A u \in Threads : ~Has(u, b)
      BY <1>4, <2>2
    <3>2. QED
      BY <1>9, <3>1 DEF WrittenAll
  <2>3. QED
    BY <2>1, <2>2
<1>10. QED
  BY <1>1, <1>3, <1>4, <1>5, <1>6, <1>7, <1>9 DEF FilesStep, FilesOf, FilesInv, FilesKept

\* A thread lost among the files: from then on only the counts and the dates tell.
LEMMA WriteThrowsFiles ==
  ASSUME ExtractAssumption, TurnInv, FilesOf, NEW D, FilesInv(D), NEW t \in Threads, WriteThrows(t)
  PROVE  FilesOf' /\ \E E : FilesInv(E)'
<1>1. /\ pc[t] = "write" /\ HasRun(t) /\ pc' = [pc EXCEPT ![t] = "killed"] /\ write_mutex' = Nobody
      /\ detto' = TRUE
      /\ UNCHANGED <<state, extracted, dated, unopened, g_diskfull, next, at>>
  BY DEF WriteThrows, Goes, blocks
<1>2. "killed" \in Points /\ "killed" \notin InTurn /\ pc[t] \in InTurn
  BY <1>1 DEF Points, InTurn
<1>3. NoneLeft'
  BY <1>1, <1>2, TurnEnds
<1>4. DecompressedWhole'
  <2>1. \A u \in Threads : pc'[u] \in {"decompressed", "write"} => pc'[u] = pc[u]
    BY <1>1 DEF TurnInv, ExtractTypes
  <2>2. QED
    BY <1>1, <2>1 DEF FilesOf, DecompressedWhole
<1>5. CASE outf' = NoFile /\ lastdt' = NoFile /\ stands' = 0 /\ UNCHANGED <<data, disk, huge_errore, lost>>
  <2>1. FileTypes'
    BY <1>1, <1>5 DEF FilesOf, FileTypes
  <2>2. FilesKept(D)'
    BY <1>1, <1>2, <1>5, TurnKeeps DEF FilesOf
  <2>3. FilesInv(D)'
    BY <1>1, <2>2 DEF FilesInv, FilesKept
  <2>4. QED
    BY <1>3, <1>4, <2>1, <2>3 DEF FilesOf
<1>6. CASE LET p == at[t].file
           IN  /\ outf' = Target(p) /\ lastdt' = p
               /\ data' = [data EXCEPT ![p] = @ + (Last(t) - First(t) + 1)]
               /\ \/ /\ disk' = [disk EXCEPT ![p] = Before(p)] /\ stands' = StillStands(p)
                     /\ UNCHANGED <<huge_errore, lost>>
                  \/ Writes(p, First(t), Last(t))
  <2>1. PICK p : p = at[t].file
    OBVIOUS
  <2>2. /\ p \in Files /\ FileTypes /\ DecompressedWhole
    BY <1>1, <2>1 DEF HasRun, FilesOf
  <2>3. PICK E : E = [D EXCEPT ![at[t].file] = @ \cup (First(t)..Last(t))]
    OBVIOUS
  <2>4. /\ E \in [Files -> SUBSET Nat] /\ Counted(E)' /\ OfWritten(E)'
        /\ data[p] < Len(Ptr[p]) /\ data'[p] \in Nat
        /\ D[p] \cap (First(t)..Last(t)) = {}
    BY <1>1, <1>6, <2>1, <2>2, <2>3, RunCounted
  <2>5. /\ Target(p) = p /\ Before(p) \in Seq(Fragments \cup {0})
    <3>1. Target(p) = p
      BY <2>2 DEF Target, IsOpen, FileTypes
    <3>2. QED
      BY <2>2, <3>1, BeforeIs
  <2>6. data' \in [Files -> Nat] /\ \A q \in Files : q # p => data'[q] = data[q]
    <3>1. PICK n : n = data[p] + (Last(t) - First(t) + 1)
      OBVIOUS
    <3>2. data' = [data EXCEPT ![p] = n] /\ data \in [Files -> Nat]
      BY <1>6, <2>1, <2>2, <3>1 DEF FileTypes
    <3>3. QED
      BY <2>2, <2>4, <3>2
  <2>7. /\ disk' \in [Files -> Seq(Fragments \cup {0})]
        /\ stands' \in Nat /\ lost' \subseteq Files /\ huge_errore' \in BOOLEAN
        /\ stands' # 0 => p \in lost'
    <3>1. CASE /\ disk' = [disk EXCEPT ![p] = Before(p)] /\ stands' = StillStands(p)
               /\ UNCHANGED <<huge_errore, lost>>
      <4>1. disk \in [Files -> Seq(Fragments \cup {0})]
        BY <2>2 DEF FileTypes
      <4>2. disk' \in [Files -> Seq(Fragments \cup {0})]
        BY <2>2, <2>5, <3>1, <4>1
      <4>3. QED
        BY <2>2, <3>1, <4>2 DEF FileTypes, StillStands, IsOpen
    <3>2. CASE Writes(p, First(t), Last(t))
      <4>1. First(t) \in AllPlaces(p) /\ Last(t) \in First(t)..Len(Ptr[p])
        BY <1>1, <2>1, <2>2, RunIs
      <4>2. QED
        BY <2>2, <2>4, <3>2, <4>1, WritesIs
    <3>3. QED
      BY <1>6, <2>1, <3>1, <3>2
  <2>o. outf' = lastdt' /\ lastdt' = p /\ outf' \in Files \cup {NoFile}
    BY <1>6, <2>1, <2>2, <2>5
  <2>8. FileTypes'
    BY <1>1, <2>2, <2>6, <2>7, <2>o DEF FileTypes
  <2>9. Dates'
    <3>1. ~dated[p]
      BY <2>2, <2>4, ConstantTypes DEF FilesInv, Dates, FileTypes
    <3>2. QED
      BY <1>1, <2>6, <3>1 DEF FilesInv, Dates
  <2>10. FilesInv(E)'
    BY <1>1, <2>4, <2>9 DEF FilesInv
  <2>11. QED
    BY <1>3, <1>4, <2>8, <2>10 DEF FilesOf
<1>7. QED
  BY <1>5, <1>6 DEF WriteThrows, Count

-----------------------------------------------------------------------------
(* The inductive invariant of the files.                                   *)

FilesAre == TurnInv /\ FilesOf /\ \E D : FilesInv(D)

LEMMA ThreadFiles ==
  ASSUME ExtractAssumption, TurnInv, FilesOf, NEW D, FilesInv(D), NEW t \in Threads, Thread(t)
  PROVE  FilesOf' /\ \E E : FilesInv(E)'
<1>q. FilesStep(D) => FilesOf' /\ \E E : FilesInv(E)'
  <2> SUFFICES ASSUME FilesStep(D) PROVE FilesOf' /\ \E E : FilesInv(E)'
    OBVIOUS
  <2>1. FilesOf' /\ FilesInv(D)'
    BY DEF FilesStep
  <2>2. QED
    BY <2>1
<1>1. CASE Open(t) \/ Look(t)
  <2>1. PICK to \in {"look", "find", "killed", "ended"} :
          /\ pc[t] \in {"open", "look"} /\ pc' = [pc EXCEPT ![t] = to]
          /\ to = "ended" => g_diskfull
    BY <1>1 DEF Open, Look, Goes
  <2>2. UNCHANGED <<blocks, output, g_diskfull, write_mutex, next, at>>
    BY <1>1 DEF Open, Look
  <2>3. /\ to \in Points /\ pc[t] \notin InTurn /\ to \notin InTurn
        /\ pc[t] \notin {"write", "killed", "ended"} /\ to \notin {"decompressed", "write"}
    BY <2>1 DEF Points, InTurn
  <2>4. FilesStep(D)
    BY <2>1, <2>2, <2>3, QuietFiles
  <2>5. QED
    BY <1>q, <2>4
<1>2. CASE ReadHeader(t) \/ TakePermit(t)
  <2>1. PICK to \in {"permit", "decompress"} :
          pc[t] \in {"header", "permit"} /\ pc' = [pc EXCEPT ![t] = to]
    BY <1>2 DEF ReadHeader, TakePermit, Goes
  <2>2. UNCHANGED <<blocks, output, g_diskfull, write_mutex, next, at>>
    BY <1>2 DEF ReadHeader, TakePermit
  <2>3. /\ to \in Points /\ pc[t] \in InTurn /\ to \in InTurn /\ to # "ended"
        /\ pc[t] \notin {"write", "killed", "ended"} /\ to \notin {"decompressed", "write"}
    BY <2>1 DEF Points, InTurn
  <2>4. FilesStep(D)
    BY <2>1, <2>2, <2>3, QuietFiles
  <2>5. QED
    BY <1>q, <2>4
<1>3. CASE Find(t)
  BY <1>3, <1>q, FindFiles
<1>4. CASE Decompress(t)
  BY <1>4, <1>q, DecompressFiles
<1>5. CASE Skip(t) \/ Killed(t)
  BY <1>5, <1>q, GivenUpFiles
<1>6. CASE LockFiles(t)
  BY <1>6, <1>q, LockFilesFiles
<1>7. CASE NextFile(t) \/ OpenFails(t)
  BY <1>7, <1>q, NextFileFiles
<1>8. CASE UnlockFiles(t)
  BY <1>8, <1>q, UnlockFilesFiles
<1>9. CASE WriteThrows(t)
  BY <1>9, WriteThrowsFiles
<1>10. CASE WriteRun(t)
  <2>1. UNCHANGED <<state, extracted, g_diskfull, pc, next>>
    BY <1>10 DEF WriteRun, blocks
  <2>2. DecompressedWhole' /\ NoneLeft'
    BY <2>1 DEF FilesOf, DecompressedWhole, NoneLeft, Takeable
  <2>3. QED
    BY <1>10, <2>2, WriteRunFiles DEF FilesOf
<1>11. QED
  BY <1>1, <1>2, <1>3, <1>4, <1>5, <1>6, <1>7, <1>8, <1>9, <1>10 DEF Thread

LEMMA InitFiles == Init => FilesAre
<1> SUFFICES ASSUME Init PROVE FilesAre
  OBVIOUS
<1>a. ExtractAssumption
  BY ExtractAssumption
<1>1. FileTypes
  <2>1. disk \in [Files -> Seq(Fragments \cup {0})]
    <3>1. <<>> \in Seq(Fragments \cup {0})
      OBVIOUS
    <3>2. QED
      BY <3>1 DEF Init
  <2>2. /\ extracted \in [Blocks -> Nat] /\ data \in [Files -> Nat] /\ dated \in [Files -> BOOLEAN]
        /\ at \in [Threads -> [file : Nat \ {0}, place : Nat \ {0}]]
    BY DEF Init
  <2>3. /\ outf = NoFile /\ lastdt = NoFile /\ write_mutex = Nobody
        /\ huge_errore = FALSE /\ detto = FALSE /\ g_diskfull = FALSE
        /\ stands = 0 /\ lost = {} /\ unopened = {}
    BY DEF Init
  <2>4. QED
    BY <2>1, <2>2, <2>3 DEF FileTypes
<1>2. DecompressedWhole /\ NoneLeft
  BY DEF Init, DecompressedWhole, NoneLeft
<1> DEFINE D == [p \in Files |-> {}]
<1>3. \A p \in Files : D[p] = {} /\ data[p] = 0 /\ dated[p] = FALSE /\ disk[p] = <<>>
  BY DEF Init
<1> HIDE DEF D
<1>4. Counted(D)
  BY <1>3, FS_EmptySet DEF Counted
<1>5. OfWritten(D)
  BY <1>3 DEF OfWritten
<1>6. Dates
  BY <1>a, <1>3, ConstantTypes DEF Dates
<1>7. InPlace(D)
  <2> SUFFICES ASSUME NEW p \in Files PROVE FileIs(p, {}, <<>>)
    BY <1>3 DEF InPlace
  <2>1. Len(<<>>) = 0 /\ Len(Ptr[p]) \in Nat /\ \A i \in AllPlaces(p) : ~(i <= 0)
    BY <1>a, ConstantTypes DEF AllPlaces
  <2>2. QED
    BY <2>1 DEF FileIs
<1>8. WrittenSoFar(D)
  BY DEF Init, WrittenSoFar
<1>9. WrittenAll(D)
  BY DEF Init, WrittenAll
<1>10. FilesInv(D)
  BY <1>4, <1>5, <1>6, <1>7, <1>8, <1>9 DEF FilesInv, D
<1>11. QED
  BY <1>1, <1>2, <1>10, InitTurn DEF FilesAre, FilesOf

LEMMA StepFiles == FilesAre /\ [Next]_vars => FilesAre'
<1> SUFFICES ASSUME FilesAre, [Next]_vars PROVE FilesAre'
  OBVIOUS
<1>1. TurnInv /\ FilesOf /\ TurnInv'
  BY StepTurn DEF FilesAre
<1>2. PICK D : FilesInv(D)
  BY DEF FilesAre
<1>3. CASE Next
  BY <1>1, <1>2, <1>3, ThreadFiles, ExtractAssumption DEF FilesAre, Next
<1>4. CASE UNCHANGED vars
  <2>1. UNCHANGED <<state, extracted, data, disk, dated, outf, lastdt, stands, lost, unopened, huge_errore, detto,
                    g_diskfull, write_mutex, pc, next, at>>
    BY <1>4 DEF vars, blocks, output
  <2>2. FilesOf'
    BY <1>1, <2>1 DEF FilesOf, FileTypes, DecompressedWhole, NoneLeft, Takeable
  <2>3. Counted(D)' /\ OfWritten(D)' /\ Dates' /\ (InPlace(D) => InPlace(D)')
    BY <1>2, <2>1 DEF FilesInv, Counted, OfWritten, Dates, InPlace, Has, Passed
  <2>4. (WrittenSoFar(D) => WrittenSoFar(D)') /\ (WrittenAll(D) => WrittenAll(D)')
    BY <2>1 DEF WrittenSoFar, WrittenAll, Has, Passed
  <2>5. FilesInv(D)'
    BY <1>2, <2>1, <2>3, <2>4 DEF FilesInv
  <2>6. QED
    BY <1>1, <2>2, <2>5 DEF FilesAre
<1>5. QED
  BY <1>3, <1>4

LEMMA FilesInductive == Spec => []FilesAre
BY InitFiles, StepFiles, PTL DEF Spec

(* Every variable keeps its type, and no file has more fragments counted   *)
(* than it has: a run is counted once, whichever thread writes it and      *)
(* however often its block was tried before.                               *)
THEOREM TypeTheorem == Spec => []TypeOK
<1>1. FilesAre /\ PermitInv /\ RamCounted => TypeOK
  <2> SUFFICES ASSUME FilesAre, PermitInv, RamCounted PROVE TypeOK
    OBVIOUS
  <2>a. ExtractAssumption
    BY ExtractAssumption
  <2>1. PICK D : FilesInv(D)
    BY DEF FilesAre
  <2>2. /\ state \in [Blocks -> {"READY", "WORKING"}] /\ pc \in [Threads -> Points]
        /\ next \in [Threads -> Blocks]
    BY DEF FilesAre, TurnInv, ExtractTypes
  <2>3. FileTypes
    BY DEF FilesAre, FilesOf
  <2>4. \A p \in Files : data[p] <= Len(Ptr[p])
    BY <2>a, <2>1, PlacesAreFinite DEF FilesInv, Counted
  <2>5. ram_attivi \in Nat /\ preso \in [Threads -> BOOLEAN]
    BY <2>a, HoldersFinite DEF PermitInv, PermitTypes, PermitsHold
  <2>6. ram_inuso \in Nat
    <3>1. \A t \in Holders : RamOf[t] \in Nat
      BY <2>a, RamOfNat DEF PermitInv, Holders
    <3>2. QED
      BY <2>a, <3>1, HoldersFinite, SumNat DEF RamCounted
  <2>7. at \in [Threads -> [file : Nat, place : Nat]]
    BY <2>3 DEF FileTypes
  <2>8. \A p \in Files : disk[p] \in Seq(Fragments \cup {0})
    BY <2>3 DEF FileTypes
  <2>9. QED
    BY <2>2, <2>3, <2>4, <2>5, <2>6, <2>7, <2>8 DEF TypeOK, FileTypes
<1>2. QED
  BY <1>1, FilesInductive, RamInductive, PTL

(* A file that is closed as complete, or whose fragments are all counted,  *)
(* has each of them in its place, zeros included, or a write failed or a   *)
(* thread was lost and it was said, or the disk refused what stdio had     *)
(* taken of that very file, which nobody looks at: for any files, blocks   *)
(* and threads, and any order of the runs.                                 *)
THEOREM CompleteTheorem == Spec => []CompleteIsWhole
<1>1. FilesAre => CompleteIsWhole
  <2> SUFFICES ASSUME FilesAre, NEW p \in Files, dated[p] \/ data[p] = Len(Ptr[p]),
                      ~huge_errore, ~detto, p \notin lost
               PROVE  disk[p] = Whole(p)
    BY DEF CompleteIsWhole
  <2>a. ExtractAssumption
    BY ExtractAssumption
  <2>1. PICK D : FilesInv(D)
    BY DEF FilesAre
  <2>2. D[p] \subseteq AllPlaces(p) /\ Cardinality(D[p]) = Len(Ptr[p])
    BY <2>1 DEF FilesInv, Counted, Dates
  <2>3. D[p] = AllPlaces(p)
    BY <2>a, <2>2, PlacesAreFinite
  <2>4. FileIs(p, AllPlaces(p), disk[p])
    BY <2>1, <2>3 DEF FilesInv, InPlace
  <2>5. disk[p] \in Seq(Fragments \cup {0})
    BY DEF FilesAre, FilesOf, FileTypes
  <2>6. QED
    BY <2>a, <2>4, <2>5, AllDoneIsWhole
<1>2. QED
  BY <1>1, FilesInductive, PTL

(* At the end no block is left to be taken unless a thread was lost or the *)
(* volume is full, and a file whose blocks are all good, and that could be *)
(* opened each time, is complete and dated, whichever other blocks are     *)
(* damaged and whatever failed for the other files: none of its runs was   *)
(* left behind by the thread that had the block.                           *)
THEOREM DamageTheorem == Spec => []DamageCostsItsFilesOnly
<1>1. FilesAre => DamageCostsItsFilesOnly
  <2> SUFFICES ASSUME FilesAre, Ended
               PROVE  /\ ~g_diskfull /\ (\A t \in Threads : pc[t] = "ended") =>
                           \A b \in Blocks : ~Takeable(b)
                      /\ \A p \in Files :
                           (\A b \in Blocks : p \in Users(b) => extracted[b] = Size(b)) =>
                           \/ detto \/ p \in unopened
                           \/ dated[p] /\ (disk[p] = Whole(p) \/ huge_errore \/ p \in lost)
    BY DEF DamageCostsItsFilesOnly
  <2>a. ExtractAssumption
    BY ExtractAssumption
  <2>1. PICK D : FilesInv(D)
    BY DEF FilesAre
  <2>2. ~g_diskfull /\ (\A t \in Threads : pc[t] = "ended") => \A b \in Blocks : ~Takeable(b)
    <3>1. \E t \in Threads : TRUE
      BY <2>a DEF ExtractAssumption
    <3>2. QED
      BY <3>1 DEF FilesAre, FilesOf, NoneLeft
  <2>3. ASSUME NEW p \in Files, \A b \in Blocks : p \in Users(b) => extracted[b] = Size(b),
               ~detto, p \notin unopened
        PROVE  dated[p] /\ (disk[p] = Whole(p) \/ huge_errore \/ p \in lost)
    <3>1. WrittenAll(D)
      BY <2>1, <2>3 DEF FilesInv
    <3>2. \A t \in Threads : \A b : ~Has(t, b)
      BY DEF Ended, Has, InTurn
    <3>3. ASSUME NEW i \in AllPlaces(p) PROVE i \in D[p]
      <4>1. PICK b \in Blocks : InBlock(b, Ptr[p][i])
        BY <2>a, ConstantTypes, OneBlock
      <4>2. p \in Users(b)
        BY <4>1 DEF Users, Range, AllPlaces
      <4>3. extracted[b] = Size(b) /\ Size(b) > 0
        BY <2>a, <2>3, <4>1, <4>2, SizeIs
      <4>4. QED
        BY <2>3, <3>1, <3>2, <4>1, <4>3 DEF WrittenAll
    <3>4. D[p] = AllPlaces(p) /\ data[p] = Cardinality(D[p])
      BY <2>1, <3>3 DEF FilesInv, Counted
    <3>5. data[p] = Len(Ptr[p])
      <4>1. \A n \in Nat : IsFiniteSet(1..n) /\ Cardinality(1..n) = IF 1 > n THEN 0 ELSE n - 1 + 1
        BY FS_Interval
      <4>2. \A n \in Nat : (IF 1 > n THEN 0 ELSE n - 1 + 1) = n
        OBVIOUS
      <4>3. QED
        BY <2>a, <3>4, <4>1, <4>2, ConstantTypes DEF AllPlaces
    <3>6. dated[p]
      BY <2>1, <2>3, <3>5 DEF FilesInv, Dates
    <3>7. ASSUME ~huge_errore, p \notin lost PROVE disk[p] = Whole(p)
      <4>1. FileIs(p, AllPlaces(p), disk[p])
        BY <2>1, <2>3, <3>4, <3>7 DEF FilesInv, InPlace
      <4>2. disk[p] \in Seq(Fragments \cup {0})
        BY DEF FilesAre, FilesOf, FileTypes
      <4>3. QED
        BY <2>a, <4>1, <4>2, AllDoneIsWhole
    <3>8. QED
      BY <3>6, <3>7
  <2>4. QED
    BY <2>2, <2>3
<1>2. QED
  BY <1>1, FilesInductive, PTL
=============================================================================
