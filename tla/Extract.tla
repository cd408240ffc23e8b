------------------------------ MODULE Extract ------------------------------
(***************************************************************************)
(* x: the threads that decompress the blocks and write the files.          *)
(*                                                                         *)
(* Each block is taken by a thread, decompressed when the RAM allows and   *)
(* then, under write_mutex, its fragments go to every file that has them:  *)
(* a file of many blocks is written by many threads, in no given order,    *)
(* and only one file is open at a time.  What is done under job.mutex is   *)
(* one step.  A run is the consecutive fragments of a file that follow     *)
(* each other in the block: they are one write.                            *)
(*                                                                         *)
(* On POSIX the file is a stdio stream, and what fwrite has taken reaches  *)
(* the disk later, at a seek or at the close, whose results nobody looks   *)
(* at.  Nothing reads the file before: its fate is chosen with the write.  *)
(***************************************************************************)
EXTENDS Integers, Sequences, FiniteSets, FiniteSetsExt, Functions

CONSTANTS
  Threads,      \* the threads of the ExtractJob
  NFragments,   \* the fragments of the archive, from 1
  Start,        \* per block: its first fragment (Block::start)
  Ptr,          \* per file: the fragments it is made of
  Zero,         \* the fragments of zeros only
  Ram,          \* per block: what its model and its data take
  Budget,       \* ram_budget, 0: no limit
  Faults        \* of "archive", "damage", "memory", "writing", "open", "full",
                \* and "flush", which is of the POSIX build only

Fragments == 1..NFragments
Blocks    == DOMAIN Start
Files     == DOMAIN Ptr
NoFile    == 0
Nobody    == "nobody"

ASSUME ExtractAssumption ==
  /\ IsFiniteSet(Threads) /\ Threads # {} /\ Nobody \notin Threads
  /\ NFragments \in Nat
  /\ Start \in Seq(Fragments) /\ Start # <<>> /\ Start[1] = 1
  /\ \A b, c \in Blocks : b < c => Start[b] < Start[c]
  /\ Ptr \in Seq(Seq(Fragments) \ {<<>>})
  /\ Zero \subseteq Fragments
  /\ Ram \in [Blocks -> Nat] /\ Budget \in Nat
  /\ Faults \subseteq {"archive", "damage", "memory", "writing", "open", "full", "flush"}

VARIABLES
  state,          \* Block::state
  extracted,      \* Block::extracted, the fragments of it that are good
  data,           \* per file: how many of its fragments are done
  disk,           \* per file: the fragments that are in it, 0 for zeros
  dated,          \* per file: closed as complete, with its date and attributes
  outf, lastdt,   \* the file that is open, and whose it is
  stands,         \* the place where its stream stands if its next seek will fail, or 0
  lost,           \* history: the files of which the disk refused what stdio had taken
  unopened,       \* history: the files that could not be opened, once or more
  ram_inuso, ram_attivi,
  huge_errore,    \* a write did not go through, and it was said
  detto,          \* a thread was out of RAM while it wrote, and it was said
  g_diskfull,
  write_mutex,
  pc, next,       \* where each thread is, and its block
  preso,          \* whether its permit was taken
  at              \* the file of the block and the place in it, while it writes

blocks == <<state, extracted>>
output == <<data, disk, dated, outf, lastdt, stands, lost, unopened, huge_errore, detto>>
ram    == <<ram_inuso, ram_attivi, preso>>
vars   == <<blocks, output, ram, g_diskfull, write_mutex, pc, next, at>>

-----------------------------------------------------------------------------
(* What extract() prepares: the blocks and the files that point to them.   *)

InBlock(b, f) == f >= Start[b] /\ (b = Len(Start) \/ f < Start[b + 1])

\* The fragments of the block that some file has, and the files.
Used(b)  == {f \in Fragments : InBlock(b, f) /\ \E p \in Files : f \in Range(Ptr[p])}
Users(b) == {p \in Files : \E f \in Range(Ptr[p]) : InBlock(b, f)}

\* A block is decompressed up to the last fragment that some file has.
Size(b) == IF Used(b) = {} THEN 0 ELSE Max(Used(b)) - Start[b] + 1

\* The fragments of the block that may be written.
Good(b) == Start[b]..Start[b] + extracted[b] - 1

Content(f) == IF f \in Zero THEN 0 ELSE f

Init ==
  /\ state = [b \in Blocks |-> "READY"] /\ extracted = [b \in Blocks |-> 0]
  /\ data = [p \in Files |-> 0] /\ disk = [p \in Files |-> <<>>]
  /\ dated = [p \in Files |-> FALSE]
  /\ outf = NoFile /\ lastdt = NoFile /\ stands = 0 /\ lost = {} /\ unopened = {}
  /\ ram_inuso = 0 /\ ram_attivi = 0 /\ preso = [t \in Threads |-> FALSE]
  /\ huge_errore = FALSE /\ detto = FALSE /\ g_diskfull = FALSE /\ write_mutex = Nobody
  /\ pc = [t \in Threads |-> "open"]
  /\ next = [t \in Threads |-> 1]
  /\ at = [t \in Threads |-> [file |-> 1, place |-> 1]]

-----------------------------------------------------------------------------
(* From one block to the next.                                             *)

Goes(t, from, to) == pc[t] = from /\ pc' = [pc EXCEPT ![t] = to]

\* A thread that cannot open the archive is one less.
Open(t) ==
  /\ \/ Goes(t, "open", "look")
     \/ "archive" \in Faults /\ Goes(t, "open", "killed")
  /\ UNCHANGED <<blocks, output, ram, g_diskfull, write_mutex, next, at>>

Look(t) ==
  /\ Goes(t, "look", IF g_diskfull THEN "ended" ELSE "find")
  /\ UNCHANGED <<blocks, output, ram, g_diskfull, write_mutex, next, at>>

Takeable(b) == state[b] = "READY" /\ Size(b) > 0

\* The i-th block after the one of the thread, around.
Around(t, i) == ((next[t] - 1 + i) % Len(Start)) + 1

\* Mutant: a block is not marked until it is decompressed.
Marked_Later(b) == state

Marked(b) == [state EXCEPT ![b] = "WORKING"]

Find(t) ==
  LET found == {i \in 0..Len(Start) - 1 : Takeable(Around(t, i))}
  IN  IF found = {}
      THEN /\ Goes(t, "find", "ended")
           /\ UNCHANGED <<blocks, next, output, ram, g_diskfull, write_mutex, at>>
      ELSE LET b == Around(t, Min(found))
           IN  /\ Goes(t, "find", "header")
               /\ state' = Marked(b) /\ next' = [next EXCEPT ![t] = b]
               /\ UNCHANGED <<extracted, output, ram, g_diskfull, write_mutex, at>>

\* The header of the block says how much its model takes.
ReadHeader(t) ==
  /\ Goes(t, "header", IF Budget = 0 THEN "decompress" ELSE "permit")
  /\ UNCHANGED <<blocks, output, ram, g_diskfull, write_mutex, next, at>>

\* Mutant: the block itself is not counted.
Granted_Before(q) == ram_inuso <= Budget \/ ram_attivi = 0

\* Mutant: a block larger than the budget waits for ever.
Granted_Never(q) == ram_inuso + q <= Budget

\* If the RAM can take it with the others; one alone always goes.
Granted(q) == ram_inuso + q <= Budget \/ ram_attivi = 0

TakePermit(t) ==
  /\ Goes(t, "permit", "decompress")
  /\ Granted(Ram[next[t]])
  /\ ram_attivi' = ram_attivi + 1
  /\ ram_inuso' = ram_inuso + Ram[next[t]]
  /\ preso' = [preso EXCEPT ![t] = TRUE]
  /\ UNCHANGED <<blocks, output, g_diskfull, write_mutex, next, at>>

\* The permit ends with the turn of the loop, however the turn ends.
GivePermitBack(t) ==
  IF preso[t]
  THEN /\ ram_attivi' = ram_attivi - 1
       /\ ram_inuso' = ram_inuso - Ram[next[t]]
       /\ preso' = [preso EXCEPT ![t] = FALSE]
  ELSE UNCHANGED ram

\* All its fragments are as their checksums say.
Decompress(t) ==
  /\ Goes(t, "decompress", "decompressed")
  /\ extracted' = [extracted EXCEPT ![next[t]] = Size(next[t])]
  /\ UNCHANGED <<state, output, ram, g_diskfull, write_mutex, next, at>>

\* Mutant: a damaged block ends the thread, as one without memory does.
AfterDamage_Ended == "ended"

AfterDamage == "look"

\* A damaged block is skipped: it stays WORKING, and nothing of it is written.
Skip(t) ==
  /\ "damage" \in Faults
  /\ \/ Goes(t, "header", AfterDamage)
     \/ Goes(t, "decompress", AfterDamage)
  /\ extracted' \in {[extracted EXCEPT ![next[t]] = n] : n \in 0..Size(next[t]) - 1}
  /\ GivePermitBack(t)
  /\ UNCHANGED <<state, output, g_diskfull, write_mutex, next, at>>

\* Out of memory: the block is for another thread, and this one ends.
Killed(t) ==
  /\ "memory" \in Faults
  /\ \/ Goes(t, "header", "killed")
     \/ Goes(t, "decompress", "killed")
  /\ state' = [state EXCEPT ![next[t]] = "READY"]
  /\ extracted' = [extracted EXCEPT ![next[t]] = 0]
  /\ GivePermitBack(t)
  /\ UNCHANGED <<output, g_diskfull, write_mutex, next, at>>

-----------------------------------------------------------------------------
(* The files of the block, under write_mutex.                              *)

LockFiles(t) ==
  /\ Goes(t, "decompressed", "write")
  /\ write_mutex = Nobody /\ write_mutex' = t
  /\ at' = [at EXCEPT ![t] = [file |-> 1, place |-> 1]]
  /\ UNCHANGED <<blocks, output, ram, g_diskfull, next>>

\* The places of file p, from k on, whose fragments the block of t has.
Places(t, p, k) == {i \in k..Len(Ptr[p]) : Ptr[p][i] \in Good(next[t])}

\* A file that is not complete yet, and has more to get from the block.
HasRun(t) ==
  LET p == at[t].file
  IN  p \in Files /\ (at[t].place > 1 \/ data[p] < Len(Ptr[p])) /\ Places(t, p, at[t].place) # {}

First(t) == Min(Places(t, at[t].file, at[t].place))

\* Mutant: the end of the block is not looked at.
IsRun_Past(t, p, i, k) == \A l \in i..k : Ptr[p][l] = Ptr[p][i] + l - i

\* Fragments that follow each other, all of them in the block.
IsRun(t, p, i, k) ==
  \A l \in i..k : Ptr[p][l] = Ptr[p][i] + l - i /\ Ptr[p][l] \in Good(next[t])

Last(t) == Max({k \in First(t)..Len(Ptr[at[t].file]) : IsRun(t, at[t].file, First(t), k)})

NextFile(t) ==
  /\ pc[t] = "write" /\ ~HasRun(t) /\ at[t].file \in Files
  /\ at' = [at EXCEPT ![t] = [file |-> @.file + 1, place |-> 1]]
  /\ UNCHANGED <<blocks, output, ram, g_diskfull, write_mutex, pc, next>>

UnlockFiles(t) ==
  /\ Goes(t, "write", "look")
  /\ at[t].file \notin Files
  /\ write_mutex' = Nobody
  /\ GivePermitBack(t)
  /\ UNCHANGED <<blocks, output, g_diskfull, next, at>>

\* Mutant: a file is always opened anew.
Opened_Anew(p) == <<>>

\* A new file is created; one begun before is opened for update.
Opened(p) == IF data[p] = 0 THEN <<>> ELSE disk[p]

IsOpen(p) == lastdt = p

\* What is in file p when it has been opened, if it was not open already.
Before(p) == IF IsOpen(p) THEN disk[p] ELSE Opened(p)

\* Where the writes go.
Target(p) == IF IsOpen(p) THEN outf ELSE p

\* All zeros are not written, unless they end the file: the gap will be zeros.
IsWritten(p, i, k) == k = Len(Ptr[p]) \/ \E l \in i..k : Content(Ptr[p][l]) # 0

\* The file with places i to k written from s on: what is between its end and s is zeros.
Written(p, s, i, k, old) ==
  LET e == s + k - i
  IN  IF k < i THEN old
      ELSE [l \in 1..(IF e > Len(old) THEN e ELSE Len(old)) |->
              IF l \in s..e THEN Content(Ptr[p][i + l - s]) ELSE IF l <= Len(old) THEN old[l] ELSE 0]

\* A seek that must first flush what the disk refuses moves nothing, and the run goes
\* where the stream stands.
From(p, i) == IF IsOpen(p) /\ stands # 0 THEN stands ELSE i

Count(p, i, k) == [data EXCEPT ![p] = @ + (k - i + 1)]

IsLastRun(p, i, k) == data[p] + (k - i + 1) = Len(Ptr[p])

\* A run that is not written makes no seek, and leaves the stream where it was.
StillStands(p) == IF IsOpen(p) THEN stands ELSE 0

\* A file that is closed stands nowhere.
Stands(p, i, k, s) == stands' = IF IsLastRun(p, i, k) THEN 0 ELSE s

\* The run is written, or the disk takes the places before m and refuses the others: it
\* is told when fwrite sees it, and it is not when it is the next seek or the close.
Writes(p, i, k) ==
  LET old     == [disk EXCEPT ![p] = Before(p)]
      With(m) == [old EXCEPT ![Target(p)] = Written(p, From(p, i), i, m, @)]
  IN  \/ /\ ~IsWritten(p, i, k)
         /\ disk' = old /\ Stands(p, i, k, StillStands(p))
         /\ UNCHANGED <<huge_errore, lost>>
      \/ /\ IsWritten(p, i, k)
         /\ disk' = With(k) /\ stands' = 0
         /\ UNCHANGED <<huge_errore, lost>>
      \/ /\ IsWritten(p, i, k)
         /\ \E m \in i - 1..k - 1 :
              /\ disk' = With(m)
              /\ \/ /\ "full" \in Faults /\ huge_errore' = TRUE
                    /\ stands' = 0 /\ UNCHANGED lost
                 \/ /\ "flush" \in Faults /\ lost' = lost \cup {p}
                    /\ Stands(p, i, k, From(p, i) + (m - i + 1)) /\ UNCHANGED huge_errore

\* The run is counted, then written; the file is closed when all are counted.
WriteRun(t) ==
  /\ pc[t] = "write" /\ HasRun(t)
  /\ \E p \in {at[t].file}, i \in {First(t)}, k \in {Last(t)} :
       /\ data' = Count(p, i, k) /\ Writes(p, i, k)
       /\ IF IsLastRun(p, i, k)
          THEN outf' = NoFile /\ lastdt' = NoFile /\ dated' = [dated EXCEPT ![p] = TRUE]
          ELSE outf' = Target(p) /\ lastdt' = p /\ UNCHANGED dated
       /\ at' = [at EXCEPT ![t].place = k + 1]
  /\ UNCHANGED <<blocks, unopened, detto, ram, g_diskfull, write_mutex, pc, next>>

\* The file cannot be created, or opened for update: the block goes on with the next
\* file, and these fragments of it are neither written nor counted.  If it is a creation,
\* on a full volume, the threads end as they come to look for another block.
OpenFails(t) ==
  LET p == at[t].file
  IN  /\ pc[t] = "write" /\ HasRun(t) /\ ~IsOpen(p)
      /\ \/ "full" \in Faults /\ data[p] = 0 /\ g_diskfull' = TRUE
         \/ "open" \in Faults /\ UNCHANGED g_diskfull
      /\ outf' = NoFile /\ lastdt' = NoFile /\ stands' = 0
      /\ unopened' = unopened \cup {p}
      /\ at' = [at EXCEPT ![t] = [file |-> p + 1, place |-> 1]]
      /\ UNCHANGED <<blocks, data, disk, dated, lost, huge_errore, detto, ram, write_mutex, pc, next>>

\* Out of memory among the files of the block: before the run is counted (the name of
\* the file), after it (the list of the CRC-32), or when it is the last one and is
\* written (the name again, for the close).  The thread ends, and leaves the file open.
WriteThrows(t) ==
  /\ "writing" \in Faults
  /\ HasRun(t) /\ Goes(t, "write", "killed")
  /\ \E p \in {at[t].file}, i \in {First(t)}, k \in {Last(t)} :
       \/ /\ ~IsOpen(p) /\ outf' = NoFile /\ lastdt' = NoFile /\ stands' = 0
          /\ UNCHANGED <<data, disk, huge_errore, lost>>
       \/ /\ IsWritten(p, i, k) /\ data' = Count(p, i, k)
          /\ disk' = [disk EXCEPT ![p] = Before(p)] /\ stands' = StillStands(p)
          /\ outf' = Target(p) /\ lastdt' = p
          /\ UNCHANGED <<huge_errore, lost>>
       \/ /\ IsLastRun(p, i, k) /\ data' = Count(p, i, k) /\ Writes(p, i, k)
          /\ outf' = Target(p) /\ lastdt' = p
  /\ write_mutex' = Nobody /\ detto' = TRUE
  /\ GivePermitBack(t)
  /\ UNCHANGED <<blocks, dated, unopened, g_diskfull, next, at>>

Ended == \A t \in Threads : pc[t] \in {"ended", "killed"}

Thread(t) ==
  \/ Open(t) \/ Look(t) \/ Find(t)
  \/ ReadHeader(t) \/ TakePermit(t) \/ Decompress(t) \/ Skip(t) \/ Killed(t)
  \/ LockFiles(t) \/ WriteRun(t) \/ OpenFails(t) \/ WriteThrows(t)
  \/ NextFile(t) \/ UnlockFiles(t)

Next == \E t \in Threads : Thread(t)

Spec == Init /\ [][Next]_vars

\* Every thread runs: the one that waits for the RAM looks again every 20 ms.
FairSpec == Spec /\ \A t \in Threads : WF_vars(Thread(t))

-----------------------------------------------------------------------------
Points == {"open", "look", "find", "header", "permit", "decompress", "decompressed",
           "write", "ended", "killed"}

\* Every variable keeps its type; no file has more fragments done than it has.
TypeOK ==
  /\ state \in [Blocks -> {"READY", "WORKING"}] /\ extracted \in [Blocks -> Nat]
  /\ data \in [Files -> Nat] /\ \A p \in Files : data[p] <= Len(Ptr[p])
  /\ \A p \in Files : disk[p] \in Seq(Fragments \cup {0})
  /\ dated \in [Files -> BOOLEAN]
  /\ outf \in Files \cup {NoFile} /\ lastdt \in Files \cup {NoFile}
  /\ stands \in Nat /\ lost \subseteq Files /\ unopened \subseteq Files
  /\ ram_inuso \in Nat /\ ram_attivi \in Nat /\ preso \in [Threads -> BOOLEAN]
  /\ huge_errore \in BOOLEAN /\ detto \in BOOLEAN /\ g_diskfull \in BOOLEAN
  /\ write_mutex \in Threads \cup {Nobody}
  /\ pc \in [Threads -> Points] /\ next \in [Threads -> Blocks]
  /\ at \in [Threads -> [file : Nat, place : Nat]]

Whole(p) == [k \in 1..Len(Ptr[p]) |-> Content(Ptr[p][k])]

\* A file that has its date and attributes, or whose fragments are all counted, has
\* every one of them in its place, in whatever order the blocks came and whichever
\* thread wrote them, or something was said: a write that failed, a thread lost.  The
\* one exception is a file of its own: what stdio had taken of it was refused, and
\* nobody looks; the bytes that another file lost, or put astray, are no excuse.
CompleteIsWhole ==
  \A p \in Files : dated[p] \/ data[p] = Len(Ptr[p]) =>
    disk[p] = Whole(p) \/ huge_errore \/ detto \/ p \in lost

\* Of a thread lost among the files of its block "the count of the fragments at the
\* end says which" are not complete: one whose fragments are all counted is.
CountSaysWhich ==
  \A p \in Files : data[p] = Len(Ptr[p]) => disk[p] = Whole(p) \/ huge_errore

Busy(t) == pc[t] \notin {"open", "look", "find", "ended", "killed"}

\* Two threads never have the same block, nor one that is still to be taken: its
\* fragments would be counted twice.
BlockHasOneThread ==
  \A t \in Threads : Busy(t) =>
    /\ state[next[t]] = "WORKING"
    /\ \A u \in Threads : Busy(u) /\ next[u] = next[t] => u = t

Holders == {t \in Threads : preso[t]}

\* The permits are those of the threads that hold one, and what they take is within
\* the budget, unless a block is alone.
PermitsHold ==
  ram_attivi = Cardinality(Holders) /\ (ram_inuso <= Budget \/ ram_attivi <= 1)

\* franzpermesso: what is in use is the sum of the blocks being decompressed, and the
\* permits hold.
RamWithinBudget ==
  /\ ram_inuso = SumFunctionOnSet([t \in Threads |-> Ram[next[t]]], Holders)
  /\ PermitsHold

\* A damaged block costs the files that have a part in it and no other: at the end
\* every block was tried, unless a thread was lost or the volume is full, and every
\* file whose blocks are good, and that could be opened for each of them, is complete
\* and dated, whatever failed to open, to be written or to be flushed beside it.
DamageCostsItsFilesOnly ==
  Ended =>
    /\ ~g_diskfull /\ (\A t \in Threads : pc[t] = "ended") => \A b \in Blocks : ~Takeable(b)
    /\ \A p \in Files :
         (\A b \in Blocks : p \in Users(b) => extracted[b] = Size(b)) =>
         \/ detto \/ p \in unopened
         \/ dated[p] /\ (disk[p] = Whole(p) \/ huge_errore \/ p \in lost)

\* "If out of memory, let another thread try": a block is not left READY while a
\* thread has come to its end as it should.
AnotherThreadTries ==
  Ended /\ ~g_diskfull /\ (\E t \in Threads : pc[t] = "ended") =>
    \A b \in Blocks : ~Takeable(b)

\* Every thread ends, whatever the blocks take: x never waits for ever for the RAM.
Ends == <>Ended
=============================================================================
