------------------------------ MODULE Journal ------------------------------
(***************************************************************************)
(* How add2 writes a new version into an archive of one file: on its own,  *)
(* killed, out of space, or stopped by control-C.                          *)
(*                                                                         *)
(* The new version is written where read_archive says the good ones end,   *)
(* over whatever an add that died has left there.  Its header says         *)
(* "incomplete" (a negative jump) until everything else is on the disk;    *)
(* then it is written again, in place, and what is left of an older tail   *)
(* is cut off.  A flush takes one block to the disk in two steps: between  *)
(* them the write is in progress, and control-C waits for it.              *)
(***************************************************************************)
EXTENDS MountScan

CONSTANTS
  MaxAdds,        \* bound: the adds that are begun
  MaxData,        \* bound: the d blocks of an add
  Kills,          \* whether the process may be killed
  WindowKills,    \* whether also between the final header and the truncation
                  \* of an older tail
  MediaFull,      \* whether the disk may fill up
  ControlC        \* "never"; "main": the handler runs on the main thread, which
                  \* stops there; "other": on another one, and main goes on

ASSUME JournalAssumption ==
  /\ MaxAdds \in Nat /\ MaxData \in Nat
  /\ {Kills, WindowKills, MediaFull} \subseteq BOOLEAN
  /\ ControlC \in {"never", "main", "other"}

VARIABLES
  disk,           \* the archive: a sequence of cells
  full,           \* the disk takes no more
  date,           \* the date of the last add: never used twice
  pc,             \* where the main thread of add2 is
  plan,           \* what this add stores: how many d blocks and i blocks
  left,           \* its blocks not flushed yet
  pos,            \* where in the file the next one goes: out.tell()
  header_pos,     \* where the new version starts
  cdatasize,      \* its data on the disk
  archive_end,    \* where it ends
  archive_size,   \* how long the file is then
  busy,           \* a flush is in progress: g_flush_busy
  complete,       \* g_transazionecompleta
  handle,         \* g_archivefp: "out" or "null"
  closes,         \* how many times this add's archive was closed
  stop,           \* g_cc_stop
  hpc,            \* where the control-C handler is
  banner,         \* what it said at the end
  before,         \* the archive when this add started (g_starting_zpaqsize: its size)
  versions,       \* what the versions up to then hold
  committed       \* the final header of the new one is on the disk

outvars == <<left, pos, cdatasize, archive_end, archive_size, busy, handle, closes>>
addvars == <<date, plan, header_pos, before, versions>>
hvars   == <<stop, hpc, banner>>
vars == <<disk, full, pc, complete, committed, outvars, addvars, hvars>>

Init ==
  /\ disk = <<>> /\ before = <<>> /\ versions = <<>> /\ left = <<>>
  /\ date = 0 /\ pos = 0 /\ header_pos = 0 /\ cdatasize = 0
  /\ archive_end = 0 /\ archive_size = 0 /\ closes = 0
  /\ plan = [data |-> 0, index |-> 0]
  /\ pc = "idle" /\ hpc = "none" /\ banner = "none" /\ handle = "null"
  /\ full = FALSE /\ busy = FALSE /\ complete = FALSE /\ stop = FALSE
  /\ committed = FALSE

-----------------------------------------------------------------------------
(* The version an add writes.                                              *)

\* Data needs an index; an index without data deletes; an add that finds
\* nothing to do has neither.
Plans == {p \in [data : 0..MaxData, index : 0..Names] : p.index = 0 => p.data = 0}

Sha(d, k) == 10 * d + k

NewContent(d, p) == [k \in 1..p.data |-> Sha(d, k)]

Previous == IF versions = <<>> THEN [n \in 1..Names |-> NoFile]
                               ELSE versions[Len(versions)]

\* What the new version should hold: its files all hold all of its data.
Intended == [n \in 1..Names |-> IF n <= plan.index THEN NewContent(date, plan)
                                                   ELSE Previous[n]]

\* Mutant: the first header says where the version ends already.
BlocksOf_CommitsFirst(d, p, htsize) ==
  <<CBlock(d, htsize, 2 * p.data)>>
  \o [k \in 1..p.data |-> DBlock(d, htsize + k - 1, Sha(d, k))]
  \o [k \in 1..p.data |-> HBlock(d, htsize + k - 1, Sha(d, k))]
  \o [k \in 1..p.index |-> IBlock(d, k, k, [j \in 1..p.data |-> htsize + j - 1])]

\* The blocks in the order they are written; fragments are numbered from htsize.
BlocksOf(d, p, htsize) ==
  <<CBlock(d, htsize, Incomplete)>>
  \o [k \in 1..p.data |-> DBlock(d, htsize + k - 1, Sha(d, k))]
  \o [k \in 1..p.data |-> HBlock(d, htsize + k - 1, Sha(d, k))]
  \o [k \in 1..p.index |-> IBlock(d, k, k, [j \in 1..p.data |-> htsize + j - 1])]

Empty == plan.index = 0

\* Zeros, where the file is made longer than what was written to it.
Zero == [block |-> CBlock(0, 0, 0), part |-> "zero"]

Resized(f, n) == [k \in 1..n |-> IF k <= Len(f) THEN f[k] ELSE Zero]

\* n cells of block b in the file at offset o, over what is there.
WriteAt(f, o, b, n) == Resized(f, o) \o SubSeq(Cells(b), 1, n)
                       \o SubSeq(f, o + n + 1, Len(f))

-----------------------------------------------------------------------------
(* add2.                                                                   *)

\* A signal that interrupts the main thread never gives it back.
MainRuns == ControlC = "other" \/ hpc = "none"

\* Mutant: one cell too early, over the end of the last good block.
AppendPosition_OneLess(r) == r.block_offset - 1

\* Mutant: the archive is written from its start.
AppendPosition_Start(r) == 0

\* Where read_archive stopped.
AppendPosition(r) == r.block_offset

\* A new process reads the archive and seeks to the end of what is good.
Begin(p) ==
  LET r == Read(disk) IN
  /\ pc = "idle" /\ date < MaxAdds
  /\ date' = date + 1
  /\ plan' = p
  /\ header_pos' = AppendPosition(r)
  /\ pos' = AppendPosition(r)
  /\ left' = BlocksOf(date + 1, p, HtSize(r))
  /\ before' = disk
  /\ cdatasize' = 0 /\ closes' = 0 /\ busy' = FALSE
  /\ handle' = "out"
  /\ complete' = FALSE /\ committed' = FALSE /\ stop' = FALSE
  /\ hpc' = "none" /\ banner' = "none"
  /\ full' = FALSE
  /\ pc' = "body"
  /\ UNCHANGED <<disk, archive_end, archive_size, versions>>

Flushing == pc \in {"body", "header"} /\ left # <<>>

\* The data is flushed by the writeThread, which no signal stops.
FlusherRuns == MainRuns \/ (pc = "body" /\ left # <<>> /\ Head(left).type = "d")

\* Mutant: flush does not look at g_cc_stop.
Stopped_Never == FALSE

Stopped == stop

\* flush_guard counts the write in before it looks at g_cc_stop.
FlushBegin ==
  /\ Flushing /\ FlusherRuns /\ ~busy /\ ~Stopped
  /\ busy' = TRUE
  /\ handle' = "out"
  /\ UNCHANGED <<disk, full, pc, complete, committed, left, pos, cdatasize,
                 archive_end, archive_size, closes, addvars, hvars>>

\* Stopped: the buffer is thrown away, and the position stays.
FlushDiscard ==
  /\ Flushing /\ FlusherRuns /\ ~busy /\ Stopped
  /\ left' = Tail(left)
  /\ UNCHANGED <<disk, full, pc, complete, committed, pos, cdatasize, archive_end,
                 archive_size, busy, handle, closes, addvars, hvars>>

\* n cells of the block reach the file.
Flushed(n) ==
  /\ disk' = WriteAt(disk, pos, Head(left), n)
  /\ pos' = pos + n
  /\ left' = Tail(left)
  /\ cdatasize' = IF Head(left).type = "d" THEN cdatasize + n ELSE cdatasize
  /\ committed' = (committed \/ (pc = "header" /\ n = 2))

\* Over bytes the file already has there is always room.
Fits(n) == pos + n <= Len(disk)

\* The disk may fill up now; a write cut short goes on as if it were whole.
FlushEnd ==
  /\ busy /\ FlusherRuns
  /\ \/ (~full \/ Fits(2)) /\ Flushed(2) /\ UNCHANGED full
     \/ /\ MediaFull /\ ~Fits(2) /\ full' = TRUE
        /\ \E n \in 0..1 : (~full \/ Fits(n)) /\ Flushed(n)
  /\ busy' = FALSE
  /\ UNCHANGED <<pc, complete, archive_end, archive_size, handle, closes, addvars,
                 hvars>>

\* Everything is written: back to the header, which gets the size of the data.
EndBody ==
  /\ pc = "body" /\ left = <<>> /\ ~busy /\ MainRuns
  /\ archive_end' = pos
  /\ pos' = header_pos
  /\ left' = <<CBlock(date, HtSize(Read(before)), cdatasize)>>
  /\ pc' = "header"
  /\ UNCHANGED <<disk, full, complete, committed, cdatasize, archive_size, busy,
                 handle, closes, addvars, hvars>>

\* The header is flushed; seek to the end of the file.
EndHeader ==
  /\ pc = "header" /\ left = <<>> /\ ~busy /\ MainRuns
  /\ archive_size' = Len(disk)
  /\ pc' = "close"
  /\ UNCHANGED <<disk, full, complete, committed, left, pos, cdatasize, archive_end,
                 busy, handle, closes, addvars, hvars>>

\* Mutant: the handle of control-C keeps pointing to the closed file.
Released_Kept(h) == h

Released(h) == "null"

\* OutputArchive::close takes the handle away from control-C...
ReleaseHandle ==
  /\ pc = "close" /\ MainRuns
  /\ handle' = Released(handle)
  /\ pc' = "closing"
  /\ UNCHANGED <<disk, full, complete, committed, left, pos, cdatasize, archive_end,
                 archive_size, busy, closes, addvars, hvars>>

\* ...and closes its own, whoever may have closed that file before.
CloseArchive ==
  /\ pc = "closing" /\ MainRuns
  /\ closes' = closes + 1
  /\ pc' = "cut"
  /\ UNCHANGED <<disk, full, complete, committed, left, pos, cdatasize, archive_end,
                 archive_size, busy, handle, addvars, hvars>>

\* A version with nothing in it is cut off as well.
FinalEnd == IF Empty /\ archive_end - header_pos = 2 THEN header_pos ELSE archive_end

\* Mutant: the older tail stays.
CutTo_Nothing == disk

CutTo == IF FinalEnd < archive_size THEN Resized(disk, FinalEnd) ELSE disk

Cut ==
  /\ pc = "cut" /\ MainRuns
  /\ disk' = CutTo
  /\ committed' = (committed /\ ~Empty)
  /\ pc' = "after"
  /\ UNCHANGED <<full, complete, outvars, addvars, hvars>>

\* After -copy, -test and the rest, control-C must not roll the version back.
Complete ==
  /\ pc = "after" /\ MainRuns
  /\ complete' = TRUE
  /\ pc' = "done"
  /\ UNCHANGED <<disk, full, committed, outvars, addvars, hvars>>

-----------------------------------------------------------------------------
(* The end of a process, and the trim command.                             *)

\* Nothing of the process is left; the versions are those it leaves behind.
Gone(stored, said) ==
  /\ versions' = IF stored THEN Append(versions, Intended) ELSE versions
  /\ pc' = "idle" /\ hpc' = "none" /\ banner' = said
  /\ left' = <<>> /\ handle' = "null"
  /\ busy' = FALSE /\ stop' = FALSE /\ complete' = FALSE /\ committed' = FALSE
  /\ pos' = 0 /\ cdatasize' = 0 /\ archive_end' = 0 /\ archive_size' = 0
  /\ UNCHANGED <<closes, date, plan, header_pos, before>>

Exit ==
  /\ pc = "done" /\ hpc = "none"
  /\ Gone(committed, "none")
  /\ UNCHANGED <<disk, full>>

\* The final header is there, and so is a tail the version has not cut yet.
InWindow == committed /\ pc \in {"header", "close", "closing", "cut"} /\ archive_end < Len(disk)

\* Killed; a write in progress may have put the tag of its block there.
Kill ==
  /\ Kills /\ pc # "idle"
  /\ WindowKills \/ ~InWindow
  /\ \/ UNCHANGED disk
     \/ /\ busy /\ Head(left).type # "c" /\ ~full
        /\ disk' = WriteAt(disk, pos, Head(left), 1)
  /\ Gone(committed, "none")
  /\ UNCHANGED full

\* trim -kill: the archive ends where read_archive says.
Trim ==
  /\ pc = "idle"
  /\ AppendPosition(Read(disk)) < Len(disk)
  /\ disk' = SubSeq(disk, 1, AppendPosition(Read(disk)))
  /\ UNCHANGED <<full, pc, complete, committed, outvars, addvars, hvars>>

-----------------------------------------------------------------------------
(* my_handler.                                                             *)

\* A second control-C is ignored.
PressControlC ==
  /\ ControlC # "never" /\ pc # "idle" /\ hpc = "none"
  /\ stop' = TRUE
  /\ hpc' = "waiting"
  /\ UNCHANGED <<disk, full, pc, complete, committed, outvars, addvars, banner>>

\* Mutant: the handler does not wait for the write in progress.
WriteOver_Anyway == TRUE

\* A write of the thread the handler has interrupted cannot end: it waits for
\* three seconds, then goes on.
WriteOver == ~busy \/ ~FlusherRuns

HandlerWait ==
  /\ hpc = "waiting" /\ WriteOver
  /\ hpc' = "looking"
  /\ UNCHANGED <<disk, full, pc, complete, committed, outvars, addvars, stop, banner>>

\* Take the handle, if it is there, and close it.
HandlerClose ==
  /\ hpc = "looking"
  /\ IF complete
     THEN hpc' = "saying" /\ UNCHANGED <<handle, closes>>
     ELSE /\ hpc' = "rolling"
          /\ handle' = "null"
          /\ closes' = IF handle = "out" THEN closes + 1 ELSE closes
  /\ UNCHANGED <<disk, full, pc, complete, committed, left, pos, cdatasize,
                 archive_end, archive_size, busy, addvars, stop, banner>>

\* An archive longer than before the add gets its old size (none: it is deleted).
RolledBack == IF Len(disk) > Len(before) THEN SubSeq(disk, 1, Len(before)) ELSE disk

HandlerRollback ==
  /\ hpc = "rolling"
  /\ disk' = RolledBack
  /\ hpc' = "saying"
  /\ committed' = FALSE
  /\ UNCHANGED <<full, pc, complete, outvars, addvars, stop, banner>>

\* The banner, and exit.
HandlerExit ==
  /\ hpc = "saying"
  /\ Gone(complete /\ ~Empty, IF complete THEN "kept" ELSE "back")
  /\ UNCHANGED <<disk, full>>

-----------------------------------------------------------------------------
Add2 == \/ FlushBegin \/ FlushDiscard \/ FlushEnd \/ EndBody \/ EndHeader
        \/ ReleaseHandle \/ CloseArchive \/ Cut \/ Complete \/ Exit

Handler == HandlerWait \/ HandlerClose \/ HandlerRollback \/ HandlerExit

Next == (\E p \in Plans : Begin(p)) \/ Add2 \/ Kill \/ Trim \/ PressControlC \/ Handler

Spec == Init /\ [][Next]_vars

-----------------------------------------------------------------------------
(* Properties.                                                             *)

\* The variables have the types of the code's, and two of them are in step: the
\* handler is in control only while an add runs, and no more is left than planned.
TypeOK ==
  /\ disk \in Seq([block : {c.block : c \in {disk[k] : k \in DOMAIN disk}},
                  part : {"tag", "body", "zero"}])
  /\ date \in 0..MaxAdds /\ Len(versions) <= date
  /\ pc \in {"idle", "body", "header", "close", "closing", "cut", "after", "done"}
  /\ hpc \in {"none", "waiting", "looking", "rolling", "saying"}
  /\ pc = "idle" => hpc = "none"
  /\ Len(left) <= 1 + 2 * plan.data + plan.index
  /\ {pos, header_pos, archive_end, archive_size, cdatasize} \subseteq Nat
  /\ {full, busy, complete, stop, committed} \subseteq BOOLEAN
  /\ handle \in {"out", "null"} /\ closes \in 0..2
  /\ banner \in {"none", "kept", "back"}

\* Between adds, a reader of the archive finds the versions that were committed,
\* each with what it was given: add2 writes, read_archive reads, and kills in
\* between neither lose a version nor let part of one be seen.
ReaderSeesVersions == pc = "idle" => History(disk) = versions

\* Whatever the adds before have left, read_archive reads the archive without a
\* "Skipping block", a version with a hole or a table out of order.
ReadsClean == pc = "idle" => Read(disk).errors = 0

\* "Both engines show the same tree and return the same bytes": a mount of the
\* archive between adds shows a folder per version, each with what it was given,
\* read at the offsets the mount has reckoned itself.
MountSeesVersions == pc = "idle" => Folders(disk) = versions

\* "A damaged tail should cost you the tail, not the mount": of an archive that was
\* sound when the last add began, a mount keeps every version already complete.
MountKeepsComplete ==
  (pc = "idle" /\ Read(before).errors = 0) =>
    Scan(disk).sessions >= Len(Read(before).ver)

\* In the middle of an add, whatever befalls it, -until still finds every version
\* the add found when it began: nothing of them is ever written over.
FormerVersionsStay ==
  \A v \in 1..Len(Read(before).ver) :
    Version(disk, v) = Version(before, v)

\* Once an add has succeeded over a damaged tail, which it says is overwritten
\* (72413), no reader of the archive meets anything damaged.
TailOverwritten == (pc = "done" /\ ~full) => Read(disk).errors = 0

\* An add that ran out of space leaves an incomplete transaction, as 97555 says,
\* and not one more version.
OutOfSpaceIsIncomplete ==
  (pc = "idle" /\ full) => Len(Read(disk).ver) = Len(Read(before).ver)

\* The archive as its user sees it is a log of whole versions that only grows.
Log == INSTANCE VersionLog WITH
  log  <- IF pc = "idle" THEN History(disk) ELSE versions,
  Data <- {NewContent(d, [data |-> n]) : d \in 1..MaxAdds, n \in 0..MaxData}

RefinesVersionLog == Log!Spec

\* Control-C ends with a banner: the new version is kept, or the archive is back
\* to the last complete one.  What it says is what a reader of it finds.
BannerIsTrue ==
  (pc = "idle" /\ banner # "none") => /\ History(disk) = versions
                                     /\ Read(disk).errors = 0

\* Rolling back, the handler leaves the archive as it was before this run.
RollbackExact == (pc = "idle" /\ banner = "back") => disk = before

\* Exactly one side closes the archive: the add when it ends, or the handler.
ClosedOnce == closes <= 1
=============================================================================
