------------------------------ MODULE TreeLog ------------------------------
(***************************************************************************)
(* The log of one user (Writer and Reader of dir/server/tree/log.go): a    *)
(* directory of files, each named by the offset in the log at which it     *)
(* begins.  The Writer appends to the last file and starts a new one when  *)
(* that has reached maxLogSize; Readers follow, each with its own handle   *)
(* and its own idea of which files there are.                              *)
(*                                                                         *)
(* A file is a sequence of cells.  A marshalled entry e fills Size[e]      *)
(* consecutive cells <<e, 1>>, <<e, 2>>, ...; a read of anything else      *)
(* fails its checksum.  The Writer's mutex is held for a whole Append or   *)
(* Truncate, but Readers look at the directory and at file sizes without   *)
(* it, so those operations take several steps.                             *)
(***************************************************************************)
EXTENDS Integers, Sequences, FiniteSets, Functions

CONSTANTS
    Entry,      \* log entries
    Size,       \* the size of each, in cells
    MaxLogSize, \* maxLogSize: a file this long gets no more entries
    Reader,     \* readers
    Settings,   \* what happens to the log: cuts, the offsets that Truncate is
                \* called with; faults, "short" for a write that fails with part
                \* of the entry written and "open" for a next file that cannot
                \* be opened; max, a bound on the length of the log
    MaxOffset   \* bound on the length of any log

LogAssumption ==
    /\ Size \in [Entry -> Nat \ {0}]
    /\ MaxLogSize \in Nat \ {0}
    /\ MaxOffset \in Nat
    /\ \A s \in Settings :
           s.cuts \subseteq Nat /\ s.faults \subseteq {"short", "open"} /\ s.max \in 0..MaxOffset

VARIABLES
    setting, \* one of Settings; it never changes
    dir,     \* the directory: offset in the log -> file
    data,    \* the cells of each file (of each inode: a name may be reused)
    writer,  \* the Writer: up, its file, fileOffset and what it is doing
    reader   \* the Readers

vars == <<dir, data, writer, reader>>

Cuts == setting.cuts
Failures == setting.faults

Cells(e) == [i \in 1..Size[e] |-> <<e, i>>]
MaxOf(S) == CHOOSE x \in S : \A y \in S : y <= x
None == 0

\* Enough files for a log of MaxOffset cells, and for those that were removed
\* while a Reader had them open.
Files == 1..(MaxOffset + Cardinality(Reader) + 1)

\* The Writer between operations.  file is None when it has no file.
Idle(f, off) == [pc |-> "idle", file |-> f, fileOffset |-> off, buf |-> << >>, cut |-> 0]
Down == [Idle(None, 0) EXCEPT !.pc = "down"]

\* A Reader that was not made yet.  offset is what it is asked to read next,
\* got the entry it read last.
NoReader == [pc |-> "none", file |-> None, fileOffset |-> 0, offsets |-> {},
             maxOff |-> 0, offset |-> 0, got |-> None]

Init ==
    /\ setting \in Settings
    /\ dir = [o \in {} |-> 0]
    /\ data = [f \in Files |-> << >>]
    /\ writer = Down
    /\ reader = [r \in Reader |-> NoReader]

\* logOffsetsFor: every file there is, or 0.
logOffsetsFor(d) == IF DOMAIN d = {} THEN {0} ELSE DOMAIN d

lastOffset(f) == Len(data[f])

\* os.OpenFile with O_CREATE.
InUse == Range(dir) \cup {reader[r].file : r \in Reader}
Unused == CHOOSE f \in Files \ InUse : \A x \in Files \ InUse : f <= x

OpenOrCreate(off) ==
    IF off \in DOMAIN dir
    THEN UNCHANGED <<dir, data>>
    ELSE /\ data' = [f \in Files |-> IF f \in InUse THEN data[f] ELSE << >>]
         /\ dir' = [o \in DOMAIN dir \cup {off} |-> IF o = off THEN Unused ELSE dir[o]]

-----------------------------------------------------------------------------
(* The Writer. *)

\* NewLogs opens the last file.
NewLogs ==
    LET off == MaxOf(logOffsetsFor(dir))
    IN  /\ writer.pc = "down"
        /\ OpenOrCreate(off)
        /\ writer' = Idle(dir'[off], off)
        /\ UNCHANGED reader

End == writer.fileOffset + lastOffset(writer.file)

MayAppend(e) == End + Size[e] <= setting.max

NextFile == End

\* Append when the file is full: a new one is opened where it ends, ...
Rotate ==
    /\ writer.pc = "idle"
    /\ lastOffset(writer.file) >= MaxLogSize
    /\ \E e \in Entry : MayAppend(e)
    /\ OpenOrCreate(NextFile)
    /\ writer' = [writer EXCEPT !.pc = "rotated", !.file = dir'[NextFile], !.fileOffset = NextFile]
    /\ UNCHANGED reader

\* ... or cannot be opened: w.file is nil, and appends fail from then on.
RotateFails ==
    /\ "open" \in Failures
    /\ writer.pc = "idle"
    /\ lastOffset(writer.file) >= MaxLogSize
    /\ writer' = [writer EXCEPT !.pc = "broken", !.file = None, !.fileOffset = NextFile]
    /\ UNCHANGED <<dir, data, reader>>

\* Then Append goes on as usual, holding the mutex.
StartAppend(e) ==
    /\ \/ writer.pc = "idle" /\ lastOffset(writer.file) < MaxLogSize
       \/ writer.pc = "rotated"
    /\ MayAppend(e)
    /\ writer' = [writer EXCEPT !.pc = "write", !.buf = Cells(e)]
    /\ UNCHANGED <<dir, data, reader>>

\* The write of some cells; with the last of them, Sync and return.
WriteCell ==
    /\ writer.pc = "write"
    /\ data' = [data EXCEPT ![writer.file] = Append(@, Head(writer.buf))]
    /\ writer' = [writer EXCEPT !.pc = IF Len(writer.buf) = 1 THEN "idle" ELSE "write",
                                !.buf = Tail(@)]
    /\ UNCHANGED <<dir, reader>>

\* The write fails where it is, and Append returns the error.
WriteFails ==
    /\ "short" \in Failures
    /\ writer.pc = "write"
    /\ writer' = [writer EXCEPT !.pc = "idle", !.buf = << >>]
    /\ UNCHANGED <<dir, data, reader>>

\* Where entries begin.  Truncate is called with 0 or with one of these.
Starts ==
    UNION {{o + i - 1 : i \in {j \in DOMAIN data[dir[o]] : data[dir[o]][j][2] = 1}}
              : o \in DOMAIN dir}

\* Truncate in the last file.  The size it asks for is fileOffset - offset,
\* which os.File.Truncate refuses when it is negative.
TruncateTail(offset) ==
    /\ writer.pc = "idle"
    /\ offset \in Starts
    /\ offset >= writer.fileOffset
    /\ data' = IF offset = writer.fileOffset
               THEN [data EXCEPT ![writer.file] = << >>] ELSE data
    /\ writer' = [writer EXCEPT !.pc = IF offset = writer.fileOffset THEN "cut" ELSE "refused",
                                !.cut = offset]
    /\ UNCHANGED <<dir, reader>>

\* Truncate before the last file: files are removed from the last one down.
StartTruncate(offset) ==
    /\ writer.pc = "idle"
    /\ offset \in Starts
    /\ offset < writer.fileOffset
    /\ writer' = [writer EXCEPT !.pc = "remove", !.file = None, !.cut = offset]
    /\ UNCHANGED <<dir, data, reader>>

NextRemoved == MaxOf(DOMAIN dir)

RemoveFile ==
    /\ writer.pc = "remove"
    /\ \E o \in DOMAIN dir : o >= writer.cut
    /\ dir' = Restrict(dir, DOMAIN dir \ {NextRemoved})
    /\ UNCHANGED <<data, writer, reader>>

\* The last of the files that are left is cut; offsets[i] panics without one.
CutFile ==
    /\ writer.pc = "remove"
    /\ \A o \in DOMAIN dir : o < writer.cut
    /\ IF DOMAIN dir = {}
       THEN writer' = [writer EXCEPT !.pc = "panic"] /\ UNCHANGED data
       ELSE LET off == MaxOf(DOMAIN dir)
            IN  /\ data' = [data EXCEPT ![dir[off]] = SubSeq(@, 1, writer.cut - off)]
                /\ writer' = [writer EXCEPT !.pc = "cut", !.file = dir[off], !.fileOffset = off]
    /\ UNCHANGED <<dir, reader>>

\* Truncate returns.
Return ==
    /\ writer.pc \in {"cut", "refused"}
    /\ writer' = Idle(writer.file, writer.fileOffset)
    /\ UNCHANGED <<dir, data, reader>>

\* The process ends, and its readers with it, between two operations or in
\* the middle of a Truncate (Tree has the torn append).
Crash ==
    /\ writer.pc \in {"idle", "rotated", "broken", "remove", "panic"}
    /\ writer' = Down
    /\ reader' = [r \in Reader |-> NoReader]
    /\ UNCHANGED <<dir, data>>

-----------------------------------------------------------------------------
(* The Readers.  Only the file that is last in its list of offsets makes a
   Reader wait for the Writer. *)

Unlocked == writer.pc \in {"idle", "broken"}
SizeOf(x) == x.fileOffset + lastOffset(x.file)

\* NewReader, to read on from the start or from the end of the log.
NewReader(r) ==
    /\ reader[r].pc = "none"
    /\ writer.pc = "idle"
    /\ \E o \in {0, End} :
           reader' = [reader EXCEPT ![r] =
               [NoReader EXCEPT !.pc = "idle", !.file = writer.file, !.offset = o,
                                !.fileOffset = writer.fileOffset,
                                !.offsets = logOffsetsFor(dir)]]
    /\ UNCHANGED <<dir, data, writer>>

Step(r, x) == reader' = [reader EXCEPT ![r] = x] /\ UNCHANGED <<dir, data, writer>>

\* ReadAt: is the offset in the file that is open?
ReadStat(r) ==
    LET x == reader[r]
        max == SizeOf(x)
    IN  /\ x.pc = "idle"
        /\ Step(r, [x EXCEPT !.maxOff = max,
                             !.pc = IF x.offset >= max THEN "list"
                                    ELSE IF x.offset < x.fileOffset THEN "open" ELSE "read"])

\* Mutant of ReadList: the list that was made with the Reader is kept.
ReadListStale(r) ==
    /\ reader[r].pc = "list"
    /\ Step(r, [reader[r] EXCEPT !.pc = "open"])

\* If it is beyond, read the directory again.
ReadList(r) ==
    /\ reader[r].pc = "list"
    /\ Step(r, [reader[r] EXCEPT !.pc = "open", !.offsets = logOffsetsFor(dir)])

readOffset(x) == MaxOf({o \in x.offsets : o <= x.offset})

\* openLogAtOffset: the same file name keeps the file that is open.
ReadOpen(r) ==
    LET x == reader[r]
        o == readOffset(x)
    IN  /\ x.pc = "open"
        /\ Step(r, IF o = x.fileOffset THEN [x EXCEPT !.pc = "stat"]
                   ELSE IF o \in DOMAIN dir
                   THEN [x EXCEPT !.pc = "stat", !.file = dir[o], !.fileOffset = o]
                   ELSE [x EXCEPT !.pc = "error"])

ReadStatAgain(r) ==
    /\ reader[r].pc = "stat"
    /\ Step(r, [reader[r] EXCEPT !.pc = "read", !.maxOff = SizeOf(reader[r])])

\* Mutant of NeedsLock: no reader waits for the Writer.
NeedsNoLock(x) == FALSE

NeedsLock(x) == x.fileOffset = MaxOf(x.offsets)

\* unmarshal at position p of a file: the entries found there, at most one.
EntriesAt(s, p) ==
    {e \in Entry : p + Size[e] <= Len(s) /\ SubSeq(s, p + 1, p + Size[e]) = Cells(e)}

\* Mutant of ReadEntry: the end it returns is relative to the file.
ReadEntryRelative(r) ==
    LET x == reader[r]
        E == EntriesAt(data[x.file], x.offset - x.fileOffset)
    IN  /\ x.pc = "read"
        /\ NeedsLock(x) => Unlocked
        /\ \/ /\ x.offset >= x.maxOff
              /\ Step(r, [x EXCEPT !.pc = "idle", !.offset = x.maxOff - x.fileOffset])
           \/ /\ x.offset < x.maxOff
              /\ \E e \in E : Step(r, [x EXCEPT !.pc = "idle", !.got = e, !.offset = @ + Size[e]])

\* The rest of ReadAt.  Beyond the end, it returns the end and no entry.
ReadEntry(r) ==
    LET x == reader[r]
        E == EntriesAt(data[x.file], x.offset - x.fileOffset)
    IN  /\ x.pc = "read"
        /\ NeedsLock(x) => Unlocked
        /\ \/ /\ x.offset >= x.maxOff
              /\ Step(r, [x EXCEPT !.pc = "idle", !.offset = x.maxOff])
           \/ /\ x.offset < x.maxOff
              /\ E = {}
              /\ Step(r, [x EXCEPT !.pc = "error"])
           \/ /\ x.offset < x.maxOff
              /\ \E e \in E : Step(r, [x EXCEPT !.pc = "idle", !.got = e, !.offset = @ + Size[e]])

ReadAt(r) == ReadStat(r) \/ ReadList(r) \/ ReadOpen(r) \/ ReadStatAgain(r) \/ ReadEntry(r)

Next ==
    /\ \/ NewLogs \/ Rotate \/ RotateFails \/ WriteCell \/ WriteFails
       \/ RemoveFile \/ CutFile \/ Return \/ Crash
       \/ \E e \in Entry : StartAppend(e)
       \/ \E o \in Cuts : TruncateTail(o) \/ StartTruncate(o)
       \/ \E r \in Reader : NewReader(r) \/ ReadAt(r)
    /\ UNCHANGED setting

Spec == Init /\ [][Next]_<<setting, vars>>

-----------------------------------------------------------------------------
\* The files of the log follow each other without gaps or overlaps, through
\* rotations, truncations, and restarts in the middle of either.
FilesTile ==
    /\ DOMAIN dir # {} => 0 \in DOMAIN dir
    /\ \A o, p \in DOMAIN dir :
           o < p /\ (\A x \in DOMAIN dir : ~(o < x /\ x < p)) => o + lastOffset(dir[o]) = p

\* The log is never cut, and no part of an entry stays in it.
AppendOnly == Cuts = {} /\ "short" \notin Failures

\* ReadAt reads no partially-written entry, nor finds a file missing.
NoReadError == AppendOnly => \A r \in Reader : reader[r].pc # "error"

-----------------------------------------------------------------------------
(* The log as one sequence of entries. *)

Complete == {s \in Starts : \E o \in DOMAIN dir :
                s >= o /\ EntriesAt(data[dir[o]], s - o) # {}}

EntryAt(s) == CHOOSE e \in Entry : \E o \in DOMAIN dir :
                 s >= o /\ e \in EntriesAt(data[dir[o]], s - o)

AbstractEntries == [s \in Complete |-> EntryAt(s)]
AbstractPos == [r \in Reader |->
    IF reader[r].pc = "none" THEN -1 ELSE IF reader[r].pc = "error" THEN -2 ELSE reader[r].offset]

\* A Reader does not stop short of an entry: until it is closed it comes to the
\* end of what has been appended, again and again.
ReadersCatchUp ==
    []<>(AppendOnly => \A r \in Reader :
             reader[r].pc = "none" \/ \A s \in Complete : s < reader[r].offset)

AppendLog == INSTANCE AppendLog WITH
    entries <- AbstractEntries,
    pos <- AbstractPos,
    got <- [r \in Reader |-> reader[r].got]

\* The log is an append-only sequence of entries: a Reader gets each one that
\* was appended, in order and once, whichever files they are in.
ImplementsAppendLog ==
    AppendLog!Init /\ [][AppendOnly => AppendLog!Next]_(AppendLog!vars)

=============================================================================
