---------------------------- MODULE WriteAheadLog ----------------------------
(***************************************************************************)
(* The memory-mapped write-ahead log of engine/src/wal.cpp (its POSIX      *)
(* half), used as main() and run() use it: open, replay once, append.      *)
(*                                                                         *)
(* A file is a function from offsets to cells, one cell for each field of  *)
(* a frame and for each word of its payload.  The process writes to the    *)
(* page cache (file), which survives its death; the kernel copies cells to *)
(* the disk in any order and msync copies the pages of a range.  Losing    *)
(* power leaves the disk.  A checksum is as good as the payload it was     *)
(* computed from: collisions of CRC32 are left out.                        *)
(***************************************************************************)
EXTENDS Integers, Sequences, FiniteSets, FiniteSetsExt

CONSTANTS
  Words,        \* words a payload is made of
  Zero,         \* the word a fresh or extended file is full of
  Magic,        \* WAL_MAGIC
  MaxPayload,   \* bound: words in a payload
  PageSize,     \* cells in a page
  InitialSize,  \* initial_size: cells the constructor maps
  FileBound,    \* bound: cells the file system has room for
  Faults,       \* what may go wrong: "kill" and "power"
  MaxAppends,   \* bound: appends begun
  MaxLives      \* bound: starts of the process

ASSUME SizeAssumption ==
  /\ {MaxPayload, PageSize, InitialSize, FileBound, MaxAppends, MaxLives} \subseteq Nat
  /\ PageSize > 0 /\ InitialSize <= FileBound
  /\ InitialSize % PageSize = 0 /\ FileBound % PageSize = 0
ASSUME FaultAssumption == Faults \subseteq {"kill", "power"}

VARIABLES
  file,          \* the file as the process sees it: the page cache
  disk,          \* the file as it is on disk
  pc,            \* where the process is in its use of the log
  write_offset,  \* write_offset_
  sequence,      \* sequence_
  payload,       \* the data append is writing
  written,       \* how many cells of its frame are written
  begun,         \* history: frames whose append began
  acked,         \* history: frames whose append returned
  cut,           \* history: those of them a later start has cut off
  recovered,     \* history: frames the last replay reported
  unsynced,      \* history: whether a replay has accepted a frame that was not on
                 \* disk ("yes"), and power was lost after that ("lost")
  life           \* starts of the process

vars == <<file, disk, pc, write_offset, sequence, payload, written, begun,
          acked, cut, recovered, unsynced, life>>

-----------------------------------------------------------------------------
(* Files and frames *)

Payloads == UNION {[1 .. n -> Words] : n \in 1 .. MaxPayload}
Cells == 0 .. FileBound - 1

\* Fields as they are stored.  A size of zero and the CRC32 of nothing are
\* both the word 0.
Size(n) == IF n = 0 THEN Zero ELSE <<"size", n>>
Crc(data) == IF data = <<>> THEN Zero ELSE <<"crc", data>>

\* What a cell can hold.
Cell == {Zero, Magic} \cup Words \cup {Size(n) : n \in 1 .. MaxPayload}
          \cup {Crc(data) : data \in Payloads}

\* No word is the magic, and no word is a size or a checksum that says something.
ASSUME CellAssumption ==
  /\ Magic \notin Words \cup {Zero} \cup {Size(n) : n \in 1 .. MaxPayload}
  /\ \A n \in 1 .. MaxPayload : Size(n) # Zero
  /\ \A data \in UNION {[1 .. n -> Cell] : n \in 1 .. MaxPayload} :
       Crc(data) \notin Words \cup {Zero, Magic}

\* [magic][size][data][crc32]
Frame(data) == <<Magic, Size(Len(data))>> \o data \o <<Crc(data)>>
FrameSize(data) == Len(data) + 3

align_down(c) == PageSize * (c \div PageSize)
align_to_page(c) == align_down(c + PageSize - 1)

\* ftruncate: cells past the new end are gone, new ones are zero.
Truncate(f, size) ==
  [size |-> size,
   cells |-> [c \in Cells |-> IF c < size THEN f.cells[c] ELSE Zero]]

\* The data size a reader finds in a cell; a word that was not written as a
\* size is a large number.
DataSize(cell) ==
  IF \E n \in 0 .. MaxPayload : cell = Size(n)
    THEN CHOOSE n \in 0 .. MaxPayload : cell = Size(n)
    ELSE FileBound

DataAt(f, o) == [i \in 1 .. DataSize(f.cells[o + 1]) |-> f.cells[o + 1 + i]]

\* Mutant: the checksum is not compared.
ValidWithoutChecksum(f, o) ==
  /\ o + FrameSize(<<>>) <= f.size
  /\ f.cells[o] = Magic
  /\ o + 3 + DataSize(f.cells[o + 1]) <= f.size

\* replay accepts the frame at o: room for a frame, magic, bounds, checksum.
ValidAt(f, o) ==
  /\ o + FrameSize(<<>>) <= f.size
  /\ f.cells[o] = Magic
  /\ o + 3 + DataSize(f.cells[o + 1]) <= f.size
  /\ f.cells[o + 2 + DataSize(f.cells[o + 1])] = Crc(DataAt(f, o))

\* The frames replay finds: it stops at the first that is not valid.
Frames(f) ==
  LET from[o \in 0 .. f.size] ==
        IF ~ValidAt(f, o) THEN {}
        ELSE {[offset |-> o, data |-> DataAt(f, o)]}
               \cup from[o + FrameSize(DataAt(f, o))]
  IN  from[0]

\* The offset after the last of them.
End(frames) == Max({0} \cup {f.offset + FrameSize(f.data) : f \in frames})

-----------------------------------------------------------------------------
EmptyFile == [size |-> 0, cells |-> [c \in Cells |-> Zero]]

Init ==
  /\ file = EmptyFile /\ disk = EmptyFile
  /\ pc = "down"
  /\ write_offset = 0 /\ sequence = 0
  /\ payload = <<>> /\ written = 0
  /\ begun = {} /\ acked = {} /\ cut = {} /\ recovered = {}
  /\ unsynced = "no"
  /\ life = 0

(* The process *)

\* The constructor sets the file to its initial size, whatever size it had.
Open ==
  /\ pc = "down"
  /\ life < MaxLives
  /\ life' = life + 1
  /\ file' = Truncate(file, InitialSize)
  /\ write_offset' = 0 /\ sequence' = 0
  /\ payload' = <<>> /\ written' = 0
  /\ pc' = "opened"
  /\ cut' = cut \cup {f \in acked : f.offset + FrameSize(f.data) > InitialSize}
  /\ UNCHANGED <<disk, begun, acked, recovered, unsynced>>

\* The replay that is being taken accepts a frame that is not on disk.
NoteUnsynced ==
  unsynced' = IF unsynced = "no" /\ ~(recovered' \subseteq Frames(disk))
                THEN "yes" ELSE unsynced

\* Mutant: replay counts the frames but does not move the offset.
ReplayWithoutOffset ==
  /\ pc = "opened"
  /\ recovered' = Frames(file)
  /\ sequence' = Cardinality(recovered')
  /\ NoteUnsynced
  /\ pc' = "ready"
  /\ UNCHANGED <<file, disk, write_offset, payload, written, begun, acked, cut, life>>

\* Mutant: replay moves the offset but not the sequence number.
ReplayWithoutSequence ==
  /\ pc = "opened"
  /\ recovered' = Frames(file)
  /\ write_offset' = End(recovered')
  /\ NoteUnsynced
  /\ pc' = "ready"
  /\ UNCHANGED <<file, disk, sequence, payload, written, begun, acked, cut, life>>

\* replay: resume after the last valid frame.
Replay ==
  /\ pc = "opened"
  /\ recovered' = Frames(file)
  /\ write_offset' = End(recovered')
  /\ sequence' = Cardinality(recovered')
  /\ NoteUnsynced
  /\ pc' = "ready"
  /\ UNCHANGED <<file, disk, payload, written, begun, acked, cut, life>>

\* Mutant: the room left in the mapping is not checked.
BeginWithoutRoom(data) ==
  /\ pc = "ready"
  /\ Cardinality(begun) < MaxAppends
  /\ payload' = data /\ written' = 0
  /\ begun' = begun \cup {[offset |-> write_offset, data |-> data]}
  /\ pc' = "write"
  /\ UNCHANGED <<file, disk, write_offset, sequence, acked, cut, recovered, unsynced,
                 life>>

\* append computes the frame and checks that it fits.
BeginAppend(data) ==
  /\ pc = "ready"
  /\ Cardinality(begun) < MaxAppends
  /\ payload' = data /\ written' = 0
  /\ begun' = begun \cup {[offset |-> write_offset, data |-> data]}
  /\ pc' = IF write_offset + FrameSize(data) > file.size THEN "grow" ELSE "write"
  /\ UNCHANGED <<file, disk, write_offset, sequence, acked, cut, recovered, unsynced,
                 life>>

\* grow: an exception ends the consumer thread, and with it the process.
Grow ==
  /\ pc = "grow"
  /\ LET new_size == align_to_page(Max({2 * file.size,
                                        write_offset + FrameSize(payload) + PageSize}))
     IN  IF new_size <= FileBound
           THEN file' = Truncate(file, new_size) /\ pc' = "write"
           ELSE pc' = "down" /\ UNCHANGED file
  /\ UNCHANGED <<disk, write_offset, sequence, payload, written, begun, acked, cut,
                 recovered, unsynced, life>>

\* The fields are copied into the mapping one after the other.
WriteCell ==
  /\ pc = "write"
  /\ file' = [file EXCEPT !.cells[write_offset + written] = Frame(payload)[written + 1]]
  /\ written' = written + 1
  /\ pc' = IF written' = FrameSize(payload) THEN "sync" ELSE "write"
  /\ UNCHANGED <<disk, write_offset, sequence, payload, begun, acked, cut, recovered,
                 unsynced, life>>

\* Mutant: the offset is not aligned down; msync fails and nobody looks.
SyncedUnaligned(from, to) ==
  IF from % PageSize # 0 THEN disk
  ELSE [size |-> file.size,
        cells |-> [c \in Cells |-> IF from <= c /\ c < align_to_page(to)
                                     THEN file.cells[c] ELSE disk.cells[c]]]

\* msync(MS_SYNC) of a range: whole pages, and the file's size.
Synced(from, to) ==
  LET sized == Truncate(disk, file.size)
  IN  [sized EXCEPT !.cells =
         [c \in Cells |-> IF align_down(from) <= c /\ c < align_to_page(to)
                            THEN file.cells[c] ELSE sized.cells[c]]]

\* Sync the frame, then advance the offset and return.
SyncAndReturn ==
  /\ pc = "sync"
  /\ disk' = Synced(write_offset, write_offset + FrameSize(payload))
  /\ write_offset' = write_offset + FrameSize(payload)
  /\ sequence' = sequence + 1
  /\ acked' = acked \cup {[offset |-> write_offset, data |-> payload]}
  /\ cut' = cut \ {[offset |-> write_offset, data |-> payload]}
  /\ payload' = <<>> /\ written' = 0
  /\ pc' = "ready"
  /\ UNCHANGED <<file, begun, recovered, unsynced, life>>

\* The destructor syncs the whole mapping.
Close ==
  /\ pc = "ready"
  /\ disk' = Synced(0, file.size)
  /\ pc' = "down"
  /\ UNCHANGED <<file, write_offset, sequence, payload, written, begun, acked, cut,
                 recovered, unsynced, life>>

-----------------------------------------------------------------------------
(* The kernel and the machine *)

\* The kernel writes a dirty cell, or the file's size, when it likes.
Writeback ==
  /\ \/ \E c \in Cells :
          /\ c < disk.size /\ c < file.size
          /\ disk.cells[c] # file.cells[c]
          /\ disk' = [disk EXCEPT !.cells[c] = file.cells[c]]
     \/ /\ disk.size # file.size
        /\ disk' = Truncate(disk, file.size)
  /\ UNCHANGED <<file, pc, write_offset, sequence, payload, written, begun,
                 acked, cut, recovered, unsynced, life>>

\* The process dies at any step; the page cache is still there.
Kill ==
  /\ "kill" \in Faults
  /\ pc # "down"
  /\ pc' = "down"
  /\ UNCHANGED <<file, disk, write_offset, sequence, payload, written, begun,
                 acked, cut, recovered, unsynced, life>>

\* The machine loses power: the disk is what is left.
PowerLoss ==
  /\ "power" \in Faults
  /\ file # disk \/ pc # "down"
  /\ file' = disk
  /\ pc' = "down"
  /\ unsynced' = IF unsynced = "yes" THEN "lost" ELSE unsynced
  /\ UNCHANGED <<disk, write_offset, sequence, payload, written, begun, acked, cut,
                 recovered, life>>

append == \/ \E data \in Payloads : BeginAppend(data)
          \/ Grow \/ WriteCell \/ SyncAndReturn

Next == Open \/ Replay \/ append \/ Close \/ Writeback \/ Kill \/ PowerLoss

Spec == Init /\ [][Next]_vars

-----------------------------------------------------------------------------
(* Safety properties *)

File == [size : 0 .. FileBound, cells : [Cells -> Cell]]
Logged == [offset : 0 .. FileBound, data : Payloads \cup {<<>>}]

\* Types; and nothing is stored past the end of a file.
TypeOK ==
  /\ {file, disk} \subseteq File
  /\ \A f \in {file, disk} : \A c \in Cells : c >= f.size => f.cells[c] = Zero
  /\ pc \in {"down", "opened", "ready", "grow", "write", "sync"}
  /\ write_offset \in 0 .. FileBound
  /\ sequence \in Nat /\ life \in 0 .. MaxLives
  /\ payload \in Payloads \cup {<<>>} /\ written \in 0 .. MaxPayload + 3
  /\ begun \cup acked \cup recovered \subseteq Logged
  /\ unsynced \in {"no", "yes", "lost"}

\* wal.cpp:291-294, wal.hpp:10-12: once append has returned, a replay finds the
\* frame, whatever happens to the machine, as long as no replay has accepted a
\* frame that was not durable (see AckedSurviveFaults) ...
AckedSurvivePowerLoss == unsynced = "no" => acked \ cut \subseteq Frames(disk)

\* ... and whatever happens to the process, accepted like that or not.  Frames the
\* next constructor cuts off are the exception (see AckedSurviveRestart).
AckedSurviveKill == unsynced # "lost" => acked \ cut \subseteq Frames(file)

\* A torn frame is never taken for a whole one, nor the rest of an older frame
\* for a new one: what a replay finds was appended.  The one exception is the
\* empty frame that a torn one with no more than its magic looks like: its size
\* and its checksum are zero, which is the CRC32 of nothing (wal.cpp:341).
NoForgedFrames ==
  \A f \in Frames(file) \cup Frames(disk) :
    f \in begun \/ (f.data = <<>> /\ \E g \in begun : g.offset = f.offset)

\* Between appends the offset is where a replay would resume, so no valid frame
\* is overwritten, and the sequence number counts the frames below it.  Behind a
\* hole an old frame can come back when the hole is filled, so not then.
ResumesAfterLastFrame ==
  pc = "ready" /\ unsynced # "lost" =>
    write_offset = End(Frames(file)) /\ sequence = Cardinality(Frames(file))

\* What the last replay reported stays durable, if it was.
RecoveredSurvivePowerLoss == unsynced = "no" => recovered \subseteq Frames(disk)

-----------------------------------------------------------------------------
(* What comments say that the code does not do *)

\* wal.hpp:10-12: "This is the ACID guarantee: if the process crashes after
\* append() returns, the frame is on disk."
AckedSurviveRestart == acked \subseteq Frames(file)

\* The same lines promise it for one fault after the other: a kill, a restart, and
\* then a loss of power.
AckedSurviveFaults == acked \ cut \subseteq Frames(disk)
==============================================================================
