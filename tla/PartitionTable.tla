--------------------------- MODULE PartitionTable ---------------------------
(***************************************************************************)
(* main's opening of the drive and readGPT of readlogicalvolume.c: the GPT *)
(* header and its partition table are read through the drive and the table *)
(* is walked for an LVM partition, whose extent becomes the drive's window.*)
(*                                                                         *)
(* readGPT hands its result over in the drive's window and returns the     *)
(* drive itself on every path, so a caller cannot tell a search that found *)
(* a partition from one that did not: the properties say what the window   *)
(* may be in either case.                                                  *)
(***************************************************************************)
EXTENDS DriveAccess, Sequences

CONSTANTS
  HeaderSize,  \* sizeof( tGPTHeader ), 92 bytes
  EntrySize,   \* partitionTable.size, the stride of the table, 128 bytes
  Headers      \* the GPT headers a medium may carry

Kinds == {"unused", "lvm", "other"}

Entry == [kind : Kinds, firstLBA : Nat, lastLBA : Nat]

(***************************************************************************)
(* A header: whether signature and revision are right, the size it says it *)
(* has, whether the stored CRC is the header's, and where the table is.    *)
(* Tables are legal GPT tables: a partition does not start with the medium *)
(* and ends no earlier than it starts, and every place in the table is one *)
(* of a medium that an off64_t can address.                                *)
(***************************************************************************)
Header == [signed : BOOLEAN, size : Nat, crcMatches : BOOLEAN,
           firstLBA : Nat, entries : Seq(Entry)]

TableOffset(header) == header.firstLBA * SectorSize

TableLength(header) == Len(header.entries) * EntrySize

ASSUME GPTAssumption ==
  /\ HeaderSize \in Nat \ {0}
  /\ EntrySize \in Nat \ {0}
  /\ Headers \subseteq Header
  /\ \A header \in Headers :
       /\ TableOffset(header) + TableLength(header) < SignBit
       /\ \A n \in 1 .. Len(header.entries) :
            LET entry == header.entries[n]
            IN  entry.kind # "unused" =>
                  /\ entry.firstLBA > 0
                  /\ entry.firstLBA <= entry.lastLBA
                  /\ (entry.lastLBA + 1) * SectorSize <= SignBit

VARIABLES
  stage,  \* where main and readGPT are
  gpt,    \* the header and table on the medium; never written
  position    \* number of the table entry the walk looks at

vars == <<drive, descriptors, transfer, stage, gpt, position>>

Stages == {"open", "header", "table", "read", "walk", "returned", "crashed"}

TypeOK ==
  /\ DriveOK
  /\ stage \in Stages
  /\ gpt \in Headers
  /\ position \in Nat \ {0}

Init ==
  /\ DriveInit
  /\ stage = "open"
  /\ gpt \in Headers
  /\ position = 1

-----------------------------------------------------------------------------
(* Actions.                                                                *)

\* main: readGPT is called only on a drive that opened.
Open ==
  /\ stage = "open"
  /\ OpenDrive
  /\ stage' = IF drive'.status = "open" THEN "header" ELSE "returned"
  /\ UNCHANGED <<gpt, position>>

\* A malloc or calloc of readGPT returned NULL.
OutOfMemory ==
  /\ stage \in {"header", "table"}
  /\ stage' = "returned"
  /\ UNCHANGED <<drive, descriptors, transfer, gpt, position>>

\* checkCRC32 computes a CRC, logs it and reports success.
CheckCRC32(header) == TRUE

\* It goes over as many bytes as the header itself says it has, also where
\* these are more than the block that holds the header.
ChecksumOverruns == gpt.signed /\ gpt.size > HeaderSize

HeaderAccepted == gpt.signed /\ CheckCRC32(gpt)

ReadHeader ==
  /\ stage = "header"
  /\ \E result \in ReadResults(SectorSize, HeaderSize) :
       /\ ReadDrive(SectorSize, result)
       /\ stage' = IF result = HeaderSize /\ HeaderAccepted
                   THEN "table" ELSE "returned"
  /\ UNCHANGED <<gpt, position>>

\* The memory behind the block may not be the process's.
DieOfChecksum ==
  /\ stage = "header"
  /\ ChecksumOverruns
  /\ HeaderSize \in ReadResults(SectorSize, HeaderSize)
  /\ ReadDrive(SectorSize, HeaderSize)
  /\ stage' = "crashed"
  /\ UNCHANGED <<gpt, position>>

\* Slip: the table's length taken to be in sectors.
WindowInSectors(header) == TableOffset(header) + TableLength(header) * SectorSize

\* The length of the window readGPT opens over the table.
TableWindow(header) == TableOffset(header) + TableLength(header)

\* The window is moved over the table before the table is read, and stays
\* there on every path that does not select a partition.
WindowTable ==
  /\ stage = "table"
  /\ SetPartition(0, TableWindow(gpt))
  /\ stage' = "read"
  /\ UNCHANGED <<gpt, position>>

\* Slip: the length readDrive returned is not looked at.
TableReadUnchecked(result) == TRUE

TableRead(result) == result = TableLength(gpt)

ReadTable ==
  /\ stage = "read"
  /\ \E result \in ReadResults(TableOffset(gpt), TableLength(gpt)) :
       /\ ReadDrive(TableOffset(gpt), result)
       /\ stage' = IF TableRead(result) THEN "walk" ELSE "returned"
  /\ UNCHANGED <<gpt, position>>

Current == gpt.entries[position]

\* Slip: an unused entry is passed over instead of ending the walk.
ExhaustedOnly == position > Len(gpt.entries)

\* The walk ends after the last entry or at the first unused one.
WalkOver == position <= Len(gpt.entries) => Current.kind = "unused"

FinishWalk ==
  /\ stage = "walk"
  /\ WalkOver
  /\ stage' = "returned"
  /\ UNCHANGED <<drive, descriptors, transfer, gpt, position>>

\* Slip: the pointer moved by two entries.
SkippedEntry == position + 2

\* Slip: the pointer to the entry is not moved.
SameEntry == position

\* entry and count step together.
FollowingEntry == position + 1

\* Slip: lastLBA taken for a length.
LengthToLastLBA(entry) == entry.lastLBA * SectorSize

\* Slip: the operands swapped.
NegativeLength(entry) == (entry.firstLBA - entry.lastLBA) * SectorSize

\* The window's length, from an entry whose lastLBA is inclusive.
PartitionLength(entry) == (entry.lastLBA - entry.firstLBA) * SectorSize

\* Every LVM entry sets the window anew: the walk does not stop at the first.
SelectEntry ==
  /\ stage = "walk"
  /\ ~ WalkOver
  /\ Current.kind = "lvm"
  /\ SetPartition(Current.firstLBA * SectorSize, PartitionLength(Current))
  /\ position' = FollowingEntry
  /\ UNCHANGED <<stage, gpt>>

PassEntry ==
  /\ stage = "walk"
  /\ ~ WalkOver
  /\ Current.kind # "lvm"
  /\ position' = FollowingEntry
  /\ UNCHANGED <<drive, descriptors, transfer, stage, gpt>>

\* readGPT has returned and main goes on, or the process died.
Over ==
  /\ stage \in {"returned", "crashed"}
  /\ UNCHANGED vars

Next ==
  \/ Open
  \/ OutOfMemory
  \/ ReadHeader
  \/ DieOfChecksum
  \/ WindowTable
  \/ ReadTable
  \/ FinishWalk
  \/ SelectEntry
  \/ PassEntry
  \/ Over

\* The program is one thread that runs until it exits: some step is taken as
\* long as one is enabled.
Spec == Init /\ [][Next]_vars /\ WF_vars(Next)

-----------------------------------------------------------------------------
(* Properties.                                                             *)

\* The entries the walk may look at: those before the first unused one.
Listed ==
  {n \in 1 .. Len(gpt.entries) :
     \A m \in 1 .. n : gpt.entries[m].kind # "unused"}

LVMEntries == {n \in Listed : gpt.entries[n].kind = "lvm"}

\* The drive's window is the one of partition n of the table.
WindowStartsAt(n) == drive.start = gpt.entries[n].firstLBA * SectorSize

\* Once moved off the start of the medium, the window lies inside an LVM
\* partition listed before the end of the table: no later read can leave
\* that partition or start in a partition that is not LVM's
\* (readlogicalvolume.c:389-411).
SelectionIsLVM ==
  drive.start # 0 =>
    \E n \in LVMEntries :
      /\ WindowStartsAt(n)
      /\ drive.start + drive.length
           <= (gpt.entries[n].lastLBA + 1) * SectorSize

\* A partition is selected only from a table that was read completely: a
\* short read of the table leaves the drive without a selection
\* (readlogicalvolume.c:382-386).
SelectionFromWholeTable ==
  drive.start # 0 =>
    transfer = [first |-> TableOffset(gpt), count |-> TableLength(gpt)]

\* Where the table lists one LVM partition the walk selects it, whichever
\* entries stand before and after it, and where it lists none the window stays
\* at the start of the medium (readlogicalvolume.c:389-411).  With several the
\* code and its comment differ, see FirstSelected.
SoleSelected ==
  (stage = "walk" /\ WalkOver) =>
    /\ \A n \in LVMEntries : LVMEntries = {n} => WindowStartsAt(n)
    /\ LVMEntries = {} => drive.start = 0

\* A search that selected nothing leaves a window at the start of the medium
\* that ends with the partition table, or the initial window if the header
\* was not accepted; main calls the label reader on it all the same
\* (readlogicalvolume.c:381, readaccess.c:51-52).
NoSelectionNoPartition ==
  drive.start = 0 =>
    drive.length \in {0, InitialWindow, TableOffset(gpt) + TableLength(gpt)}

\* readGPT returns, whatever the table and the reads are; it may die instead
\* only of a header that says it is longer than the block it was read into
\* (readlogicalvolume.c:363, stringHash.c:99-102).
SearchTerminates ==
  <>(stage = "returned" \/ (stage = "crashed" /\ ChecksumOverruns))

-----------------------------------------------------------------------------
(* What the sources' comments say.                                         *)

\* gpt.h:44: lastLBA is "Last LBA (inclusive, usually odd)", so the window of
\* the selected partition reaches to the end of that sector.
WindowReachesLastLBA ==
  drive.start # 0 =>
    \E n \in LVMEntries :
      /\ WindowStartsAt(n)
      /\ drive.start + drive.length = (gpt.entries[n].lastLBA + 1) * SectorSize

\* readlogicalvolume.c:342: what readGPT returns is "the first LVM partition in
\* the drive's GPT".
FirstSelected ==
  (stage = "walk" /\ WalkOver) =>
    \A n \in LVMEntries :
      (\A m \in LVMEntries : n <= m) => WindowStartsAt(n)
============================================================================
