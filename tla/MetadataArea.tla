---------------------------- MODULE MetadataArea ----------------------------
(***************************************************************************)
(* readPhysicalVolumeLabel and readMetadata of readlogicalvolume.c, called *)
(* by main one after the other: the first label among the partition's      *)
(* first four sectors lists the metadata areas, the header of the first    *)
(* area lists the raw locations of texts, and an active text is read.      *)
(*                                                                         *)
(* Lists on the medium should end with a descriptor of zero bytes.  A walk *)
(* over one is a cursor that the actions move, past the end of the buffer  *)
(* if need be; the text is the range of addresses that was read into a     *)
(* block of zero bytes.  Offsets on the medium are any off64_t, and their  *)
(* sums are kept as one.                                                   *)
(***************************************************************************)
EXTENDS DriveAccess, Sequences

CONSTANTS
  HeaderLength,     \* bytes readMetadata reads of a metadata area header
  MaxLocations,     \* raw locations these bytes have room for, 32
  Windows,          \* the windows readGPT may have left in the drive
  PhysicalVolumes   \* what the partition may hold

Block == [offset : Offsets, length : Lengths]

Zero == [offset |-> 0, length |-> 0]

\* labelled: LABELONE and LVM2 001 are there.  descriptors: what the process
\* can read from the place on where the label says its lists are: the data
\* list, the metadata list and what follows; the first inside of them are in
\* the four sectors that were read, the others whatever memory lies behind.
Label == [labelled : BOOLEAN, descriptors : Seq(Block), inside : Nat]

NoLabel == [labelled |-> FALSE, descriptors |-> <<>>, inside |-> 0]

Location == [offset : Offsets, length : Lengths, active : BOOLEAN]

NoLocation == [offset |-> 0, length |-> 0, active |-> TRUE]

\* signed: signature and version are right; start and length: the area's
\* place on the partition and its size.
Header == [signed : BOOLEAN, start : Offsets, length : Lengths,
           locations : Seq(Location)]

\* labels gives the label of each of the four sectors; headers the areas'
\* headers by offset, which may be negative.
PhysicalVolume ==
  [labels : [1 .. 4 -> Label],
   headers : UNION {[offsets -> Header] : offsets \in SUBSET Int}]

IsZero(block) == block.offset = 0 /\ block.length = 0

ASSUME MetadataAssumption ==
  /\ HeaderLength \in 1 .. SignBit
  /\ MaxLocations \in Nat \ {0}
  /\ \A window \in Windows :
       /\ window \in [start : Nat, length : Nat]
       /\ window.start + window.length <= SignBit
  /\ \A volume \in PhysicalVolumes :
       /\ volume.labels \in [1 .. 4 -> Label]
       /\ \A offset \in DOMAIN volume.headers :
            /\ offset \in Int
            /\ volume.headers[offset] \in Header
            /\ Len(volume.headers[offset].locations) = MaxLocations

VARIABLES
  stage,   \* where readPhysicalVolumeLabel or readMetadata is
  pv,      \* the partition's content; never written
  sector,  \* the sector whose label is looked at
  cursor,  \* the descriptor of the list that is looked at
  mdaList, \* the descriptor the metadata list starts at
  blocks,  \* the list of metadata areas handed from one to the other
  text     \* the text block readMetadata returns, or NoText for NULL

vars == <<drive, descriptors, transfer, stage, pv, sector, cursor, mdaList,
          blocks, text>>

Stages == {"label", "scan", "skip", "count", "copy", "header", "locations",
           "returned", "crashed"}

\* bytes: the block's memory was allocated; location: the raw location it
\* was allocated for; of its length bytes the first count were read, from
\* the address first on.
TextBlock == [location : Nat, bytes : BOOLEAN, length : Nat,
              first : Nat, count : Nat]

NoText == [location |-> 0, bytes |-> FALSE, length |-> 0, first |-> 0, count |-> 0]

TypeOK ==
  /\ DriveOK
  /\ stage \in Stages
  /\ pv \in PhysicalVolumes
  /\ sector \in 1 .. 5
  /\ cursor \in Nat \ {0}
  /\ mdaList \in Nat
  /\ blocks \in Seq(Block)
  /\ text \in TextBlock

Init ==
  /\ \E window \in Windows :
       drive = [status |-> "open", start |-> window.start,
                length |-> window.length]
  /\ descriptors = 1
  /\ transfer = [first |-> 0, count |-> 0]
  /\ stage = "label"
  /\ pv \in PhysicalVolumes
  /\ sector = 1
  /\ cursor = 1
  /\ mdaList = 0
  /\ blocks = <<>>
  /\ text = NoText

-----------------------------------------------------------------------------
(* readPhysicalVolumeLabel.                                                *)

LabelLength == 4 * SectorSize

\* calloc returned NULL, so does the function.
NoLabelMemory ==
  /\ stage = "label"
  /\ stage' = "returned"
  /\ UNCHANGED <<drive, descriptors, transfer, pv, sector, cursor, mdaList,
                 blocks, text>>

ReadLabel ==
  /\ stage = "label"
  /\ \E result \in ReadResults(0, LabelLength) :
       /\ ReadDrive(0, result)
       /\ stage' = IF result = LabelLength THEN "scan" ELSE "returned"
  /\ UNCHANGED <<pv, sector, cursor, mdaList, blocks, text>>

\* Slip: the pointer advanced by two sectors.
EverySecondSector == sector + 2

NextSector == sector + 1

Matches(n) == pv.labels[n].labelled

ScanSector ==
  /\ stage = "scan" /\ sector \in 1 .. 4
  /\ IF Matches(sector)
     THEN stage' = "skip" /\ UNCHANGED sector
     ELSE sector' = NextSector /\ UNCHANGED stage
  /\ UNCHANGED <<drive, descriptors, transfer, pv, cursor, mdaList, blocks, text>>

NoLabelFound ==
  /\ stage = "scan" /\ sector > 4
  /\ stage' = "returned"
  /\ UNCHANGED <<drive, descriptors, transfer, pv, sector, cursor, mdaList,
                 blocks, text>>

\* The lists as they follow one another from the label's offset on, which
\* nothing compares with the buffer.
Descriptors == pv.labels[sector].descriptors

Readable == cursor \in DOMAIN Descriptors

\* Slip: only the second half of the sixteen bytes looked at.
LengthIsZero(block) == block.length = 0

SixteenBytesAreZero(block) == IsZero(block)

AtEnd == SixteenBytesAreZero(Descriptors[cursor])

\* One descriptor of the data list, or its terminator.
SkipDataArea ==
  /\ stage = "skip" /\ Readable
  /\ cursor' = cursor + 1
  /\ IF AtEnd
     THEN stage' = "count" /\ mdaList' = cursor + 1
     ELSE UNCHANGED <<stage, mdaList>>
  /\ UNCHANGED <<drive, descriptors, transfer, pv, sector, blocks, text>>

CountArea ==
  /\ stage = "count" /\ Readable
  /\ ~ AtEnd
  /\ cursor' = cursor + 1
  /\ UNCHANGED <<drive, descriptors, transfer, stage, pv, sector, mdaList,
                 blocks, text>>

\* Neither list has an end that the walk comes to before memory that is not
\* the process's.
RunsOffMemory ==
  /\ stage \in {"skip", "count"}
  /\ ~ Readable
  /\ stage' = "crashed"
  /\ UNCHANGED <<drive, descriptors, transfer, pv, sector, cursor, mdaList,
                 blocks, text>>

\* Slip: no room for the trailing null.
JustCounted == cursor - mdaList

BlockCapacity == cursor - mdaList + 1

\* The block list, with one entry more than was counted, all zero.
AllocateBlocks ==
  /\ stage = "count" /\ Readable
  /\ AtEnd
  /\ blocks' = [n \in 1 .. BlockCapacity |-> Zero]
  /\ cursor' = mdaList
  /\ stage' = "copy"
  /\ UNCHANGED <<drive, descriptors, transfer, pv, sector, mdaList, text>>

\* calloc returned NULL, which is not checked: the first area is copied to
\* it, or it is returned if there is none.
NoBlocksMemory ==
  /\ stage = "count" /\ Readable
  /\ AtEnd
  /\ stage' = IF cursor > mdaList THEN "crashed" ELSE "returned"
  /\ UNCHANGED <<drive, descriptors, transfer, pv, sector, cursor, mdaList,
                 blocks, text>>

CopyArea ==
  /\ stage = "copy"
  /\ ~ AtEnd
  /\ blocks' = [blocks EXCEPT ![cursor - mdaList + 1] = Descriptors[cursor]]
  /\ cursor' = cursor + 1
  /\ UNCHANGED <<drive, descriptors, transfer, stage, pv, sector, mdaList, text>>

\* The list is returned; main calls readMetadata with it.
ReturnBlocks ==
  /\ stage = "copy"
  /\ AtEnd
  /\ cursor' = 1
  /\ stage' = "header"
  /\ UNCHANGED <<drive, descriptors, transfer, pv, sector, mdaList, blocks, text>>

-----------------------------------------------------------------------------
(* readMetadata.                                                           *)

HeaderOffset == blocks[1].offset

HeaderHere == HeaderOffset \in DOMAIN pv.headers

Area == pv.headers[HeaderOffset]

\* Only the first area of the list is tried.
ReadHeader ==
  /\ stage = "header"
  /\ \E result \in ReadResults(HeaderOffset, HeaderLength) :
       /\ ReadDrive(HeaderOffset, result)
       /\ stage' = IF result = HeaderLength /\ HeaderHere /\ Area.signed
                   THEN "locations" ELSE "returned"
  /\ UNCHANGED <<pv, sector, cursor, mdaList, blocks, text>>

\* Slip: the buffer as long as the read.
WithoutSentinel == Area.locations

\* The buffer is longer than what is read into it, by one location that
\* calloc left zero: the walk ends there at the latest.
HeaderBuffer == Append(Area.locations, NoLocation)

Current == HeaderBuffer[cursor]

AtLastLocation == SixteenBytesAreZero(Current)

\* Slip: the step to the next location inside the branch for active ones.
FollowingActive == IF Current.active THEN cursor + 1 ELSE cursor

FollowingLocation == cursor + 1

PassLocation ==
  /\ stage = "locations"
  /\ ~ AtLastLocation /\ ~ Current.active
  /\ cursor' = FollowingLocation
  /\ UNCHANGED <<drive, descriptors, transfer, stage, pv, sector, mdaList,
                 blocks, text>>

\* Every active location replaces the text of the one before it, also when
\* there is no memory for the new one.
NoTextMemory ==
  /\ stage = "locations"
  /\ ~ AtLastLocation /\ Current.active
  /\ text' \in {NoText,
                [NoText EXCEPT !.location = cursor, !.length = Current.length]}
  /\ cursor' = FollowingLocation
  /\ UNCHANGED <<drive, descriptors, transfer, stage, pv, sector, mdaList, blocks>>

\* Slip: offsets taken to be relative to the partition.
TextOnPartition == Current.offset

\* A location's offset is relative to the area the header describes; the sum
\* is an off64_t again.
TextOffset == Signed(Area.start + Current.offset)

TextRequest == Current.length

\* A text that could not be read is not told from one that could.
TakeLocation ==
  /\ stage = "locations"
  /\ ~ AtLastLocation /\ Current.active
  /\ \E result \in ReadResults(TextOffset, TextRequest) :
       ReadDrive(TextOffset, result)
  /\ text' = [location |-> cursor, bytes |-> TRUE, length |-> Current.length,
              first |-> transfer'.first, count |-> transfer'.count]
  /\ cursor' = FollowingLocation
  /\ UNCHANGED <<stage, pv, sector, mdaList, blocks>>

FinishLocations ==
  /\ stage = "locations"
  /\ AtLastLocation
  /\ stage' = "returned"
  /\ UNCHANGED <<drive, descriptors, transfer, pv, sector, cursor, mdaList,
                 blocks, text>>

\* Both functions are over, or the process died.
Over ==
  /\ stage \in {"returned", "crashed"}
  /\ UNCHANGED vars

Next ==
  \/ NoLabelMemory \/ ReadLabel \/ ScanSector \/ NoLabelFound
  \/ SkipDataArea \/ CountArea \/ RunsOffMemory \/ AllocateBlocks \/ NoBlocksMemory
  \/ CopyArea \/ ReturnBlocks
  \/ ReadHeader \/ PassLocation \/ NoTextMemory \/ TakeLocation
  \/ FinishLocations
  \/ Over

\* The program is one thread that runs until it exits.
Spec == Init /\ [][Next]_vars /\ WF_vars(Next)

-----------------------------------------------------------------------------
(* Properties.                                                             *)

FirstLabel(n) == Matches(n) /\ \A m \in 1 .. n - 1 : ~ Matches(m)

\* The ends of lists among descriptors, and what is from the end of the first
\* list to the end of the second.
Ends(list) == {n \in DOMAIN list : IsZero(list[n])}

SecondList(list) ==
  LET first == CHOOSE n \in Ends(list) : \A m \in Ends(list) : n <= m
      later == {n \in Ends(list) : n > first}
      second == CHOOSE n \in later : \A m \in later : n <= m
  IN  SubSeq(list, first + 1, second)

BothEndInside(label) ==
  \E m, n \in Ends(label.descriptors) : m < n /\ n <= label.inside

\* What readMetadata is given is the metadata list of the first label on the
\* partition, area by area and ended by a zero block, however long the data
\* list before it is and whether or not any list is empty, if both lists end
\* in the four sectors; if they do not it is what memory makes of them
\* (readlogicalvolume.c:280-326).
BlocksOfFirstLabel ==
  stage \in {"header", "locations"} =>
    \E n \in 1 .. 4 :
      /\ FirstLabel(n)
      /\ BothEndInside(pv.labels[n]) => blocks = SecondList(pv.labels[n].descriptors)

\* The walk over the raw locations stays in the buffer, also when all the
\* locations that were read are in use and none of them ends the list
\* (readlogicalvolume.c:183-184, 205-242).
WalkStaysInHeader ==
  stage = "locations" => cursor \in DOMAIN HeaderBuffer

\* The locations before the first that is zero.
UsedLocations ==
  {n \in 1 .. MaxLocations :
     \A m \in 1 .. n : ~ IsZero(Area.locations[m])}

ActiveLocations == {n \in UsedLocations : Area.locations[n].active}

\* A text that is returned is the last active one of the list, whichever
\* locations are ignored and whatever was read for the locations before it;
\* its bytes do not overflow the block allocated for them, and if the offsets
\* on the medium add up to a place behind the partition's start they come from
\* there (readlogicalvolume.c:215-239).
TextIsLastActive ==
  (stage = "returned" /\ text # NoText) =>
    /\ text.location \in ActiveLocations
    /\ \A n \in ActiveLocations : n <= text.location
    /\ text.count <= text.length
    /\ LET place == Area.start + Area.locations[text.location].offset
       IN  text.count > 0 /\ Plain(place, text.length) =>
             text.first = drive.start + place

\* Both functions return, whatever the medium holds, or the process died of
\* an unchecked calloc or of lists without an end.
ReadersTerminate == <>(stage \in {"returned", "crashed"})

-----------------------------------------------------------------------------
(* What the sources' comments say.                                         *)

\* readlogicalvolume.c:256: "the metadata area is a large circular buffer",
\* so a text that starts in the area and reaches past the area's end goes on
\* inside the area, and every byte of it is one of the area's.
TextInsideArea ==
  (/\ text.count > 0 /\ text.length <= Area.length
   /\ Area.locations[text.location].offset \in 0 .. Area.length - 1) =>
    /\ drive.start + Area.start <= text.first
    /\ text.first + text.count <= drive.start + Area.start + Area.length
============================================================================
