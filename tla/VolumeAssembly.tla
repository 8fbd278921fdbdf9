--------------------------- MODULE VolumeAssembly ---------------------------
(***************************************************************************)
(* readLogicalVolume of parseMetadata.c, from the collected descriptions   *)
(* of the physical and the logical volume to the memory block it returns:  *)
(* the stripes are linked to the physical volume, the segments are summed  *)
(* up to the size of the block, and each segment is read to its place.     *)
(*                                                                         *)
(* The block's bytes hold the address they were read from, or Junk where   *)
(* malloc's memory was never written: readDrive's result is not looked at. *)
(* The metadata's numbers are any that fit their type, and what the code   *)
(* computes of them is cut to its type.                                    *)
(***************************************************************************)
EXTENDS DriveAccess, Sequences

CONSTANTS
  Windows,  \* the partition windows readGPT may have left in the drive
  Volumes   \* the volumes the metadata may describe

NullName == ""  \* a name that was never set; no name is empty

Stripe == [pvName : STRING, startExtent : Offsets]

Segment == [startExtent : Offsets, extentCount : Offsets, stripes : Seq(Stripe)]

\* name, extentSize (in bytes) and peStart (in sectors) of the one
\* tPhysicalVolume, and the array of segments of the logical volume.
Volume == [name : STRING, extentSize : Lengths, peStart : Offsets,
           segments : Seq(Segment)]

ASSUME VolumeAssumption ==
  /\ \A window \in Windows :
       /\ window \in [start : Nat, length : Nat]
       /\ window.start + window.length <= SignBit
  /\ Volumes \subseteq Volume

Junk == -1

VARIABLES
  stage,   \* where readLogicalVolume is
  volume,  \* what was collected from the metadata; read only from here on
  linked,  \* the segments whose first stripe has its physicalVolume pointer
  at,      \* the segment the loop of this stage is at
  length,  \* buffer->length
  image,   \* the bytes at buffer->ptr
  short    \* history: the segments whose read returned less than asked

vars == <<drive, descriptors, transfer, stage, volume, linked, at, length,
          image, short>>

\* "overrun": bytes were read to a place that is not in the block.
Stages == {"link", "size", "read", "returned", "crashed", "overrun"}

segments == volume.segments

Segments == 1 .. Len(segments)

TypeOK ==
  /\ DriveOK
  /\ stage \in Stages
  /\ volume \in Volumes
  /\ linked \subseteq Segments
  /\ at \in 1 .. Len(segments) + 1
  /\ length \in Nat
  /\ image \in [DOMAIN image -> Int]
  /\ short \subseteq Segments

NoImage == [b \in {} |-> Junk]

Init ==
  /\ \E window \in Windows :
       drive = [status |-> "open", start |-> window.start,
                length |-> window.length]
  /\ descriptors = 1
  /\ transfer = [first |-> 0, count |-> 0]
  /\ stage = "link"
  /\ volume \in Volumes
  /\ linked = {}
  /\ at = 1
  /\ length = 0
  /\ image = NoImage
  /\ short = {}

-----------------------------------------------------------------------------
(* Geometry: where a segment lies in the block and on the partition.       *)

ExtentSize == volume.extentSize

FirstStripe(n) == segments[n].stripes[1]

\* A product with a size_t is a size_t.
SegmentBytes(n) == Unsigned(segments[n].extentCount * ExtentSize)

BlockOffset(n) == Signed(segments[n].startExtent * ExtentSize)

\* Slip: the space before the first physical extent left out.
OffsetFromFirstExtent(n) == Signed(FirstStripe(n).startExtent * ExtentSize)

DriveOffset(n) ==
  Signed(volume.peStart * SectorSize + FirstStripe(n).startExtent * ExtentSize)

-----------------------------------------------------------------------------
(* Actions.                                                                *)

\* A stripe of another physical volume, or one of the two names missing:
\* strcmp is called on NULL, or the log's dump of the segment follows the
\* stripe's NULL pointer.
ForeignStripe ==
  \E n \in Segments : \E k \in 1 .. Len(segments[n].stripes) :
    \/ NullName \in {segments[n].stripes[k].pvName, volume.name}
    \/ segments[n].stripes[k].pvName # volume.name

NamesVolume(n) ==
  /\ segments[n].stripes # <<>>
  /\ FirstStripe(n).pvName = volume.name

\* Slip: the loop over the segments stops one short.
LinkedButLast == {n \in Segments : n < Len(segments) /\ NamesVolume(n)}

\* The pointers of the second and later stripes are set as well and not used.
LinkedSegments == {n \in Segments : NamesVolume(n)}

LinkStripes ==
  /\ stage = "link"
  /\ IF ForeignStripe
     THEN stage' = "crashed" /\ UNCHANGED linked
     ELSE stage' = "size" /\ linked' = LinkedSegments
  /\ UNCHANGED <<drive, descriptors, transfer, volume, at, length, image, short>>

\* malloc of the tMemoryBlock failed: NULL is returned.
NoBlock ==
  /\ stage = "size" /\ at = 1
  /\ stage' = "returned"
  /\ UNCHANGED <<drive, descriptors, transfer, volume, linked, at, length,
                 image, short>>

\* Slip: the length assigned, not accumulated.
LastLength(n) == SegmentBytes(n)

\* Slip: the sign, in a signed variable.
SubtractedLength(n) == length - SegmentBytes(n)

AddedLength(n) == Unsigned(length + SegmentBytes(n))

\* The segment's size is taken through stripes->physicalVolume; stripes is
\* NULL when stripe_count was missing.
SizeSegment ==
  /\ stage = "size" /\ at \in Segments
  /\ IF at \in linked
     THEN /\ length' = AddedLength(at)
          /\ at' = at + 1
          /\ UNCHANGED stage
     ELSE /\ stage' = "crashed"
          /\ UNCHANGED <<length, at>>
  /\ UNCHANGED <<drive, descriptors, transfer, volume, linked, image, short>>

Allocate ==
  /\ stage = "size" /\ at = Len(segments) + 1
  /\ image' = [b \in 0 .. length - 1 |-> Junk]
  /\ at' = 1
  /\ stage' = "read"
  /\ UNCHANGED <<drive, descriptors, transfer, volume, linked, length, short>>

\* malloc of the bytes failed: the block is returned with its length and no
\* bytes.
NoBytes ==
  /\ stage = "size" /\ at = Len(segments) + 1
  /\ stage' = "returned"
  /\ UNCHANGED <<drive, descriptors, transfer, volume, linked, at, length,
                 image, short>>

\* The image after the bytes of a transfer were put at offset dest.
Received(dest, bytes) ==
  [b \in DOMAIN image |->
     IF b \in dest .. dest + bytes.count - 1
     THEN bytes.first + (b - dest)
     ELSE image[b]]

InBlock(dest, bytes) == 0 <= dest /\ dest + bytes.count <= length

\* Whatever readDrive returns, the loop goes on to the next segment.  Nothing
\* compares the place with the block: what follows when other memory was
\* written to is not defined.
ReadSegment ==
  /\ stage = "read" /\ at \in Segments
  /\ \E result \in ReadResults(DriveOffset(at), SegmentBytes(at)) :
       /\ ReadDrive(DriveOffset(at), result)
       /\ short' = IF result = SegmentBytes(at) THEN short ELSE short \cup {at}
  /\ IF transfer'.count > 0 => InBlock(BlockOffset(at), transfer')
     THEN image' = Received(BlockOffset(at), transfer') /\ UNCHANGED stage
     ELSE stage' = "overrun" /\ UNCHANGED image
  /\ at' = at + 1
  /\ UNCHANGED <<volume, linked, length>>

\* The log line before the read divides by the extent size, which stays 0
\* when the metadata has no integer extent_size.
DivisionTrap ==
  /\ stage = "read" /\ at \in Segments
  /\ ExtentSize = 0
  /\ stage' = "crashed"
  /\ UNCHANGED <<drive, descriptors, transfer, volume, linked, at, length,
                 image, short>>

\* Slip: the last segment is left out.
OneSegmentLeft == at >= Len(segments)

AllSegmentsRead == at = Len(segments) + 1

ReturnBlock ==
  /\ stage = "read"
  /\ AllSegmentsRead
  /\ stage' = "returned"
  /\ UNCHANGED <<drive, descriptors, transfer, volume, linked, at, length,
                 image, short>>

\* The call is over, or the process died in it, or anything may happen.
Over ==
  /\ stage \in {"returned", "crashed", "overrun"}
  /\ UNCHANGED vars

Next ==
  \/ LinkStripes
  \/ NoBlock
  \/ SizeSegment
  \/ Allocate
  \/ NoBytes
  \/ ReadSegment
  \/ DivisionTrap
  \/ ReturnBlock
  \/ Over

Spec == Init /\ [][Next]_vars

-----------------------------------------------------------------------------
(* Properties.                                                             *)

\* Where the metadata puts segment n: its first byte in the volume, its size,
\* and the place of its first byte on the partition, whose first extent is
\* peStart sectors in.
FirstByte(n) == segments[n].startExtent * ExtentSize

Bytes(n) == segments[n].extentCount * ExtentSize

Place(n) == volume.peStart * SectorSize + FirstStripe(n).startExtent * ExtentSize

\* Byte b of the volume belongs to segment n.
InSegment(n, b) ==
  /\ FirstByte(n) <= b
  /\ b < FirstByte(n) + Bytes(n)

\* The byte of the medium that byte b of the volume is, by segment n.
Source(n, b) == drive.start + Place(n) + (b - FirstByte(n))

\* The segments follow one another from the first extent of the volume on,
\* which is not longer than memory.
Tiled ==
  /\ \A n \in Segments :
       /\ segments[n].startExtent >= 0 /\ segments[n].extentCount >= 0
       /\ FirstByte(n) + Bytes(n) < SignBit
  /\ segments # <<>> => segments[1].startExtent = 0
  /\ \A n \in 1 .. Len(segments) - 1 :
       segments[n + 1].startExtent
         = segments[n].startExtent + segments[n].extentCount

\* No place that is read from is in front of the partition or out of range.
Placed ==
  \A n \in Segments :
    segments[n].stripes # <<>> => Plain(Place(n), SegmentBytes(n))

OneStripe == \A n \in Segments : Len(segments[n].stripes) = 1

\* The volumes the program says it is for: linear ones (parseMetadata.c:929).
Supported == Tiled /\ Placed /\ OneStripe

\* Of a linear volume, a byte of the block is junk or the very byte of the
\* volume that belongs there, after any number of refused, failed and short
\* reads, and whatever the order of the segments on the physical volume
\* (parseMetadata.c:940-957).
NoForeignByte ==
  Supported =>
    \A b \in DOMAIN image :
      image[b] # Junk =>
        \E n \in Segments : InSegment(n, b) /\ image[b] = Source(n, b)

\* Nothing from outside the partition reaches the block, whatever the layout of
\* the volume and also when the metadata places extents beyond the partition's
\* end, unless it places one in front of it (readaccess.c:87).
NothingOutsideWindow ==
  Placed =>
    \A b \in DOMAIN image :
      image[b] # Junk =>
        drive.start <= image[b] /\ image[b] < drive.start + drive.length

\* Every segment of a volume without gaps is read to a place inside the block,
\* whose length is summed up segment by segment and which nothing compares with
\* the start extents the metadata gives (parseMetadata.c:933-951).
SegmentsFitBlock ==
  Tiled =>
    /\ stage # "overrun"
    /\ stage = "read" =>
         \A n \in Segments :
           0 <= BlockOffset(n) /\ BlockOffset(n) + SegmentBytes(n) <= length

\* The block of such a volume is returned with junk in it only where a read fell
\* short: with complete reads the whole volume is there
\* (parseMetadata.c:940-957).
JunkOnlyFromShortReads ==
  Tiled /\ stage = "returned" =>
    \A b \in DOMAIN image :
      image[b] = Junk => \E n \in short : InSegment(n, b)

\* The call crashes only on a volume the program does not support: a stripe
\* on another physical volume, a segment without stripes, or an extent size
\* of zero (parseMetadata.c:906, 310, 935, 954).
CrashOnlyOnForeignVolume ==
  stage = "crashed" =>
    \/ \E n \in Segments : segments[n].stripes = <<>>
    \/ ForeignStripe
    \/ ExtentSize = 0

-----------------------------------------------------------------------------
(* The assembly implements VolumeImage.                                    *)

VolumeBytes ==
  IF segments = <<>> THEN 0
  ELSE FirstByte(Len(segments)) + Bytes(Len(segments))

SegmentOf(b) == CHOOSE n \in Segments : InSegment(n, b)

\* Nothing is promised of a volume the program is not for.
Content ==
  IF Supported THEN [b \in 0 .. VolumeBytes - 1 |-> Source(SegmentOf(b), b)]
  ELSE NoImage

PromisedImage == IF Supported THEN image ELSE NoImage

ImageStatus ==
  CASE stage \in {"link", "size"} -> "pending"
    [] stage = "read" -> "filling"
    [] stage = "returned" -> "returned"
    [] stage \in {"crashed", "overrun"} -> "aborted"

Abstract == INSTANCE VolumeImage
              WITH content <- Content, image <- PromisedImage,
                   status <- ImageStatus

\* Reading a volume segment by segment, through a drive whose reads may be
\* refused, fail or fall short, implements the promise of VolumeImage.
ImplementsVolumeImage == Abstract!Spec
============================================================================
