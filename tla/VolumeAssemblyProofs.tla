------------------------ MODULE VolumeAssemblyProofs ------------------------
(***************************************************************************)
(* Proofs about readLogicalVolume for every partition window and every     *)
(* volume, with any number of segments, any numbers the metadata may give  *)
(* and any outcome of every read; last, that readLogicalVolume implements  *)
(* VolumeImage.                                                            *)
(***************************************************************************)
EXTENDS VolumeAssembly, TLAPS

-----------------------------------------------------------------------------
(* The inductive invariant.                                                *)

\* The window is a part of what an off64_t addresses, and is not moved.
WindowInv == drive.start >= 0 /\ drive.start + drive.length <= SignBit

BlockEnd(n) == FirstByte(n) + Bytes(n)

\* The loop that sums up the block's length has passed the first k segments
\* and found them bytes long: they lie in order and without overlap in the
\* first bytes of the block, and leave none of these uncovered.
Measured(k, bytes) ==
  /\ bytes = IF k = 0 THEN 0 ELSE BlockEnd(k)
  /\ \A n \in 1 .. k : BlockEnd(n) <= bytes
  /\ \A m, n \in 1 .. k : m < n => BlockEnd(m) <= FirstByte(n)
  /\ \A b \in 0 .. bytes - 1 : \E n \in 1 .. k : InSegment(n, b)

LinkInv == stage = "link" => at = 1 /\ length = 0

SizeInv ==
  stage = "size" =>
    at \in 1 .. Len(segments) + 1 /\ (Tiled => Measured(at - 1, length))

\* No byte is in the block, and no read has been made, before it exists.
EmptyInv == stage \in {"link", "size"} => image = NoImage

ReadInv ==
  stage = "read" =>
    /\ Tiled => Measured(Len(segments), length)
    /\ DOMAIN image = 0 .. length - 1
    /\ Segments \subseteq linked

\* Bytes are put outside the block only of a volume with gaps.
OverrunInv == stage = "overrun" => ~ Tiled

\* A junk byte of the block belongs to a segment still to be read or to one
\* whose read fell short.
JunkInv ==
  Tiled /\ stage \in {"read", "returned"} =>
    \A b \in DOMAIN image :
      image[b] = Junk =>
        \E n \in Segments :
          /\ InSegment(n, b)
          /\ n \in short \/ (stage = "read" /\ n >= at)

\* The loop summing up the length went on only past linked segments.
LinkedInv ==
  /\ linked \subseteq LinkedSegments
  /\ stage = "size" => linked = LinkedSegments /\ 1 .. at - 1 \subseteq linked

IInv ==
  /\ TypeOK
  /\ WindowInv
  /\ LinkInv
  /\ SizeInv
  /\ EmptyInv
  /\ ReadInv
  /\ OverrunInv
  /\ JunkInv
  /\ LinkedInv
  /\ NoForeignByte
  /\ NothingOutsideWindow
  /\ CrashOnlyOnForeignVolume

-----------------------------------------------------------------------------
(* Words.                                                                  *)

\* A number that fits is kept as it is.
LEMMA SmallRemainder ==
  \A n \in Int, w \in Nat \ {0} : 0 <= n /\ n < w => n % w = n
OBVIOUS

LEMMA WordsKeep ==
  ASSUME NEW n \in Int
  PROVE  /\ 0 <= n /\ n < 2 * SignBit => Unsigned(n) = n
         /\ -SignBit <= n /\ n < SignBit => Signed(n) = n
         /\ Signed(n) \in Int /\ Unsigned(n) \in Nat
<1>1. 0 <= n /\ n < 2 * SignBit => Unsigned(n) = n
  BY DriveAssumption, SmallRemainder DEF Unsigned
<1>2. -SignBit <= n /\ n < SignBit => Signed(n) = n
  BY DriveAssumption, SmallRemainder DEF Signed
<1>3. Signed(n) \in Int /\ Unsigned(n) \in Nat
  BY DriveAssumption DEF Signed, Unsigned
<1> QED
  BY <1>1, <1>2, <1>3

-----------------------------------------------------------------------------
(* Geometry.                                                               *)

LEMMA VolumeFacts ==
  ASSUME TypeOK
  PROVE  /\ volume \in Volume
         /\ segments \in Seq(Segment)
         /\ Len(segments) \in Nat
         /\ \A n \in Segments : /\ segments[n].startExtent \in Int
                                /\ segments[n].extentCount \in Int
                                /\ segments[n].stripes \in Seq(Stripe)
         /\ volume.peStart \in Int
         /\ ExtentSize \in Nat
         /\ SectorSize \in Nat
<1>1. volume \in Volume
  BY VolumeAssumption DEF TypeOK
<1>2. SectorSize \in Nat
  BY DriveAssumption
<1>3. segments \in Seq(Segment) /\ Len(segments) \in Nat
  BY <1>1 DEF Volume, segments
<1>4. volume.peStart \in Int /\ ExtentSize \in Nat
  BY <1>1, DriveAssumption DEF Volume, ExtentSize, Offsets, Lengths
<1>5. ASSUME NEW n \in Segments
      PROVE  /\ segments[n].startExtent \in Int
             /\ segments[n].extentCount \in Int
             /\ segments[n].stripes \in Seq(Stripe)
  <2>1. segments[n] \in Segment
    BY <1>3 DEF Segments
  <2> QED
    BY <2>1, DriveAssumption DEF Segment, Offsets
<1> QED
  BY <1>1, <1>2, <1>3, <1>4, <1>5

LEMMA ProductType == \A a, b \in Int : a * b \in Int
OBVIOUS

LEMMA NatProduct == \A a, b \in Nat : a * b \in Nat
OBVIOUS

\* Place k of a request that fits a window of the given size is in the window.
LEMMA PartInWindow ==
  \A offset, request, size \in Nat : \A k \in 0 .. request - 1 :
    offset + request <= size => offset + k \in 0 .. size - 1
OBVIOUS

\* Places are integers, sizes natural numbers.
LEMMA GeometryType ==
  ASSUME TypeOK, NEW n \in Segments
  PROVE  /\ FirstByte(n) \in Int /\ Bytes(n) \in Int /\ BlockEnd(n) \in Int
         /\ BlockOffset(n) \in Int
         /\ SegmentBytes(n) \in Nat
<1>1. FirstByte(n) \in Int /\ Bytes(n) \in Int
  BY VolumeFacts, ProductType DEF FirstByte, Bytes
<1>2. BlockOffset(n) = Signed(FirstByte(n)) /\ SegmentBytes(n) = Unsigned(Bytes(n))
  BY DEF BlockOffset, FirstByte, SegmentBytes, Bytes
<1>3. BlockEnd(n) \in Int
  BY <1>1 DEF BlockEnd
<1> QED
  BY <1>1, <1>2, <1>3, WordsKeep

\* In a volume without gaps they are what the metadata says.
LEMMA TiledFacts ==
  ASSUME TypeOK, Tiled, NEW n \in Segments
  PROVE  /\ FirstByte(n) \in Nat /\ Bytes(n) \in Nat /\ BlockEnd(n) \in Nat
         /\ BlockEnd(n) < SignBit
         /\ BlockOffset(n) = FirstByte(n)
         /\ SegmentBytes(n) = Bytes(n)
<1>1. segments[n].startExtent \in Nat /\ segments[n].extentCount \in Nat
  BY VolumeFacts DEF Tiled
<1>2. FirstByte(n) \in Nat /\ Bytes(n) \in Nat
  BY <1>1, VolumeFacts, NatProduct DEF FirstByte, Bytes
<1>3. FirstByte(n) + Bytes(n) < SignBit
  BY DEF Tiled
<1>4. BlockEnd(n) \in Nat /\ BlockEnd(n) < SignBit
  BY <1>2, <1>3 DEF BlockEnd
<1>5. BlockOffset(n) = Signed(FirstByte(n)) /\ SegmentBytes(n) = Unsigned(Bytes(n))
  BY DEF BlockOffset, FirstByte, SegmentBytes, Bytes
<1>6. /\ -SignBit <= FirstByte(n) /\ FirstByte(n) < SignBit
      /\ 0 <= Bytes(n) /\ Bytes(n) < 2 * SignBit
  BY <1>2, <1>3, DriveAssumption
<1>7. Signed(FirstByte(n)) = FirstByte(n) /\ Unsigned(Bytes(n)) = Bytes(n)
  BY <1>2, <1>6, WordsKeep
<1> QED
  BY <1>2, <1>4, <1>5, <1>7

\* A segment with a stripe has a place on the partition.
LEMMA PlaceType ==
  ASSUME TypeOK, NEW n \in Segments, NamesVolume(n)
  PROVE  Place(n) \in Int /\ DriveOffset(n) = Signed(Place(n)) /\ DriveOffset(n) \in Int
<1>1. segments[n].stripes \in Seq(Stripe) /\ segments[n].stripes # <<>>
  BY VolumeFacts DEF NamesVolume
<1>2. FirstStripe(n) \in Stripe
  BY <1>1 DEF FirstStripe
<1>3. FirstStripe(n).startExtent \in Int
  BY <1>2, DriveAssumption DEF Stripe, Offsets
<1>4. /\ FirstStripe(n).startExtent * ExtentSize \in Int
      /\ volume.peStart * SectorSize \in Int
  BY <1>3, VolumeFacts, ProductType
<1>5. Place(n) \in Int /\ DriveOffset(n) = Signed(Place(n))
  BY <1>4 DEF Place, DriveOffset
<1> QED
  BY <1>5, WordsKeep

\* A plain request that is admitted is in the window, and is read there.
LEMMA PlainRead ==
  ASSUME TypeOK, WindowInv, NEW place \in Int, NEW size \in Nat \ {0},
         Plain(place, size), Admitted(Signed(place), size)
  PROVE  /\ Target(Signed(place)) = drive.start + place
         /\ place \in Nat /\ place + size <= drive.length
<1>1. drive.start \in Int /\ drive.length \in Nat
  BY DEF TypeOK, DriveOK
<1>2. /\ 0 <= place /\ place < SignBit /\ place + size < 2 * SignBit
      /\ 0 <= drive.start /\ drive.start + drive.length <= SignBit
  BY <1>1, DriveAssumption DEF Plain, WindowInv
<1>3. Signed(place) = place
  BY <1>2, WordsKeep, DriveAssumption
<1>4. place + size <= drive.length
  <2>1. Unsigned(place + size) = place + size
    BY <1>2, WordsKeep
  <2> QED
    BY <1>3, <2>1 DEF Admitted
<1>5. drive.start + place < SignBit /\ drive.start + place >= -SignBit
  BY <1>1, <1>2, <1>4, DriveAssumption
<1>6. Signed(drive.start + place) = drive.start + place
  BY <1>1, <1>5, WordsKeep
<1> QED
  BY <1>2, <1>3, <1>4, <1>6 DEF Target

\* The first segment starts the block, each later one where the one before
\* it ends.
LEMMA Consecutive ==
  ASSUME TypeOK, Tiled
  PROVE  /\ Len(segments) > 0 => FirstByte(1) = 0
         /\ \A n \in 1 .. Len(segments) - 1 : FirstByte(n + 1) = BlockEnd(n)
<1>1. ASSUME Len(segments) > 0
      PROVE  FirstByte(1) = 0
  <2>1. segments[1].startExtent = 0
    BY <1>1, VolumeFacts DEF Tiled
  <2> QED
    BY <2>1, VolumeFacts DEF FirstByte
<1>2. ASSUME NEW n \in 1 .. Len(segments) - 1
      PROVE  FirstByte(n + 1) = BlockEnd(n)
  <2>1. n \in Segments
    BY VolumeFacts DEF Segments
  <2>2. segments[n + 1].startExtent
          = segments[n].startExtent + segments[n].extentCount
    BY VolumeFacts DEF Tiled
  <2>3. /\ segments[n].startExtent \in Int
        /\ segments[n].extentCount \in Int
    BY <2>1, VolumeFacts
  <2>4. \A a, b, c \in Int : (a + b) * c = a * c + b * c
    OBVIOUS
  <2>5. (segments[n].startExtent + segments[n].extentCount) * ExtentSize
          = segments[n].startExtent * ExtentSize + segments[n].extentCount * ExtentSize
    BY <2>3, <2>4, VolumeFacts
  <2> QED
    BY <2>2, <2>5 DEF FirstByte, BlockEnd, Bytes
<1> QED
  BY <1>1, <1>2

\* Adding the next segment's bytes measures one segment more.
LEMMA MeasureOneMore ==
  ASSUME TypeOK, Tiled, NEW k \in 0 .. Len(segments) - 1, NEW bytes \in Nat,
         Measured(k, bytes)
  PROVE  Measured(k + 1, Unsigned(bytes + SegmentBytes(k + 1)))
<1> DEFINE end == bytes + Bytes(k + 1)
<1>1. /\ Len(segments) \in Nat
      /\ k + 1 \in Segments
      /\ \A n \in 1 .. k + 1 : n \in Segments
  BY VolumeFacts DEF Segments
<1>2. \A n \in 1 .. k + 1 :
        /\ FirstByte(n) \in Nat
        /\ Bytes(n) \in Nat
        /\ BlockEnd(n) \in Nat
  BY <1>1, TiledFacts
<1>3. FirstByte(k + 1) = bytes
  <2>1. CASE k = 0
    BY <2>1, <1>1, Consecutive DEF Measured
  <2>2. CASE k # 0
    BY <2>2, <1>1, Consecutive DEF Measured
  <2> QED
    BY <2>1, <2>2
<1>4. end = BlockEnd(k + 1)
  BY <1>3 DEF BlockEnd
<1>5. ASSUME NEW n \in 1 .. k + 1
      PROVE  BlockEnd(n) <= end
  <2>1. CASE n = k + 1
    BY <2>1, <1>2, <1>4
  <2>2. CASE n \in 1 .. k
    BY <2>2, <1>2 DEF Measured
  <2> QED
    BY <2>1, <2>2
<1>6. ASSUME NEW m \in 1 .. k + 1, NEW n \in 1 .. k + 1, m < n
      PROVE  BlockEnd(m) <= FirstByte(n)
  <2>1. m \in 1 .. k
    BY <1>6
  <2>2. CASE n = k + 1
    BY <2>1, <2>2, <1>3 DEF Measured
  <2>3. CASE n \in 1 .. k
    BY <2>1, <2>3, <1>6 DEF Measured
  <2> QED
    BY <2>2, <2>3
<1>7. ASSUME NEW b \in 0 .. end - 1
      PROVE  \E n \in 1 .. k + 1 : InSegment(n, b)
  <2>1. CASE b < bytes
    <3>1. b \in 0 .. bytes - 1
      <4> HIDE DEF end
      <4> QED
        BY <2>1, <1>2, <1>4
    <3>2. \E n \in 1 .. k : InSegment(n, b)
      BY <3>1 DEF Measured
    <3> QED
      BY <3>2
  <2>2. CASE b >= bytes
    <3>1. InSegment(k + 1, b)
      BY <2>2, <1>2, <1>3 DEF InSegment
    <3> QED
      BY <3>1
  <2> QED
    BY <2>1, <2>2, <1>2
<1>8. Measured(k + 1, end)
  BY <1>4, <1>5, <1>6, <1>7 DEF Measured
<1>9. Unsigned(bytes + SegmentBytes(k + 1)) = end
  <2>1. SegmentBytes(k + 1) = Bytes(k + 1) /\ BlockEnd(k + 1) < SignBit
        /\ BlockEnd(k + 1) \in Nat
    BY <1>1, TiledFacts
  <2>2. end \in Int /\ 0 <= end /\ end < 2 * SignBit
    BY <1>4, <2>1, DriveAssumption
  <2> HIDE DEF end
  <2>3. Unsigned(end) = end
    BY <2>2, WordsKeep
  <2> QED
    BY <2>1, <2>3 DEF end
<1> QED
  BY <1>8, <1>9

\* A byte of the block belongs to one segment only.
LEMMA SegmentsDisjoint ==
  ASSUME TypeOK, Measured(Len(segments), length), NEW b \in Int,
         NEW m \in Segments, InSegment(m, b), NEW n \in Segments, InSegment(n, b)
  PROVE  m = n
<1>1. \A k \in Segments : FirstByte(k) \in Int /\ BlockEnd(k) \in Int
  BY GeometryType
<1>2. Len(segments) \in Nat /\ m \in 1 .. Len(segments) /\ n \in 1 .. Len(segments)
  BY VolumeFacts DEF Segments
<1>3. /\ FirstByte(m) <= b /\ b < BlockEnd(m)
      /\ FirstByte(n) <= b /\ b < BlockEnd(n)
  BY DEF InSegment, BlockEnd
<1>4. ~ m < n /\ ~ n < m
  BY <1>1, <1>2, <1>3 DEF Measured
<1> QED
  BY <1>2, <1>4

-----------------------------------------------------------------------------
(* The invariant holds initially and is preserved by every action.         *)

LEMMA InitEstablishes == Init => IInv
<1> SUFFICES ASSUME Init
             PROVE  IInv
  OBVIOUS
<1>1. PICK window \in Windows :
        drive = [status |-> "open", start |-> window.start,
                 length |-> window.length]
  BY DEF Init
<1>2. window.start \in Nat /\ window.length \in Nat
      /\ window.start + window.length <= SignBit
  BY VolumeAssumption
<1>3. DriveOK /\ WindowInv
  BY <1>1, <1>2 DEF Init, DriveOK, Status, WindowInv
<1>4. Len(segments) \in Nat
  BY VolumeAssumption DEF Init, Volume, segments
<1>5. image \in [DOMAIN image -> Int]
  BY DEF Init, NoImage
<1>6. TypeOK
  BY <1>3, <1>4, <1>5 DEF Init, TypeOK, Stages
<1>7. image = NoImage /\ DOMAIN image = {}
  BY DEF Init, NoImage
<1>8. stage = "link" /\ at = 1 /\ length = 0 /\ linked = {}
  BY DEF Init
<1>9. LinkInv /\ SizeInv /\ EmptyInv /\ ReadInv /\ OverrunInv /\ JunkInv /\ LinkedInv
  BY <1>7, <1>8
  DEF LinkInv, SizeInv, EmptyInv, ReadInv, OverrunInv, JunkInv, LinkedInv
<1>10. NoForeignByte /\ NothingOutsideWindow /\ CrashOnlyOnForeignVolume
  BY <1>7, <1>8 DEF NoForeignByte, NothingOutsideWindow, CrashOnlyOnForeignVolume
<1> QED
  BY <1>3, <1>6, <1>9, <1>10 DEF IInv

\* What no action of readLogicalVolume changes keeps its geometry.
LEMMA SameGeometry ==
  ASSUME volume' = volume
  PROVE  /\ segments' = segments
         /\ Segments' = Segments
         /\ ExtentSize' = ExtentSize
         /\ LinkedSegments' = LinkedSegments
         /\ ForeignStripe' <=> ForeignStripe
         /\ Tiled' <=> Tiled
         /\ Placed' <=> Placed
         /\ Supported' <=> Supported
         /\ \A n : NamesVolume(n)' <=> NamesVolume(n)
         /\ \A n : FirstByte(n)' = FirstByte(n)
         /\ \A n : Bytes(n)' = Bytes(n)
         /\ \A n : BlockEnd(n)' = BlockEnd(n)
         /\ \A n, b : InSegment(n, b)' <=> InSegment(n, b)
         /\ drive' = drive => \A n, b : Source(n, b)' = Source(n, b)
<1>1. segments' = segments /\ Segments' = Segments /\ ExtentSize' = ExtentSize
  BY DEF segments, Segments, ExtentSize
<1>2. \A n : NamesVolume(n)' <=> NamesVolume(n)
  BY <1>1 DEF NamesVolume, FirstStripe
<1>3. LinkedSegments' = LinkedSegments
  BY <1>1, <1>2 DEF LinkedSegments
<1>4. ForeignStripe' <=> ForeignStripe
  BY <1>1 DEF ForeignStripe
<1>5. /\ \A n : FirstByte(n)' = FirstByte(n)
      /\ \A n : Bytes(n)' = Bytes(n)
      /\ \A n : BlockEnd(n)' = BlockEnd(n)
      /\ \A n, b : InSegment(n, b)' <=> InSegment(n, b)
  BY <1>1 DEF FirstByte, Bytes, BlockEnd, InSegment
<1>6. /\ \A n : Place(n)' = Place(n)
      /\ \A n : SegmentBytes(n)' = SegmentBytes(n)
  BY <1>1 DEF Place, FirstStripe, SegmentBytes
<1>7. Tiled' <=> Tiled
  BY <1>1, <1>5 DEF Tiled
<1>8. Placed' <=> Placed
  BY <1>1, <1>6 DEF Placed
<1>9. Supported' <=> Supported
  BY <1>1, <1>7, <1>8 DEF Supported, OneStripe
<1>10. ASSUME drive' = drive
       PROVE  \A n, b : Source(n, b)' = Source(n, b)
  BY <1>5, <1>6, <1>10 DEF Source
<1> QED
  BY <1>1, <1>2, <1>3, <1>4, <1>5, <1>7, <1>8, <1>9, <1>10

\* While the block and the drive stay as they are, so does what was said of
\* the block's bytes.
LEMMA SameBytes ==
  ASSUME UNCHANGED <<drive, volume, image>>,
         WindowInv, NoForeignByte, NothingOutsideWindow
  PROVE  WindowInv' /\ NoForeignByte' /\ NothingOutsideWindow'
<1>1. NoForeignByte'
  BY SameGeometry DEF NoForeignByte
<1>2. NothingOutsideWindow'
  BY SameGeometry DEF NothingOutsideWindow
<1>3. WindowInv'
  BY DEF WindowInv
<1> QED
  BY <1>1, <1>2, <1>3

LEMMA LinkStripesPreserves == IInv /\ LinkStripes => IInv'
<1> SUFFICES ASSUME IInv, LinkStripes
             PROVE  IInv'
  OBVIOUS
<1>1. /\ stage = "link" /\ stage' \in {"size", "crashed"}
      /\ UNCHANGED <<drive, descriptors, transfer, volume, at, length, image, short>>
      /\ stage' = "crashed" => ForeignStripe /\ linked' = linked
      /\ stage' = "size" => linked' = LinkedSegments
  BY DEF LinkStripes
<1>2. TypeOK /\ at = 1 /\ length = 0 /\ image = NoImage /\ linked \subseteq LinkedSegments
  BY <1>1 DEF IInv, LinkInv, EmptyInv, LinkedInv
<1>3. Len(segments) \in Nat
  BY <1>2, VolumeFacts
<1>4. TypeOK'
  <2>1. linked' \subseteq Segments
    BY <1>1, <1>2 DEF TypeOK, LinkedSegments
  <2> QED
    BY <1>1, <1>2, <2>1, SameGeometry DEF TypeOK, DriveOK, Stages
<1>5. LinkInv' /\ EmptyInv' /\ ReadInv' /\ OverrunInv' /\ JunkInv'
  BY <1>1, <1>2 DEF LinkInv, EmptyInv, ReadInv, OverrunInv, JunkInv, NoImage
<1>6. SizeInv'
  <2>1. Measured(0, 0)'
    BY DEF Measured
  <2>2. at' = 1 /\ at' - 1 = 0 /\ length' = 0 /\ at' \in 1 .. Len(segments') + 1
    BY <1>1, <1>2, <1>3, SameGeometry
  <2> QED
    BY <2>1, <2>2 DEF SizeInv, Measured
<1>7. LinkedInv'
  BY <1>1, <1>2, SameGeometry DEF LinkedInv
<1>8. WindowInv' /\ NoForeignByte' /\ NothingOutsideWindow'
  BY <1>1, SameBytes DEF IInv
<1>9. CrashOnlyOnForeignVolume'
  BY <1>1, SameGeometry DEF CrashOnlyOnForeignVolume
<1> QED
  BY <1>4, <1>5, <1>6, <1>7, <1>8, <1>9 DEF IInv

LEMMA SizeSegmentPreserves == IInv /\ SizeSegment => IInv'
<1> SUFFICES ASSUME IInv, SizeSegment
             PROVE  IInv'
  OBVIOUS
<1>1. /\ stage = "size" /\ at \in Segments
      /\ UNCHANGED <<drive, descriptors, transfer, volume, linked, image, short>>
  BY DEF SizeSegment
<1>2. /\ TypeOK /\ image = NoImage /\ linked = LinkedSegments
      /\ 1 .. at - 1 \subseteq linked
      /\ Tiled => Measured(at - 1, length)
  BY <1>1 DEF IInv, EmptyInv, SizeInv, LinkedInv
<1>3. Len(segments) \in Nat /\ at \in 1 .. Len(segments)
  BY <1>1, <1>2, VolumeFacts DEF Segments
<1>4. length \in Nat /\ SegmentBytes(at) \in Nat
  BY <1>1, <1>2, GeometryType DEF TypeOK
<1>5. WindowInv' /\ NoForeignByte' /\ NothingOutsideWindow'
  BY <1>1, SameBytes DEF IInv
<1>6. CASE at \in linked
  <2>1. /\ stage' = "size" /\ at' = at + 1
        /\ length' = Unsigned(length + SegmentBytes(at))
    BY <1>1, <1>6 DEF SizeSegment, AddedLength
  <2>2. TypeOK'
    <3>1. length' \in Nat
      BY <1>4, <2>1, WordsKeep
    <3>2. at' \in 1 .. Len(segments') + 1
      BY <1>1, <1>3, <2>1, SameGeometry
    <3> QED
      BY <1>1, <1>2, <2>1, <3>1, <3>2, SameGeometry DEF TypeOK, DriveOK
  <2>3. SizeInv'
    <3>1. Tiled => Measured(at, Unsigned(length + SegmentBytes(at)))
      <4>1. at - 1 \in 0 .. Len(segments) - 1 /\ (at - 1) + 1 = at
        BY <1>3
      <4> QED
        BY <1>2, <1>4, <4>1, MeasureOneMore
    <3>2. at' - 1 = at
      BY <1>3, <2>1
    <3>3. Tiled => Measured(at' - 1, length')
      BY <3>1, <3>2, <2>1
    <3>4. at' \in 1 .. Len(segments') + 1
      BY <1>1, <1>3, <2>1, SameGeometry
    <3> QED
      BY <1>1, <3>3, <3>4, SameGeometry DEF SizeInv, Measured
  <2>4. /\ LinkInv' /\ EmptyInv' /\ ReadInv' /\ OverrunInv' /\ JunkInv'
        /\ CrashOnlyOnForeignVolume'
    BY <1>1, <1>2, <2>1
    DEF LinkInv, EmptyInv, ReadInv, OverrunInv, JunkInv, CrashOnlyOnForeignVolume
  <2>5. LinkedInv'
    BY <1>1, <1>2, <1>3, <1>6, <2>1, SameGeometry DEF LinkedInv
  <2> QED
    BY <1>5, <2>2, <2>3, <2>4, <2>5 DEF IInv
<1>7. CASE at \notin linked
  <2>1. stage' = "crashed" /\ at' = at /\ length' = length
    BY <1>1, <1>7 DEF SizeSegment
  <2>2. TypeOK'
    BY <1>1, <1>2, <2>1, SameGeometry DEF TypeOK, DriveOK, Stages
  <2>3. LinkInv' /\ SizeInv' /\ EmptyInv' /\ ReadInv' /\ OverrunInv' /\ JunkInv'
    BY <2>1 DEF LinkInv, SizeInv, EmptyInv, ReadInv, OverrunInv, JunkInv
  <2>4. LinkedInv'
    BY <1>1, <1>2, <2>1, SameGeometry DEF LinkedInv
  <2>5. segments[at].stripes = <<>> \/ ForeignStripe
    <3>1. ~ NamesVolume(at)
      BY <1>1, <1>2, <1>7 DEF LinkedSegments
    <3>2. segments[at].stripes \in Seq(Stripe)
      BY <1>1, <1>2, VolumeFacts
    <3>3. CASE segments[at].stripes # <<>>
      <4>1. 1 \in 1 .. Len(segments[at].stripes)
        BY <3>2, <3>3
      <4> QED
        BY <1>1, <3>1, <3>3, <4>1 DEF NamesVolume, FirstStripe, ForeignStripe
    <3> QED
      BY <3>3
  <2>6. CrashOnlyOnForeignVolume'
    BY <1>1, <2>5, SameGeometry DEF CrashOnlyOnForeignVolume
  <2> QED
    BY <1>5, <2>2, <2>3, <2>4, <2>6 DEF IInv
<1> QED
  BY <1>6, <1>7

LEMMA AllocatePreserves == IInv /\ Allocate => IInv'
<1> SUFFICES ASSUME IInv, Allocate
             PROVE  IInv'
  OBVIOUS
<1>1. /\ stage = "size" /\ stage' = "read"
      /\ at = Len(segments) + 1 /\ at' = 1
      /\ image' = [b \in 0 .. length - 1 |-> Junk]
      /\ UNCHANGED <<drive, descriptors, transfer, volume, linked, length, short>>
  BY DEF Allocate
<1>2. /\ TypeOK /\ linked = LinkedSegments
      /\ 1 .. at - 1 \subseteq linked
      /\ Tiled => Measured(at - 1, length)
  BY <1>1 DEF IInv, SizeInv, LinkedInv
<1>3. Len(segments) \in Nat /\ at - 1 = Len(segments)
  BY <1>1, <1>2, VolumeFacts
<1>4. DOMAIN image' = 0 .. length - 1 /\ \A b \in DOMAIN image' : image'[b] = Junk
  BY <1>1
<1>5. TypeOK'
  <2>1. image' \in [DOMAIN image' -> Int]
    BY <1>1 DEF Junk
  <2>2. at' \in 1 .. Len(segments') + 1
    BY <1>1, <1>3, SameGeometry
  <2> QED
    BY <1>1, <1>2, <2>1, <2>2, SameGeometry DEF TypeOK, DriveOK, Stages
<1>6. LinkInv' /\ SizeInv' /\ EmptyInv' /\ OverrunInv' /\ CrashOnlyOnForeignVolume'
  BY <1>1 DEF LinkInv, SizeInv, EmptyInv, OverrunInv, CrashOnlyOnForeignVolume
<1>7. ReadInv'
  <2>1. (Tiled => Measured(Len(segments), length)) /\ Segments \subseteq linked
    BY <1>2, <1>3 DEF Segments
  <2> QED
    BY <1>1, <1>4, <2>1, SameGeometry DEF ReadInv, Measured
<1>8. JunkInv'
  <2> SUFFICES ASSUME Tiled, NEW b \in DOMAIN image'
               PROVE  \E n \in Segments' : InSegment(n, b)' /\ n >= at'
    BY <1>1, SameGeometry DEF JunkInv
  <2>1. PICK n \in 1 .. Len(segments) : InSegment(n, b)
    BY <1>2, <1>3, <1>4 DEF Measured
  <2> QED
    BY <1>1, <1>3, <2>1, SameGeometry DEF Segments
<1>9. LinkedInv'
  BY <1>1, <1>2, SameGeometry DEF LinkedInv
<1>10. WindowInv' /\ NoForeignByte' /\ NothingOutsideWindow'
  BY <1>1, <1>4 DEF IInv, WindowInv, NoForeignByte, NothingOutsideWindow, Junk
<1> QED
  BY <1>5, <1>6, <1>7, <1>8, <1>9, <1>10 DEF IInv

\* What is known of the drive and of the segment when a segment is read.
LEMMA ReadFacts ==
  ASSUME IInv, ReadSegment
  PROVE  /\ at \in Segments
         /\ TypeOK /\ WindowInv
         /\ DOMAIN image = 0 .. length - 1
         /\ Tiled => Measured(Len(segments), length)
         /\ BlockOffset(at) \in Int /\ SegmentBytes(at) \in Nat
         /\ transfer'.count \in 0 .. SegmentBytes(at)
         /\ transfer' \in [first : Nat, count : Nat]
         /\ Placed /\ transfer'.count > 0 =>
              /\ Place(at) \in Nat
              /\ transfer'.first = drive.start + Place(at)
              /\ Place(at) + SegmentBytes(at) <= drive.length
         /\ short' \in {short, short \cup {at}}
         /\ at \notin short' => transfer'.count = SegmentBytes(at)
         /\ at' = at + 1
         /\ UNCHANGED <<drive, descriptors, volume, linked, length>>
<1>1. /\ stage = "read" /\ at \in Segments /\ at' = at + 1
      /\ UNCHANGED <<volume, linked, length>>
  BY DEF ReadSegment
<1>2. TypeOK /\ WindowInv
  BY DEF IInv
<1>3. /\ Tiled => Measured(Len(segments), length)
      /\ DOMAIN image = 0 .. length - 1
      /\ at \in LinkedSegments
  BY <1>1 DEF IInv, ReadInv, LinkedInv
<1>4. BlockOffset(at) \in Int /\ SegmentBytes(at) \in Nat
  BY <1>1, <1>2, GeometryType
<1>5. NamesVolume(at)
  BY <1>3 DEF LinkedSegments
<1>6. /\ Place(at) \in Int /\ DriveOffset(at) = Signed(Place(at))
      /\ DriveOffset(at) \in Int
  BY <1>1, <1>2, <1>5, PlaceType
<1>7. PICK result \in ReadResults(DriveOffset(at), SegmentBytes(at)) :
        /\ ReadDrive(DriveOffset(at), result)
        /\ short' = IF result = SegmentBytes(at) THEN short ELSE short \cup {at}
  BY DEF ReadSegment
<1>8. /\ result \in -1 .. SegmentBytes(at)
      /\ result > 0 => /\ Admitted(DriveOffset(at), SegmentBytes(at))
                       /\ Target(DriveOffset(at)) >= 0
  BY <1>4, <1>7 DEF ReadResults
<1>9. /\ transfer' = IF result > 0
                     THEN [first |-> Target(DriveOffset(at)), count |-> result]
                     ELSE [first |-> 0, count |-> 0]
      /\ UNCHANGED <<drive, descriptors>>
  BY <1>7 DEF ReadDrive
<1>10. Target(DriveOffset(at)) \in Int
  BY <1>2, <1>6, WordsKeep DEF Target, TypeOK, DriveOK
<1>11. /\ transfer'.count \in 0 .. SegmentBytes(at)
       /\ transfer' \in [first : Nat, count : Nat]
       /\ transfer'.count > 0 =>
            /\ Admitted(DriveOffset(at), SegmentBytes(at))
            /\ transfer'.first = Target(DriveOffset(at))
  <2>1. CASE result > 0
    BY <1>4, <1>8, <1>9, <1>10, <2>1
  <2>2. CASE ~ (result > 0)
    BY <1>4, <1>8, <1>9, <2>2
  <2> QED
    BY <2>1, <2>2
<1>12. /\ short' \in {short, short \cup {at}}
       /\ at \notin short' => transfer'.count = SegmentBytes(at)
  <2>1. short' \in {short, short \cup {at}}
    BY <1>7
  <2>2. ASSUME at \notin short'
        PROVE  transfer'.count = SegmentBytes(at)
    <3>1. result = SegmentBytes(at)
      BY <1>7, <2>2
    <3> QED
      BY <1>4, <1>9, <3>1
  <2> QED
    BY <2>1, <2>2
<1>13. ASSUME Placed, transfer'.count > 0
       PROVE  /\ Place(at) \in Nat
              /\ transfer'.first = drive.start + Place(at)
              /\ Place(at) + SegmentBytes(at) <= drive.length
  <2>1. Plain(Place(at), SegmentBytes(at))
    BY <1>1, <1>5, <1>13 DEF Placed, NamesVolume
  <2>2. SegmentBytes(at) \in Nat \ {0}
    BY <1>4, <1>11, <1>13
  <2> QED
    BY <1>2, <1>6, <1>11, <1>13, <2>1, <2>2, PlainRead
<1> QED
  BY <1>1, <1>2, <1>3, <1>4, <1>9, <1>11, <1>12, <1>13

\* The bytes that a read has put into the block.
Got(b) ==
  /\ stage' = "read"
  /\ BlockOffset(at) <= b /\ b < BlockOffset(at) + transfer'.count

\* A byte of the block after the read: a byte of the transfer, or the one that
\* was there.  A read of a volume without gaps fits the block.
LEMMA ReceivedBytes ==
  ASSUME IInv, ReadSegment
  PROVE  /\ stage = "read" /\ stage' \in {"read", "overrun"}
         /\ DOMAIN image' = DOMAIN image
         /\ image' = [b \in DOMAIN image |-> image'[b]]
         /\ \A b \in DOMAIN image :
              image'[b] = IF Got(b) THEN transfer'.first + (b - BlockOffset(at))
                          ELSE image[b]
         /\ Tiled => stage' = "read"
<1>1. /\ stage = "read"
      /\ \/ image' = Received(BlockOffset(at), transfer') /\ stage' = "read"
         \/ stage' = "overrun" /\ image' = image
      /\ (transfer'.count > 0 => InBlock(BlockOffset(at), transfer'))
           => stage' = "read"
  BY DEF ReadSegment
<1>2. /\ DOMAIN image = 0 .. length - 1 /\ length \in Nat
      /\ BlockOffset(at) \in Int
      /\ transfer'.count \in Nat /\ transfer'.count \in 0 .. SegmentBytes(at)
      /\ at \in Segments /\ TypeOK
      /\ Tiled => Measured(Len(segments), length)
  BY ReadFacts DEF TypeOK
<1>3. image = [b \in DOMAIN image |-> image[b]]
  BY <1>2 DEF TypeOK
<1>4. CASE image' = Received(BlockOffset(at), transfer') /\ stage' = "read"
  <2>1. ASSUME NEW b \in DOMAIN image
        PROVE  image'[b] = IF Got(b) THEN transfer'.first + (b - BlockOffset(at))
                           ELSE image[b]
    <3>1. b \in Int
      BY <1>2
    <3>2. b \in BlockOffset(at) .. BlockOffset(at) + transfer'.count - 1 <=> Got(b)
      BY <1>2, <1>4, <3>1 DEF Got
    <3> QED
      BY <1>4, <3>2 DEF Received
  <2> QED
    BY <1>1, <1>4, <2>1 DEF Received
<1>5. CASE stage' = "overrun" /\ image' = image
  <2>1. ~ Tiled
    <3> SUFFICES ASSUME Tiled
                 PROVE  InBlock(BlockOffset(at), transfer')
      BY <1>1, <1>5
    <3>1. /\ FirstByte(at) \in Nat /\ Bytes(at) \in Nat
          /\ BlockOffset(at) = FirstByte(at) /\ SegmentBytes(at) = Bytes(at)
      BY <1>2, TiledFacts
    <3>2. BlockEnd(at) <= length
      BY <1>2 DEF Measured, Segments
    <3>3. /\ 0 <= BlockOffset(at)
          /\ BlockOffset(at) + transfer'.count <= length
      <4>1. transfer'.count <= Bytes(at)
        BY <1>2, <3>1
      <4>2. FirstByte(at) + Bytes(at) <= length
        BY <3>2 DEF BlockEnd
      <4> QED
        BY <1>2, <3>1, <4>1, <4>2
    <3> QED
      BY <3>3 DEF InBlock
  <2> QED
    BY <1>1, <1>3, <1>5, <2>1 DEF Got
<1> QED
  BY <1>1, <1>4, <1>5

\* In a linear volume it is the one that belongs there.
LEMMA BelongsThere ==
  ASSUME IInv, ReadSegment, NEW b \in DOMAIN image, Got(b)
  PROVE  /\ b \in Int
         /\ Tiled => InSegment(at, b)
         /\ Supported => image'[b] = Source(at, b)
<1>1. /\ DOMAIN image = 0 .. length - 1 /\ length \in Nat
      /\ at \in Segments /\ TypeOK
      /\ BlockOffset(at) \in Int /\ SegmentBytes(at) \in Nat
      /\ transfer'.count \in 0 .. SegmentBytes(at)
      /\ Placed /\ transfer'.count > 0 =>
           Place(at) \in Nat /\ transfer'.first = drive.start + Place(at)
  BY ReadFacts DEF TypeOK
<1>2. b \in Int
  BY <1>1
<1>3. BlockOffset(at) <= b /\ b < BlockOffset(at) + transfer'.count
  BY DEF Got
<1>4. transfer'.count > 0
  BY <1>1, <1>2, <1>3
<1>5. ASSUME Tiled
      PROVE  InSegment(at, b) /\ BlockOffset(at) = FirstByte(at)
  <2>1. BlockOffset(at) = FirstByte(at) /\ SegmentBytes(at) = Bytes(at)
    BY <1>1, <1>5, TiledFacts
  <2> QED
    BY <1>1, <1>2, <1>3, <2>1 DEF InSegment
<1>6. ASSUME Supported
      PROVE  image'[b] = Source(at, b)
  <2>1. image'[b] = transfer'.first + (b - BlockOffset(at))
    BY ReceivedBytes
  <2>2. Tiled /\ Placed
    BY <1>6 DEF Supported
  <2> QED
    BY <1>1, <1>4, <1>5, <2>1, <2>2 DEF Source
<1> QED
  BY <1>2, <1>5, <1>6

LEMMA ReadSegmentPreserves == IInv /\ ReadSegment => IInv'
<1> SUFFICES ASSUME IInv, ReadSegment
             PROVE  IInv'
  OBVIOUS
<1>1. /\ at \in Segments
      /\ TypeOK /\ WindowInv
      /\ DOMAIN image = 0 .. length - 1
      /\ Tiled => Measured(Len(segments), length)
      /\ BlockOffset(at) \in Int /\ SegmentBytes(at) \in Nat
      /\ transfer' \in [first : Nat, count : Nat]
      /\ short' \in {short, short \cup {at}}
      /\ at' = at + 1
      /\ UNCHANGED <<drive, descriptors, volume, linked, length>>
  BY ReadFacts
<1>2. /\ stage = "read" /\ stage' \in {"read", "overrun"}
      /\ DOMAIN image' = DOMAIN image
      /\ image' = [b \in DOMAIN image |-> image'[b]]
      /\ \A b \in DOMAIN image :
           image'[b] = IF Got(b) THEN transfer'.first + (b - BlockOffset(at))
                       ELSE image[b]
      /\ Tiled => stage' = "read"
  BY ReceivedBytes
<1>3. Len(segments) \in Nat /\ at \in 1 .. Len(segments)
  BY <1>1, VolumeFacts DEF Segments
<1>4. \A b \in DOMAIN image : Got(b) =>
        /\ image'[b] \in Nat
        /\ Placed => /\ drive.start <= image'[b]
                     /\ image'[b] < drive.start + drive.length
  <2> SUFFICES ASSUME NEW b \in DOMAIN image, Got(b)
               PROVE  /\ image'[b] \in Nat
                      /\ Placed => /\ drive.start <= image'[b]
                                   /\ image'[b] < drive.start + drive.length
    OBVIOUS
  <2> DEFINE k == b - BlockOffset(at)
  <2>1. b \in Int /\ drive.start \in Int /\ drive.length \in Nat
    BY <1>1, BelongsThere DEF TypeOK, DriveOK
  <2>2. image'[b] = transfer'.first + k
    BY <1>2
  <2>3. /\ k \in 0 .. transfer'.count - 1
        /\ transfer'.count \in 0 .. SegmentBytes(at)
        /\ transfer'.first \in Nat /\ transfer'.count \in Nat
    BY <1>1, <2>1, ReadFacts DEF Got
  <2> HIDE DEF k
  <2>4. image'[b] \in Nat
    BY <2>2, <2>3
  <2>5. ASSUME Placed
        PROVE  drive.start <= image'[b] /\ image'[b] < drive.start + drive.length
    <3>1. transfer'.count > 0 /\ k \in 0 .. SegmentBytes(at) - 1
      BY <1>1, <2>3
    <3>2. /\ Place(at) \in Nat
          /\ transfer'.first = drive.start + Place(at)
          /\ Place(at) + SegmentBytes(at) <= drive.length
      BY <2>5, <3>1, ReadFacts
    <3>3. Place(at) + k \in 0 .. drive.length - 1
      BY <1>1, <2>1, <3>1, <3>2, PartInWindow
    <3>4. image'[b] = drive.start + (Place(at) + k)
      BY <2>1, <2>2, <2>3, <3>2
    <3> QED
      BY <2>1, <3>3, <3>4
  <2> QED
    BY <2>4, <2>5
<1>5. TypeOK' /\ WindowInv'
  <2>1. \A b \in DOMAIN image : image'[b] \in Int
    BY <1>1, <1>2, <1>4 DEF TypeOK
  <2>2. image' \in [DOMAIN image' -> Int]
    BY <1>2, <2>1
  <2>3. at' \in 1 .. Len(segments') + 1
    BY <1>1, <1>3, SameGeometry
  <2> QED
    BY <1>1, <1>2, <2>2, <2>3, SameGeometry DEF TypeOK, DriveOK, WindowInv, Stages
<1>6. /\ LinkInv' /\ SizeInv' /\ EmptyInv' /\ OverrunInv'
      /\ CrashOnlyOnForeignVolume'
  BY <1>1, <1>2, SameGeometry
  DEF LinkInv, SizeInv, EmptyInv, OverrunInv, CrashOnlyOnForeignVolume
<1>7. ReadInv'
  <2>1. Segments \subseteq linked
    BY <1>2 DEF IInv, ReadInv
  <2> QED
    BY <1>1, <1>2, <2>1, SameGeometry DEF ReadInv, Measured
<1>8. JunkInv'
  <2> SUFFICES ASSUME Tiled, NEW b \in DOMAIN image', image'[b] = Junk
               PROVE  \E n \in Segments' :
                        InSegment(n, b)' /\ (n \in short' \/ n >= at')
    BY <1>1, <1>2, SameGeometry DEF JunkInv
  <2>1. ~ Got(b) /\ image[b] = Junk
    BY <1>2, <1>4 DEF Junk
  <2>2. PICK n \in Segments : InSegment(n, b) /\ (n \in short \/ n >= at)
    BY <1>2, <2>1 DEF IInv, JunkInv
  <2>3. n \in short' \/ n >= at'
    <3>1. CASE n \in short \/ n > at
      BY <1>1, <1>3, <2>2, <3>1, VolumeFacts DEF Segments
    <3>2. CASE n = at
      <4>1. stage' = "read"
        BY <1>2
      <4>2. BlockOffset(at) = FirstByte(at) /\ SegmentBytes(at) = Bytes(at)
        BY <1>1, TiledFacts
      <4>3. transfer'.count # SegmentBytes(at)
        BY <2>1, <2>2, <3>2, <4>1, <4>2 DEF InSegment, Got
      <4> QED
        BY <3>2, <4>3, ReadFacts
    <3> QED
      BY <1>3, <2>2, <3>1, <3>2 DEF Segments
  <2> QED
    BY <1>1, <2>2, <2>3, SameGeometry
<1>9. LinkedInv'
  BY <1>1, <1>2, SameGeometry DEF IInv, LinkedInv
<1>10. NoForeignByte'
  <2> SUFFICES ASSUME Supported, NEW b \in DOMAIN image', image'[b] # Junk
               PROVE  \E n \in Segments' :
                        InSegment(n, b)' /\ image'[b] = Source(n, b)'
    BY <1>1, SameGeometry DEF NoForeignByte
  <2>1. CASE Got(b)
    BY <1>1, <1>2, <2>1, BelongsThere, SameGeometry DEF Supported
  <2>2. CASE ~ Got(b)
    <3>1. PICK n \in Segments : InSegment(n, b) /\ image[b] = Source(n, b)
      BY <1>2, <2>2 DEF IInv, NoForeignByte
    <3> QED
      BY <1>1, <1>2, <2>2, <3>1, SameGeometry
  <2> QED
    BY <2>1, <2>2
<1>11. NothingOutsideWindow'
  BY <1>1, <1>2, <1>4, SameGeometry DEF IInv, NothingOutsideWindow
<1> QED
  BY <1>5, <1>6, <1>7, <1>8, <1>9, <1>10, <1>11 DEF IInv

\* The steps that end the call: only the stage moves.
LEMMA EndingPreserves ==
  IInv /\ (NoBlock \/ NoBytes \/ DivisionTrap \/ ReturnBlock) => IInv'
<1> SUFFICES ASSUME IInv, NoBlock \/ NoBytes \/ DivisionTrap \/ ReturnBlock
             PROVE  IInv'
  OBVIOUS
<1>1. /\ stage \in {"size", "read"} /\ stage' \in {"returned", "crashed"}
      /\ stage' = "crashed" => ExtentSize = 0
      /\ stage' = "returned" /\ stage = "read" => at = Len(segments) + 1
      /\ UNCHANGED <<drive, descriptors, transfer, volume, linked, at, length,
                     image, short>>
  BY DEF NoBlock, NoBytes, DivisionTrap, ReturnBlock, AllSegmentsRead
<1>2. TypeOK
  BY DEF IInv
<1>3. TypeOK'
  BY <1>1, <1>2, SameGeometry DEF TypeOK, DriveOK, Stages
<1>4. LinkInv' /\ SizeInv' /\ EmptyInv' /\ ReadInv' /\ OverrunInv'
  BY <1>1 DEF LinkInv, SizeInv, EmptyInv, ReadInv, OverrunInv
<1>5. JunkInv'
  <2> SUFFICES ASSUME Tiled, stage' = "returned", NEW b \in DOMAIN image, image[b] = Junk
               PROVE  \E n \in Segments : InSegment(n, b) /\ n \in short
    BY <1>1, SameGeometry DEF JunkInv
  <2>1. CASE stage = "size"
    BY <2>1 DEF IInv, EmptyInv, NoImage
  <2>2. CASE stage = "read"
    <3>1. PICK n \in Segments : InSegment(n, b) /\ (n \in short \/ n >= at)
      BY <2>2 DEF IInv, JunkInv
    <3>2. ~ n >= at
      BY <1>1, <1>2, <2>2, VolumeFacts DEF Segments
    <3> QED
      BY <3>1, <3>2
  <2> QED
    BY <1>1, <2>1, <2>2
<1>6. LinkedInv'
  BY <1>1, SameGeometry DEF IInv, LinkedInv
<1>7. WindowInv' /\ NoForeignByte' /\ NothingOutsideWindow'
  BY <1>1, SameBytes DEF IInv
<1>8. CrashOnlyOnForeignVolume'
  BY <1>1, SameGeometry DEF CrashOnlyOnForeignVolume
<1> QED
  BY <1>3, <1>4, <1>5, <1>6, <1>7, <1>8 DEF IInv

LEMMA StutterPreserves == IInv /\ UNCHANGED vars => IInv'
<1> SUFFICES ASSUME IInv, UNCHANGED vars
             PROVE  IInv'
  OBVIOUS
<1>1. UNCHANGED <<drive, descriptors, transfer, stage, volume, linked, at,
                  length, image, short>>
  BY DEF vars
<1>2. TypeOK' /\ LinkInv' /\ EmptyInv' /\ LinkedInv'
  BY <1>1, SameGeometry DEF IInv, TypeOK, DriveOK, LinkInv, EmptyInv, LinkedInv
<1>3. SizeInv' /\ ReadInv' /\ OverrunInv'
  BY <1>1, SameGeometry DEF IInv, SizeInv, ReadInv, OverrunInv, Measured
<1>4. JunkInv' /\ CrashOnlyOnForeignVolume'
  BY <1>1, SameGeometry DEF IInv, JunkInv, CrashOnlyOnForeignVolume
<1>5. WindowInv' /\ NoForeignByte' /\ NothingOutsideWindow'
  BY <1>1, SameBytes DEF IInv
<1> QED
  BY <1>2, <1>3, <1>4, <1>5 DEF IInv

\* Every step of readLogicalVolume preserves the inductive invariant.
LEMMA StepPreserves == IInv /\ [Next]_vars => IInv'
BY LinkStripesPreserves, SizeSegmentPreserves, AllocatePreserves,
   ReadSegmentPreserves, EndingPreserves, StutterPreserves
DEF Next, Over

\* A block that is returned with bytes is as long as its segments are, all of
\* which have a stripe.
ReturnInv ==
  (stage = "returned" /\ DOMAIN image # {}) =>
    /\ Tiled => Measured(Len(segments), length)
    /\ DOMAIN image = 0 .. length - 1
    /\ Segments \subseteq LinkedSegments

LEMMA ReturnPreserved == IInv /\ ReturnInv /\ [Next]_vars => ReturnInv'
<1> SUFFICES ASSUME IInv, ReturnInv, [Next]_vars,
                    stage' = "returned", DOMAIN image' # {}
             PROVE  /\ Tiled' => Measured(Len(segments), length)'
                    /\ DOMAIN image' = 0 .. length' - 1
                    /\ Segments' \subseteq LinkedSegments'
  BY DEF ReturnInv
<1>1. /\ stage = "read" \/ (stage = "returned" /\ DOMAIN image # {})
      /\ UNCHANGED <<volume, image, length>>
  <2>1. CASE NoBlock \/ NoBytes \/ ReturnBlock
    BY <2>1 DEF NoBlock, NoBytes, ReturnBlock, IInv, EmptyInv, NoImage
  <2>2. CASE Over \/ UNCHANGED vars
    BY <2>2 DEF Over, vars
  <2>3. CASE LinkStripes \/ SizeSegment \/ Allocate \/ DivisionTrap
    BY <2>3 DEF LinkStripes, SizeSegment, Allocate, DivisionTrap
  <2>4. CASE ReadSegment
    BY <2>4 DEF ReadSegment
  <2> QED
    BY <2>1, <2>2, <2>3, <2>4 DEF Next
<1>2. /\ Tiled => Measured(Len(segments), length)
      /\ DOMAIN image = 0 .. length - 1
      /\ Segments \subseteq LinkedSegments
  BY <1>1 DEF IInv, ReadInv, LinkedInv, ReturnInv
<1> QED
  BY <1>1, <1>2, SameGeometry DEF Measured

\* The inductive invariant holds throughout readLogicalVolume.
THEOREM Invariant == Spec => []IInv
BY InitEstablishes, StepPreserves, PTL DEF Spec

-----------------------------------------------------------------------------
(* The properties.                                                         *)

\* The values the code's variables take in readLogicalVolume.
THEOREM TypeCorrect == Spec => []TypeOK
BY Invariant, PTL DEF IInv

\* In the block of a linear volume with no extent in front of the partition, with
\* any number of segments in any order, a byte is junk or the byte of the volume
\* that belongs there, however reads are refused, fail or fall short
\* (parseMetadata.c:940-957).
THEOREM ForeignBytesExcluded == Spec => []NoForeignByte
BY Invariant, PTL DEF IInv

\* No byte from outside the partition's window (readaccess.c:87) reaches the
\* block, whatever extents the metadata names, as long as none of them starts in
\* front of the partition or has a place or an end that does not fit its type.
THEOREM WindowConfines == Spec => []NothingOutsideWindow
BY Invariant, PTL DEF IInv

\* The length summed up at parseMetadata.c:933-937 makes the block large
\* enough for every place the loop at 940-957 reads a segment to, in a volume
\* whose segments leave no gaps.
THEOREM ReadsFitBlock == Spec => []SegmentsFitBlock
<1>1. IInv => SegmentsFitBlock
  <2> SUFFICES ASSUME IInv, Tiled, stage = "read", NEW n \in Segments
               PROVE  0 <= BlockOffset(n) /\ BlockOffset(n) + SegmentBytes(n) <= length
    BY DEF IInv, OverrunInv, SegmentsFitBlock
  <2>1. BlockEnd(n) <= length
    BY DEF IInv, ReadInv, Measured, Segments
  <2>2. /\ FirstByte(n) \in Nat
        /\ BlockOffset(n) = FirstByte(n) /\ SegmentBytes(n) = Bytes(n)
    BY TiledFacts DEF IInv
  <2> QED
    BY <2>1, <2>2 DEF BlockEnd
<1> QED
  BY <1>1, Invariant, PTL

\* Junk in a returned block (parseMetadata.c:960) is the doing of a short or
\* failed read of the segment the junk byte belongs to.
THEOREM JunkExplained == Spec => []JunkOnlyFromShortReads
<1>1. IInv => JunkOnlyFromShortReads
  BY DEF IInv, JunkInv, JunkOnlyFromShortReads
<1> QED
  BY <1>1, Invariant, PTL

\* A volume whose segments all name the collected physical volume, and whose
\* extent size is not zero, is read without a crash (parseMetadata.c:906, 935
\* and 954).
THEOREM SupportedVolumesDoNotCrash == Spec => []CrashOnlyOnForeignVolume
BY Invariant, PTL DEF IInv

-----------------------------------------------------------------------------
(* That readLogicalVolume implements VolumeImage: every step of the        *)
(* assembly is a step of the image it promises, or leaves it as it was.    *)

\* The content of the volume is fixed by the metadata and the partition.
LEMMA SameContent ==
  ASSUME volume' = volume, drive' = drive
  PROVE  Content' = Content
<1>1. segments' = segments /\ Segments' = Segments
  BY SameGeometry
<1>2. VolumeBytes' = VolumeBytes
  BY <1>1, SameGeometry DEF VolumeBytes
<1>3. \A b : SegmentOf(b)' = SegmentOf(b)
  BY <1>1, SameGeometry DEF SegmentOf, InSegment, FirstByte, Bytes, ExtentSize
<1>4. \A b : Source(SegmentOf(b), b)' = Source(SegmentOf(b), b)
  BY <1>1, <1>3 DEF Source, Place, FirstByte, FirstStripe, ExtentSize
<1>5. Supported' <=> Supported
  BY SameGeometry
<1> QED
  BY <1>2, <1>4, <1>5 DEF Content, NoImage

\* The block is as long as the volume once its length is summed up.
LEMMA ContentLength ==
  ASSUME TypeOK, Supported, Measured(Len(segments), length)
  PROVE  Content = [b \in 0 .. length - 1 |-> Source(SegmentOf(b), b)]
<1>1. Len(segments) \in Nat /\ segments \in Seq(Segment)
  BY VolumeFacts
<1>2. length = VolumeBytes
  <2>1. segments = <<>> <=> Len(segments) = 0
    BY <1>1
  <2> QED
    BY <2>1 DEF Measured, VolumeBytes, BlockEnd
<1> QED
  BY <1>2 DEF Content

LEMMA OneSegment ==
  ASSUME TypeOK, Measured(Len(segments), length),
         NEW n \in Segments, NEW b \in Int, InSegment(n, b)
  PROVE  SegmentOf(b) = n
BY SegmentsDisjoint DEF SegmentOf

LEMMA InitRefines == Init => Abstract!Init
BY DEF Init, Abstract!Init, ImageStatus, PromisedImage, NoImage

\* A step that leaves volume, drive and image alone leaves the promise alone.
LEMMA SamePromise ==
  ASSUME UNCHANGED <<drive, volume, image>>
  PROVE  PromisedImage' = PromisedImage /\ Content' = Content
BY SameContent, SameGeometry DEF PromisedImage, NoImage

LEMMA AllocateRefines == IInv /\ Allocate => Abstract!Allocate
<1> SUFFICES ASSUME IInv, Allocate
             PROVE  Abstract!Allocate
  OBVIOUS
<1>1. /\ stage = "size" /\ stage' = "read" /\ at = Len(segments) + 1
      /\ image' = [b \in 0 .. length - 1 |-> Junk]
      /\ UNCHANGED <<drive, volume>>
  BY DEF Allocate
<1>2. TypeOK /\ (Tiled => Measured(at - 1, length))
  BY <1>1 DEF IInv, SizeInv
<1>3. at - 1 = Len(segments)
  BY <1>1, <1>2, VolumeFacts
<1>4. CASE Supported
  <2>1. DOMAIN Content = 0 .. length - 1
    BY <1>2, <1>3, <1>4, ContentLength DEF Supported
  <2>2. PromisedImage' = image'
    BY <1>1, <1>4, SameGeometry DEF PromisedImage
  <2> QED
    BY <1>1, <2>1, <2>2, SameContent DEF Abstract!Allocate, ImageStatus
<1>5. CASE ~ Supported
  <2>1. PromisedImage' = NoImage /\ Content = NoImage
    BY <1>1, <1>5, SameGeometry DEF PromisedImage, Content, NoImage
  <2> QED
    BY <1>1, <2>1, SameContent DEF Abstract!Allocate, ImageStatus, NoImage
<1> QED
  BY <1>4, <1>5

LEMMA ReadSegmentRefines ==
  IInv /\ ReadSegment => Abstract!Fill \/ Abstract!Abort
<1> SUFFICES ASSUME IInv, ReadSegment
             PROVE  Abstract!Fill \/ Abstract!Abort
  OBVIOUS
<1>1. /\ at \in Segments /\ TypeOK
      /\ DOMAIN image = 0 .. length - 1
      /\ Tiled => Measured(Len(segments), length)
      /\ UNCHANGED <<drive, volume>>
  BY ReadFacts
<1>2. /\ stage = "read" /\ stage' \in {"read", "overrun"}
      /\ DOMAIN image' = DOMAIN image
      /\ \A b \in DOMAIN image :
           image'[b] = IF Got(b) THEN transfer'.first + (b - BlockOffset(at))
                       ELSE image[b]
      /\ Tiled => stage' = "read"
  BY ReceivedBytes
<1>3. CASE ~ Supported
  <2>1. PromisedImage' = NoImage /\ PromisedImage = NoImage
    BY <1>1, <1>3, SameGeometry DEF PromisedImage, NoImage
  <2> QED
    BY <1>1, <1>2, <2>1, SameContent
    DEF Abstract!Fill, Abstract!Abort, ImageStatus, NoImage
<1>4. CASE Supported
  <2>1. Tiled /\ stage' = "read"
    BY <1>2, <1>4 DEF Supported
  <2>2. Content = [b \in DOMAIN image |-> Source(SegmentOf(b), b)]
    BY <1>1, <1>4, <2>1, ContentLength
  <2>3. ASSUME NEW b \in DOMAIN image
        PROVE  image'[b] \in {image[b], Content[b]}
    <3>1. CASE Got(b)
      <4>1. b \in Int /\ image'[b] = Source(at, b) /\ InSegment(at, b)
        BY <1>4, <2>1, <3>1, BelongsThere
      <4>2. SegmentOf(b) = at
        BY <1>1, <2>1, <4>1, OneSegment
      <4> QED
        BY <2>2, <4>1, <4>2
    <3>2. CASE ~ Got(b)
      BY <1>2, <3>2
    <3> QED
      BY <3>1, <3>2
  <2>4. PromisedImage = image /\ PromisedImage' = image'
    BY <1>1, <1>4, SameGeometry DEF PromisedImage
  <2> QED
    BY <1>1, <1>2, <2>1, <2>3, <2>4, SameContent DEF Abstract!Fill, ImageStatus
<1> QED
  BY <1>3, <1>4

LEMMA StepRefines == IInv /\ [Next]_vars => [Abstract!Next]_Abstract!vars
<1> SUFFICES ASSUME IInv, [Next]_vars
             PROVE  [Abstract!Next]_Abstract!vars
  OBVIOUS
<1> USE DEF Abstract!Next, Abstract!vars
<1>1. CASE LinkStripes
  <2>1. /\ stage = "link" /\ stage' \in {"size", "crashed"}
        /\ UNCHANGED <<drive, volume, image>>
    BY <1>1 DEF LinkStripes
  <2> QED
    BY <2>1, SamePromise DEF Abstract!Abort, ImageStatus
<1>2. CASE SizeSegment
  <2>1. /\ stage = "size" /\ stage' \in {"size", "crashed"}
        /\ UNCHANGED <<drive, volume, image>>
    BY <1>2 DEF SizeSegment
  <2> QED
    BY <2>1, SamePromise DEF Abstract!Abort, ImageStatus
<1>3. CASE NoBlock \/ NoBytes \/ ReturnBlock
  <2>1. /\ stage \in {"size", "read"} /\ stage' = "returned"
        /\ UNCHANGED <<drive, volume, image>>
    BY <1>3 DEF NoBlock, NoBytes, ReturnBlock
  <2> QED
    BY <2>1, SamePromise DEF Abstract!Return, ImageStatus
<1>4. CASE DivisionTrap
  <2>1. /\ stage = "read" /\ stage' = "crashed"
        /\ UNCHANGED <<drive, volume, image>>
    BY <1>4 DEF DivisionTrap
  <2> QED
    BY <2>1, SamePromise DEF Abstract!Abort, ImageStatus
<1>5. CASE Allocate
  BY <1>5, AllocateRefines
<1>6. CASE ReadSegment
  BY <1>6, ReadSegmentRefines
<1>7. CASE Over \/ UNCHANGED vars
  BY <1>7, SamePromise DEF Over, vars, ImageStatus
<1> QED
  BY <1>1, <1>2, <1>3, <1>4, <1>5, <1>6, <1>7 DEF Next

\* Reading a volume segment by segment (parseMetadata.c:890-961) implements
\* the promise of VolumeImage, for every linear volume: its segments follow one
\* another, have one stripe each, and lie at places that fit their type.
THEOREM Refinement == Spec => ImplementsVolumeImage
<1>1. Init => Abstract!Init
  BY InitRefines
<1>2. IInv /\ [Next]_vars => [Abstract!Next]_Abstract!vars
  BY StepRefines
<1> QED
  BY <1>1, <1>2, Invariant, PTL DEF Spec, ImplementsVolumeImage, Abstract!Spec
=============================================================================
