------------------------- MODULE MetadataAreaProofs -------------------------
(***************************************************************************)
(* Proofs about readPhysicalVolumeLabel and readMetadata for lists of any  *)
(* length, with an end or without, any number of raw locations with any    *)
(* offsets, any window and any outcome of the reads.                       *)
(***************************************************************************)
EXTENDS MetadataArea, SequenceTheorems, TLAPS

-----------------------------------------------------------------------------
(* The inductive invariant.                                                *)

\* The first list among descriptors ends just before s; the second one, which
\* starts at s, ends at e.
StartsAt(s, list) ==
  /\ s \in 2 .. Len(list) + 1 /\ IsZero(list[s - 1])
  /\ \A m \in 1 .. s - 2 : ~ IsZero(list[m])

EndsAt(s, e, list) ==
  /\ e \in s .. Len(list) /\ IsZero(list[e])
  /\ \A m \in s .. e - 1 : ~ IsZero(list[m])

\* The window is a part of what an off64_t addresses, and is not moved.
WindowInv == drive.start >= 0 /\ drive.start + drive.length <= SignBit

\* The scan starts with the first sector and passes those without a label.
ScanInv ==
  stage \in {"label", "scan"} =>
    /\ stage = "label" => sector = 1
    /\ cursor = 1
    /\ \A m \in 1 .. sector - 1 : ~ Matches(m)

\* It ends at the first label there is.
LabelInv ==
  stage \in {"skip", "count", "copy", "header", "locations"} =>
    sector \in 1 .. 4 /\ FirstLabel(sector)

\* The first list is walked to its end, and so is the second one, ...
SkipInv ==
  stage = "skip" =>
    /\ cursor \in 1 .. Len(Descriptors) + 1
    /\ \A m \in 1 .. cursor - 1 : ~ IsZero(Descriptors[m])

CountInv ==
  stage = "count" =>
    /\ StartsAt(mdaList, Descriptors)
    /\ cursor \in mdaList .. Len(Descriptors) + 1
    /\ \A m \in mdaList .. cursor - 1 : ~ IsZero(Descriptors[m])

\* ... which is copied from its start, with zeros behind what was copied.
CopyInv ==
  stage = "copy" =>
    LET end == mdaList + Len(blocks) - 1
    IN  /\ StartsAt(mdaList, Descriptors)
        /\ EndsAt(mdaList, end, Descriptors)
        /\ cursor \in mdaList .. end
        /\ \A n \in 1 .. Len(blocks) :
             blocks[n] = IF n <= cursor - mdaList THEN Descriptors[mdaList + n - 1]
                         ELSE Zero

BlocksInv ==
  stage \in {"header", "locations"} =>
    blocks = SecondList(Descriptors) /\ blocks # <<>>

\* The locations passed so far are used.
WalkInv ==
  /\ stage = "header" => cursor = 1
  /\ stage = "locations" =>
       /\ HeaderHere
       /\ cursor \in 1 .. MaxLocations + 1
       /\ \A m \in 1 .. cursor - 1 : ~ IsZero(Area.locations[m])

\* The text is as long as its location says, and at a place in the window if
\* its location says so.
Place == Area.start + Area.locations[text.location].offset

TextInPlace ==
  /\ text.length = Area.locations[text.location].length
  /\ text.count > 0 /\ Plain(Place, text.length) =>
       /\ text.first = drive.start + Place
       /\ text.first + text.count <= drive.start + drive.length

\* The text is the last active one of the locations passed so far.
TextInv ==
  /\ stage \notin {"locations", "returned"} => text = NoText
  /\ (stage = "locations" /\ text # NoText) =>
       /\ text.location \in ActiveLocations
       /\ \A n \in ActiveLocations : n < cursor => n <= text.location
       /\ TextInPlace
       /\ text.count <= text.length

IInv ==
  /\ TypeOK
  /\ WindowInv
  /\ ScanInv
  /\ LabelInv
  /\ SkipInv
  /\ CountInv
  /\ CopyInv
  /\ BlocksInv
  /\ WalkInv
  /\ TextInv
  /\ TextIsLastActive

-----------------------------------------------------------------------------
(* What the medium holds.                                                  *)

LEMMA BlockZero == Zero \in Block /\ IsZero(Zero)
BY DriveAssumption DEF Zero, Block, IsZero, Offsets, Lengths

LEMMA ZeroBlock == ASSUME NEW block \in Block, IsZero(block) PROVE block = Zero
BY DEF Zero, Block, IsZero

\* The descriptors of a label.
LEMMA DescriptorFacts ==
  ASSUME TypeOK, sector \in 1 .. 4
  PROVE  /\ Descriptors \in Seq(Block)
         /\ Len(Descriptors) \in Nat
         /\ DOMAIN Descriptors = 1 .. Len(Descriptors)
         /\ \A m \in 1 .. Len(Descriptors) : Descriptors[m] \in Block
<1>1. pv.labels[sector] \in Label
  BY MetadataAssumption DEF TypeOK
<1>2. Descriptors \in Seq(Block)
  BY <1>1 DEF Label, Descriptors
<1> QED
  BY <1>2

\* Where the walks over the lists end is the second list.
LEMMA SecondListIs ==
  ASSUME NEW list \in Seq(Block), NEW s \in Nat, NEW e \in Nat,
         StartsAt(s, list), EndsAt(s, e, list)
  PROVE  SecondList(list) = SubSeq(list, s, e)
<1>1. Len(list) \in Nat /\ DOMAIN list = 1 .. Len(list)
  OBVIOUS
<1>2. /\ Ends(list) \subseteq Nat
      /\ s - 1 \in Ends(list) /\ e \in Ends(list)
      /\ \A m \in Ends(list) : m >= s - 1
      /\ \A m \in Ends(list) : m > s - 1 => m >= e
  BY <1>1 DEF StartsAt, EndsAt, Ends
<1> DEFINE first == CHOOSE n \in Ends(list) : \A m \in Ends(list) : n <= m
<1>3. first = s - 1
  <2>1. \A m \in Ends(list) : s - 1 <= m
    BY <1>2
  <2>2. first \in Ends(list) /\ \A m \in Ends(list) : first <= m
    BY <1>2, <2>1
  <2> HIDE DEF first
  <2> QED
    BY <1>2, <2>1, <2>2
<1> DEFINE later == {n \in Ends(list) : n > first}
           second == CHOOSE n \in later : \A m \in later : n <= m
<1>4. second = e
  <2>1. /\ e \in later /\ \A m \in later : e <= m
        /\ later \subseteq Nat
    BY <1>2, <1>3 DEF EndsAt
  <2> HIDE DEF later
  <2>2. second \in later /\ \A m \in later : second <= m
    BY <2>1
  <2> HIDE DEF second
  <2> QED
    BY <2>1, <2>2
<1>5. SecondList(list) = SubSeq(list, first + 1, second)
  BY DEF SecondList
<1> HIDE DEF first, later, second
<1> QED
  BY <1>3, <1>4, <1>5

\* A header and the buffer that holds its locations.
LEMMA HeaderFacts ==
  ASSUME TypeOK, HeaderHere
  PROVE  /\ Area.locations \in Seq(Location)
         /\ Area.start \in Int
         /\ Len(Area.locations) = MaxLocations /\ MaxLocations \in Nat \ {0}
         /\ DOMAIN HeaderBuffer = 1 .. MaxLocations + 1
         /\ \A n \in 1 .. MaxLocations : HeaderBuffer[n] = Area.locations[n]
         /\ IsZero(HeaderBuffer[MaxLocations + 1])
<1>1. Area \in Header /\ Len(Area.locations) = MaxLocations
  BY MetadataAssumption DEF TypeOK, HeaderHere, Area
<1>2. Area.locations \in Seq(Location) /\ Area.start \in Int
  BY <1>1, DriveAssumption DEF Header, Offsets
<1>3. MaxLocations \in Nat \ {0}
  BY MetadataAssumption
<1>4. NoLocation \in Location /\ IsZero(NoLocation)
  BY DriveAssumption DEF NoLocation, Location, IsZero, Offsets, Lengths
<1>5. /\ Len(HeaderBuffer) = MaxLocations + 1
      /\ DOMAIN HeaderBuffer = 1 .. MaxLocations + 1
      /\ \A n \in 1 .. MaxLocations : HeaderBuffer[n] = Area.locations[n]
      /\ HeaderBuffer[MaxLocations + 1] = NoLocation
  BY <1>1, <1>2, <1>3, <1>4 DEF HeaderBuffer
<1> QED
  BY <1>1, <1>2, <1>3, <1>4, <1>5

-----------------------------------------------------------------------------
(* Reads.                                                                  *)

\* A number that fits is kept as it is.
LEMMA SmallRemainder ==
  \A n \in Int, w \in Nat \ {0} : 0 <= n /\ n < w => n % w = n
OBVIOUS

LEMMA WordsKeep ==
  ASSUME NEW n \in Int
  PROVE  /\ 0 <= n /\ n < 2 * SignBit => Unsigned(n) = n
         /\ -SignBit <= n /\ n < SignBit => Signed(n) = n
         /\ Signed(n) \in Int
<1>1. 0 <= n /\ n < 2 * SignBit => Unsigned(n) = n
  BY DriveAssumption, SmallRemainder DEF Unsigned
<1>2. -SignBit <= n /\ n < SignBit => Signed(n) = n
  BY DriveAssumption, SmallRemainder DEF Signed
<1>3. Signed(n) \in Int
  BY DriveAssumption DEF Signed
<1> QED
  BY <1>1, <1>2, <1>3

\* What a call of readDrive leaves, whatever it returned.
LEMMA ReadFacts ==
  ASSUME DriveOK, NEW offset \in Int, NEW length \in Nat,
         NEW result \in ReadResults(offset, length), ReadDrive(offset, result)
  PROVE  /\ DriveOK'
         /\ drive' = drive
         /\ transfer'.count \in 0 .. length
         /\ transfer'.first \in Nat
         /\ transfer'.count > 0 =>
              /\ Admitted(offset, length)
              /\ transfer'.first = Target(offset)
              /\ transfer'.first + transfer'.count <= MediaLength
<1>1. Target(offset) \in Int
  BY WordsKeep DEF DriveOK, Target
<1>2. /\ result \in -1 .. length
      /\ result > 0 => /\ Admitted(offset, length) /\ Target(offset) >= 0
                       /\ Target(offset) + result <= MediaLength
  BY DEF ReadResults
<1>3. /\ transfer' = IF result > 0 THEN [first |-> Target(offset), count |-> result]
                     ELSE [first |-> 0, count |-> 0]
      /\ UNCHANGED <<drive, descriptors>>
  BY DEF ReadDrive
<1>4. CASE result > 0
  <2>1. /\ transfer'.first = Target(offset) /\ transfer'.count = result
        /\ transfer' \in [first : Nat, count : Nat]
    BY <1>1, <1>2, <1>3, <1>4
  <2> QED
    BY <1>2, <1>3, <1>4, <2>1 DEF DriveOK
<1>5. CASE ~ (result > 0)
  <2>1. /\ transfer'.first = 0 /\ transfer'.count = 0
        /\ transfer' \in [first : Nat, count : Nat]
    BY <1>2, <1>3, <1>5
  <2> QED
    BY <1>3, <2>1 DEF DriveOK
<1> QED
  BY <1>4, <1>5

\* A plain request that is admitted is in the window, and is read there.
LEMMA PlainRead ==
  ASSUME TypeOK, WindowInv, NEW place \in Int, NEW length \in Nat \ {0},
         Plain(place, length), Admitted(Signed(place), length)
  PROVE  /\ Target(Signed(place)) = drive.start + place
         /\ place + length <= drive.length
<1>1. drive.start \in Int /\ drive.length \in Nat
  BY DEF TypeOK, DriveOK
<1>2. /\ 0 <= place /\ place < SignBit /\ place + length < 2 * SignBit
      /\ 0 <= drive.start /\ drive.start + drive.length <= SignBit
  BY <1>1, DriveAssumption DEF Plain, WindowInv
<1>3. Signed(place) = place
  BY <1>2, WordsKeep, DriveAssumption
<1>4. place + length <= drive.length
  <2>1. Unsigned(place + length) = place + length
    BY <1>2, WordsKeep
  <2> QED
    BY <1>3, <2>1 DEF Admitted
<1>5. drive.start + place < SignBit /\ drive.start + place >= -SignBit
  BY <1>1, <1>2, <1>4, DriveAssumption
<1>6. Signed(drive.start + place) = drive.start + place
  BY <1>1, <1>5, WordsKeep
<1> QED
  BY <1>3, <1>4, <1>6 DEF Target

-----------------------------------------------------------------------------
(* The actions of readPhysicalVolumeLabel.                                 *)

LEMMA InitEstablishes == Init => IInv
<1> SUFFICES ASSUME Init
             PROVE  IInv
  OBVIOUS
<1>1. PICK window \in Windows :
        drive = [status |-> "open", start |-> window.start, length |-> window.length]
  BY DEF Init
<1>2. window.start \in Nat /\ window.length \in Nat
      /\ window.start + window.length <= SignBit
  BY MetadataAssumption
<1>3. DriveOK /\ WindowInv
  BY <1>1, <1>2 DEF Init, DriveOK, Status, WindowInv
<1>4. NoText \in TextBlock
  BY DEF NoText, TextBlock
<1>5. TypeOK
  BY <1>3, <1>4 DEF Init, TypeOK, Stages
<1> QED
  BY <1>3, <1>5
  DEF Init, IInv, ScanInv, LabelInv, SkipInv, CountInv, CopyInv, BlocksInv, WalkInv,
      TextInv, TextIsLastActive

\* A call that ends before a text was taken leaves nothing to prove.
LEMMA EarlyEnd ==
  ASSUME TypeOK', WindowInv', stage' \in {"returned", "crashed"}, text' = NoText
  PROVE  IInv'
BY DEF IInv, ScanInv, LabelInv, SkipInv, CountInv, CopyInv, BlocksInv, WalkInv,
       TextInv, TextIsLastActive

LEMMA EndPreserves ==
  IInv /\ (NoLabelMemory \/ NoBlocksMemory \/ NoLabelFound \/ RunsOffMemory) => IInv'
<1> SUFFICES ASSUME IInv,
                    NoLabelMemory \/ NoBlocksMemory \/ NoLabelFound \/ RunsOffMemory
             PROVE  IInv'
  OBVIOUS
<1>1. /\ stage' \in {"returned", "crashed"}
      /\ UNCHANGED <<drive, descriptors, transfer, pv, sector, cursor, mdaList,
                     blocks, text>>
      /\ text' = NoText
  BY DEF IInv, TextInv, NoLabelMemory, NoBlocksMemory, NoLabelFound, RunsOffMemory
<1>2. TypeOK' /\ WindowInv'
  BY <1>1 DEF IInv, TypeOK, WindowInv, DriveOK, Stages
<1> QED
  BY <1>1, <1>2, EarlyEnd

LEMMA ReadLabelPreserves == IInv /\ ReadLabel => IInv'
<1> SUFFICES ASSUME IInv, ReadLabel
             PROVE  IInv'
  OBVIOUS
<1>1. LabelLength \in Nat
  BY DriveAssumption DEF LabelLength
<1>2. PICK result \in ReadResults(0, LabelLength) :
        /\ ReadDrive(0, result)
        /\ stage' = IF result = LabelLength THEN "scan" ELSE "returned"
  BY DEF ReadLabel
<1>3. DriveOK' /\ drive' = drive
  BY <1>1, <1>2, ReadFacts DEF IInv, TypeOK
<1>4. /\ stage = "label" /\ stage' \in {"scan", "returned"}
      /\ UNCHANGED <<pv, sector, cursor, mdaList, blocks, text>>
  BY <1>2 DEF ReadLabel
<1>5. TypeOK' /\ WindowInv'
  BY <1>3, <1>4 DEF IInv, TypeOK, WindowInv, Stages
<1>6. CASE stage' = "returned"
  BY <1>4, <1>5, <1>6, EarlyEnd DEF IInv, TextInv
<1>7. CASE stage' = "scan"
  BY <1>4, <1>5, <1>7
  DEF IInv, ScanInv, LabelInv, SkipInv, CountInv, CopyInv, BlocksInv, WalkInv,
      TextInv, TextIsLastActive
<1> QED
  BY <1>4, <1>6, <1>7

LEMMA ScanSectorPreserves == IInv /\ ScanSector => IInv'
<1> SUFFICES ASSUME IInv, ScanSector
             PROVE  IInv'
  OBVIOUS
<1>1. /\ stage = "scan" /\ sector \in 1 .. 4 /\ cursor = 1 /\ text = NoText
      /\ \A m \in 1 .. sector - 1 : ~ Matches(m)
      /\ UNCHANGED <<drive, descriptors, transfer, pv, cursor, mdaList, blocks,
                     text>>
  BY DEF IInv, ScanInv, TextInv, ScanSector
<1>2. \A m : Matches(m)' <=> Matches(m)
  BY <1>1 DEF Matches
<1>3. CASE Matches(sector)
  <2>1. stage' = "skip" /\ sector' = sector
    BY <1>3 DEF ScanSector
  <2>2. TypeOK' /\ WindowInv'
    BY <1>1, <2>1 DEF IInv, TypeOK, WindowInv, DriveOK, Stages
  <2>3. LabelInv'
    BY <1>1, <1>2, <1>3, <2>1 DEF LabelInv, FirstLabel
  <2>4. SkipInv'
    <3>1. Len(Descriptors) \in Nat
      BY <1>1, DescriptorFacts DEF IInv
    <3>2. Descriptors' = Descriptors
      BY <1>1, <2>1 DEF Descriptors
    <3> QED
      BY <1>1, <2>1, <3>1, <3>2 DEF SkipInv
  <2> QED
    BY <1>1, <2>1, <2>2, <2>3, <2>4
    DEF IInv, ScanInv, CountInv, CopyInv, BlocksInv, WalkInv, TextInv,
        TextIsLastActive
<1>4. CASE ~ Matches(sector)
  <2>1. stage' = "scan" /\ sector' = sector + 1
    BY <1>1, <1>4 DEF ScanSector, NextSector
  <2>2. TypeOK' /\ WindowInv'
    BY <1>1, <2>1 DEF IInv, TypeOK, WindowInv, DriveOK, Stages
  <2>3. ScanInv'
    BY <1>1, <1>2, <1>4, <2>1 DEF ScanInv
  <2> QED
    BY <1>1, <2>1, <2>2, <2>3
    DEF IInv, LabelInv, SkipInv, CountInv, CopyInv, BlocksInv, WalkInv, TextInv,
        TextIsLastActive
<1> QED
  BY <1>3, <1>4

\* While the lists of a label are walked, the label stays the first one.
LEMMA LabelKept ==
  ASSUME IInv, stage \in {"skip", "count", "copy"},
         UNCHANGED <<drive, descriptors, transfer, pv, sector, text>>
  PROVE  /\ sector \in 1 .. 4 /\ FirstLabel(sector)'
         /\ Descriptors' = Descriptors
         /\ Descriptors \in Seq(Block) /\ Len(Descriptors) \in Nat
         /\ DOMAIN Descriptors = 1 .. Len(Descriptors)
         /\ \A m \in 1 .. Len(Descriptors) : Descriptors[m] \in Block
         /\ text' = NoText
         /\ DriveOK' /\ WindowInv'
<1>1. sector \in 1 .. 4 /\ FirstLabel(sector)'
  BY DEF IInv, LabelInv, FirstLabel, Matches
<1>2. /\ Descriptors \in Seq(Block) /\ Len(Descriptors) \in Nat
      /\ DOMAIN Descriptors = 1 .. Len(Descriptors)
      /\ \A m \in 1 .. Len(Descriptors) : Descriptors[m] \in Block
  BY <1>1, DescriptorFacts DEF IInv
<1>3. Descriptors' = Descriptors
  BY DEF Descriptors
<1>4. text' = NoText /\ DriveOK' /\ WindowInv'
  BY DEF IInv, TextInv, TypeOK, DriveOK, WindowInv
<1> QED
  BY <1>1, <1>2, <1>3, <1>4

LEMMA SkipDataAreaPreserves == IInv /\ SkipDataArea => IInv'
<1> SUFFICES ASSUME IInv, SkipDataArea
             PROVE  IInv'
  OBVIOUS
<1>1. /\ stage = "skip" /\ cursor' = cursor + 1 /\ Readable
      /\ cursor \in 1 .. Len(Descriptors) + 1
      /\ \A m \in 1 .. cursor - 1 : ~ IsZero(Descriptors[m])
      /\ UNCHANGED <<drive, descriptors, transfer, pv, sector, blocks, text>>
  BY DEF IInv, SkipInv, SkipDataArea
<1>2. /\ sector \in 1 .. 4 /\ FirstLabel(sector)'
      /\ Descriptors' = Descriptors /\ Len(Descriptors) \in Nat
      /\ DOMAIN Descriptors = 1 .. Len(Descriptors)
      /\ text' = NoText
      /\ DriveOK' /\ WindowInv'
  BY <1>1, LabelKept
<1>3. cursor \in 1 .. Len(Descriptors)
  BY <1>1, <1>2 DEF Readable
<1>4. LabelInv'
  BY <1>1, <1>2 DEF LabelInv
<1>5. CASE AtEnd
  <2>1. stage' = "count" /\ mdaList' = cursor + 1
    BY <1>5 DEF SkipDataArea
  <2>2. StartsAt(cursor + 1, Descriptors)
    BY <1>1, <1>2, <1>3, <1>5 DEF StartsAt, AtEnd, SixteenBytesAreZero
  <2>3. CountInv'
    BY <1>1, <1>2, <1>3, <2>1, <2>2 DEF CountInv
  <2>4. TypeOK'
    BY <1>1, <1>2, <1>3, <2>1 DEF IInv, TypeOK, Stages
  <2> QED
    BY <1>1, <1>2, <1>4, <2>1, <2>3, <2>4
    DEF IInv, ScanInv, SkipInv, CopyInv, BlocksInv, WalkInv, TextInv, TextIsLastActive
<1>6. CASE ~ AtEnd
  <2>1. stage' = "skip" /\ mdaList' = mdaList
    BY <1>1, <1>6 DEF SkipDataArea
  <2>2. ~ IsZero(Descriptors[cursor])
    BY <1>6 DEF AtEnd, SixteenBytesAreZero
  <2>3. SkipInv'
    <3>1. \A m \in 1 .. cursor' - 1 : m \in 1 .. cursor - 1 \/ m = cursor
      BY <1>1, <1>3
    <3> QED
      BY <1>1, <1>2, <1>3, <2>2, <3>1 DEF SkipInv
  <2>4. TypeOK'
    BY <1>1, <1>2, <1>3, <2>1 DEF IInv, TypeOK, Stages
  <2> QED
    BY <1>1, <1>2, <1>4, <2>1, <2>3, <2>4
    DEF IInv, ScanInv, CountInv, CopyInv, BlocksInv, WalkInv, TextInv, TextIsLastActive
<1> QED
  BY <1>5, <1>6

LEMMA CountAreaPreserves == IInv /\ CountArea => IInv'
<1> SUFFICES ASSUME IInv, CountArea
             PROVE  IInv'
  OBVIOUS
<1>1. /\ stage = "count" /\ stage' = "count" /\ ~ AtEnd /\ cursor' = cursor + 1
      /\ Readable
      /\ StartsAt(mdaList, Descriptors)
      /\ cursor \in mdaList .. Len(Descriptors) + 1
      /\ \A m \in mdaList .. cursor - 1 : ~ IsZero(Descriptors[m])
      /\ UNCHANGED <<drive, descriptors, transfer, pv, sector, mdaList, blocks,
                     text>>
  BY DEF IInv, CountInv, CountArea
<1>2. /\ sector \in 1 .. 4 /\ FirstLabel(sector)'
      /\ Descriptors' = Descriptors /\ Len(Descriptors) \in Nat
      /\ DOMAIN Descriptors = 1 .. Len(Descriptors)
      /\ text' = NoText
      /\ DriveOK' /\ WindowInv'
  BY <1>1, LabelKept
<1>3. mdaList \in Nat /\ cursor \in mdaList .. Len(Descriptors)
  BY <1>1, <1>2 DEF Readable, IInv, TypeOK
<1>4. CountInv'
  <2>1. \A m \in mdaList .. cursor' - 1 : m \in mdaList .. cursor - 1 \/ m = cursor
    BY <1>1, <1>3
  <2>2. ~ IsZero(Descriptors[cursor])
    BY <1>1 DEF AtEnd, SixteenBytesAreZero
  <2>3. cursor' \in mdaList .. Len(Descriptors) + 1
    BY <1>1, <1>2, <1>3
  <2> QED
    BY <1>1, <1>2, <2>1, <2>2, <2>3 DEF CountInv
<1>5. TypeOK'
  <2>1. cursor' \in Nat \ {0}
    BY <1>1 DEF IInv, TypeOK
  <2> QED
    BY <1>1, <1>2, <2>1 DEF IInv, TypeOK
<1> QED
  BY <1>1, <1>2, <1>4, <1>5
  DEF IInv, ScanInv, LabelInv, SkipInv, CopyInv, BlocksInv, WalkInv, TextInv,
      TextIsLastActive

LEMMA AllocateBlocksPreserves == IInv /\ AllocateBlocks => IInv'
<1> SUFFICES ASSUME IInv, AllocateBlocks
             PROVE  IInv'
  OBVIOUS
<1>1. /\ stage = "count" /\ stage' = "copy" /\ AtEnd /\ cursor' = mdaList
      /\ Readable
      /\ StartsAt(mdaList, Descriptors)
      /\ cursor \in mdaList .. Len(Descriptors) + 1
      /\ \A m \in mdaList .. cursor - 1 : ~ IsZero(Descriptors[m])
      /\ blocks' = [n \in 1 .. BlockCapacity |-> Zero]
      /\ UNCHANGED <<drive, descriptors, transfer, pv, sector, mdaList, text>>
  BY DEF IInv, CountInv, AllocateBlocks
<1>2. /\ sector \in 1 .. 4 /\ FirstLabel(sector)'
      /\ Descriptors' = Descriptors /\ Len(Descriptors) \in Nat
      /\ DOMAIN Descriptors = 1 .. Len(Descriptors)
      /\ text' = NoText
      /\ DriveOK' /\ WindowInv'
  BY <1>1, LabelKept
<1>3. mdaList \in Nat \ {0} /\ cursor \in mdaList .. Len(Descriptors)
  BY <1>1, <1>2 DEF Readable, IInv, TypeOK, StartsAt
<1>4. BlockCapacity \in Nat \ {0} /\ mdaList + BlockCapacity - 1 = cursor
  BY <1>2, <1>3 DEF BlockCapacity
<1>5. blocks' \in Seq(Block) /\ Len(blocks') = BlockCapacity
      /\ \A n \in 1 .. BlockCapacity : blocks'[n] = Zero
  BY <1>1, <1>4, BlockZero
<1>6. EndsAt(mdaList, cursor, Descriptors)
  BY <1>1, <1>3 DEF EndsAt, AtEnd, SixteenBytesAreZero
<1>7. CopyInv'
  <2>1. mdaList' + Len(blocks') - 1 = cursor /\ cursor' - mdaList' = 0
    BY <1>1, <1>3, <1>4, <1>5
  <2>2. cursor' \in mdaList' .. cursor
    BY <1>1, <1>2, <1>3
  <2>3. \A n \in 1 .. Len(blocks') : blocks'[n] = Zero /\ ~ (n <= cursor' - mdaList')
    BY <1>5, <2>1
  <2> QED
    BY <1>1, <1>2, <1>6, <2>1, <2>2, <2>3 DEF CopyInv
<1>8. TypeOK'
  BY <1>1, <1>2, <1>3, <1>5 DEF IInv, TypeOK, Stages
<1> QED
  BY <1>1, <1>2, <1>7, <1>8
  DEF IInv, ScanInv, LabelInv, SkipInv, CountInv, BlocksInv, WalkInv, TextInv,
      TextIsLastActive

LEMMA CopyAreaPreserves == IInv /\ CopyArea => IInv'
<1> SUFFICES ASSUME IInv, CopyArea
             PROVE  IInv'
  OBVIOUS
<1> DEFINE end == mdaList + Len(blocks) - 1
           here == cursor - mdaList + 1
<1>1. /\ stage = "copy" /\ stage' = "copy" /\ ~ AtEnd /\ cursor' = cursor + 1
      /\ StartsAt(mdaList, Descriptors) /\ EndsAt(mdaList, end, Descriptors)
      /\ cursor \in mdaList .. end
      /\ \A n \in 1 .. Len(blocks) :
           blocks[n] = IF n <= cursor - mdaList THEN Descriptors[mdaList + n - 1]
                       ELSE Zero
      /\ blocks' = [blocks EXCEPT ![here] = Descriptors[cursor]]
      /\ UNCHANGED <<drive, descriptors, transfer, pv, sector, mdaList, text>>
  BY DEF IInv, CopyInv, CopyArea
<1>2. /\ sector \in 1 .. 4 /\ FirstLabel(sector)'
      /\ Descriptors' = Descriptors /\ Len(Descriptors) \in Nat
      /\ \A m \in 1 .. Len(Descriptors) : Descriptors[m] \in Block
      /\ text' = NoText
      /\ DriveOK' /\ WindowInv'
  BY <1>1, LabelKept
<1>3. mdaList \in Nat \ {0} /\ blocks \in Seq(Block) /\ Len(blocks) \in Nat
  BY <1>1 DEF IInv, TypeOK, StartsAt
<1>4. cursor \in mdaList .. end - 1 /\ cursor \in 1 .. Len(Descriptors)
  <2>1. cursor # end
    BY <1>1 DEF EndsAt, AtEnd, SixteenBytesAreZero
  <2>2. cursor \in mdaList .. end /\ end \in mdaList .. Len(Descriptors)
    BY <1>1 DEF EndsAt
  <2>3. end \in Int
    BY <1>3
  <2> HIDE DEF end
  <2> QED
    BY <1>2, <1>3, <2>1, <2>2, <2>3
<1>5. here \in 1 .. Len(blocks) /\ Descriptors[cursor] \in Block
      /\ mdaList + here - 1 = cursor
  BY <1>2, <1>3, <1>4
<1>6. blocks' \in Seq(Block) /\ Len(blocks') = Len(blocks)
      /\ \A n \in 1 .. Len(blocks) :
           blocks'[n] = IF n = here THEN Descriptors[cursor] ELSE blocks[n]
  <2> HIDE DEF here
  <2> QED
    BY <1>1, <1>3, <1>5, ExceptSeq
<1>7. CopyInv'
  <2>1. ASSUME NEW n \in 1 .. Len(blocks)
        PROVE  blocks'[n] = IF n <= cursor' - mdaList
                            THEN Descriptors[mdaList + n - 1] ELSE Zero
    <3>1. n <= cursor' - mdaList <=> n <= cursor - mdaList \/ n = here
      BY <1>1, <1>3, <1>4, <2>1
    <3>2. blocks'[n] = IF n = here THEN Descriptors[cursor] ELSE blocks[n]
      BY <1>6
    <3>3. blocks[n] = IF n <= cursor - mdaList THEN Descriptors[mdaList + n - 1]
                      ELSE Zero
      BY <1>1
    <3>4. CASE n = here
      BY <1>5, <3>1, <3>2, <3>4
    <3>5. CASE n # here
      BY <3>1, <3>2, <3>3, <3>5
    <3> QED
      BY <3>4, <3>5
  <2>2. mdaList' + Len(blocks') - 1 = end /\ cursor' \in mdaList .. end
    BY <1>1, <1>3, <1>4, <1>6
  <2> HIDE DEF end
  <2> QED
    BY <1>1, <1>2, <1>6, <2>1, <2>2 DEF CopyInv
<1>8. TypeOK'
  <2>1. cursor' \in Nat \ {0}
    BY <1>1 DEF IInv, TypeOK
  <2> QED
    BY <1>1, <1>2, <1>6, <2>1 DEF IInv, TypeOK
<1> QED
  BY <1>1, <1>2, <1>7, <1>8
  DEF IInv, ScanInv, LabelInv, SkipInv, CountInv, BlocksInv, WalkInv, TextInv,
      TextIsLastActive

LEMMA ReturnBlocksPreserves == IInv /\ ReturnBlocks => IInv'
<1> SUFFICES ASSUME IInv, ReturnBlocks
             PROVE  IInv'
  OBVIOUS
<1> DEFINE end == mdaList + Len(blocks) - 1
<1>1. /\ stage = "copy" /\ stage' = "header" /\ AtEnd /\ cursor' = 1
      /\ StartsAt(mdaList, Descriptors) /\ EndsAt(mdaList, end, Descriptors)
      /\ cursor \in mdaList .. end
      /\ \A n \in 1 .. Len(blocks) :
           blocks[n] = IF n <= cursor - mdaList THEN Descriptors[mdaList + n - 1]
                       ELSE Zero
      /\ UNCHANGED <<drive, descriptors, transfer, pv, sector, mdaList, blocks,
                     text>>
  BY DEF IInv, CopyInv, ReturnBlocks
<1>2. /\ sector \in 1 .. 4 /\ FirstLabel(sector)'
      /\ Descriptors' = Descriptors /\ Descriptors \in Seq(Block)
      /\ Len(Descriptors) \in Nat
      /\ \A m \in 1 .. Len(Descriptors) : Descriptors[m] \in Block
      /\ text' = NoText
      /\ DriveOK' /\ WindowInv'
  BY <1>1, LabelKept
<1>3. mdaList \in Nat \ {0} /\ blocks \in Seq(Block) /\ Len(blocks) \in Nat
  BY <1>1 DEF IInv, TypeOK, StartsAt
<1>4. cursor = end /\ Len(blocks) >= 1 /\ end \in 1 .. Len(Descriptors)
  <2>1. ~ (cursor \in mdaList .. end - 1)
    BY <1>1 DEF EndsAt, AtEnd, SixteenBytesAreZero
  <2> QED
    BY <1>1, <1>2, <1>3, <2>1 DEF EndsAt
<1>5. \A n \in 1 .. Len(blocks) : blocks[n] = Descriptors[mdaList + n - 1]
  <2> SUFFICES ASSUME NEW n \in 1 .. Len(blocks)
               PROVE  blocks[n] = Descriptors[mdaList + n - 1]
    OBVIOUS
  <2>1. CASE n <= cursor - mdaList
    BY <1>1, <2>1
  <2>2. CASE ~ (n <= cursor - mdaList)
    <3>1. mdaList + n - 1 = end
      BY <1>3, <1>4, <2>2
    <3>2. Descriptors[end] = Zero
      BY <1>1, <1>2, <1>4, ZeroBlock DEF EndsAt
    <3> QED
      BY <1>1, <2>2, <3>1, <3>2
  <2> QED
    BY <2>1, <2>2
<1>6. blocks = SubSeq(Descriptors, mdaList, end)
  <2> DEFINE copy == SubSeq(Descriptors, mdaList, end)
  <2>1. /\ copy \in Seq(Block) /\ Len(copy) = Len(blocks)
        /\ \A n \in 1 .. Len(blocks) : copy[n] = Descriptors[mdaList + n - 1]
    BY <1>2, <1>3, <1>4, SubSeqProperties
  <2> HIDE DEF copy
  <2>2. \A n \in 1 .. Len(blocks) : blocks[n] = copy[n]
    BY <1>5, <2>1
  <2>3. blocks = copy
    BY <1>3, <2>1, <2>2, SeqEqual
  <2> QED
    BY <2>3 DEF copy
<1>7. SecondList(Descriptors) = SubSeq(Descriptors, mdaList, end)
  <2>1. end \in Nat /\ mdaList \in Nat
    BY <1>2, <1>3, <1>4
  <2> QED
    BY <1>1, <1>2, <2>1, SecondListIs
<1>8. BlocksInv'
  <2>1. blocks # <<>>
    BY <1>3, <1>4
  <2>2. SecondList(Descriptors)' = SecondList(Descriptors)
    BY <1>2 DEF SecondList, Ends
  <2> QED
    BY <1>1, <1>6, <1>7, <2>1, <2>2 DEF BlocksInv
<1>9. TypeOK'
  BY <1>1, <1>2 DEF IInv, TypeOK, Stages
<1> QED
  BY <1>1, <1>2, <1>8, <1>9
  DEF IInv, ScanInv, LabelInv, SkipInv, CountInv, CopyInv, WalkInv, TextInv,
      TextIsLastActive

-----------------------------------------------------------------------------
(* The actions of readMetadata.                                            *)

\* The list of areas and the header stay what they are.
LEMMA MetadataKept ==
  ASSUME IInv, stage \in {"header", "locations"},
         UNCHANGED <<drive, pv, sector, blocks>>
  PROVE  /\ sector \in 1 .. 4 /\ FirstLabel(sector)'
         /\ SecondList(Descriptors)' = SecondList(Descriptors)
         /\ blocks = SecondList(Descriptors) /\ blocks # <<>>
         /\ HeaderHere' <=> HeaderHere
         /\ Area' = Area /\ ActiveLocations' = ActiveLocations
         /\ HeaderOffset \in Int
         /\ WindowInv'
<1>1. sector \in 1 .. 4 /\ FirstLabel(sector)
  BY DEF IInv, LabelInv
<1>2. FirstLabel(sector)' /\ Descriptors' = Descriptors
  BY <1>1 DEF FirstLabel, Matches, Descriptors
<1>3. SecondList(Descriptors)' = SecondList(Descriptors)
  BY <1>2 DEF SecondList, Ends
<1>4. blocks = SecondList(Descriptors) /\ blocks # <<>>
  BY DEF IInv, BlocksInv
<1>5. HeaderOffset' = HeaderOffset
  BY DEF HeaderOffset
<1>6. /\ HeaderHere' <=> HeaderHere
      /\ Area' = Area
  BY <1>5 DEF HeaderHere, Area
<1>7. ActiveLocations' = ActiveLocations
  BY <1>6 DEF ActiveLocations, UsedLocations
<1>8. HeaderOffset \in Int
  <2>1. blocks \in Seq(Block) /\ blocks # <<>>
    BY <1>4 DEF IInv, TypeOK
  <2>2. blocks[1] \in Block
    BY <2>1
  <2> QED
    BY <2>2, DriveAssumption DEF HeaderOffset, Block, Offsets
<1>9. WindowInv'
  BY DEF IInv, WindowInv
<1> QED
  BY <1>1, <1>2, <1>3, <1>4, <1>6, <1>7, <1>8, <1>9

LEMMA ReadHeaderPreserves == IInv /\ ReadHeader => IInv'
<1> SUFFICES ASSUME IInv, ReadHeader
             PROVE  IInv'
  OBVIOUS
<1>1. /\ stage = "header" /\ cursor = 1 /\ text = NoText
      /\ UNCHANGED <<pv, sector, cursor, mdaList, blocks, text>>
  BY DEF IInv, WalkInv, TextInv, ReadHeader
<1>2. PICK result \in ReadResults(HeaderOffset, HeaderLength) :
        /\ ReadDrive(HeaderOffset, result)
        /\ stage' = IF result = HeaderLength /\ HeaderHere /\ Area.signed
                    THEN "locations" ELSE "returned"
  BY DEF ReadHeader
<1>3. /\ sector \in 1 .. 4 /\ FirstLabel(sector)'
      /\ SecondList(Descriptors)' = SecondList(Descriptors)
      /\ blocks = SecondList(Descriptors) /\ blocks # <<>>
      /\ HeaderHere' <=> HeaderHere
      /\ Area' = Area
      /\ HeaderOffset \in Int
      /\ WindowInv'
  <2>1. UNCHANGED drive
    BY <1>2 DEF ReadDrive
  <2> QED
    BY <1>1, <2>1, MetadataKept
<1>4. HeaderLength \in Nat
  BY MetadataAssumption
<1>5. DriveOK'
  BY <1>2, <1>3, <1>4, ReadFacts DEF IInv, TypeOK
<1>6. /\ stage' \in {"locations", "returned"}
      /\ stage' = "locations" => HeaderHere
  BY <1>2
<1>7. TypeOK'
  BY <1>1, <1>5, <1>6 DEF IInv, TypeOK, Stages
<1>8. CASE stage' = "returned"
  BY <1>1, <1>3, <1>7, <1>8, EarlyEnd
<1>9. CASE stage' = "locations"
  <2>1. MaxLocations \in Nat \ {0}
    BY MetadataAssumption
  <2>2. WalkInv'
    BY <1>1, <1>3, <1>6, <1>9, <2>1 DEF WalkInv
  <2> QED
    BY <1>1, <1>3, <1>7, <1>9, <2>2
    DEF IInv, ScanInv, LabelInv, SkipInv, CountInv, CopyInv, BlocksInv, TextInv,
        TextIsLastActive
<1> QED
  BY <1>6, <1>8, <1>9

\* A location that does not end the list is used, and is where the cursor is.
LEMMA CurrentFacts ==
  ASSUME IInv, stage = "locations", ~ AtLastLocation
  PROVE  /\ HeaderHere
         /\ cursor \in 1 .. MaxLocations /\ MaxLocations \in Nat
         /\ Current = Area.locations[cursor]
         /\ Current \in Location
         /\ cursor \in UsedLocations
         /\ Area.start \in Int
<1>1. /\ HeaderHere /\ cursor \in 1 .. MaxLocations + 1
      /\ \A m \in 1 .. cursor - 1 : ~ IsZero(Area.locations[m])
  BY DEF IInv, WalkInv
<1>2. /\ Area.locations \in Seq(Location)
      /\ Area.start \in Int
      /\ Len(Area.locations) = MaxLocations /\ MaxLocations \in Nat
      /\ \A n \in 1 .. MaxLocations : HeaderBuffer[n] = Area.locations[n]
      /\ IsZero(HeaderBuffer[MaxLocations + 1])
  BY <1>1, HeaderFacts DEF IInv
<1>3. ~ IsZero(HeaderBuffer[cursor])
  BY DEF AtLastLocation, SixteenBytesAreZero, Current
<1>4. cursor \in 1 .. MaxLocations
  <2>1. cursor # MaxLocations + 1
    BY <1>2, <1>3
  <2>2. MaxLocations \in Nat
    BY <1>2
  <2> QED
    BY <1>1, <2>1, <2>2
<1>5. Current = Area.locations[cursor] /\ ~ IsZero(Area.locations[cursor])
  BY <1>2, <1>3, <1>4 DEF Current
<1>6. Current \in Location
  BY <1>2, <1>4, <1>5
<1>7. \A m \in 1 .. cursor : ~ IsZero(Area.locations[m])
  BY <1>1, <1>4, <1>5
<1> QED
  BY <1>1, <1>2, <1>4, <1>5, <1>6, <1>7 DEF UsedLocations

\* The walk goes on behind a used location.
LEMMA WalkGoesOn ==
  ASSUME IInv, stage = "locations", ~ AtLastLocation,
         cursor' = FollowingLocation, stage' = stage,
         UNCHANGED <<drive, pv, sector, blocks>>
  PROVE  LabelInv' /\ BlocksInv' /\ WalkInv' /\ WindowInv'
<1>1. /\ sector \in 1 .. 4 /\ FirstLabel(sector)'
      /\ SecondList(Descriptors)' = SecondList(Descriptors)
      /\ blocks = SecondList(Descriptors) /\ blocks # <<>>
      /\ HeaderHere' <=> HeaderHere
      /\ Area' = Area
      /\ WindowInv'
  BY MetadataKept
<1>2. /\ HeaderHere
      /\ cursor \in 1 .. MaxLocations /\ MaxLocations \in Nat
      /\ cursor \in UsedLocations
  BY CurrentFacts
<1>3. cursor' = cursor + 1
  BY DEF FollowingLocation
<1>4. \A m \in 1 .. cursor' - 1 : ~ IsZero(Area.locations[m])
  <2>1. \A m \in 1 .. cursor : ~ IsZero(Area.locations[m])
    BY <1>2 DEF UsedLocations
  <2> QED
    BY <1>2, <1>3, <2>1
<1>5. WalkInv'
  BY <1>1, <1>2, <1>3, <1>4 DEF WalkInv
<1> QED
  BY <1>1, <1>5 DEF LabelInv, BlocksInv

\* ... and the invariant is kept, whatever happened to the text.
LEMMA StepOfWalk ==
  ASSUME IInv, stage = "locations", ~ AtLastLocation,
         cursor' = FollowingLocation, stage' = stage,
         UNCHANGED <<drive, pv, sector, mdaList, blocks>>,
         DriveOK', text' \in TextBlock, TextInv'
  PROVE  IInv'
<1>1. LabelInv' /\ BlocksInv' /\ WalkInv' /\ WindowInv'
  BY WalkGoesOn
<1>2. cursor' \in Nat \ {0}
  BY DEF IInv, TypeOK, FollowingLocation
<1>3. TypeOK'
  BY <1>2 DEF IInv, TypeOK
<1> QED
  BY <1>1, <1>3 DEF IInv, ScanInv, SkipInv, CountInv, CopyInv, TextIsLastActive

LEMMA PassLocationPreserves == IInv /\ PassLocation => IInv'
<1> SUFFICES ASSUME IInv, PassLocation
             PROVE  IInv'
  OBVIOUS
<1>1. /\ stage = "locations" /\ stage' = stage
      /\ ~ AtLastLocation /\ ~ Current.active
      /\ cursor' = FollowingLocation
      /\ UNCHANGED <<drive, descriptors, transfer, pv, sector, mdaList, blocks,
                     text>>
  BY DEF PassLocation
<1>2. Area' = Area /\ ActiveLocations' = ActiveLocations
  BY <1>1, MetadataKept
<1>3. DriveOK' /\ text' \in TextBlock
  BY <1>1 DEF IInv, TypeOK, DriveOK
<1>4. /\ cursor \in Nat /\ Current = Area.locations[cursor]
      /\ ActiveLocations \subseteq Nat
  BY <1>1, CurrentFacts DEF IInv, TypeOK, ActiveLocations, UsedLocations
<1>5. \A n \in ActiveLocations : n < cursor' => n < cursor
  <2>1. cursor \notin ActiveLocations
    BY <1>1, <1>4 DEF ActiveLocations
  <2> QED
    BY <1>1, <1>4, <2>1 DEF FollowingLocation
<1>6. TextInv'
  <2>1. TextInPlace' <=> TextInPlace
    BY <1>1, <1>2 DEF TextInPlace, Place
  <2> QED
    BY <1>1, <1>2, <1>5, <2>1 DEF IInv, TextInv
<1> QED
  BY <1>1, <1>3, <1>6, StepOfWalk

\* A block that was allocated for the active location the cursor is at is the
\* text of the last active location so far.
LEMMA TextTaken ==
  ASSUME IInv, stage = "locations", ~ AtLastLocation, Current.active,
         cursor' = FollowingLocation, stage' = stage,
         UNCHANGED <<drive, pv, sector, blocks>>,
         text'.location = cursor, text'.length = Current.length,
         LET place == Area.start + Current.offset
         IN  text'.count > 0 /\ Plain(place, text'.length) =>
               /\ text'.first = drive.start + place
               /\ text'.first + text'.count <= drive.start + drive.length,
         text'.count <= text'.length
  PROVE  TextInv'
<1>1. Area' = Area /\ ActiveLocations' = ActiveLocations
  BY MetadataKept
<1>2. /\ cursor \in Nat /\ Current = Area.locations[cursor]
      /\ cursor \in UsedLocations
      /\ ActiveLocations \subseteq Nat
  BY CurrentFacts DEF IInv, TypeOK, ActiveLocations, UsedLocations
<1>3. cursor \in ActiveLocations
  BY <1>2 DEF ActiveLocations
<1>4. \A n \in ActiveLocations : n < cursor' => n <= text'.location
  BY <1>2 DEF FollowingLocation
<1>5. TextInPlace'
  BY <1>1, <1>2 DEF TextInPlace, Place, Plain
<1> QED
  BY <1>1, <1>2, <1>3, <1>4, <1>5 DEF TextInv

LEMMA NoTextMemoryPreserves == IInv /\ NoTextMemory => IInv'
<1> SUFFICES ASSUME IInv, NoTextMemory
             PROVE  IInv'
  OBVIOUS
<1>1. /\ stage = "locations" /\ stage' = stage
      /\ ~ AtLastLocation /\ Current.active
      /\ cursor' = FollowingLocation
      /\ text' \in {NoText, [NoText EXCEPT !.location = cursor,
                                         !.length = Current.length]}
      /\ UNCHANGED <<drive, descriptors, transfer, pv, sector, mdaList, blocks>>
  BY DEF NoTextMemory
<1>2. DriveOK'
  BY <1>1 DEF IInv, TypeOK, DriveOK
<1>3. cursor \in Nat /\ Current.length \in Nat
  BY <1>1, CurrentFacts, DriveAssumption DEF IInv, TypeOK, Location, Lengths
<1>4. CASE text' = NoText
  <2>1. TextInv'
    BY <1>1, <1>4 DEF TextInv
  <2>2. text' \in TextBlock
    BY <1>4 DEF NoText, TextBlock
  <2> QED
    BY <1>1, <1>2, <2>1, <2>2, StepOfWalk
<1>5. CASE text' = [NoText EXCEPT !.location = cursor, !.length = Current.length]
  <2>1. text' \in TextBlock
    BY <1>3, <1>5 DEF NoText, TextBlock
  <2>2. text'.location = cursor /\ text'.count = 0 /\ text'.length = Current.length
    BY <1>3, <1>5 DEF NoText
  <2>3. TextInv'
    BY <1>1, <1>3, <2>2, TextTaken
  <2> QED
    BY <1>1, <1>2, <2>1, <2>3, StepOfWalk
<1> QED
  BY <1>1, <1>4, <1>5

LEMMA TakeLocationPreserves == IInv /\ TakeLocation => IInv'
<1> SUFFICES ASSUME IInv, TakeLocation
             PROVE  IInv'
  OBVIOUS
<1>1. /\ stage = "locations" /\ stage' = stage
      /\ ~ AtLastLocation /\ Current.active
      /\ cursor' = FollowingLocation
      /\ text' = [location |-> cursor, bytes |-> TRUE, length |-> Current.length,
                  first |-> transfer'.first, count |-> transfer'.count]
      /\ UNCHANGED <<pv, sector, mdaList, blocks>>
  BY DEF TakeLocation
<1>2. /\ cursor \in Nat
      /\ Current.length \in Nat /\ Current.offset \in Int /\ Area.start \in Int
  BY <1>1, CurrentFacts, DriveAssumption
  DEF IInv, TypeOK, Location, Offsets, Lengths
<1> DEFINE place == Area.start + Current.offset
<1>3. /\ place \in Int /\ TextOffset = Signed(place) /\ TextOffset \in Int
      /\ TextRequest = Current.length
  BY <1>2, WordsKeep DEF TextOffset, TextRequest
<1>4. PICK result \in ReadResults(TextOffset, TextRequest) :
        ReadDrive(TextOffset, result)
  BY DEF TakeLocation
<1>5. /\ DriveOK' /\ drive' = drive
      /\ transfer'.count \in 0 .. Current.length
      /\ transfer'.first \in Nat
      /\ transfer'.count > 0 =>
           /\ Admitted(TextOffset, Current.length)
           /\ transfer'.first = Target(TextOffset)
  BY <1>2, <1>3, <1>4, ReadFacts DEF IInv, TypeOK
<1>6. text' \in TextBlock
  BY <1>1, <1>2, <1>5 DEF TextBlock
<1>7. /\ text'.location = cursor
      /\ text'.count = transfer'.count /\ text'.first = transfer'.first
      /\ text'.length = Current.length
      /\ text'.count <= text'.length
  BY <1>1, <1>5
<1>8. ASSUME text'.count > 0, Plain(place, text'.length)
      PROVE  /\ text'.first = drive.start + place
             /\ text'.first + text'.count <= drive.start + drive.length
  <2>1. /\ Current.length \in Nat \ {0}
        /\ Plain(place, Current.length)
        /\ Admitted(Signed(place), Current.length)
        /\ text'.first = Target(Signed(place))
    BY <1>2, <1>3, <1>5, <1>7, <1>8
  <2>2. /\ Target(Signed(place)) = drive.start + place
        /\ place + Current.length <= drive.length
    BY <1>3, <2>1, PlainRead DEF IInv
  <2>3. drive.start \in Int /\ drive.length \in Nat
    BY DEF IInv, TypeOK, DriveOK
  <2> HIDE DEF place
  <2> QED
    BY <1>2, <1>3, <1>5, <1>7, <2>1, <2>2, <2>3
<1>9. TextInv'
  BY <1>1, <1>5, <1>7, <1>8, TextTaken
<1> QED
  BY <1>1, <1>5, <1>6, <1>9, StepOfWalk

\* At the end of the list every used location has been passed.
LEMMA FinishLocationsPreserves == IInv /\ FinishLocations => IInv'
<1> SUFFICES ASSUME IInv, FinishLocations
             PROVE  IInv'
  OBVIOUS
<1>1. /\ stage = "locations" /\ stage' = "returned" /\ AtLastLocation
      /\ UNCHANGED <<drive, descriptors, transfer, pv, sector, cursor, mdaList,
                     blocks, text>>
  BY DEF FinishLocations
<1>2. Area' = Area /\ ActiveLocations' = ActiveLocations
  BY <1>1, MetadataKept
<1>3. /\ HeaderHere /\ cursor \in 1 .. MaxLocations + 1
  BY <1>1 DEF IInv, WalkInv
<1>4. /\ MaxLocations \in Nat
      /\ \A n \in 1 .. MaxLocations : HeaderBuffer[n] = Area.locations[n]
  BY <1>3, HeaderFacts DEF IInv
<1>5. \A n \in UsedLocations : n < cursor
  <2> SUFFICES ASSUME NEW n \in UsedLocations, ~ (n < cursor)
               PROVE  FALSE
    OBVIOUS
  <2>1. /\ n \in 1 .. MaxLocations
        /\ \A m \in 1 .. n : ~ IsZero(Area.locations[m])
    BY DEF UsedLocations
  <2>2. MaxLocations \in Nat
    BY <1>4
  <2>3. cursor \in 1 .. n /\ cursor \in 1 .. MaxLocations
    BY <1>3, <2>1, <2>2
  <2>4. IsZero(Area.locations[cursor])
    BY <1>1, <1>4, <2>3 DEF AtLastLocation, SixteenBytesAreZero, Current
  <2> QED
    BY <2>1, <2>3, <2>4
<1>6. TextIsLastActive'
  BY <1>1, <1>2, <1>5
  DEF IInv, TextInv, TextIsLastActive, ActiveLocations, TextInPlace, Place
<1>7. TypeOK' /\ WindowInv'
  BY <1>1 DEF IInv, TypeOK, WindowInv, DriveOK, Stages
<1> QED
  BY <1>1, <1>6, <1>7
  DEF IInv, ScanInv, LabelInv, SkipInv, CountInv, CopyInv, BlocksInv, WalkInv, TextInv

LEMMA StutterPreserves == IInv /\ UNCHANGED vars => IInv'
<1> SUFFICES ASSUME IInv, UNCHANGED vars
             PROVE  IInv'
  OBVIOUS
<1>1. UNCHANGED <<drive, descriptors, transfer, stage, pv, sector, cursor,
                  mdaList, blocks, text>>
  BY DEF vars
<1>2. /\ Descriptors' = Descriptors
      /\ HeaderHere' <=> HeaderHere
      /\ Area' = Area
      /\ FirstLabel(sector)' <=> FirstLabel(sector)
      /\ \A n : Matches(n)' <=> Matches(n)
  BY <1>1
  DEF Descriptors, HeaderHere, Area, HeaderOffset, FirstLabel, Matches
<1>3. /\ ActiveLocations' = ActiveLocations
      /\ SecondList(Descriptors)' = SecondList(Descriptors)
      /\ TextInPlace' <=> TextInPlace
  BY <1>1, <1>2
  DEF ActiveLocations, UsedLocations, SecondList, Ends, TextInPlace, Place
<1>4. TypeOK' /\ WindowInv' /\ ScanInv' /\ LabelInv'
  BY <1>1, <1>2 DEF IInv, TypeOK, WindowInv, DriveOK, ScanInv, LabelInv
<1>5. SkipInv' /\ CountInv'
  BY <1>1, <1>2 DEF IInv, SkipInv, CountInv, StartsAt
<1>6. CopyInv' /\ BlocksInv' /\ WalkInv'
  BY <1>1, <1>2, <1>3 DEF IInv, CopyInv, BlocksInv, WalkInv, StartsAt, EndsAt
<1>7. TextInv' /\ TextIsLastActive'
  BY <1>1, <1>2, <1>3 DEF IInv, TextInv, TextIsLastActive
<1> QED
  BY <1>4, <1>5, <1>6, <1>7 DEF IInv

\* Every step of both readers preserves the inductive invariant.
LEMMA StepPreserves == IInv /\ [Next]_vars => IInv'
BY StutterPreserves, EndPreserves, ReadLabelPreserves, ScanSectorPreserves,
   SkipDataAreaPreserves, CountAreaPreserves, AllocateBlocksPreserves, CopyAreaPreserves, ReturnBlocksPreserves,
   ReadHeaderPreserves, PassLocationPreserves, NoTextMemoryPreserves,
   TakeLocationPreserves, FinishLocationsPreserves
DEF Next, Over

-----------------------------------------------------------------------------
(* Where a text comes from.                                                *)

\* A text that is returned was found by way of the first label on the
\* partition and of the first area the label lists; it is one of the texts the
\* area's header points to, and if the offsets on the medium add up to a place
\* behind the start of the partition it comes from there and from nowhere
\* outside the partition.
OriginInv ==
  (stage = "returned" /\ text # NoText) =>
    /\ sector \in 1 .. 4 /\ FirstLabel(sector)
    /\ blocks = SecondList(Descriptors) /\ blocks # <<>>
    /\ HeaderHere
    /\ text.location \in ActiveLocations
    /\ TextInPlace

\* The bytes of a text are the medium's.
MediaInv == text.count > 0 => text.first + text.count <= MediaLength

LEMMA OriginPreserved == IInv /\ OriginInv /\ [Next]_vars => OriginInv'
<1> SUFFICES ASSUME IInv, OriginInv, [Next]_vars, stage' = "returned", text' # NoText
             PROVE  /\ sector' \in 1 .. 4 /\ FirstLabel(sector)'
                    /\ blocks' = SecondList(Descriptors)' /\ blocks' # <<>>
                    /\ HeaderHere'
                    /\ text'.location \in ActiveLocations'
                    /\ TextInPlace'
  BY DEF OriginInv
<1>1. /\ stage = "locations" \/ stage = "returned"
      /\ text # NoText
      /\ UNCHANGED <<drive, pv, sector, blocks, text>>
  <2>1. CASE FinishLocations
    BY <2>1 DEF FinishLocations
  <2>2. CASE Over \/ UNCHANGED vars
    BY <2>2 DEF IInv, TextInv, Over, vars
  <2>3. CASE NoLabelMemory \/ ReadLabel \/ ScanSector \/ NoLabelFound
    BY <2>3 DEF IInv, TextInv, NoLabelMemory, ReadLabel, ScanSector, NoLabelFound
  <2>4. CASE SkipDataArea \/ CountArea \/ AllocateBlocks \/ NoBlocksMemory
    BY <2>4
    DEF IInv, TextInv, SkipDataArea, CountArea, AllocateBlocks, NoBlocksMemory
  <2>5. CASE CopyArea \/ ReturnBlocks \/ ReadHeader \/ RunsOffMemory
    BY <2>5 DEF IInv, TextInv, CopyArea, ReturnBlocks, ReadHeader, RunsOffMemory
  <2>6. CASE PassLocation \/ NoTextMemory \/ TakeLocation
    BY <2>6 DEF PassLocation, NoTextMemory, TakeLocation
  <2> QED
    BY <2>1, <2>2, <2>3, <2>4, <2>5, <2>6 DEF Next
<1>2. /\ sector \in 1 .. 4 /\ FirstLabel(sector)
      /\ blocks = SecondList(Descriptors) /\ blocks # <<>>
      /\ HeaderHere
      /\ text.location \in ActiveLocations
      /\ TextInPlace
  BY <1>1 DEF IInv, LabelInv, BlocksInv, WalkInv, TextInv, OriginInv
<1>3. /\ FirstLabel(sector)' <=> FirstLabel(sector)
      /\ SecondList(Descriptors)' = SecondList(Descriptors)
      /\ HeaderHere' <=> HeaderHere
      /\ Area' = Area
  BY <1>1
  DEF FirstLabel, Matches, SecondList, Ends, Descriptors, HeaderHere, Area,
      HeaderOffset
<1>4. ActiveLocations' = ActiveLocations /\ (TextInPlace' <=> TextInPlace)
  BY <1>1, <1>3 DEF ActiveLocations, UsedLocations, TextInPlace, Place
<1> QED
  BY <1>1, <1>2, <1>3, <1>4

LEMMA MediaPreserved == IInv /\ MediaInv /\ [Next]_vars => MediaInv'
<1> SUFFICES ASSUME IInv, MediaInv, [Next]_vars, text'.count > 0
             PROVE  text'.first + text'.count <= MediaLength
  BY DEF MediaInv
<1>1. CASE TakeLocation
  <2>1. /\ stage = "locations" /\ ~ AtLastLocation
        /\ text'.first = transfer'.first /\ text'.count = transfer'.count
    BY <1>1 DEF TakeLocation
  <2>2. PICK result \in ReadResults(TextOffset, TextRequest) :
          ReadDrive(TextOffset, result)
    BY <1>1 DEF TakeLocation
  <2>3. TextOffset \in Int /\ TextRequest \in Nat
    <3>1. Area.start \in Int /\ Current.offset \in Int /\ Current.length \in Nat
      BY <2>1, CurrentFacts, DriveAssumption DEF Location, Offsets, Lengths
    <3> QED
      BY <3>1, WordsKeep DEF TextOffset, TextRequest
  <2>4. DriveOK /\ transfer'.count > 0
    BY <2>1 DEF IInv, TypeOK
  <2>5. transfer'.first + transfer'.count <= MediaLength
    BY <2>2, <2>3, <2>4, ReadFacts
  <2> QED
    BY <2>1, <2>5
<1>2. CASE NoTextMemory
  <2>1. text' \in {NoText, [NoText EXCEPT !.location = cursor,
                                         !.length = Current.length]}
    BY <1>2 DEF NoTextMemory
  <2>2. CASE text' = NoText
    BY <2>2 DEF NoText
  <2>3. CASE text' = [NoText EXCEPT !.location = cursor, !.length = Current.length]
    <3>1. text'.count = 0
      BY <2>3 DEF NoText
    <3> QED
      BY <3>1
  <2> QED
    BY <2>1, <2>2, <2>3
<1>3. CASE text' = text
  BY <1>3 DEF MediaInv
<1>4. CASE NoLabelMemory \/ ReadLabel \/ ScanSector \/ NoLabelFound
  BY <1>3, <1>4 DEF NoLabelMemory, ReadLabel, ScanSector, NoLabelFound
<1>5. CASE SkipDataArea \/ CountArea \/ RunsOffMemory \/ AllocateBlocks \/ NoBlocksMemory
  BY <1>3, <1>5
  DEF SkipDataArea, CountArea, RunsOffMemory, AllocateBlocks, NoBlocksMemory
<1>6. CASE CopyArea \/ ReturnBlocks \/ ReadHeader \/ PassLocation \/ FinishLocations
  BY <1>3, <1>6 DEF CopyArea, ReturnBlocks, ReadHeader, PassLocation, FinishLocations
<1>7. CASE Over \/ UNCHANGED vars
  BY <1>3, <1>7 DEF Over, vars
<1> QED
  BY <1>1, <1>2, <1>4, <1>5, <1>6, <1>7 DEF Next

-----------------------------------------------------------------------------
(* The theorems.                                                           *)

\* The inductive invariant holds for every medium, window and outcome of the
\* reads and allocations.
THEOREM Invariant == Spec => []IInv
BY InitEstablishes, StepPreserves, PTL DEF Spec

\* Type correctness of both readers.
THEOREM TypeCorrect == Spec => []TypeOK
BY Invariant, PTL DEF IInv

\* For lists of any length, readMetadata is given the metadata list of the
\* first label on the partition (readlogicalvolume.c:280-326).
THEOREM BlocksAreFirstLabels == Spec => []BlocksOfFirstLabel
<1>1. IInv => BlocksOfFirstLabel
  BY DEF IInv, LabelInv, BlocksInv, BlocksOfFirstLabel, Descriptors
<1> QED
  BY <1>1, Invariant, PTL

\* For any number of raw locations, the walk over them stays in the buffer
\* (readlogicalvolume.c:183-242).
THEOREM WalkConfined == Spec => []WalkStaysInHeader
<1>1. IInv => WalkStaysInHeader
  BY HeaderFacts DEF IInv, WalkInv, WalkStaysInHeader
<1> QED
  BY <1>1, Invariant, PTL

\* For any list of raw locations and whatever was read for those before it,
\* the text that is returned is the last active one's
\* (readlogicalvolume.c:205-250).
THEOREM TextOfLastActive == Spec => []TextIsLastActive
BY Invariant, PTL DEF IInv

\* The text that is returned was found by way of the first label and of the
\* first area it lists; where the offsets on the medium add up to a place behind
\* the partition's start, it was read from that place and from inside the
\* partition; and its bytes are always the medium's (readlogicalvolume.c:172-250).
THEOREM TextHasOrigin == Spec => [](OriginInv /\ MediaInv)
<1>1. Init => OriginInv /\ MediaInv
  BY DEF Init, OriginInv, MediaInv, NoText
<1>2. IInv /\ (OriginInv /\ MediaInv) /\ [Next]_vars => (OriginInv /\ MediaInv)'
  BY OriginPreserved, MediaPreserved
<1> QED
  BY <1>1, <1>2, Invariant, PTL DEF Spec
=============================================================================
