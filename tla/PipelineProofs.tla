--------------------------- MODULE PipelineProofs ---------------------------
(***************************************************************************)
(* Proofs about main's chain of stages, for every partition table, every   *)
(* physical volume with its labels, areas and texts, and every logical     *)
(* volume they describe, and for any outcome of every read and allocation. *)
(*                                                                         *)
(* What is proved of the three stages that read carries over: each keeps   *)
(* its own inductive invariant while it runs, and the others' meanwhile.   *)
(* The invariant of the chain says what one stage hands to the next.       *)
(***************************************************************************)
EXTENDS Pipeline, FiniteSetTheorems, SequenceTheorems, TLAPS

PG == INSTANCE PartitionTableProofs WITH stage <- gptStage

PM == INSTANCE MetadataAreaProofs WITH stage <- areaStage, Windows <- {}

PA == INSTANCE VolumeAssemblyProofs WITH stage <- blockStage, Windows <- {}

-----------------------------------------------------------------------------
(* The inductive invariant.                                                *)

\* closeDrive closes a descriptor that was opened.
OpenInv == drive.status = "open" => descriptors > 0

\* The search is over exactly when main has called the label reader or given
\* up, and its selection stays as it is from then on.
SearchInv ==
  /\ PG!TypeOK /\ PG!SelectionIsLVM
  /\ phase = "readGPT" => PG!IInv
  /\ ~ gpt.signed => drive.start = 0 /\ drive.length \in {0, InitialWindow}

\* The later stages start on the state they have in Init.
WaitingInv ==
  /\ phase = "readGPT" => areaStage = "label"
  /\ phase \in {"readGPT", "label and metadata", "parse"} =>
       blockStage = "link" /\ linked = {} /\ short = {}
  /\ phase \notin {"close", "exited"} => file = NoFile

\* The label reader is handed the window over what is read there.
WindowInv == phase \notin {"readGPT", "died"} => pv = ContentAt(drive.start)

\* No text is found from the start of the medium on.
TextInv ==
  /\ PM!OriginInv /\ PM!MediaInv
  /\ (phase # "readGPT" /\ drive.start = 0) => text = PM!NoText /\ areaStage # "locations"

\* main goes on only with a text, and to the file only with a block.
HandoverInv ==
  /\ phase \in {"parse", "readLogicalVolume", "write"} =>
       areaStage = "returned" /\ text # PM!NoText
  /\ phase = "write" => blockStage = "returned"
  /\ (/\ phase \in {"readLogicalVolume", "write"} /\ TextComplete /\ ~ damaged
      /\ text.first \in DOMAIN Described) =>
       volume = Described[text.first]

FileOK ==
  /\ file \in [created : BOOLEAN, bytes : [DOMAIN file.bytes -> Int]]
  /\ damaged \in BOOLEAN

IInv ==
  /\ phase \in Phases /\ FileOK
  /\ OpenInv
  /\ SearchInv
  /\ WaitingInv
  /\ WindowInv
  /\ PM!IInv
  /\ TextInv
  /\ PA!IInv
  /\ PA!ReturnInv
  /\ HandoverInv
  /\ FileFromLVMPartition
  /\ FileIsVolume
-----------------------------------------------------------------------------
(* What is proved of the stages, as it is used here.                       *)

\* The assumptions of the stages' modules.
LEMMA StageAssumptions ==
  /\ PG!DriveAssumption /\ PG!GPTAssumption
  /\ PM!DriveAssumption /\ PM!MetadataAssumption
  /\ PA!DriveAssumption /\ PA!VolumeAssumption
<1>1. PG!DriveAssumption /\ PM!DriveAssumption /\ PA!DriveAssumption
  BY DriveAssumption DEF PG!DriveAssumption, PM!DriveAssumption, PA!DriveAssumption
<1>2. PG!GPTAssumption
  BY PipelineAssumption
  DEF G!GPTAssumption, PG!GPTAssumption, G!Header, PG!Header, G!Entry, PG!Entry,
      G!Kinds, PG!Kinds, G!TableOffset, PG!TableOffset, G!TableLength, PG!TableLength
<1>3. PM!MetadataAssumption
  BY PipelineAssumption
  DEF M!MetadataAssumption, PM!MetadataAssumption, M!Label, PM!Label, M!Block,
      PM!Block, M!Header, PM!Header, M!Location, PM!Location, M!Offsets,
      PM!Offsets, M!Lengths, PM!Lengths
<1>4. PA!VolumeAssumption
  BY PipelineAssumption
  DEF A!VolumeAssumption, PA!VolumeAssumption, A!Volume, PA!Volume, A!Segment,
      PA!Segment, A!Stripe, PA!Stripe, A!Offsets, PA!Offsets, A!Lengths,
      PA!Lengths
<1> QED
  BY <1>1, <1>2, <1>3, <1>4

LEMMA SearchStep == PG!IInv /\ [PG!Next]_PG!vars => PG!IInv'
BY PG!StepPreserves, StageAssumptions

LEMMA MetadataStep ==
  /\ PM!IInv /\ [PM!Next]_PM!vars => PM!IInv'
  /\ PM!IInv /\ PM!OriginInv /\ [PM!Next]_PM!vars => PM!OriginInv'
  /\ PM!IInv /\ PM!MediaInv /\ [PM!Next]_PM!vars => PM!MediaInv'
BY PM!StepPreserves, PM!OriginPreserved, PM!MediaPreserved, StageAssumptions

LEMMA AssemblyStep ==
  /\ PA!IInv /\ [PA!Next]_PA!vars => PA!IInv'
  /\ PA!IInv /\ PA!ReturnInv /\ [PA!Next]_PA!vars => PA!ReturnInv'
BY PA!StepPreserves, PA!ReturnPreserved, StageAssumptions

-----------------------------------------------------------------------------
(* The stages' modules and the modules of their proofs define the same.    *)

LEMMA SameSearch ==
  /\ G!LVMEntries = PG!LVMEntries
  /\ PG!TypeOK => G!TypeOK
BY DEF G!LVMEntries, PG!LVMEntries, G!Listed, PG!Listed, G!TypeOK, PG!TypeOK,
    G!DriveOK, PG!DriveOK, G!Status, PG!Status, G!Stages, PG!Stages

LEMMA SameSearchInit == G!Init => PG!Init
BY DEF G!Init, PG!Init, G!DriveInit, PG!DriveInit

LEMMA SameSearchReads ==
  /\ \A offset, size :
       G!ReadResults(offset, size) = PG!ReadResults(offset, size)
  /\ \A offset, result :
       G!ReadDrive(offset, result) => PG!ReadDrive(offset, result)
BY DEF G!ReadResults, PG!ReadResults, G!ReadDrive, PG!ReadDrive, G!Admitted,
    PG!Admitted, G!Target, PG!Target, G!Unsigned, PG!Unsigned, G!Signed, PG!Signed

LEMMA SameSearchNext == G!Next => [PG!Next]_PG!vars
<1>1. G!Open => PG!Open
  BY DEF G!Open, PG!Open, G!OpenDrive, PG!OpenDrive, G!OpenFails, PG!OpenFails,
      G!OpenUnsized, PG!OpenUnsized, G!OpenLosesDescriptor,
      PG!OpenLosesDescriptor, G!OpenSucceeds, PG!OpenSucceeds, G!NullDrive,
      PG!NullDrive
<1>2. G!OutOfMemory => PG!OutOfMemory
  BY DEF G!OutOfMemory, PG!OutOfMemory
<1>3. G!ReadHeader => PG!ReadHeader
  BY SameSearchReads
  DEF G!ReadHeader, PG!ReadHeader, G!HeaderAccepted, PG!HeaderAccepted,
      G!CheckCRC32, PG!CheckCRC32
<1>4. G!WindowTable => PG!WindowTable
  BY DEF G!WindowTable, PG!WindowTable, G!SetPartition, PG!SetPartition,
      G!TableWindow, PG!TableWindow, G!TableOffset, PG!TableOffset,
      G!TableLength, PG!TableLength
<1>5. G!ReadTable => PG!ReadTable
  BY SameSearchReads
  DEF G!ReadTable, PG!ReadTable, G!TableRead, PG!TableRead, G!TableOffset,
      PG!TableOffset, G!TableLength, PG!TableLength
<1>6. G!FinishWalk => PG!FinishWalk
  BY DEF G!FinishWalk, PG!FinishWalk, G!WalkOver, PG!WalkOver, G!Current,
      PG!Current
<1>7. G!SelectEntry => PG!SelectEntry
  BY DEF G!SelectEntry, PG!SelectEntry, G!WalkOver, PG!WalkOver, G!Current,
      PG!Current, G!SetPartition, PG!SetPartition, G!PartitionLength,
      PG!PartitionLength, G!FollowingEntry, PG!FollowingEntry
<1>8. G!PassEntry => PG!PassEntry
  BY DEF G!PassEntry, PG!PassEntry, G!WalkOver, PG!WalkOver, G!Current,
      PG!Current, G!FollowingEntry, PG!FollowingEntry
<1>9. G!DieOfChecksum => PG!DieOfChecksum
  BY SameSearchReads
  DEF G!DieOfChecksum, PG!DieOfChecksum, G!ChecksumOverruns, PG!ChecksumOverruns
<1>10. G!Over => UNCHANGED PG!vars
  BY DEF G!Over, G!vars, PG!vars
<1> QED
  BY <1>1, <1>2, <1>3, <1>4, <1>5, <1>6, <1>7, <1>8, <1>9, <1>10
  DEF G!Next, PG!Next

LEMMA SameMetadata ==
  /\ M!NoText = PM!NoText
  /\ \A block : M!IsZero(block) <=> PM!IsZero(block)
  /\ \A list : M!SecondList(list) = PM!SecondList(list)
  /\ PM!TypeOK => M!TypeOK
<1>1. \A block : M!IsZero(block) <=> PM!IsZero(block)
  BY DEF M!IsZero, PM!IsZero
<1>2. \A list : M!Ends(list) = PM!Ends(list)
  BY <1>1 DEF M!Ends, PM!Ends
<1>3. \A list : M!SecondList(list) = PM!SecondList(list)
  BY <1>2 DEF M!SecondList, PM!SecondList
<1>4. PM!TypeOK => M!TypeOK
  BY DEF M!TypeOK, PM!TypeOK, M!DriveOK, PM!DriveOK, M!Status, PM!Status,
      M!Stages, PM!Stages, M!Block, PM!Block, M!TextBlock, PM!TextBlock,
      M!Offsets, PM!Offsets, M!Lengths, PM!Lengths
<1> QED
  BY <1>1, <1>3, <1>4 DEF M!NoText, PM!NoText

LEMMA SameMetadataReads ==
  /\ \A offset, size :
       M!ReadResults(offset, size) = PM!ReadResults(offset, size)
  /\ \A offset, result :
       M!ReadDrive(offset, result) => PM!ReadDrive(offset, result)
BY DEF M!ReadResults, PM!ReadResults, M!ReadDrive, PM!ReadDrive, M!Admitted,
    PM!Admitted, M!Target, PM!Target, M!Unsigned, PM!Unsigned, M!Signed, PM!Signed

\* The descriptors and locations a walk is at, and where it ends.
LEMMA SameMetadataWalk ==
  /\ M!Descriptors = PM!Descriptors /\ (M!Readable <=> PM!Readable)
  /\ (M!AtEnd <=> PM!AtEnd) /\ M!Zero = PM!Zero
  /\ M!HeaderOffset = PM!HeaderOffset /\ M!Area = PM!Area
  /\ M!Current = PM!Current /\ (M!AtLastLocation <=> PM!AtLastLocation)
  /\ M!FollowingLocation = PM!FollowingLocation
<1>1. \A block : M!SixteenBytesAreZero(block) <=> PM!SixteenBytesAreZero(block)
  BY DEF M!SixteenBytesAreZero, PM!SixteenBytesAreZero, M!IsZero, PM!IsZero
<1>2. /\ M!Descriptors = PM!Descriptors /\ (M!Readable <=> PM!Readable)
      /\ M!Zero = PM!Zero
  BY DEF M!Descriptors, PM!Descriptors, M!Readable, PM!Readable, M!Zero, PM!Zero
<1>3. M!HeaderOffset = PM!HeaderOffset /\ M!Area = PM!Area
  BY DEF M!HeaderOffset, PM!HeaderOffset, M!Area, PM!Area
<1>4. M!Current = PM!Current
  BY <1>3
  DEF M!Current, PM!Current, M!HeaderBuffer, PM!HeaderBuffer, M!NoLocation,
      PM!NoLocation
<1>5. (M!AtEnd <=> PM!AtEnd) /\ (M!AtLastLocation <=> PM!AtLastLocation)
  BY <1>1, <1>2, <1>4 DEF M!AtEnd, PM!AtEnd, M!AtLastLocation, PM!AtLastLocation
<1>6. M!FollowingLocation = PM!FollowingLocation
  BY DEF M!FollowingLocation, PM!FollowingLocation
<1> QED
  BY <1>2, <1>3, <1>4, <1>5, <1>6

LEMMA SameMetadataNext == M!Next => [PM!Next]_PM!vars
<1>1. M!NoLabelMemory => PM!NoLabelMemory
  BY DEF M!NoLabelMemory, PM!NoLabelMemory
<1>2. M!ReadLabel => PM!ReadLabel
  BY SameMetadataReads DEF M!ReadLabel, PM!ReadLabel, M!LabelLength, PM!LabelLength
<1>3. M!ScanSector => PM!ScanSector
  BY DEF M!ScanSector, PM!ScanSector, M!Matches, PM!Matches, M!NextSector,
      PM!NextSector
<1>4. M!NoLabelFound => PM!NoLabelFound
  BY DEF M!NoLabelFound, PM!NoLabelFound
<1>5. M!SkipDataArea => PM!SkipDataArea
  BY SameMetadataWalk DEF M!SkipDataArea, PM!SkipDataArea
<1>6. M!CountArea => PM!CountArea
  BY SameMetadataWalk DEF M!CountArea, PM!CountArea
<1>7. M!RunsOffMemory => PM!RunsOffMemory
  BY SameMetadataWalk DEF M!RunsOffMemory, PM!RunsOffMemory
<1>8. M!AllocateBlocks => PM!AllocateBlocks
  BY SameMetadataWalk
  DEF M!AllocateBlocks, PM!AllocateBlocks, M!BlockCapacity, PM!BlockCapacity
<1>9. M!NoBlocksMemory => PM!NoBlocksMemory
  BY SameMetadataWalk DEF M!NoBlocksMemory, PM!NoBlocksMemory
<1>10. M!CopyArea => PM!CopyArea
  BY SameMetadataWalk DEF M!CopyArea, PM!CopyArea
<1>11. M!ReturnBlocks => PM!ReturnBlocks
  BY SameMetadataWalk DEF M!ReturnBlocks, PM!ReturnBlocks
<1>12. M!ReadHeader => PM!ReadHeader
  BY SameMetadataReads, SameMetadataWalk
  DEF M!ReadHeader, PM!ReadHeader, M!HeaderHere, PM!HeaderHere
<1>13. M!PassLocation => PM!PassLocation
  BY SameMetadataWalk DEF M!PassLocation, PM!PassLocation
<1>14. M!NoTextMemory => PM!NoTextMemory
  BY SameMetadata, SameMetadataWalk DEF M!NoTextMemory, PM!NoTextMemory
<1>15. M!TakeLocation => PM!TakeLocation
  <2>1. M!TextOffset = PM!TextOffset /\ M!TextRequest = PM!TextRequest
    BY SameMetadataWalk
    DEF M!TextOffset, PM!TextOffset, M!TextRequest, PM!TextRequest, M!Signed,
        PM!Signed
  <2> QED
    BY <2>1, SameMetadataReads, SameMetadataWalk DEF M!TakeLocation, PM!TakeLocation
<1>16. M!FinishLocations => PM!FinishLocations
  BY SameMetadataWalk DEF M!FinishLocations, PM!FinishLocations
<1>17. M!Over => UNCHANGED PM!vars
  BY DEF M!Over, PM!Over, M!vars, PM!vars
<1> QED
  BY <1>1, <1>2, <1>3, <1>4, <1>5, <1>6, <1>7, <1>8, <1>9, <1>10,
     <1>11, <1>12, <1>13, <1>14, <1>15, <1>16, <1>17
  DEF M!Next, PM!Next

\* Where a segment is, in the three instances of the assembly.
LEMMA SameAssembly ==
  /\ A!NoImage = PA!NoImage /\ A!Junk = PA!Junk
  /\ A!segments = PA!segments /\ A!Segments = PA!Segments
  /\ A!ExtentSize = PA!ExtentSize
  /\ \A n : /\ A!FirstStripe(n) = PA!FirstStripe(n)
            /\ A!SegmentBytes(n) = PA!SegmentBytes(n)
            /\ A!BlockOffset(n) = PA!BlockOffset(n)
            /\ A!DriveOffset(n) = PA!DriveOffset(n)
            /\ A!NamesVolume(n) <=> PA!NamesVolume(n)
  /\ A!Placed <=> PA!Placed
  /\ PA!TypeOK => A!TypeOK
<1>1. /\ A!NoImage = PA!NoImage /\ A!Junk = PA!Junk
      /\ A!segments = PA!segments /\ A!Segments = PA!Segments
      /\ A!ExtentSize = PA!ExtentSize
  BY DEF A!NoImage, PA!NoImage, A!Junk, PA!Junk, A!segments, PA!segments,
      A!Segments, PA!Segments, A!ExtentSize, PA!ExtentSize
<1>2. ASSUME NEW n
      PROVE  /\ A!FirstStripe(n) = PA!FirstStripe(n)
             /\ A!SegmentBytes(n) = PA!SegmentBytes(n)
             /\ A!BlockOffset(n) = PA!BlockOffset(n)
             /\ A!DriveOffset(n) = PA!DriveOffset(n)
             /\ A!NamesVolume(n) <=> PA!NamesVolume(n)
  BY <1>1
  DEF A!FirstStripe, PA!FirstStripe, A!SegmentBytes, PA!SegmentBytes, A!BlockOffset,
      PA!BlockOffset, A!DriveOffset, PA!DriveOffset, A!NamesVolume, PA!NamesVolume,
      A!Unsigned, PA!Unsigned, A!Signed, PA!Signed
<1>3. A!Placed <=> PA!Placed
  BY <1>1, <1>2
  DEF A!Placed, PA!Placed, A!Place, PA!Place, A!Plain, PA!Plain
<1>4. PA!TypeOK => A!TypeOK
  BY <1>1
  DEF A!TypeOK, PA!TypeOK, A!DriveOK, PA!DriveOK, A!Status, PA!Status, A!Stages,
      PA!Stages
<1> QED
  BY <1>1, <1>2, <1>3, <1>4

\* The steps of the assembly that are part of main's.
AssemblyNext ==
  \/ A!LinkStripes \/ A!NoBlock \/ A!SizeSegment \/ A!Allocate \/ A!NoBytes
  \/ A!ReadSegment \/ A!DivisionTrap \/ A!ReturnBlock

LEMMA SameAssemblyNext == AssemblyNext => PA!Next
<1>1. A!LinkStripes => PA!LinkStripes
  BY SameAssembly
  DEF A!LinkStripes, PA!LinkStripes, A!ForeignStripe, PA!ForeignStripe,
      A!LinkedSegments, PA!LinkedSegments, A!NullName, PA!NullName
<1>2. A!NoBlock => PA!NoBlock
  BY DEF A!NoBlock, PA!NoBlock
<1>3. A!SizeSegment => PA!SizeSegment
  BY SameAssembly
  DEF A!SizeSegment, PA!SizeSegment, A!AddedLength, PA!AddedLength, A!Unsigned,
      PA!Unsigned
<1>4. A!Allocate => PA!Allocate
  BY SameAssembly DEF A!Allocate, PA!Allocate
<1>5. A!NoBytes => PA!NoBytes
  BY SameAssembly DEF A!NoBytes, PA!NoBytes
<1>6. A!ReadSegment => PA!ReadSegment
  <2>1. \A offset, size : A!ReadResults(offset, size) = PA!ReadResults(offset, size)
    BY DEF A!ReadResults, PA!ReadResults, A!Admitted, PA!Admitted, A!Target,
        PA!Target, A!Unsigned, PA!Unsigned, A!Signed, PA!Signed
  <2>2. \A offset, result : A!ReadDrive(offset, result) => PA!ReadDrive(offset, result)
    BY DEF A!ReadDrive, PA!ReadDrive, A!Target, PA!Target, A!Signed, PA!Signed
  <2>3. \A dest, bytes : /\ A!Received(dest, bytes) = PA!Received(dest, bytes)
                         /\ A!InBlock(dest, bytes) <=> PA!InBlock(dest, bytes)
    BY DEF A!Received, PA!Received, A!InBlock, PA!InBlock
  <2> QED
    BY <2>1, <2>2, <2>3, SameAssembly DEF A!ReadSegment, PA!ReadSegment
<1>7. A!DivisionTrap => PA!DivisionTrap
  BY SameAssembly DEF A!DivisionTrap, PA!DivisionTrap
<1>8. A!ReturnBlock => PA!ReturnBlock
  BY SameAssembly
  DEF A!ReturnBlock, PA!ReturnBlock, A!AllSegmentsRead, PA!AllSegmentsRead
<1> QED
  BY <1>1, <1>2, <1>3, <1>4, <1>5, <1>6, <1>7, <1>8
  DEF AssemblyNext, PA!Next

-----------------------------------------------------------------------------
(* What a stage's invariant takes no notice of.                            *)

LEMMA SameDrive ==
  /\ DriveOK <=> PG!DriveOK
  /\ DriveOK <=> PM!DriveOK
  /\ DriveOK <=> PA!DriveOK
BY DEF DriveOK, PG!DriveOK, PM!DriveOK, PA!DriveOK, Status, PG!Status, PM!Status,
       PA!Status

LEMMA SearchKept ==
  ASSUME SearchInv, UNCHANGED gptVars, phase' # "readGPT", DriveOK',
         drive'.start = drive.start, drive'.length = drive.length
  PROVE  SearchInv'
<1>1. UNCHANGED <<gptStage, gpt, position>>
  BY DEF gptVars
<1>2. PG!TypeOK'
  BY <1>1, SameDrive DEF SearchInv, PG!TypeOK, DriveOK, PG!DriveOK, Status, PG!Status
<1>3. PG!LVMEntries' = PG!LVMEntries
  BY <1>1 DEF PG!LVMEntries, PG!Listed
<1>4. PG!SelectionIsLVM'
  BY <1>1, <1>3 DEF SearchInv, PG!SelectionIsLVM, PG!WindowStartsAt
<1> QED
  BY <1>1, <1>2, <1>4 DEF SearchInv

LEMMA AreaKept ==
  ASSUME PM!IInv, PM!OriginInv, PM!MediaInv, UNCHANGED areaVars, DriveOK',
         drive'.start = drive.start, drive'.length = drive.length
  PROVE  PM!IInv' /\ PM!OriginInv' /\ PM!MediaInv'
<1>1. UNCHANGED <<areaStage, pv, sector, cursor, mdaList, blocks, text>>
  BY DEF areaVars
<1>2. /\ PM!Descriptors' = PM!Descriptors
      /\ PM!HeaderHere' <=> PM!HeaderHere
      /\ PM!Area' = PM!Area
      /\ PM!FirstLabel(sector)' <=> PM!FirstLabel(sector)
      /\ \A n : PM!Matches(n)' <=> PM!Matches(n)
  BY <1>1
  DEF PM!Descriptors, PM!HeaderHere, PM!Area, PM!HeaderOffset, PM!FirstLabel,
      PM!Matches
<1>3. /\ PM!ActiveLocations' = PM!ActiveLocations
      /\ PM!SecondList(PM!Descriptors)' = PM!SecondList(PM!Descriptors)
      /\ PM!TextInPlace' <=> PM!TextInPlace
  BY <1>1, <1>2
  DEF PM!ActiveLocations, PM!UsedLocations, PM!SecondList, PM!Ends,
      PM!TextInPlace, PM!Place
<1>4. PM!TypeOK' /\ PM!WindowInv'
  BY <1>1
  DEF PM!IInv, PM!TypeOK, PM!WindowInv, DriveOK, PM!DriveOK, Status, PM!Status
<1>5. PM!ScanInv' /\ PM!LabelInv'
  BY <1>1, <1>2 DEF PM!IInv, PM!ScanInv, PM!LabelInv
<1>6. PM!SkipInv' /\ PM!CountInv'
  BY <1>1, <1>2 DEF PM!IInv, PM!SkipInv, PM!CountInv, PM!StartsAt
<1>7. PM!CopyInv' /\ PM!BlocksInv' /\ PM!WalkInv'
  BY <1>1, <1>2, <1>3
  DEF PM!IInv, PM!CopyInv, PM!BlocksInv, PM!WalkInv, PM!StartsAt, PM!EndsAt
<1>8. PM!TextInv' /\ PM!TextIsLastActive'
  BY <1>1, <1>2, <1>3 DEF PM!IInv, PM!TextInv, PM!TextIsLastActive
<1>9. PM!OriginInv' /\ PM!MediaInv'
  BY <1>1, <1>2, <1>3 DEF PM!OriginInv, PM!MediaInv
<1> QED
  BY <1>4, <1>5, <1>6, <1>7, <1>8, <1>9 DEF PM!IInv

\* Until the label is read, the window and the partition may be any.
LEMMA AreaUnread ==
  ASSUME PM!IInv, areaStage = "label", pv' \in PhysicalVolumes, DriveOK',
         PM!WindowInv',
         UNCHANGED <<areaStage, sector, cursor, mdaList, blocks, text>>
  PROVE  PM!IInv' /\ PM!OriginInv' /\ PM!MediaInv' /\ text' = PM!NoText
<1>1. sector = 1 /\ cursor = 1 /\ text = PM!NoText
  BY DEF PM!IInv, PM!ScanInv, PM!TextInv
<1>2. PM!TypeOK'
  BY DEF PM!IInv, PM!TypeOK, DriveOK, PM!DriveOK, Status, PM!Status
<1>3. /\ PM!ScanInv' /\ PM!LabelInv' /\ PM!SkipInv' /\ PM!CountInv' /\ PM!CopyInv'
      /\ PM!BlocksInv' /\ PM!WalkInv'
  BY <1>1
  DEF PM!ScanInv, PM!LabelInv, PM!SkipInv, PM!CountInv, PM!CopyInv, PM!BlocksInv,
      PM!WalkInv
<1>4. /\ PM!TextInv' /\ PM!TextIsLastActive' /\ PM!OriginInv' /\ PM!MediaInv'
  BY <1>1
  DEF PM!TextInv, PM!TextIsLastActive, PM!OriginInv, PM!MediaInv, PM!NoText
<1> QED
  BY <1>1, <1>2, <1>3, <1>4 DEF PM!IInv

LEMMA BlockKept ==
  ASSUME PA!IInv, PA!ReturnInv, UNCHANGED blockVars, DriveOK',
         drive'.start = drive.start, drive'.length = drive.length
  PROVE  PA!IInv' /\ PA!ReturnInv'
<1>1. UNCHANGED <<blockStage, volume, linked, at, length, image, short>>
  BY DEF blockVars
<1>2. /\ PA!segments' = PA!segments /\ PA!Segments' = PA!Segments
      /\ PA!ExtentSize' = PA!ExtentSize
      /\ PA!LinkedSegments' = PA!LinkedSegments
      /\ PA!ForeignStripe' <=> PA!ForeignStripe
      /\ PA!Tiled' <=> PA!Tiled
      /\ PA!Placed' <=> PA!Placed
      /\ PA!Supported' <=> PA!Supported
      /\ \A n : PA!FirstByte(n)' = PA!FirstByte(n)
      /\ \A n : PA!BlockEnd(n)' = PA!BlockEnd(n)
      /\ \A n, b : PA!InSegment(n, b)' <=> PA!InSegment(n, b)
  BY <1>1, PA!SameGeometry, StageAssumptions
<1>3. \A n, b : PA!Source(n, b)' = PA!Source(n, b)
  BY <1>1, <1>2 DEF PA!Source, PA!Place, PA!FirstStripe
<1>4. \A k, bytes : PA!Measured(k, bytes)' <=> PA!Measured(k, bytes)
  BY <1>2 DEF PA!Measured
<1>5. PA!TypeOK' /\ PA!WindowInv' /\ PA!LinkInv' /\ PA!EmptyInv' /\ PA!LinkedInv'
  BY <1>1, <1>2
  DEF PA!IInv, PA!TypeOK, PA!WindowInv, DriveOK, PA!DriveOK, Status, PA!Status,
      PA!LinkInv, PA!EmptyInv, PA!LinkedInv, PA!NoImage
<1>6. PA!SizeInv' /\ PA!ReadInv' /\ PA!ReturnInv' /\ PA!OverrunInv'
  BY <1>1, <1>2, <1>4
  DEF PA!IInv, PA!SizeInv, PA!ReadInv, PA!ReturnInv, PA!OverrunInv
<1>7. PA!JunkInv' /\ PA!CrashOnlyOnForeignVolume'
  BY <1>1, <1>2 DEF PA!IInv, PA!JunkInv, PA!CrashOnlyOnForeignVolume, PA!Junk
<1>8. PA!NoForeignByte' /\ PA!NothingOutsideWindow'
  BY <1>1, <1>2, <1>3
  DEF PA!IInv, PA!NoForeignByte, PA!NothingOutsideWindow, PA!Junk
<1> QED
  BY <1>5, <1>6, <1>7, <1>8 DEF PA!IInv

\* Until the stripes are linked, the drive and the volume may be any.
LEMMA BlockUnlinked ==
  ASSUME PA!IInv, blockStage = "link", linked = {}, short = {},
         volume' \in Volumes, DriveOK', PA!WindowInv',
         UNCHANGED <<blockStage, linked, at, length, image, short>>
  PROVE  PA!IInv' /\ PA!ReturnInv'
<1>1. at = 1 /\ length = 0 /\ image = PA!NoImage
  BY DEF PA!IInv, PA!LinkInv, PA!EmptyInv
<1>2. volume' \in PA!Volume
  BY StageAssumptions DEF PA!VolumeAssumption
<1>3. at' \in 1 .. Len(volume'.segments) + 1
  BY <1>1, <1>2 DEF PA!Volume
<1>4. PA!TypeOK'
  BY <1>3
  DEF PA!IInv, PA!TypeOK, DriveOK, PA!DriveOK, Status, PA!Status, PA!segments
<1>5. /\ PA!LinkInv' /\ PA!SizeInv' /\ PA!EmptyInv' /\ PA!ReadInv' /\ PA!JunkInv'
      /\ PA!LinkedInv' /\ PA!CrashOnlyOnForeignVolume' /\ PA!ReturnInv'
      /\ PA!OverrunInv'
  BY <1>1
  DEF PA!LinkInv, PA!SizeInv, PA!EmptyInv, PA!ReadInv, PA!JunkInv, PA!LinkedInv,
      PA!CrashOnlyOnForeignVolume, PA!ReturnInv, PA!OverrunInv, PA!NoImage
<1>6. PA!NoForeignByte' /\ PA!NothingOutsideWindow'
  BY <1>1 DEF PA!NoForeignByte, PA!NothingOutsideWindow, PA!NoImage
<1> QED
  BY <1>4, <1>5, <1>6 DEF PA!IInv

-----------------------------------------------------------------------------
(* The file.                                                               *)

\* Nothing is wrong with a file that was not written.
LEMMA FileUnwritten ==
  ASSUME file' = NoFile, damaged' \in BOOLEAN
  PROVE  FileOK' /\ FileFromLVMPartition' /\ FileIsVolume'
BY DEF NoFile, A!NoImage, FileOK, FileFromLVMPartition, FileIsVolume

\* What the metadata says stays what it is while nothing moves the window.
LEMMA DescribedKept ==
  ASSUME drive'.start = drive.start
  PROVE  /\ DescribedPlace' = DescribedPlace
         /\ DescribedLocation' = DescribedLocation
         /\ DescribedAddress' = DescribedAddress
<1>1. DescribedArea' = DescribedArea
  BY DEF DescribedArea
<1>2. DescribedLocation' = DescribedLocation
  BY <1>1 DEF DescribedLocation
<1>3. DescribedPlace' = DescribedPlace
  BY <1>1, <1>2 DEF DescribedPlace
<1> QED
  BY <1>2, <1>3 DEF DescribedAddress

\* Nor does the layout of a volume that stays the same.
LEMMA LayoutKept ==
  ASSUME drive'.start = drive.start, volume' = volume
  PROVE  /\ A!Placed' <=> A!Placed
         /\ A!Supported' <=> A!Supported
         /\ A!Segments' = A!Segments
         /\ \A n, b : A!InSegment(n, b)' <=> A!InSegment(n, b)
         /\ \A n, b : A!Source(n, b)' = A!Source(n, b)
<1>1. /\ A!segments' = A!segments /\ A!Segments' = A!Segments
      /\ A!ExtentSize' = A!ExtentSize
  BY DEF A!segments, A!Segments, A!ExtentSize
<1>2. /\ \A n : A!FirstByte(n)' = A!FirstByte(n)
      /\ \A n : A!Bytes(n)' = A!Bytes(n)
      /\ \A n : A!SegmentBytes(n)' = A!SegmentBytes(n)
      /\ \A n : A!FirstStripe(n)' = A!FirstStripe(n)
  BY <1>1 DEF A!FirstByte, A!Bytes, A!SegmentBytes, A!FirstStripe
<1>3. \A n : A!Place(n)' = A!Place(n)
  BY <1>1, <1>2 DEF A!Place
<1>4. \A n, b : A!InSegment(n, b)' <=> A!InSegment(n, b)
  BY <1>2 DEF A!InSegment
<1>5. \A n, b : A!Source(n, b)' = A!Source(n, b)
  BY <1>2, <1>3 DEF A!Source
<1>6. A!Placed' <=> A!Placed
  BY <1>1, <1>2, <1>3 DEF A!Placed
<1>7. A!Supported' <=> A!Supported
  <2>1. A!Tiled' <=> A!Tiled
    BY <1>1, <1>2 DEF A!Tiled
  <2>2. A!OneStripe' <=> A!OneStripe
    BY <1>1 DEF A!OneStripe
  <2> QED
    BY <1>6, <2>1, <2>2 DEF A!Supported
<1> QED
  BY <1>1, <1>4, <1>5, <1>6, <1>7

\* A written file does not change, nor does what it is measured by.
LEMMA FileKept ==
  ASSUME FileOK, FileFromLVMPartition, FileIsVolume, drive'.start = drive.start,
         UNCHANGED <<file, damaged, gptVars, areaVars, blockVars>>
  PROVE  FileOK' /\ FileFromLVMPartition' /\ FileIsVolume'
<1>1. UNCHANGED <<gpt, text, volume, short>>
  BY DEF gptVars, areaVars, blockVars
<1>2. G!LVMEntries' = G!LVMEntries
  BY <1>1 DEF G!LVMEntries, G!Listed
<1>3. \A address : OnLVMPartition(address)' <=> OnLVMPartition(address)
  BY <1>1, <1>2 DEF OnLVMPartition
<1>4. \A n : G!WindowStartsAt(n)' <=> G!WindowStartsAt(n)
  BY <1>1 DEF G!WindowStartsAt
<1>5. /\ A!Placed' <=> A!Placed
      /\ A!Supported' <=> A!Supported
      /\ A!Segments' = A!Segments
      /\ \A n, b : A!InSegment(n, b)' <=> A!InSegment(n, b)
      /\ \A n, b : A!Source(n, b)' = A!Source(n, b)
  BY <1>1, LayoutKept
<1>6. FileOK' /\ FileFromLVMPartition'
  BY <1>3, <1>5 DEF FileOK, FileFromLVMPartition, A!Junk
<1>7. FileIsVolume'
  <2>1. /\ DescribedPlace' = DescribedPlace
        /\ DescribedLocation' = DescribedLocation
        /\ DescribedAddress' = DescribedAddress
    BY DescribedKept
  <2>2. TextIsLVM' <=> TextIsLVM
    BY <2>1 DEF TextIsLVM
  <2> QED
    BY <1>1, <1>2, <1>4, <1>5, <2>1, <2>2 DEF FileIsVolume, TextComplete, A!Junk
<1> QED
  BY <1>6, <1>7

\* Steps behind readGPT that leave all three stages alone.
LEMMA StagesKept ==
  ASSUME IInv, UNCHANGED <<gptVars, areaVars, blockVars>>,
         phase # "readGPT", phase' # "readGPT", phase = "died" => phase' = "died",
         DriveOK', drive'.start = drive.start, drive'.length = drive.length
  PROVE  /\ SearchInv' /\ WindowInv' /\ TextInv'
         /\ PM!IInv' /\ PA!IInv' /\ PA!ReturnInv'
<1>1. SearchInv'
  BY SearchKept DEF IInv
<1>2. PM!IInv' /\ PM!OriginInv' /\ PM!MediaInv'
  BY AreaKept DEF IInv, TextInv
<1>3. PA!IInv' /\ PA!ReturnInv'
  BY BlockKept DEF IInv
<1>4. UNCHANGED <<gpt, pv, text, areaStage>>
  BY DEF gptVars, areaVars
<1>5. WindowInv'
  BY <1>4 DEF IInv, WindowInv, ContentAt
<1>6. TextInv'
  BY <1>2, <1>4 DEF IInv, TextInv
<1> QED
  BY <1>1, <1>2, <1>3, <1>5, <1>6

-----------------------------------------------------------------------------
(* The search.                                                             *)

LEMMA InitEstablishes == Init => IInv
<1> SUFFICES ASSUME Init
             PROVE  IInv
  OBVIOUS
<1>1. /\ phase = "readGPT" /\ file = NoFile /\ damaged = FALSE /\ G!Init
      /\ areaStage = "label" /\ pv = Unlabelled /\ sector = 1 /\ cursor = 1
      /\ mdaList = 0 /\ blocks = <<>> /\ text = PM!NoText
      /\ blockStage = "link" /\ volume = NoVolume /\ linked = {} /\ at = 1
      /\ length = 0 /\ image = PA!NoImage /\ short = {}
  BY SameMetadata, SameAssembly DEF Init
<1>2. PG!IInv
  BY <1>1, SameSearchInit, PG!InitEstablishes, StageAssumptions
<1>3. /\ drive = [status |-> "unopened", start |-> 0, length |-> 0]
      /\ gptStage = "open"
  BY <1>1 DEF G!Init, G!DriveInit
<1>4. DriveOK
  BY <1>2, SameDrive DEF PG!IInv, PG!TypeOK
<1>5. PM!IInv /\ PM!OriginInv /\ PM!MediaInv
  <2>1. PM!TypeOK
    BY <1>1, <1>4, SameDrive
    DEF PM!TypeOK, PM!Stages, PhysicalVolumes, PM!NoText, PM!TextBlock
  <2>2. PM!WindowInv
    BY <1>3, DriveAssumption DEF PM!WindowInv
  <2> QED
    BY <1>1, <2>1, <2>2
    DEF PM!IInv, PM!ScanInv, PM!LabelInv, PM!SkipInv, PM!CountInv, PM!CopyInv,
        PM!BlocksInv, PM!WalkInv, PM!TextInv, PM!TextIsLastActive, PM!OriginInv,
        PM!MediaInv, PM!NoText
<1>6. PA!IInv /\ PA!ReturnInv
  <2>1. volume \in Volumes /\ volume.segments = <<>>
    BY <1>1, PipelineAssumption DEF NoVolume
  <2>2. image \in [DOMAIN image -> Int]
    BY <1>1 DEF PA!NoImage
  <2>3. at \in 1 .. Len(volume.segments) + 1
    BY <1>1, <2>1
  <2>4. PA!TypeOK
    BY <1>1, <1>4, <2>1, <2>2, <2>3, SameDrive
    DEF PA!TypeOK, PA!Stages, PA!Segments, PA!segments
  <2>5. PA!WindowInv
    BY <1>3, DriveAssumption DEF PA!WindowInv
  <2> QED
    BY <1>1, <2>4, <2>5
    DEF PA!IInv, PA!LinkInv, PA!SizeInv, PA!EmptyInv, PA!ReadInv, PA!OverrunInv,
        PA!JunkInv, PA!LinkedInv, PA!NoForeignByte, PA!NothingOutsideWindow,
        PA!CrashOnlyOnForeignVolume, PA!ReturnInv, PA!NoImage
<1>7. FileOK /\ FileFromLVMPartition /\ FileIsVolume
  BY <1>1 DEF NoFile, A!NoImage, FileOK, FileFromLVMPartition, FileIsVolume
<1>8. SearchInv
  BY <1>2, <1>3 DEF SearchInv, PG!IInv, PG!SignedInv
<1>9. OpenInv /\ WaitingInv /\ WindowInv /\ TextInv /\ HandoverInv
  BY <1>1, <1>3, <1>5 DEF OpenInv, WaitingInv, WindowInv, TextInv, HandoverInv
<1> QED
  BY <1>1, <1>5, <1>6, <1>7, <1>8, <1>9 DEF IInv, Phases

\* The table is never written, and a descriptor comes with an open drive.
LEMMA SearchFrame ==
  ASSUME OpenInv, DriveOK, G!Next
  PROVE  gpt' = gpt /\ OpenInv'
<1>1. CASE G!Open
  <2>1. gpt' = gpt /\ G!OpenDrive
    BY <1>1 DEF G!Open
  <2>2. drive'.status = "open" => descriptors' = descriptors + 1
    BY <2>1
    DEF G!OpenDrive, G!OpenFails, G!OpenUnsized, G!OpenLosesDescriptor,
        G!OpenSucceeds, G!NullDrive
  <2> QED
    BY <2>1, <2>2 DEF OpenInv, DriveOK
<1>2. CASE G!OutOfMemory \/ G!FinishWalk \/ G!PassEntry \/ G!Over
  BY <1>2
  DEF G!OutOfMemory, G!FinishWalk, G!PassEntry, G!Over, G!vars, OpenInv
<1>3. CASE G!ReadHeader \/ G!DieOfChecksum \/ G!ReadTable
  BY <1>3
  DEF G!ReadHeader, G!DieOfChecksum, G!ReadTable, G!ReadDrive, OpenInv
<1>4. CASE G!WindowTable \/ G!SelectEntry
  <2>1. /\ gpt' = gpt /\ descriptors' = descriptors
        /\ drive'.status = drive.status
    BY <1>4 DEF G!WindowTable, G!SelectEntry, G!SetPartition, DriveOK
  <2> QED
    BY <2>1 DEF OpenInv
<1> QED
  BY <1>1, <1>2, <1>3, <1>4 DEF G!Next

\* The window the search leaves is a part of what an off64_t addresses.
LEMMA SearchWindow == PG!IInv => PM!WindowInv /\ PA!WindowInv
<1> SUFFICES ASSUME PG!IInv
             PROVE  drive.start >= 0 /\ drive.start + drive.length <= SignBit
  BY DEF PM!WindowInv, PA!WindowInv
<1>1. PG!TypeOK /\ drive.length \in Nat
  BY DEF PG!IInv, PG!TypeOK, PG!DriveOK
<1>2. SignBit \in Nat /\ SectorSize \in Nat /\ InitialWindow \in 0 .. SignBit
  BY DriveAssumption
<1>3. CASE drive.start = 0
  <2>1. PG!TableWindow(gpt) \in Nat /\ PG!TableWindow(gpt) < SignBit
    BY <1>1, PG!TableFacts, StageAssumptions
  <2>2. drive.length \in {0, InitialWindow, PG!TableWindow(gpt)}
    BY <1>3 DEF PG!IInv, PG!NoSelectionNoPartition, PG!TableWindow
  <2> QED
    BY <1>2, <1>3, <2>1, <2>2
<1>4. CASE drive.start # 0
  <2>1. PICK n \in PG!LVMEntries :
          /\ drive.start = gpt.entries[n].firstLBA * SectorSize
          /\ drive.start + drive.length <= (gpt.entries[n].lastLBA + 1) * SectorSize
    BY <1>4 DEF PG!IInv, PG!SelectionIsLVM, PG!WindowStartsAt
  <2>2. n \in 1 .. Len(gpt.entries) /\ gpt.entries[n].kind # "unused"
    BY DEF PG!LVMEntries, PG!Listed
  <2>3. /\ gpt \in Headers /\ gpt.entries \in Seq(PG!Entry)
        /\ gpt.entries[n].firstLBA * SectorSize \in Nat
    BY <1>1, <2>2, PG!TableFacts, PG!EntryFacts, StageAssumptions
  <2>4. (gpt.entries[n].lastLBA + 1) * SectorSize <= SignBit
    BY <2>2, <2>3, StageAssumptions DEF PG!GPTAssumption
  <2>5. (gpt.entries[n].lastLBA + 1) * SectorSize \in Int
    <3>1. gpt.entries[n].lastLBA \in Nat
      <4>1. gpt.entries[n] \in PG!Entry
        BY <2>2, <2>3
      <4> QED
        BY <4>1 DEF PG!Entry
    <3>2. \A p, q \in Nat : (p + 1) * q \in Int
      OBVIOUS
    <3> QED
      BY <1>2, <3>1, <3>2
  <2> DEFINE end == (gpt.entries[n].lastLBA + 1) * SectorSize
  <2>6. /\ drive.start \in Nat /\ end \in Int /\ end <= SignBit
        /\ drive.start + drive.length <= end
    BY <2>1, <2>3, <2>4, <2>5
  <2> HIDE DEF end
  <2> QED
    BY <1>1, <1>2, <2>6
<1> QED
  BY <1>3, <1>4

LEMMA SearchWindowNext == PG!IInv' => PM!WindowInv' /\ PA!WindowInv'
BY SearchWindow, PTL

LEMMA ReadGPTPreserves == IInv /\ ReadGPT => IInv'
<1> SUFFICES ASSUME IInv, ReadGPT
             PROVE  IInv'
  OBVIOUS
<1>1. /\ phase = "readGPT" /\ G!Next
      /\ phase' \in {"readGPT", "label and metadata", "close", "died"}
      /\ phase' \in {"label and metadata", "close"} => gptStage' = "returned"
      /\ pv' = IF gptStage' = "returned" THEN ContentAt(drive'.start) ELSE pv
      /\ UNCHANGED <<file, damaged, areaStage, sector, cursor, mdaList, blocks,
                     text, blockVars>>
  BY DEF ReadGPT
<1>2. /\ PG!IInv /\ areaStage = "label"
      /\ blockStage = "link" /\ linked = {} /\ short = {}
      /\ file = NoFile
  BY <1>1 DEF IInv, SearchInv, WaitingInv, Phases
<1>3. PG!IInv'
  BY <1>1, <1>2, SameSearchNext, SearchStep
<1>4. DriveOK /\ DriveOK' /\ PG!TypeOK /\ PG!TypeOK'
  BY <1>2, <1>3
  DEF PG!IInv, PG!TypeOK, DriveOK, PG!DriveOK, Status, PG!Status
<1>5. gpt' = gpt /\ OpenInv'
  BY <1>1, <1>4, SearchFrame DEF IInv
<1>6. SearchInv'
  BY <1>1, <1>3 DEF SearchInv, PG!IInv, PG!SignedInv
<1>7. UNCHANGED <<blockStage, volume, linked, at, length, image, short>>
  BY <1>1 DEF blockVars
<1>8. WaitingInv'
  BY <1>1, <1>2, <1>7 DEF WaitingInv
<1>9. pv' \in PhysicalVolumes
  <2>1. pv \in PhysicalVolumes
    BY DEF IInv, PM!IInv, PM!TypeOK
  <2>2. \A address : ContentAt(address) \in PhysicalVolumes
    BY DEF ContentAt, PhysicalVolumes
  <2> QED
    BY <1>1, <2>1, <2>2
<1>10. PM!IInv' /\ PM!OriginInv' /\ PM!MediaInv' /\ text' = PM!NoText
  BY <1>1, <1>2, <1>3, <1>4, <1>9, AreaUnread, SearchWindowNext DEF IInv
<1>11. TextInv'
  BY <1>1, <1>2, <1>10 DEF TextInv
<1>12. volume' \in Volumes
  BY <1>7 DEF IInv, PA!IInv, PA!TypeOK
<1>13. PA!IInv' /\ PA!ReturnInv'
  BY <1>2, <1>3, <1>4, <1>7, <1>12, BlockUnlinked, SearchWindowNext DEF IInv
<1>14. WindowInv'
  BY <1>1, <1>5 DEF WindowInv, ContentAt
<1>15. HandoverInv'
  BY <1>1 DEF HandoverInv
<1>16. FileOK' /\ FileFromLVMPartition' /\ FileIsVolume'
  BY <1>1, <1>2, FileUnwritten DEF IInv, FileOK
<1>17. phase' \in Phases
  BY <1>1 DEF Phases
<1> QED
  BY <1>5, <1>6, <1>8, <1>10, <1>11, <1>13, <1>14, <1>15, <1>16, <1>17 DEF IInv

-----------------------------------------------------------------------------
(* The label and the text.                                                 *)

LEMMA MetadataFrame ==
  ASSUME M!Next
  PROVE  UNCHANGED <<drive, descriptors, pv>>
<1>1. CASE M!ReadLabel \/ M!ReadHeader \/ M!TakeLocation
  BY <1>1 DEF M!ReadLabel, M!ReadHeader, M!TakeLocation, M!ReadDrive
<1>2. CASE M!NoLabelMemory \/ M!ScanSector \/ M!NoLabelFound \/ M!SkipDataArea
  BY <1>2 DEF M!NoLabelMemory, M!ScanSector, M!NoLabelFound, M!SkipDataArea
<1>3. CASE M!CountArea \/ M!AllocateBlocks \/ M!NoBlocksMemory \/ M!CopyArea
  BY <1>3 DEF M!CountArea, M!AllocateBlocks, M!NoBlocksMemory, M!CopyArea
<1>6. CASE M!RunsOffMemory
  BY <1>6 DEF M!RunsOffMemory
<1>4. CASE M!ReturnBlocks \/ M!PassLocation \/ M!NoTextMemory
  BY <1>4 DEF M!ReturnBlocks, M!PassLocation, M!NoTextMemory
<1>5. CASE M!FinishLocations \/ M!Over
  BY <1>5 DEF M!FinishLocations, M!Over, M!vars
<1> QED
  BY <1>1, <1>2, <1>3, <1>4, <1>5, <1>6 DEF M!Next

\* What can be read through the initial window is in it.
LEMMA EarlyRequest ==
  ASSUME drive.start = 0, drive.length \in {0, InitialWindow},
         NEW offset \in PM!Offsets,
         HeaderLength \in PM!ReadResults(offset, HeaderLength)
  PROVE  offset \in 0 .. InitialWindow - 1
<1>1. /\ HeaderLength \in 1 .. SignBit /\ InitialWindow \in Nat
      /\ SignBit \in Nat \ {0}
      /\ offset \in -SignBit .. SignBit - 1
  BY StageAssumptions, DriveAssumption DEF PM!MetadataAssumption, PM!Offsets
<1>2. PM!Admitted(offset, HeaderLength) /\ PM!Target(offset) >= 0
  BY <1>1 DEF PM!ReadResults
<1>3. PM!Target(offset) = offset
  <2>1. drive.start + offset = offset
    BY <1>1
  <2>2. PM!Signed(offset) = offset
    BY <1>1, PM!WordsKeep, StageAssumptions
  <2> QED
    BY <2>1, <2>2 DEF PM!Target
<1>4. PM!Unsigned(offset + HeaderLength) = offset + HeaderLength
  BY <1>1, <1>2, <1>3, PM!WordsKeep, StageAssumptions
<1>5. offset + HeaderLength <= drive.length
  BY <1>2, <1>4 DEF PM!Admitted
<1> QED
  BY <1>1, <1>2, <1>3, <1>5

LEMMA FirstBlock ==
  ASSUME PM!TypeOK, blocks # <<>>
  PROVE  PM!HeaderOffset \in PM!Offsets
<1>1. blocks \in Seq(PM!Block)
  BY DEF PM!TypeOK
<1>2. blocks[1] \in PM!Block
  BY <1>1
<1> QED
  BY <1>2 DEF PM!HeaderOffset, PM!Block

LEMMA UnlabelledSectors ==
  \A n \in 1 .. 4 : ~ Unlabelled.labels[n].labelled
BY DEF Unlabelled, NoLabel

\* A window at the start of the medium shows no labelled volume, or the first
\* bytes of one, which hold no header of an area.
LEMMA NoHeaderAtStart ==
  ASSUME IInv, phase = "label and metadata", drive.start = 0, areaStage = "header",
         HeaderLength \in PM!ReadResults(PM!HeaderOffset, HeaderLength)
  PROVE  ~ PM!HeaderHere
<1>1. PM!IInv /\ pv = ContentAt(0)
  BY DEF IInv, WindowInv
<1>2. sector \in 1 .. 4 /\ pv.labels[sector].labelled
  BY <1>1 DEF PM!IInv, PM!LabelInv, PM!FirstLabel, PM!Matches
<1>3. pv # Unlabelled
  BY <1>2, UnlabelledSectors
<1>4. 0 \in DOMAIN Contents /\ pv = Contents[0] /\ ~ gpt.signed
  BY <1>1, <1>3 DEF ContentAt
<1>5. drive.length \in {0, InitialWindow}
  BY <1>4 DEF IInv, SearchInv
<1>6. PM!HeaderOffset \in PM!Offsets
  BY <1>1, FirstBlock DEF PM!IInv, PM!BlocksInv
<1>7. PM!HeaderOffset \in 0 .. InitialWindow - 1
  BY <1>5, <1>6, EarlyRequest
<1> QED
  BY <1>4, <1>7, PipelineAssumption DEF PM!HeaderHere

LEMMA NoTextAtStart ==
  ASSUME IInv, phase = "label and metadata", [PM!Next]_PM!vars, drive.start = 0
  PROVE  text' = PM!NoText /\ areaStage' # "locations"
<1>1. text = PM!NoText /\ areaStage # "locations"
  BY DEF IInv, TextInv
<1>2. CASE PM!ReadHeader
  <2>1. PICK result \in PM!ReadResults(PM!HeaderOffset, HeaderLength) :
          areaStage' = IF result = HeaderLength /\ PM!HeaderHere /\ PM!Area.signed
                       THEN "locations" ELSE "returned"
    BY <1>2 DEF PM!ReadHeader
  <2>2. areaStage = "header" /\ text' = text
    BY <1>2 DEF PM!ReadHeader
  <2> QED
    BY <1>1, <2>1, <2>2, NoHeaderAtStart
<1>3. CASE PM!PassLocation \/ PM!NoTextMemory \/ PM!TakeLocation \/ PM!FinishLocations
  BY <1>1, <1>3
  DEF PM!PassLocation, PM!NoTextMemory, PM!TakeLocation, PM!FinishLocations
<1>4. CASE PM!NoLabelMemory \/ PM!ReadLabel \/ PM!ScanSector \/ PM!NoLabelFound
  BY <1>1, <1>4
  DEF PM!NoLabelMemory, PM!ReadLabel, PM!ScanSector, PM!NoLabelFound
<1>5. CASE PM!SkipDataArea \/ PM!CountArea \/ PM!RunsOffMemory \/ PM!AllocateBlocks
  BY <1>1, <1>5
  DEF PM!SkipDataArea, PM!CountArea, PM!RunsOffMemory, PM!AllocateBlocks
<1>6. CASE PM!NoBlocksMemory \/ PM!CopyArea \/ PM!ReturnBlocks
  BY <1>1, <1>6 DEF PM!NoBlocksMemory, PM!CopyArea, PM!ReturnBlocks
<1>7. CASE PM!Over \/ UNCHANGED PM!vars
  BY <1>1, <1>7 DEF PM!Over, PM!vars
<1> QED
  BY <1>2, <1>3, <1>4, <1>5, <1>6, <1>7 DEF PM!Next

LEMMA ReadMetadataPreserves == IInv /\ ReadMetadata => IInv'
<1> SUFFICES ASSUME IInv, ReadMetadata
             PROVE  IInv'
  OBVIOUS
<1>1. /\ phase = "label and metadata" /\ M!Next
      /\ UNCHANGED <<file, damaged, gptVars, blockVars>>
  BY DEF ReadMetadata
<1>2. /\ phase' \in {"label and metadata", "parse", "close", "died"}
      /\ phase' = "parse" => areaStage' = "returned" /\ text' # PM!NoText
  BY <1>1, SameMetadata DEF ReadMetadata
<1>3. UNCHANGED <<drive, descriptors, pv>>
  BY <1>1, MetadataFrame
<1>4. UNCHANGED <<gpt, blockStage, linked, short>>
  BY <1>1 DEF gptVars, blockVars
<1>5. [PM!Next]_PM!vars
  BY <1>1, SameMetadataNext
<1>6. PM!IInv' /\ PM!OriginInv' /\ PM!MediaInv'
  BY <1>5, MetadataStep DEF IInv, TextInv
<1>7. DriveOK'
  BY <1>6 DEF PM!IInv, PM!TypeOK, DriveOK, PM!DriveOK, Status, PM!Status
<1>8. SearchInv'
  BY <1>1, <1>2, <1>3, <1>7, SearchKept DEF IInv
<1>9. PA!IInv' /\ PA!ReturnInv'
  BY <1>1, <1>3, <1>7, BlockKept DEF IInv
<1>10. WaitingInv' /\ file' = NoFile
  BY <1>1, <1>2, <1>4 DEF IInv, WaitingInv, Phases
<1>11. WindowInv'
  BY <1>1, <1>3, <1>4 DEF IInv, WindowInv, ContentAt
<1>12. TextInv'
  BY <1>1, <1>3, <1>5, <1>6, NoTextAtStart DEF TextInv
<1>13. OpenInv' /\ HandoverInv' /\ phase' \in Phases
  BY <1>2, <1>3 DEF IInv, OpenInv, HandoverInv, Phases
<1>14. FileOK' /\ FileFromLVMPartition' /\ FileIsVolume'
  BY <1>1, <1>10, FileUnwritten DEF IInv, FileOK
<1> QED
  BY <1>6, <1>8, <1>9, <1>10, <1>11, <1>12, <1>13, <1>14 DEF IInv

-----------------------------------------------------------------------------
(* The volume.                                                             *)

LEMMA ParseAndCollectPreserves == IInv /\ ParseAndCollect => IInv'
<1> SUFFICES ASSUME IInv, ParseAndCollect
             PROVE  IInv'
  OBVIOUS
<1>1. /\ phase = "parse" /\ phase' = "readLogicalVolume"
      /\ damaged' \in BOOLEAN /\ volume' \in VolumesOfText(damaged')
      /\ UNCHANGED <<driveVars, file, gptVars, areaVars>>
      /\ UNCHANGED <<blockStage, linked, at, length, image, short>>
  BY DEF ParseAndCollect
<1>2. UNCHANGED <<drive, descriptors, transfer, text, gpt, pv, areaStage>>
  BY <1>1 DEF driveVars, gptVars, areaVars
<1>3. /\ blockStage = "link" /\ linked = {} /\ short = {} /\ file = NoFile
      /\ areaStage = "returned" /\ text # PM!NoText
  BY <1>1 DEF IInv, WaitingInv, HandoverInv, Phases
<1>4. volume' \in Volumes
  BY <1>1, PipelineAssumption DEF VolumesOfText
<1>5. DriveOK'
  BY <1>2 DEF IInv, PM!IInv, PM!TypeOK, DriveOK, PM!DriveOK, Status, PM!Status
<1>6. PA!WindowInv'
  BY <1>2 DEF IInv, PA!IInv, PA!WindowInv
<1>7. PA!IInv' /\ PA!ReturnInv'
  BY <1>1, <1>3, <1>4, <1>5, <1>6, BlockUnlinked DEF IInv
<1>8. SearchInv'
  BY <1>1, <1>2, <1>5, SearchKept DEF IInv
<1>9. PM!IInv' /\ PM!OriginInv' /\ PM!MediaInv'
  BY <1>1, <1>2, <1>5, AreaKept DEF IInv, TextInv
<1>10. WindowInv'
  BY <1>1, <1>2 DEF IInv, WindowInv, ContentAt
<1>11. TextInv'
  BY <1>1, <1>2, <1>9 DEF IInv, TextInv
<1>12. HandoverInv'
  BY <1>1, <1>2, <1>3 DEF HandoverInv, TextComplete, VolumesOfText
<1>13. OpenInv' /\ WaitingInv' /\ phase' \in Phases
  BY <1>1, <1>2, <1>3 DEF IInv, OpenInv, WaitingInv, Phases
<1>14. FileOK' /\ FileFromLVMPartition' /\ FileIsVolume'
  BY <1>1, <1>3, FileUnwritten
<1> QED
  BY <1>7, <1>8, <1>9, <1>10, <1>11, <1>12, <1>13, <1>14 DEF IInv

LEMMA AssemblyFrame ==
  ASSUME AssemblyNext
  PROVE  UNCHANGED <<drive, descriptors, volume>>
<1>1. CASE A!LinkStripes \/ A!NoBlock \/ A!SizeSegment \/ A!Allocate \/ A!NoBytes
  BY <1>1 DEF A!LinkStripes, A!NoBlock, A!SizeSegment, A!Allocate, A!NoBytes
<1>2. CASE A!ReadSegment \/ A!DivisionTrap \/ A!ReturnBlock
  BY <1>2 DEF A!ReadSegment, A!DivisionTrap, A!ReturnBlock, A!ReadDrive
<1> QED
  BY <1>1, <1>2 DEF AssemblyNext

LEMMA ReadLogicalVolumePreserves == IInv /\ ReadLogicalVolume => IInv'
<1> SUFFICES ASSUME IInv, ReadLogicalVolume
             PROVE  IInv'
  OBVIOUS
<1>1. /\ phase = "readLogicalVolume" /\ AssemblyNext
      /\ phase' \in {"readLogicalVolume", "write", "close", "died", "corrupted"}
      /\ phase' = "write" => blockStage' = "returned"
      /\ UNCHANGED <<file, damaged, gptVars, areaVars>>
  BY DEF ReadLogicalVolume, AssemblyNext
<1>2. UNCHANGED <<drive, descriptors, volume, text, gpt, pv, areaStage>>
  BY <1>1, AssemblyFrame DEF gptVars, areaVars
<1>3. PA!IInv' /\ PA!ReturnInv'
  BY <1>1, SameAssemblyNext, AssemblyStep DEF IInv
<1>4. DriveOK'
  BY <1>3 DEF PA!IInv, PA!TypeOK, DriveOK, PA!DriveOK, Status, PA!Status
<1>5. SearchInv'
  BY <1>1, <1>2, <1>4, SearchKept DEF IInv
<1>6. PM!IInv' /\ PM!OriginInv' /\ PM!MediaInv'
  BY <1>1, <1>2, <1>4, AreaKept DEF IInv, TextInv
<1>7. WindowInv'
  BY <1>1, <1>2 DEF IInv, WindowInv, ContentAt
<1>8. TextInv'
  BY <1>1, <1>2, <1>6 DEF IInv, TextInv
<1>9. HandoverInv'
  BY <1>1, <1>2 DEF IInv, HandoverInv, TextComplete
<1>10. file' = NoFile
  BY <1>1 DEF IInv, WaitingInv, Phases
<1>11. OpenInv' /\ WaitingInv' /\ phase' \in Phases
  BY <1>1, <1>2, <1>10 DEF IInv, OpenInv, WaitingInv, Phases
<1>12. FileOK' /\ FileFromLVMPartition' /\ FileIsVolume'
  BY <1>1, <1>10, FileUnwritten DEF IInv, FileOK
<1> QED
  BY <1>3, <1>5, <1>6, <1>7, <1>8, <1>9, <1>11, <1>12 DEF IInv

-----------------------------------------------------------------------------
(* The bytes of the file.                                                  *)

\* On every path to the file there is a text, so a partition was selected.
LEMMA PartitionSelected ==
  ASSUME IInv, phase = "write"
  PROVE  /\ drive.start # 0 /\ pv = ContentAt(drive.start)
         /\ areaStage = "returned" /\ text # PM!NoText
         /\ blockStage = "returned"
BY DEF IInv, HandoverInv, TextInv, WindowInv

LEMMA WrittenBytes ==
  ASSUME IInv, phase = "write", NEW n \in 0 .. Cardinality(DOMAIN image)
  PROVE  0 .. n - 1 \subseteq DOMAIN image
<1>1. CASE DOMAIN image = {}
  BY <1>1, FS_EmptySet
<1>2. CASE DOMAIN image # {}
  <2>1. DOMAIN image = 0 .. length - 1 /\ length \in Nat
    BY <1>2, PartitionSelected DEF IInv, PA!ReturnInv, PA!IInv, PA!TypeOK
  <2>2. Cardinality(0 .. length - 1) = length
    BY <2>1, FS_Interval
  <2> QED
    BY <2>1, <2>2
<1> QED
  BY <1>1, <1>2

\* The greatest element is the only one that is no less than any.
LEMMA GreatestIs ==
  ASSUME NEW S, S \subseteq Nat, NEW l \in S, \A n \in S : n <= l
  PROVE  (CHOOSE n \in S : \A m \in S : m <= n) = l
<1>1. \A n \in S : (\A m \in S : m <= n) => n = l
  OBVIOUS
<1> QED
  BY <1>1

\* The text that was read is the last active one the partition's first label
\* leads to.
LEMMA TextIsDescribed ==
  ASSUME IInv, phase = "write"
  PROVE  /\ DescribedLocation.length = text.length
         /\ text.count > 0 /\ Plain(DescribedPlace, DescribedLocation.length) =>
              text.first = DescribedAddress
<1> DEFINE content == Contents[drive.start]
           first(n) == /\ content.labels[n].labelled
                       /\ \A m \in 1 .. n - 1 : ~ content.labels[m].labelled
           areas == M!SecondList(content.labels[sector].descriptors)
           area == DescribedArea
           active == {n \in 1 .. MaxLocations :
                        /\ area.locations[n].active
                        /\ \A m \in 1 .. n : ~ M!IsZero(area.locations[m])}
<1>1. /\ sector \in 1 .. 4 /\ PM!FirstLabel(sector)
      /\ blocks = PM!SecondList(PM!Descriptors)
      /\ text.location \in PM!ActiveLocations
      /\ PM!TextInPlace
  BY PartitionSelected DEF IInv, TextInv, PM!OriginInv
<1>2. pv = content
  <2>1. pv.labels[sector].labelled
    BY <1>1 DEF PM!FirstLabel, PM!Matches
  <2>2. pv # Unlabelled
    BY <1>1, <2>1 DEF Unlabelled, NoLabel
  <2> QED
    BY <2>2, PartitionSelected DEF ContentAt
<1>3. first(sector) /\ \A n \in 1 .. 4 : first(n) => n = sector
  <2>1. first(sector)
    BY <1>1, <1>2 DEF PM!FirstLabel, PM!Matches
  <2>2. ASSUME NEW n \in 1 .. 4, first(n)
        PROVE  n = sector
    <3>1. ~ n < sector /\ ~ sector < n
      BY <1>1, <2>1, <2>2
    <3> QED
      BY <1>1, <3>1
  <2> QED
    BY <2>1, <2>2
<1>4. (CHOOSE n \in 1 .. 4 : first(n)) = sector
  BY <1>1, <1>3
<1>5. area = PM!Area
  <2>1. area = content.headers[areas[1].offset]
    BY <1>4 DEF DescribedArea
  <2>2. areas = blocks
    BY <1>1, <1>2, SameMetadata DEF PM!Descriptors
  <2> QED
    BY <1>2, <2>1, <2>2 DEF PM!Area, PM!HeaderOffset
<1>6. active = PM!ActiveLocations
  BY <1>5, SameMetadata DEF PM!ActiveLocations, PM!UsedLocations
<1>7. text.location \in active /\ \A n \in active : n <= text.location
  BY <1>1, <1>6, PartitionSelected DEF IInv, PM!IInv, PM!TextIsLastActive
<1>8. active \subseteq Nat
  <2>1. MaxLocations \in Nat
    BY StageAssumptions DEF PM!MetadataAssumption
  <2>2. active \subseteq 1 .. MaxLocations
    OBVIOUS
  <2> HIDE DEF active
  <2> QED
    BY <2>1, <2>2
<1>9. (CHOOSE n \in active : \A m \in active : m <= n) = text.location
  <2> HIDE DEF active
  <2> QED
    BY <1>7, <1>8, GreatestIs
<1>10. DescribedLocation = area.locations[text.location]
  BY <1>9 DEF DescribedLocation
<1>11. DescribedPlace = PM!Place
  BY <1>5, <1>10 DEF DescribedPlace, PM!Place
<1>12. DescribedLocation.length = text.length
  BY <1>1, <1>5, <1>10 DEF PM!TextInPlace
<1> QED
  BY <1>1, <1>11, <1>12
  DEF PM!TextInPlace, DescribedAddress, Plain, PM!Plain

\* The two instances of VolumeAssembly lay a volume out in one way.
LEMMA SameLayout ==
  /\ A!Supported <=> PA!Supported
  /\ A!Segments = PA!Segments
  /\ \A n, b : A!InSegment(n, b) <=> PA!InSegment(n, b)
  /\ \A n, b : A!Source(n, b) = PA!Source(n, b)
<1>1. /\ A!segments = PA!segments /\ A!Segments = PA!Segments
      /\ A!ExtentSize = PA!ExtentSize
  BY DEF A!segments, PA!segments, A!Segments, PA!Segments, A!ExtentSize, PA!ExtentSize
<1>2. /\ \A n : A!FirstByte(n) = PA!FirstByte(n)
      /\ \A n : A!Bytes(n) = PA!Bytes(n)
      /\ \A n : A!SegmentBytes(n) = PA!SegmentBytes(n)
      /\ \A n : A!FirstStripe(n) = PA!FirstStripe(n)
  BY <1>1
  DEF A!FirstByte, PA!FirstByte, A!Bytes, PA!Bytes, A!SegmentBytes, PA!SegmentBytes,
      A!FirstStripe, PA!FirstStripe, A!Unsigned, PA!Unsigned
<1>3. \A n : A!Place(n) = PA!Place(n)
  BY <1>1, <1>2 DEF A!Place, PA!Place
<1>4. \A n, b : A!InSegment(n, b) <=> PA!InSegment(n, b)
  BY <1>2 DEF A!InSegment, PA!InSegment
<1>5. \A n, b : A!Source(n, b) = PA!Source(n, b)
  BY <1>2, <1>3 DEF A!Source, PA!Source
<1>6. A!Supported <=> PA!Supported
  <2>1. A!Tiled <=> PA!Tiled
    BY <1>1, <1>2 DEF A!Tiled, PA!Tiled
  <2>2. A!Placed <=> PA!Placed
    BY <1>1, <1>2, <1>3 DEF A!Placed, PA!Placed, A!Plain, PA!Plain
  <2>3. A!OneStripe <=> PA!OneStripe
    BY <1>1 DEF A!OneStripe, PA!OneStripe
  <2> QED
    BY <2>1, <2>2, <2>3 DEF A!Supported, PA!Supported
<1> QED
  BY <1>1, <1>4, <1>5, <1>6

LEMMA WriteMemoryBufferPreserves == IInv /\ WriteMemoryBuffer => IInv'
<1> SUFFICES ASSUME IInv, WriteMemoryBuffer
             PROVE  IInv'
  OBVIOUS
<1>1. /\ phase = "write" /\ phase' = "close"
      /\ UNCHANGED <<driveVars, damaged, gptVars, areaVars, blockVars>>
  BY DEF WriteMemoryBuffer
<1>2. UNCHANGED <<drive, descriptors, transfer, gpt, text, short, volume, areaStage,
                  blockStage, damaged>>
  BY <1>1 DEF driveVars, gptVars, areaVars, blockVars
<1>3. PICK n \in 0 .. Cardinality(DOMAIN image) :
        file' = [created |-> TRUE, bytes |-> FirstBytes(n)]
  BY DEF WriteMemoryBuffer
<1>4. /\ DOMAIN file'.bytes \subseteq DOMAIN image
      /\ \A b \in DOMAIN file'.bytes : file'.bytes[b] = image[b]
      /\ file'.bytes = [b \in DOMAIN file'.bytes |-> image[b]]
      /\ file'.created = TRUE
      /\ file' = [created |-> TRUE, bytes |-> file'.bytes]
  BY <1>1, <1>3, WrittenBytes DEF FirstBytes
<1>5. DriveOK'
  BY <1>2 DEF IInv, PM!IInv, PM!TypeOK, DriveOK, PM!DriveOK, Status, PM!Status
<1>6. /\ SearchInv' /\ WindowInv' /\ TextInv'
      /\ PM!IInv' /\ PA!IInv' /\ PA!ReturnInv'
  BY <1>1, <1>2, <1>5, StagesKept
<1>7. image \in [DOMAIN image -> Int]
  BY DEF IInv, PA!IInv, PA!TypeOK
<1>8. FileOK'
  <2>1. file'.bytes \in [DOMAIN file'.bytes -> Int]
    BY <1>4, <1>7
  <2> QED
    BY <1>2, <1>4, <2>1 DEF IInv, FileOK
<1>9. G!LVMEntries' = G!LVMEntries /\ PG!LVMEntries = G!LVMEntries
  BY <1>2, SameSearch DEF G!LVMEntries, G!Listed
<1>10. FileFromLVMPartition'
  <2>0. PA!Placed <=> A!Placed'
    BY <1>2, SameAssembly
    DEF A!Placed, A!Segments, A!segments, A!Place, A!FirstStripe, A!SegmentBytes,
        A!ExtentSize
  <2> SUFFICES ASSUME PA!Placed, NEW b \in DOMAIN file'.bytes,
                      file'.bytes[b] # A!Junk
               PROVE  OnLVMPartition(file.bytes[b])'
    BY <2>0 DEF FileFromLVMPartition, A!Junk
  <2> DEFINE address == image[b]
  <2>1. b \in DOMAIN image /\ file'.bytes[b] = address /\ address # PA!Junk
    BY <1>4, SameAssembly
  <2>2. drive.start <= address /\ address < drive.start + drive.length
    BY <2>1 DEF IInv, PA!IInv, PA!NothingOutsideWindow
  <2>3. PICK k \in PG!LVMEntries :
          /\ drive.start = gpt.entries[k].firstLBA * SectorSize
          /\ drive.start + drive.length <= (gpt.entries[k].lastLBA + 1) * SectorSize
    BY <1>1, PartitionSelected
    DEF IInv, SearchInv, PG!SelectionIsLVM, PG!WindowStartsAt
  <2>4. drive.start \in Int /\ drive.length \in Nat /\ address \in Int
    BY <1>7, <2>1 DEF IInv, PA!IInv, PA!TypeOK, PA!DriveOK
  <2>5. (gpt.entries[k].lastLBA + 1) * SectorSize \in Int
    <3>1. k \in 1 .. Len(gpt.entries) /\ gpt.entries \in Seq(PG!Entry)
      BY StageAssumptions
      DEF PG!LVMEntries, PG!Listed, IInv, SearchInv, PG!TypeOK, PG!GPTAssumption,
          PG!Header
    <3>2. gpt.entries[k] \in PG!Entry
      BY <3>1
    <3>3. gpt.entries[k].lastLBA \in Nat
      BY <3>2 DEF PG!Entry
    <3>4. gpt.entries[k].lastLBA + 1 \in Nat /\ SectorSize \in Nat
      BY <3>3, DriveAssumption
    <3>5. \A p, q \in Nat : p * q \in Int
      OBVIOUS
    <3> QED
      BY <3>4, <3>5
  <2> HIDE DEF address
  <2>6. address < (gpt.entries[k].lastLBA + 1) * SectorSize
    BY <2>2, <2>3, <2>4, <2>5
  <2> QED
    BY <1>2, <1>9, <2>1, <2>2, <2>3, <2>6 DEF OnLVMPartition
<1>11. FileIsVolume'
  <2>1. \E m \in G!LVMEntries' : G!WindowStartsAt(m)'
    <3>1. PICK m \in PG!LVMEntries : PG!WindowStartsAt(m)
      BY <1>1, PartitionSelected DEF IInv, SearchInv, PG!SelectionIsLVM
    <3> QED
      BY <1>2, <1>9, <3>1 DEF PG!WindowStartsAt, G!WindowStartsAt
  <2>2. ASSUME TextComplete, ~ damaged, TextIsLVM
        PROVE  volume = Described[DescribedAddress]
    <3>1. text.first = DescribedAddress /\ DescribedAddress \in DOMAIN Described
      BY <1>1, <2>2, TextIsDescribed DEF TextComplete, TextIsLVM
    <3> QED
      BY <1>1, <2>2, <3>1 DEF IInv, HandoverInv
  <2>3. ASSUME A!Supported, NEW b \in DOMAIN file'.bytes
        PROVE  IF file'.bytes[b] = A!Junk
               THEN \E m \in short : A!InSegment(m, b)
               ELSE \E m \in A!Segments :
                      A!InSegment(m, b) /\ file'.bytes[b] = A!Source(m, b)
    <3>1. PA!Supported
      BY <2>3, SameLayout
    <3>2. b \in DOMAIN image /\ file'.bytes[b] = image[b]
      BY <1>4
    <3>3. CASE image[b] = PA!Junk
      <4>1. \E m \in PA!Segments : PA!InSegment(m, b) /\ m \in short
        BY <1>1, <3>1, <3>2, <3>3, PartitionSelected
        DEF IInv, PA!IInv, PA!JunkInv, PA!Supported
      <4> QED
        BY <3>2, <3>3, <4>1, SameLayout, SameAssembly
    <3>4. CASE image[b] # PA!Junk
      <4>1. \E m \in PA!Segments : PA!InSegment(m, b) /\ image[b] = PA!Source(m, b)
        BY <3>1, <3>2, <3>4 DEF IInv, PA!IInv, PA!NoForeignByte
      <4> QED
        BY <3>2, <3>4, <4>1, SameLayout, SameAssembly
    <3> QED
      BY <3>3, <3>4
  <2>4. /\ DescribedPlace' = DescribedPlace
        /\ DescribedLocation' = DescribedLocation
        /\ DescribedAddress' = DescribedAddress
    BY <1>2, DescribedKept
  <2>5. TextIsLVM' <=> TextIsLVM
    BY <2>4 DEF TextIsLVM
  <2>6. /\ A!Supported' <=> A!Supported
        /\ A!Segments' = A!Segments
        /\ \A m, b : A!InSegment(m, b)' <=> A!InSegment(m, b)
        /\ \A m, b : A!Source(m, b)' = A!Source(m, b)
    BY <1>2, LayoutKept
  <2>7. /\ TextComplete' <=> TextComplete
        /\ damaged' = damaged /\ short' = short /\ volume' = volume
    BY <1>2 DEF TextComplete
  <2> QED
    BY <2>1, <2>2, <2>3, <2>4, <2>5, <2>6, <2>7 DEF FileIsVolume, A!Junk
<1>12. OpenInv' /\ WaitingInv' /\ HandoverInv' /\ phase' \in Phases
  BY <1>1, <1>2 DEF IInv, OpenInv, WaitingInv, HandoverInv, Phases
<1> QED
  BY <1>6, <1>8, <1>10, <1>11, <1>12 DEF IInv

-----------------------------------------------------------------------------
(* The ends.                                                               *)

\* Steps of main that give up, close the drive or do nothing.
LEMMA EndingPreserves ==
  IInv /\ (NoTree \/ DiesCollecting \/ CreateFails \/ Close \/ Over) => IInv'
<1> SUFFICES ASSUME IInv, NoTree \/ DiesCollecting \/ CreateFails \/ Close \/ Over
             PROVE  IInv'
  OBVIOUS
<1>1. /\ phase # "readGPT" /\ phase' \in {"close", "exited", "died", "corrupted"}
      /\ phase = "died" => phase' = "died"
      /\ UNCHANGED <<file, damaged, gptVars, areaVars, blockVars>>
  BY DEF NoTree, DiesCollecting, CreateFails, Close, Over, vars, mainVars
<1>2. DriveOK
  BY DEF IInv, PM!IInv, PM!TypeOK, DriveOK, PM!DriveOK, Status, PM!Status
<1>3. /\ DriveOK' /\ OpenInv'
      /\ drive'.start = drive.start /\ drive'.length = drive.length
  <2>1. CASE NoTree \/ DiesCollecting \/ CreateFails \/ Over
    <3>1. UNCHANGED <<drive, descriptors, transfer>>
      BY <2>1 DEF NoTree, DiesCollecting, CreateFails, Over, vars, driveVars
    <3> QED
      BY <1>2, <3>1 DEF DriveOK, IInv, OpenInv
  <2>2. CASE Close
    <3>1. CASE drive.status = "open"
      <4>1. /\ drive' = [drive EXCEPT !.status = "closed"]
            /\ descriptors' = descriptors - 1 /\ transfer' = transfer
            /\ descriptors > 0
        BY <2>2, <3>1 DEF Close, CloseDrive, IInv, OpenInv
      <4> QED
        BY <1>2, <4>1 DEF DriveOK, Status, OpenInv
    <3>2. CASE drive.status # "open"
      BY <1>2, <2>2, <3>2 DEF Close, CloseDrive, DriveOK, OpenInv
    <3> QED
      BY <3>1, <3>2
  <2> QED
    BY <2>1, <2>2
<1>4. /\ SearchInv' /\ WindowInv' /\ TextInv'
      /\ PM!IInv' /\ PA!IInv' /\ PA!ReturnInv'
  BY <1>1, <1>3, StagesKept
<1>5. FileOK' /\ FileFromLVMPartition' /\ FileIsVolume'
  BY <1>1, <1>3, FileKept DEF IInv
<1>6. WaitingInv'
  <2>1. phase' \in {"died", "corrupted"} => phase \notin {"close", "exited"}
    BY DEF NoTree, DiesCollecting, CreateFails, Close, Over, vars, mainVars
  <2> QED
    BY <1>1, <2>1 DEF IInv, WaitingInv
<1>7. HandoverInv' /\ phase' \in Phases
  BY <1>1 DEF HandoverInv, Phases
<1> QED
  BY <1>3, <1>4, <1>5, <1>6, <1>7 DEF IInv

LEMMA StutterPreserves == IInv /\ UNCHANGED vars => IInv'
<1> SUFFICES ASSUME IInv, UNCHANGED vars
             PROVE  IInv'
  OBVIOUS
<1>1. /\ UNCHANGED <<phase, file, damaged, drive, descriptors, transfer>>
      /\ UNCHANGED <<gptVars, areaVars, blockVars>>
  BY DEF vars, mainVars, driveVars
<1>2. DriveOK'
  BY <1>1 DEF IInv, PM!IInv, PM!TypeOK, DriveOK, PM!DriveOK, Status, PM!Status
<1>3. /\ UNCHANGED <<gptStage, gpt, position, areaStage, text, blockStage, volume,
                     linked, short>>
  BY <1>1 DEF gptVars, areaVars, blockVars
<1>4. FileOK' /\ FileFromLVMPartition' /\ FileIsVolume'
  BY <1>1, FileKept DEF IInv
<1>5. OpenInv' /\ WaitingInv' /\ HandoverInv' /\ phase' \in Phases
  BY <1>1, <1>3 DEF IInv, OpenInv, WaitingInv, HandoverInv, TextComplete
<1>6. CASE phase = "readGPT"
  <2>1. PG!IInv'
    <3>1. PG!IInv /\ UNCHANGED PG!vars
      BY <1>1, <1>3, <1>6 DEF IInv, SearchInv, PG!vars
    <3> QED
      BY <3>1, SearchStep
  <2>2. SearchInv'
    BY <1>1, <1>3, <2>1 DEF IInv, SearchInv, PG!IInv
  <2>3. /\ PM!IInv' /\ PM!OriginInv' /\ PM!MediaInv'
        /\ PA!IInv' /\ PA!ReturnInv'
    BY <1>1, <1>2, AreaKept, BlockKept DEF IInv, TextInv
  <2> QED
    BY <1>1, <1>4, <1>5, <1>6, <2>2, <2>3 DEF IInv, WindowInv, TextInv
<1>7. CASE phase # "readGPT"
  BY <1>1, <1>2, <1>4, <1>5, <1>7, StagesKept DEF IInv
<1> QED
  BY <1>6, <1>7

\* Every step of main preserves the inductive invariant.
LEMMA StepPreserves == IInv /\ [Next]_vars => IInv'
BY ReadGPTPreserves, ReadMetadataPreserves, ParseAndCollectPreserves,
   ReadLogicalVolumePreserves, WriteMemoryBufferPreserves, EndingPreserves,
   StutterPreserves
DEF Next

-----------------------------------------------------------------------------
(* The theorems.                                                           *)

\* The inductive invariant of main's chain of stages.
THEOREM Invariant == Spec => []IInv
BY InitEstablishes, StepPreserves, PTL DEF Spec

\* Type correctness of main and of all its stages at once.
THEOREM TypeCorrect == Spec => []TypeOK
<1>1. IInv => TypeOK
  BY SameSearch, SameMetadata, SameAssembly
  DEF IInv, SearchInv, PM!IInv, PA!IInv, FileOK, TypeOK
<1> QED
  BY <1>1, Invariant, PTL

\* Whatever the medium holds and whatever fails on the way, no byte from
\* outside the LVM partitions gets into the file, unless the volume that was
\* collected places an extent in front of its partition or out of range
\* (readlogicalvolume.c:381-409, 470-496, readaccess.c:87).
THEOREM FileConfined == Spec => []FileFromLVMPartition
BY Invariant, PTL DEF IInv

\* For every table, label, list of texts and volume: a file whose text was read
\* completely and collected with every allocation it takes comes from an LVM
\* partition of the table, and if the last active text on that partition is one
\* in LVM's format and describes a linear volume, a byte of the file is the byte
\* of that volume which belongs there, or junk from a segment whose read fell
\* short (readlogicalvolume.c:446, parseMetadata.c:956).
THEOREM FileHoldsVolume == Spec => []FileIsVolume
BY Invariant, PTL DEF IInv
=============================================================================
