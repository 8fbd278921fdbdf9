------------------------------ MODULE Pipeline ------------------------------
(***************************************************************************)
(* main of readlogicalvolume.c: the drive is opened, and readGPT, the      *)
(* readers of the label and of the metadata, the parser, readLogicalVolume *)
(* and writeMemoryBuffer follow one another as long as each returns        *)
(* something; closeDrive and exit( 0 ) end every path.                     *)
(*                                                                         *)
(* The stages that read are those of PartitionTable, MetadataArea and      *)
(* VolumeAssembly, on one drive.  Parsing and collecting (MetadataText,    *)
(* VolumeCollection) are one step: a text in LVM's format, read completely *)
(* and parsed with every allocation it takes, gives the volume it          *)
(* describes; any other gives any volume, or the end of the process.       *)
(***************************************************************************)
EXTENDS DriveAccess, SequencesExt

CONSTANTS
  HeaderSize, EntrySize, Headers,              \* of PartitionTable
  HeaderLength, MaxLocations,                  \* of MetadataArea
  Volumes,                                     \* of VolumeAssembly
  Contents,   \* what the medium holds from an address on, by address
  Described   \* the volumes that texts in LVM's format describe, by address

VARIABLES
  phase,      \* which of its calls main is at
  file,       \* the output file
  damaged,    \* history: an allocation failed while the tree of the text
              \* was built or the volume collected from it
  \* of PartitionTable:
  gptStage, gpt, position,
  \* of MetadataArea:
  areaStage, pv, sector, cursor, mdaList, blocks, text,
  \* of VolumeAssembly:
  blockStage, volume, linked, at, length, image, short

mainVars == <<phase, file, damaged>>
gptVars == <<gptStage, gpt, position>>
areaVars == <<areaStage, pv, sector, cursor, mdaList, blocks, text>>
blockVars == <<blockStage, volume, linked, at, length, image, short>>
vars == <<driveVars, mainVars, gptVars, areaVars, blockVars>>

G == INSTANCE PartitionTable WITH stage <- gptStage

NoLabel == [labelled |-> FALSE, descriptors |-> <<>>, inside |-> 0]

Unlabelled == [labels |-> [n \in 1 .. 4 |-> NoLabel], headers |-> <<>>]

PhysicalVolumes == {Contents[a] : a \in DOMAIN Contents} \cup {Unlabelled}

M == INSTANCE MetadataArea
       WITH stage <- areaStage, Windows <- {}

A == INSTANCE VolumeAssembly WITH stage <- blockStage, Windows <- {}

\* "corrupted": bytes were written outside a block, and what the process does
\* from then on is not defined.
Phases == {"readGPT", "label and metadata", "parse", "readLogicalVolume",
           "write", "close", "exited", "died", "corrupted"}

NoFile == [created |-> FALSE, bytes |-> A!NoImage]

\* Nothing collected: no name, no extent size, no segment.
NoVolume == [name |-> "", extentSize |-> 0, peStart |-> 0, segments |-> <<>>]

\* Address 0 is that of a physical volume which is the whole medium.  LVM puts
\* no metadata area into the first 4096 bytes of a physical volume.
ASSUME PipelineAssumption ==
  /\ G!GPTAssumption /\ M!MetadataAssumption /\ A!VolumeAssumption
  /\ 0 \in DOMAIN Contents
  /\ DOMAIN Contents[0].headers \cap 0 .. InitialWindow - 1 = {}
  /\ Described \in [DOMAIN Described -> Volumes]
  /\ NoVolume \in Volumes

TypeOK ==
  /\ phase \in Phases
  /\ damaged \in BOOLEAN
  /\ G!TypeOK /\ M!TypeOK /\ A!TypeOK
  /\ file \in [created : BOOLEAN, bytes : [DOMAIN file.bytes -> Int]]

Init ==
  /\ phase = "readGPT" /\ file = NoFile /\ damaged = FALSE
  /\ G!Init
  /\ areaStage = "label" /\ pv = Unlabelled /\ sector = 1 /\ cursor = 1
  /\ mdaList = 0 /\ blocks = <<>> /\ text = M!NoText
  /\ blockStage = "link" /\ volume = NoVolume /\ linked = {} /\ at = 1
  /\ length = 0 /\ image = A!NoImage /\ short = {}

-----------------------------------------------------------------------------
(* The calls of main.                                                      *)

\* What the readers find where the window is: sector 1 holds a GPT header or
\* a physical volume's label.
ContentAt(address) ==
  IF address \in DOMAIN Contents /\ (address = 0 => ~ gpt.signed)
  THEN Contents[address] ELSE Unlabelled

\* openDrive and readGPT.  openDrive's result is looked at; readGPT's is the
\* drive again, whatever it found.
ReadGPT ==
  /\ phase = "readGPT"
  /\ G!Next
  /\ phase' = CASE gptStage' = "crashed" -> "died"
                [] gptStage' = "returned" /\ drive'.status = "open" ->
                     "label and metadata"
                [] gptStage' = "returned" /\ drive'.status # "open" -> "close"
                [] OTHER -> phase
  /\ pv' = IF gptStage' = "returned" THEN ContentAt(drive'.start) ELSE pv
  /\ UNCHANGED <<file, damaged, areaStage, sector, cursor, mdaList, blocks, text,
                 blockVars>>

\* readPhysicalVolumeLabel and readMetadata.
ReadMetadata ==
  /\ phase = "label and metadata"
  /\ M!Next
  /\ phase' = CASE areaStage' = "crashed" -> "died"
                [] areaStage' = "returned" /\ text' = M!NoText -> "close"
                [] areaStage' = "returned" /\ text' # M!NoText -> "parse"
                [] OTHER -> phase
  /\ UNCHANGED <<file, damaged, gptVars, blockVars>>

TextComplete == text.bytes /\ text.count > 0 /\ text.count = text.length

\* When an allocation for a node, a string or the collected volume fails, most
\* often nothing notices and what is made of the text is another volume.
VolumesOfText(failed) ==
  IF TextComplete /\ ~ failed /\ text.first \in DOMAIN Described
  THEN {Described[text.first]}
  ELSE Volumes

\* parseMetadata and the collecting half of readLogicalVolume.
ParseAndCollect ==
  /\ phase = "parse" /\ text.bytes
  /\ damaged' \in BOOLEAN
  /\ volume' \in VolumesOfText(damaged')
  /\ phase' = "readLogicalVolume"
  /\ UNCHANGED <<driveVars, file, gptVars, areaVars, blockStage, linked, at,
                 length, image, short>>

\* The root of the tree could not be allocated.
NoTree ==
  /\ phase = "parse" /\ text.bytes
  /\ phase' = "close"
  /\ UNCHANGED <<driveVars, file, damaged, gptVars, areaVars, blockVars>>

\* The text's bytes were not allocated, and getNextChar follows NULL; or a walk
\* over a tree with a cycle has no end but that of the stack; or what was
\* parsed makes the collecting half crash, or write outside its arrays
\* (VolumeCollection).
DiesCollecting ==
  /\ phase = "parse"
  /\ phase' \in {"died", "corrupted"}
  /\ UNCHANGED <<driveVars, file, damaged, gptVars, areaVars, blockVars>>

\* The assembling half of readLogicalVolume.
ReadLogicalVolume ==
  /\ phase = "readLogicalVolume"
  /\ \/ A!NoBlock /\ phase' = "close"
     \/ /\ \/ A!LinkStripes \/ A!SizeSegment \/ A!Allocate \/ A!NoBytes
           \/ A!ReadSegment \/ A!DivisionTrap \/ A!ReturnBlock
        /\ phase' = CASE blockStage' = "returned" -> "write"
                      [] blockStage' = "crashed" -> "died"
                      [] blockStage' = "overrun" -> "corrupted"
                      [] OTHER -> phase
  /\ UNCHANGED <<file, damaged, gptVars, areaVars>>

CreateFails ==
  /\ phase = "write"
  /\ phase' = "close"
  /\ UNCHANGED <<driveVars, file, damaged, gptVars, areaVars, blockVars>>

FirstBytes(n) == [b \in 0 .. n - 1 |-> image[b]]

\* write's result is not looked at: it may have written less, or nothing.
\* There are no bytes to write if their allocation failed.
WriteMemoryBuffer ==
  /\ phase = "write"
  /\ \E n \in 0 .. Cardinality(DOMAIN image) :
       file' = [created |-> TRUE, bytes |-> FirstBytes(n)]
  /\ phase' = "close"
  /\ UNCHANGED <<driveVars, damaged, gptVars, areaVars, blockVars>>

Close ==
  /\ phase = "close"
  /\ CloseDrive
  /\ phase' = "exited"
  /\ UNCHANGED <<file, damaged, gptVars, areaVars, blockVars>>

\* exit( 0 ), or the process died, or anything may happen.
Over ==
  /\ phase \in {"exited", "died", "corrupted"}
  /\ UNCHANGED vars

Next ==
  \/ ReadGPT \/ ReadMetadata
  \/ ParseAndCollect \/ NoTree \/ DiesCollecting
  \/ ReadLogicalVolume \/ CreateFails \/ WriteMemoryBuffer \/ Close
  \/ Over

\* The program is one thread that runs until it exits.
Spec == Init /\ [][Next]_vars /\ WF_vars(Next)

-----------------------------------------------------------------------------
(* Properties.                                                             *)

\* The address is one of an LVM partition of the table.
OnLVMPartition(address) ==
  \E n \in G!LVMEntries :
    /\ gpt.entries[n].firstLBA * SectorSize <= address
    /\ address < (gpt.entries[n].lastLBA + 1) * SectorSize

\* Whatever is read, refused or cut short on the way, and although readGPT
\* does not say whether it found a partition, no byte from outside the LVM
\* partitions gets into the file, also when the whole medium is a physical
\* volume, and whatever was parsed, unless it places an extent in front of its
\* partition (readlogicalvolume.c:381-409, 470-496, readaccess.c:87).
FileFromLVMPartition ==
  A!Placed =>
    \A b \in DOMAIN file.bytes :
      file.bytes[b] # A!Junk => OnLVMPartition(file.bytes[b])

\* What the physical volume in the window says: the header of the first area
\* in its first label, the last active location the header lists, its place.
DescribedArea ==
  LET content == Contents[drive.start]
      labelled == CHOOSE n \in 1 .. 4 :
                    /\ content.labels[n].labelled
                    /\ \A m \in 1 .. n - 1 : ~ content.labels[m].labelled
      areas == M!SecondList(content.labels[labelled].descriptors)
  IN  content.headers[areas[1].offset]

DescribedLocation ==
  LET locations == DescribedArea.locations
      active == {n \in 1 .. MaxLocations :
                   /\ locations[n].active
                   /\ \A m \in 1 .. n : ~ M!IsZero(locations[m])}
  IN  locations[CHOOSE n \in active : \A m \in active : m <= n]

DescribedPlace == DescribedArea.start + DescribedLocation.offset

DescribedAddress == drive.start + DescribedPlace

\* That text is one in LVM's format, and behind the start of the partition.
TextIsLVM ==
  /\ Plain(DescribedPlace, DescribedLocation.length)
  /\ DescribedAddress \in DOMAIN Described

\* If the text was read completely and no allocation failed when it was parsed
\* and collected, what is assembled is the volume which the last active text on
\* the selected LVM partition describes, and if that one is linear, each byte
\* of the file is the byte that belongs there, or junk from a segment whose
\* read fell short: nothing else reaches the file on any path.  It may be
\* shorter than the volume, as write's result is not looked at
\* (readlogicalvolume.c:446, parseMetadata.c:956).
FileIsVolume ==
  (file.created /\ TextComplete /\ ~ damaged) =>
    /\ \E n \in G!LVMEntries : G!WindowStartsAt(n)
    /\ TextIsLVM =>
         /\ volume = Described[DescribedAddress]
         /\ A!Supported =>
              \A b \in DOMAIN file.bytes :
                IF file.bytes[b] = A!Junk
                THEN \E n \in short : A!InSegment(n, b)
                ELSE \E n \in A!Segments :
                       A!InSegment(n, b) /\ file.bytes[b] = A!Source(n, b)

\* main comes to its exit or dies on every path, whatever the medium holds
\* and whatever fails on the way, and does not exit with the drive open; if
\* bytes were written outside a block, nothing is known any more
\* (readlogicalvolume.c:456-500).
ProgramEnds ==
  <>(\/ phase \in {"died", "corrupted"}
     \/ phase = "exited" /\ drive.status # "open")
=============================================================================
