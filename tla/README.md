# readlogicalvolume in TLA+

`readlogicalvolume` is a small sequential C program that copies one LVM2
logical volume out of a disk image into a file without help from the kernel: it
finds an LVM partition in the GPT, follows the physical volume label to the
metadata area, parses the text of the metadata, collects the segments of the
volume from it and reads them one by one into a memory block.

There are no threads. What makes the program hard to test is that every stage
hands over to the next through state with little protection (the *window* in
the drive, blocks that may have been read only in part, a tree looked up by
hash, static variables in callbacks), that nearly no result of a read is looked
at, and that what is on the medium can be anything.

Line numbers are those of the sources at the modelled commit.

## The system

| Part | Files | State | Operations |
|---|---|---|---|
| drive access | `readaccess.c/.h` | `tDrive`: descriptor, sector size, window (start, length) | `openDrive`, `setPartition`, `readDrive`, `closeDrive` |
| GPT reader | `readlogicalvolume.c:339-418`, `gpt.h` | header and table buffers, entry pointer and count; the drive's window | `readGPT` |
| label reader | `readlogicalvolume.c:251-336`, `lvm.h` | four sectors, cursors into two lists, the block list | `readPhysicalVolumeLabel` |
| metadata area reader | `readlogicalvolume.c:166-248`, `lvm.h` | area header, cursor over raw locations, the text block | `readMetadata` |
| text parser | `parseMetadata.c:74-135, 390-673` | character buffer with one position, the tree under construction | `parseMetadata`, `parseChild`, `parseValue`, `parseList`, ... |
| node tree | `parseMetadata.c:137-387` | linked nodes, each with its key's hash | `forEachNode`, `getKeyHash`, `getKeyPath`, dumps |
| volume collection | `parseMetadata.c:676-899` | one `tPhysicalVolume`, an array of segments with their stripes, statics of the callbacks | `physVolCallback`, `logVolCallback`, first half of `readLogicalVolume` |
| volume assembly | `parseMetadata.c:900-961` | links from stripes to the physical volume, the memory block | second half of `readLogicalVolume` |
| hash, checksum | `stringHash.c/.h` | none | `hashString`, `hashBytes`, `checkCRC32` |
| main, output | `readlogicalvolume.c:421-500` | the stages' results, the output file | `main`, `writeMemoryBuffer` |
| debug output | `debug.c/.h`, `dump*` functions | log level | formatting |
| test helpers | `testpattern.c`, scripts, CMake files | none | make a test image |

**How the parts interact.** `main` calls, in this order and in one thread,
`openDrive`, `readGPT`, `readPhysicalVolumeLabel`, `readMetadata`,
`parseMetadata`, `readLogicalVolume`, `writeMemoryBuffer` and `closeDrive`.
All the readers share the drive: `readGPT` returns its result by moving the
drive's window onto a partition, and all later reads are relative to that window.
The other results are handed on as pointers: the label's block list to
`readMetadata`, its text to the parser, the tree to `readLogicalVolume`, which
walks it with two callbacks.

**What is hard, and what makes each part correct:**

| Part | Hard behaviour | What must hold |
|---|---|---|
| drive access | a window that moves; offsets that may be negative and sums that wrap; short and failed reads; partial failures of `openDrive`; repeated close | a plain request gets bytes only from the window in force; the descriptor is owned exactly by an open drive |
| GPT reader | result hidden in the drive; several LVM entries; inclusive last LBA; a table read in part; a checksum over as many bytes as the header says | no window but one inside an LVM partition of a completely read table, or one at the start of the medium |
| label reader | two zero-terminated lists behind one another, counted in one pass and copied in another, which may not end in the buffer | what is returned is the metadata list of the first label |
| metadata area reader | a walk without a count; a later active location replaces the text of an earlier; reads not told from failed reads | the walk stays in its buffer and ends; the text is the last active location's |
| collection | callbacks that see only depth and index; static variables; arrays sized by counts read apart from their elements; lookup by hash at any depth | what is collected is what the text says; no write outside an array |
| assembly | segments scattered over the physical volume; three origins added up; numbers taken from the text unchecked; results of reads ignored | every byte of a linear volume's block is the volume's byte for that place, or junk from a read that fell short |
| text parser | keys end at the first odd character, which is swallowed; a one-character push-back that does nothing at the end; lists cut off by clearing `next`; a text that was read in part | the tree is a tree and says what the text says; a cut text adds nothing; parsing ends |
| node tree | a recursion whose depth and index are all a callback knows; keys known by 64 bits; paths taken apart in place | calls come in the order, depth and index of the text; a path leads where its keys lead |
| main, output | every stage may return nothing, or something that is not what it seems; a tree damaged by a failed allocation is used like another; the size written is not looked at | only bytes of the volume a complete text describes reach the file; every path ends, and exits with the drive closed |

`PROJECT.json` lists each such hazard at its line with the properties that
would catch it. Where the code does go wrong and no document says that it should not, no property
can catch it; the hazard then has a note that says what the models show.

## The modules

    DriveAccess ---- DriveCaller ---------------- DriveCallerProofs
         |           (an arbitrary caller)
         +---------- PartitionTable ------------- MCPartitionTable
         |                +---------------------- PartitionTableProofs
         +---------- MetadataArea --------------- MCMetadataArea
         |                +---------------------- MetadataAreaProofs
         +---------- VolumeAssembly ------------- MCVolumeAssembly
         |                |    \
     VolumeImage ---------+     VolumeAssemblyProofs
     (abstract, INSTANCE WITH)
         |
         +---------- Pipeline ------------------- MCPipeline
                     |    +---------------------- PipelineProofs
                     (INSTANCE of PartitionTable, MetadataArea, VolumeAssembly;
                      the proofs INSTANCE the proofs of these)

     MetadataText --- MetadataFormat ------------ MCMetadataText
                          +---------------------- MetadataTextProofs
     NodeSequence --- VolumeCollection ---------- MCVolumeCollection
         |                +---------------------- VolumeCollectionProofs
         +----------- NodeTree ------------------ MCNodeTree
     StringHash ------+   +---------------------- NodeTreeProofs
     Preorder (INSTANCE in NodeTree; extended by VolumeText, INSTANCE in VolumeCollection)
     VolumeGroups (builders of trees, extended by three MC modules)

A line to the right or down is an `EXTENDS`. The readers *compose* with the drive by
extending `DriveAccess` and using its action fragments: a reader's read step is
`\E result \in ReadResults(offset, length) : ReadDrive(offset, result) /\ ...`,
so each reader is checked against every outcome a read can have. They *follow*
one another by assumption: each starts in every state the one before it can end
in that matters (`Windows` are windows `readGPT` leaves, including the small one
at the start of the medium; `Volumes` are volumes `VolumeCollection` collects).

**`DriveAccess`.** `drive` is the `tDrive`: `status` is what its pointer and
`id` say (not yet opened, `NULL`, open, closed), `start` and `length` are the
window. `descriptors` counts the descriptors the process holds. Bytes of the
medium are named by their addresses, and `transfer` is the range of addresses
the last read delivered. `open`, `fstat`, `strdup`, `lseek` and `read` are choices
among their outcomes; a read of *n* bytes that is admitted may return -1, or any
number from 0 to *n* that the medium still has. `OpenDrive`, `SetPartition`,
`ReadDrive` and `CloseDrive` are the four operations.

*Words.* `SignBit` stands for 2^63: an `off64_t` is a number from `-SignBit` to `SignBit - 1`
(`Offsets`), a `size_t` one from 0 to `2 * SignBit - 1` (`Lengths`), as on the 64-bit systems the program's
format strings take for granted. `Unsigned` and `Signed` are what is left of a number in either type.
`readDrive`'s check adds one of each, and the sum is a `size_t` (`Admitted`); the seek adds to the window's start, and fails on
a negative place (`Target`). What comes from the medium is compared with nothing on the way there, so offsets
in the models are any. A request is `Plain` if it is what it looks like: its offset is not
negative and its end fits a `size_t`. Of plain requests the check does what its message says. Others, which a medium may ask for, can be admitted
and read from in front of the window or from behind it; the runs have such requests, and the properties are about
plain ones.

**`DriveCaller`.** Any sequence of the four operations with any `off64_t` and any
`size_t`: what every reader leans on, independent of how it calls.

**`PartitionTable`.** `main`'s call of `openDrive` and `readGPT`. `stage` is
the program point, `gpt` the header and table on the medium, `position` the
entry the walk is at (`entry` and `count` step together in the code). An entry is
unused, LVM or another; comparison of UUIDs and byte order are abstracted to
that. A header is signed or not, its CRC matches or not, and it says how long it is: `checkCRC32` goes over that many bytes
of the block `readGPT` read the header into, and of a header that says more than `HeaderSize` the
process may die (`DieOfChecksum`, stage "crashed") or go on.

**`MetadataArea`.** `readPhysicalVolumeLabel` and `readMetadata` in sequence.
The label of each of the four sectors is `NoLabel` or what the process can read from where its lists begin:
`descriptors`, of which the first `inside` are in the sectors that were read and the others
whatever memory lies behind. Nothing makes the lists end in the sectors; a walk that comes to the end of what the process can read
dies (`RunsOffMemory`). `cursor` is the pointer into them. `mdaList` remembers where the second list
starts; counting and copying are separate passes, one descriptor a step.
`HeaderBuffer` is the buffer longer than what is read into it. Offsets of areas and texts are any
`off64_t`, and the sum of the two is one again (`TextOffset`). `text` is
the block returned: which location it was allocated for, how long it is, and
which addresses were read to it.

**`MetadataText`.** `parseMetadata` and all it calls, as a machine over the
characters of `text`; `ptr` is the buffer's position, `frames` the activations of
`parseChild`, `heap` the nodes in the order they were allocated in, with their `next`
and `list`/`child` pointers. A step is one turn of the loop of `parseChild`
or of `parseList`. Each `newNode` may fail (`MaxFailures`), and then gives back the node it
was called with.

**`MetadataFormat`.** The texts LVM writes, as a grammar that knows nothing of the
parser: `Written` is a set of texts, each with the nodes it means in the order of the text, and with its
*places*, where one piece (a key with its blank, a value with its equals sign, a brace, a comma, a
comment, blank lines, ...) ends and the next begins. A place says how deep it is nested and
how many nodes are before it; `Stands` says what may be between two of them, `Says`
that the places lead from the text's beginning to its end. Nesting is a number here, so a written text
is checked from left to right, without recursion.

**`NodeSequence`, `Preorder`.** The tree as its readers see it: the sequence of its nodes in the
order `forEachNode` visits them, each with its depth. `Nodes`, `Children`, `Index` and
`Found` are read off that sequence.

**`VolumeText`.** What such a tree says of a logical volume (`SegmentAt`,
`PhysicalVolumes`, ...), by nesting and names alone, whatever the order. And of which trees
`readLogicalVolume` collects what they say: `WellFormed`. The sections
are where they belong and their names nowhere else; the label is the name of one volume;
segments have distinct numbers up to their count and each attribute at most once, as a number; a
list of stripes comes behind their count and is as long as it says; and no other strings and
numbers stand as deep as stripes do. LVM's own writer keeps to this for volumes of
plain segments; the run `segment_tags` shows a text that does not.

**`NodeTree`.** `forEachNode` and `getKeyPath` on the linked nodes: `frames` are
the activations of `forEachNodeRecurse`, `calls` the calls of the callback so
far. `getKeyPath` takes a key from the path, hashes it byte by byte and searches below
the node found before. It ties `NodeSequence` to the code: the order, depth and
index `VolumeCollection` takes for granted are what the recursion delivers, and searching
by hash is searching by key for the vocabulary of the metadata.

**`StringHash`.** The djb2 recurrence at 64 bits, as four limbs of 16 with
signed characters, and the callbacks' constants `kHash_...`.

**`VolumeCollection`.** `readLogicalVolume` up to the linking of the stripes, over a
`NodeSequence`: `getKeyPath` is called by it with single keys only (`Found`).
`seg` and `stripeCount` are the static variables of the callback, `pv` and
`segments` what is collected. Every allocation may fail.

**`VolumeAssembly`.** The rest of `readLogicalVolume`. `volume` is what was
collected: any numbers of their types, in segments that may have gaps, overlap, and have any number of stripes. What the code
computes of them is cut to its type (`SegmentBytes`, `BlockOffset`, `DriveOffset`, `AddedLength`). `image` is the block: each byte holds the address it was read from,
or `Junk` where `malloc`'s memory was never written. Nothing compares a segment's place with the block, and when
bytes were read to a place outside it the stage is "overrun", from where nothing more is said. `short` is a history variable:
the segments whose read returned less than asked. `FirstByte`, `Bytes` and `Place` say, without
cutting anything, where the metadata puts a segment, and `Source` which byte of the medium a byte
of the volume is. That is so for *linear* volumes, which are those the code says it is for ("this code
assumes one stripe per segment", `parseMetadata.c:929`): `Supported` says that the segments follow one another
from the first extent on (`Tiled`), have one stripe each (`OneStripe`) and name no extent in front of
the partition (`Placed`). What the bytes of a striped volume should be is not defined here: the code fills a
block with the first stripe's, and no property calls that right.

**`Pipeline`.** `main`. The stages that read are instances of their modules on one
drive, each with the state it has there: `main`'s steps *are* the steps of `PartitionTable`, then of
`MetadataArea`, then of `VolumeAssembly`, with what one leaves as the start of the
next. What a physical volume holds depends on where the window is (`ContentAt`), what a
text describes on the address it was read from. `Described` has the addresses of texts in LVM's format
only; such a text that was read completely gives its volume, if no allocation fails while it is
parsed and collected. Any other gives any of `Volumes`, striped ones and ones with gaps or with extents in front of the partition
among them, or the end of the process: a failed `newNode` or `dupString` is not noticed (`MetadataText`), and the
tree it leaves is used like a right one. `damaged` is a history variable: such an allocation has failed. Parsing and collecting are one step
here; `MetadataText` and `VolumeCollection` are the detail of it. `file` is the
output: its bytes are addresses of the medium, or `Junk`. "corrupted" is the phase after bytes
were written outside a block or an array.

**`VolumeImage`.** What reading a volume promises to somebody who knows nothing
of segments or reads: an image of the volume's length in which any part may be
filled with its own content at any time, and nothing else ever happens to it.
`VolumeAssembly` implements it for linear volumes: `content` is the address that byte *b*
of the volume has by the segment that contains *b*, and `status` is read off
`stage`. For other volumes `content` is empty, and nothing is promised.

Operators whose comment starts with "Slip:" are not part of the behaviour: they
are the mutations each property was tried against ("mutants" in
`PROJECT.json`), written next to the definition they would replace.

## The runs

| Run | Configuration | What it asks | Result |
|---|---|---|---|
| `drive` | `DriveCaller.cfg` | can any caller get bytes from outside the window by a plain request, or lose or double-close the descriptor? | no; only the failed `strdup` leaks |
| `partition_table` | `PartitionTable.cfg` | which windows can `readGPT` leave, and does the walk end? | inside an LVM partition, the only one if there is one only, or at the start of the medium; it ends, or dies of a header longer than its block |
| `metadata_area` | `MetadataArea.cfg` | do the list walks agree and end, does the one over the locations stay in its buffer; which text is returned? | they do if the label's lists end in the sectors; the last active one |
| `metadata_text` | `MetadataText.cfg` | is the tree the one the text was written for, in any layout; what does a cut text give; is it always a tree, and does parsing end? | holds as long as nodes can be allocated; parsing ends in any case |
| `node_tree` | `NodeTree.cfg` | do the recursion and the paths deliver what the collection takes for granted; are the constants hashes? | holds |
| `collection` | `VolumeCollection.cfg` | is what is collected what the text says, in any order of segments and attributes? | holds for volumes without other lists in their segments |
| `assembly` | `VolumeAssembly.cfg` | is every byte of the block the right one or explained junk; does the code implement `VolumeImage`; do bytes from outside the window get in? | yes for linear volumes; for any volume only by extents in front of the partition |
| `pipeline` | `Pipeline.cfg` | what can reach the file when any read or allocation fails, and does the program always end with the drive closed? | of a complete text, parsed with all its allocations, bytes of the linear volume it describes, or junk from short reads; otherwise any bytes of LVM partitions, or worse if an extent is in front of its partition; it ends |
| `first_partition` | `PartitionTableFirst.cfg` | is the first LVM partition the one selected? | no: the last |
| `last_lba` | `PartitionTableLastLBA.cfg` | does the window reach the inclusive last LBA? | no: one sector short |
| `circular_text` | `MetadataAreaCircular.cfg` | is a text that wraps round the circular area read from the area? | no: from behind it |
| `segment_tags` | `VolumeCollectionTags.cfg` | are other lists in a segment told from the stripes? | no: `NULL` is followed |

The last four are expected to end with a counterexample; each is a finding in
`PROJECT.json` that quotes the line the code disagrees with.

**Met on the way, without a run of their own.** These disagreements follow from one
definition each, so the definition says all there is to say:

- `readDrive` says that it refuses a "read requested past the end of partition" (`readaccess.c:89`); as the sum it checks is
  modulo 2^64, an offset of -8 and a length of 16 are admitted by any window of 8 bytes or more (`Admitted`), and the read starts with the 8 bytes in
  front of the partition.
- `readLogicalVolume` notes that it "assumes one stripe per segment" (`parseMetadata.c:929`) and refuses no
  other; it reads the first stripe for all of the segment (`FirstStripe`).
- The label is found by hash at any depth below `logical_volumes`, among the strings of lists too (`parseMetadata.c:242`):
  a volume behind one that is tagged with its name is not found, and an empty block is written. `WellFormed` excludes it.
- `checkCRC32` (`stringHash.c:89`) is documented to return false on a mismatch; it logs
  and returns true. `CheckCRC32` of `PartitionTable` is `TRUE`; that it also reads as many bytes as a header on the medium says
  is `ChecksumOverruns`.
- `readGPT` may die of a header that says it is longer than its block, `readPhysicalVolumeLabel` of lists
  that do not end, and `readLogicalVolume` writes outside its block for segments with gaps. No document promises otherwise; the
  stages "crashed" and "overrun" say when it happens.
- `newNode` returns the node it was called with when `calloc` fails
  (`parseMetadata.c:66`); the callers take it for a new one, so a node can become its own child and the
  walks over the tree never leave it. `NewNode` of `MetadataText` does that, and
  `NodesFormTree` has to exclude it.
- `getPreviousChar` puts nothing back once the last character is read (`parseMetadata.c:91`), so a text
  that ends in a list `[1]` without a newline loses the element with the bracket, and one that ends in a
  one-digit number reads it as 0 (`PreviousChar`). `MetadataFormat` asks of a text that
  a number is not its last piece, and a list's bracket neither. LVM ends its texts with a newline.
- LVM writes names with hyphens, dots and plus signs, and `\"` in strings; a key ends at the first of
  these (`parseMetadata.c:633`) and a string at the quote (`parseMetadata.c:510`). Such texts are not
  of the format of `MetadataFormat`.
- Two names with one hash are one name to `getKeyPath` (`parseMetadata.c:242`); labels as
  short as `ab` and `bA` have the same. `PathResolved` is claimed for a
  vocabulary whose hashes are distinct: `HashesDistinct` is a hypothesis of its proof, and TLC
  finds it true of the metadata's vocabulary and the names in `MCNodeTree` (`MCHashesDistinct`).

**Bounds, and why they are enough.**

- `SignBit` stands for 2^63 and is small but well above the sizes of the media, so that numbers
  that are right do not wrap and some that are wrong do.
- `DriveCaller`: sectors and media of a few bytes; every offset and every length of a `SignBit` of 4 (-4 to 3, and 0 to 7) against
  windows of every size and place and a medium of 4 bytes, so requests fall in front of, inside, across and
  beyond the window and the medium's end, sums wrap, and windows move on and off 0. The
  window check is linear in three numbers: small differences exercise every case.
- `PartitionTable`: `SignBit` (32) above the last byte of the tables' partitions;
  headers as long as they are and one byte longer; `MaxEntries` (3) gives tables with an LVM entry before,
  between and after others and behind an unused one, one of three overlapping
  extents each. `MediaLength` (21) cuts through the last extent; `InitialWindow`
  (8) is longer than some tables' windows and shorter than others.
- `MetadataArea`: all placements of five labels (long, empty and absent lists,
  a descriptor with length zero, lists that end in the memory behind the sectors and lists that do not end) in four sectors, and all lists of `MaxLocations`
  (3, where the code has 32) raw locations that are unused, ignored or active and lie
  inside the area, across its end, beyond the window's or medium's, in front of the partition, or so that
  the request wraps (35 bytes, for a `SignBit` of 20). With all
  three in use only the sentinel ends the walk.
- `VolumeCollection`: volume groups of up to two physical and two logical
  volumes with up to two segments, attributes in two orders, segments in
  ascending and descending order, with and without a list in between, one or two
  stripes, deeper trees; every document with a label that is there and one that
  may not be. Two segments show what the static variables carry over.
- `MetadataText`: the texts of two small volume groups in several layouts, the smaller
  one also cut off at every place, with nothing or with zero bytes behind the cut; and every
  text
  of up to a few of the parser's own characters, which reaches each branch of each
  loop from each other one. One node may fail to be allocated.
- `NodeTree`: five trees, one that holds the whole vocabulary, one four levels
  deep with one key at each level, one with lists, empty trees and an empty string, and two volume groups; walks
  from every node of each; paths of none to three keys with slashes in front, at
  the end and in pairs.
- `Pipeline`: eight media (no table, a header longer than its block, a table with no LVM partition, one or two in
  either order, a medium that is a physical volume itself), two active texts on
  one partition, a text in front of its partition, volumes with segments in reverse, between one another and past the end, one on a
  physical volume of another name, and, as a wrong tree may give them, one with an extent in front of the partition whose
  request wraps, one with a gap and one with two stripes; every read may fail or fall short anywhere,
  every allocation and `open` may fail. `SignBit` (128) is above the medium's 72 bytes.
- `VolumeAssembly`: `MaxSegments` (3) segments of one or two extents, at
  physical extents 0, 1 and 3, the last beyond the end of the smaller window and
  the medium, overlapping ones included, in any order; volumes with gaps and overlaps; single segments with start, count and place
  around 0 and around the ends of a word (`SignBit` 32, extents of two bytes); one volume of each other kind
  that is not supported; two windows. `VolumeAssemblyStripes.cfg` has one segment. Results for more segments are proved.

**Fairness.** `PartitionTable`, `MetadataArea`, `MetadataText`, `VolumeCollection` and `Pipeline` have
`WF_vars(Next)`: the program is one thread that neither waits nor yields, so
as long as it has a step to take it takes one. `read` on a file or block
device is taken to return. `DriveCaller` has no fairness, as a caller may stop at
any time, and `VolumeAssembly` and `NodeTree` none, as their properties are safety. All runs check
for deadlock: the final stages have an explicit stuttering action (`Over` and the like).

## What is proved

Every module that models code but `StringHash`, which is computation only, has machine-checked proofs:
`DriveCallerProofs` (about the drive access routines), `PartitionTableProofs`, `MetadataAreaProofs`,
`MetadataTextProofs`, `NodeTreeProofs`, `VolumeCollectionProofs`,
`VolumeAssemblyProofs`, and `PipelineProofs`, which puts three of them together. They
hold for every width of a word, every window, every sector and media size, every number of segments, table entries,
metadata areas and raw locations, every extent size, every outcome of every read and
allocation, texts of any length and trees of any size and depth.

**Assumptions** are those of the modules, and TLC evaluates each of them on the instances it checks:

- `DriveAssumption` (sizes are natural numbers, a sector is not empty, and a medium is no longer than an
  `off64_t` can address), `GPTAssumption` (a used entry starts behind LBA
  0, ends no earlier than it starts and at a place an `off64_t` can address, and so does the table; sizes are
  positive).
- `MetadataAssumption` (labels and headers have their types; a window is a part of what an `off64_t` can address;
  a header has room for `MaxLocations` locations). Nothing is assumed of the lists' ends.
- `TextAssumption` (a text is a string).
- `FormatAssumption` (each text of `Written` is of LVM's format, `Says`): it says what the texts
  are that the theorems about written texts speak of, and asks nothing of `Texts`, which may hold
  any bytes. TLC evaluates it on two volume groups in four layouts. `PiecesAssumption` says of strings what `SubSeq`'s
  definition says of sequences, and what the prover, to which strings are no sequences, has to be told: pieces of no
  length are empty, and texts that begin alike have the same pieces there.
- `CodesAssumption` (a name is signed bytes other than
  zero, as C strings are), `PathsAssumption` (`keys` of a path are what stands between its
  slashes; all names in use have a code).
- `DocumentsAssumption` (a tree is a sequence of nodes in preorder; only child and list nodes
  have deeper ones behind them). `DocumentsParsed` proves this of what `parseMetadata` makes of any text, as
  long as nodes can be allocated, with one exception: a key without a value gives a node of no
  type, which LVM does not write. `CollectionAssumption` (a sector is not empty).
- `VolumeAssumption` (windows and volumes have their types, and a window is a part of what an `off64_t` can address).
  Segments may lie anywhere, and stripes may be any number, name any volume and lie anywhere; `Tiled`, `Placed` and `Supported`
  are hypotheses of the properties that need them.
- `PipelineAssumption`: those of the three stages, and two things about the medium. No
  metadata area lies inside the first `InitialWindow` bytes of a physical volume (LVM puts a
  label into the first four sectors and the areas at 4096 and further), so when `readGPT` selects
  nothing and leaves the small window at the start of the medium, every header is beyond
  its reach, also for an offset that wraps. And each address in `Described` has one volume.

Two theorems have a hypothesis besides: `HashesDistinct` for the searches of `NodeTree`, and
`WellFormed` for what `VolumeCollection` collects. Both are checked by TLC of the names
and documents of the runs (`MCHashesDistinct`, `MCWellFormed`), so that these are among what the theorems speak
of. Neither can be done without: the run `segment_tags` and the pair `ab`, `bA` are the counterexamples.

| Theorem of `DriveCallerProofs` | Statement |
|---|---|
| `TypeCorrect` | type correctness |
| `DescriptorsBalance` | for any sequence of calls, an open drive owns one descriptor and a closed one none |
| `ReadsConfined` | `ReadsStayInWindow`: only an open drive delivers bytes, and by a plain request only those of the window in force |

| Theorem of `PartitionTableProofs` | Statement |
|---|---|
| `Invariant`, `TypeCorrect` | the inductive invariant `IInv` of `readGPT`, type correctness |
| `SelectedIsLVM` | a window off the start of the medium lies inside an LVM partition |
| `SelectedFromWholeTable` | a table not read completely selects nothing |
| `SoleIsSelected` | `SoleSelected`: the one LVM partition of a table is selected, and none if there is none |
| `LastIsSelected` | when `readGPT` has returned, a window off the start is the last LVM partition's of the whole table |
| `NothingSelected` | without a selection the window ends with the table or is `openDrive`'s |

`DescriptorBalance` and `TypeOK` are inductive together. For `readGPT` the
properties need to know where the window is at each stage (`OpeningInv`,
`TableInv`), that the walk has passed only used entries (`PositionInv`), which makes
the entry it selects one of `LVMEntries`, that it is over a completely read table
(`WholeInv`), and that the window is untouched until the first LVM entry is
passed (`UntouchedInv`). A legal entry's window is not at 0, which is how the
properties tell a selection from none; that is where `GPTAssumption` is used.

| Theorem of `MetadataAreaProofs` | Statement |
|---|---|
| `Invariant`, `TypeCorrect` | the inductive invariant `IInv` of the two readers, type correctness |
| `BlocksAreFirstLabels` | `readMetadata` is given the metadata list of the first label, complete and ended by zero, if it ends in the sectors |
| `WalkConfined` | the walk over the raw locations stays in its buffer, also when all are in use |
| `TextOfLastActive` | the text returned is the last active location's, fits its block, and is from where it says if that is behind the partition's start |
| `TextHasOrigin` | `OriginInv`, `MediaInv`: it was found by way of the first label, the first area of its second list and a location there; its bytes are the medium's, and if the place is behind the partition's start, those of the window from that place on |

Here the work is in the lists. `StartsAt` and `EndsAt` say of a list of descriptors that has zeros somewhere
where the second list starts and where it ends. `SkipInv` and `CountInv` say that the walks have passed no zero but these,
and `CopyInv`, that the block
list holds the areas copied so far and `calloc`'s zeros behind them, gives the complete list at
the end. What a list without an end gives is the end of the process or, if the memory behind the sectors happens to hold zeros,
a list from there: `BlocksOfFirstLabel` speaks of lists that end inside. `WalkInv` says that the locations passed are all used, so the zero
location that `calloc` left behind the last one (`HeaderFacts`) cannot be passed; `TextInv` is
`TextIsLastActive` for the part of the list walked so far, and `TextInPlace` that the bytes are the window's.

| Theorem of `MetadataTextProofs` | Statement |
|---|---|
| `Invariant` | the inductive invariant `IInv` of the parser |
| `TypeCorrect` | the cursor stays in the buffer, pointers in the heap, numbers are numbers |
| `TreeBuilt` | `NodesFormTree`: no node is led to by two pointers, and none leads to the root |
| `DocumentsParsed` | `VisitsAreDocument`: what is made of any text is, as `forEachNode` visits it, a document as `NodeSequence` asks for (no run states it) |
| `FormatRead` | for texts of LVM's format, whole or cut off, the inductive invariant `ReadsFormat` |
| `WrittenIsParsed` | `ParsedAsWritten`: the tree is the one the text was written for, in any layout |
| `CutTextIsPrefix` | `CutTextGivesPrefix`: a text cut off anywhere gives the first nodes of the whole one, and at most one more |

The first four are for every text whatsoever, well formed, cut off or neither, and any number of failed
allocations; the properties exclude the failures themselves, as a failed `newNode`
gives back a node that is already there. What the parser has in
its hands is more than the tree: each activation of `parseChild` waits with a list of children
that hangs behind its owner by `next`, since `parseChild` allocates behind the node it is called with and
cuts the list off only when it is complete (`parseMetadata.c:561-564, 612-616`); `parseList` does
the same. So `TreeInv` says, as long as no allocation failed, that the pointers are a forest all along (`Forest`), that the
activations are nested as their nodes are (`Nested`), that each one's node is
reached from its owner (`Hanging`), and that nothing follows the node that is read
(`ChildAtEnd`, `ListAtEnd`), which is why cutting off and putting below moves one
list and leaves no pointer behind. `DocumentsParsed` adds that the first activation stays the
root's, so that when it returns nothing is left behind the root (`RootAlone`), and that in a heap whose pointers
lead to nodes allocated later `Visits` has a solution (`VisitsExist`), and each solution is in preorder
(`SolutionOrdered`). Two lemmas about heaps carry the steps: a node allocated
at the end (`Extended`) and a pointer moved (`Repointed`).

The last three, `FormatRead` and on, compare the tree with a text's nodes. That looks like an induction over the
nesting, which the prover cannot do; the argument avoids it by comparing nodes in the order they are
*allocated* in, which is the order of the text. `Settled` says what a complete node's pointers must be in terms of
depths alone: below it is the node allocated next, if that is deeper, and behind it the next one of its own depth, if only deeper ones
lie between (`Follows`). `Unsettled` says it of a node whose list is still being read
and hangs behind it. `Shape` puts these together with the stack: the activation at level *f* was called for a node of depth
*f* - 1, and is at the last node of depth *f* so far. `Inside` says that the parser is at a place of the text and that
its nodes and its element say what the text says before that place (`Read`); `Behind`, that it is behind the part of the
text that was read (a text that was cut off, and zero bytes), where all nodes but the last are complete.

Then there is one lemma for each piece of the grammar (`KeyWordRead`, `SectionStartRead`, `ListEndRead`, ...): from a place
the step comes to the next place, or to where the text was cut (`Comes`). Each rests on where the scans for
characters end, in a whole text and in one cut off at any character (`ToInText`, `PastInText`), and
on a lemma of the step's effect on the shape (`KeyShape`, `ReturnShape`, `ListEndShape`, ...). Behind the part that was read, zero bytes
give keys of no length and ends of lists, which add nothing (`BehindStep`). At the end no list is open, so all
nodes are settled, and from that `BuiltVisits` concludes that `forEachNode` visits them in the order of allocation, each at its depth:
`Visits` is the only solution of its recurrence (`SolutionUnique`, by the least
counterexample from the last node on), and the nodes from one to the end of its list are a solution (`SolutionSolves`).

`TypeCorrect` needs that `parseInteger`'s sum is a number (`IntegerIsNat`). That is a sum of as many terms
as there are digits; see "Recursive functions" below.

| Theorem of `NodeTreeProofs` | Statement |
|---|---|
| `Invariant` | the inductive invariant `IInv` of the recursion |
| `CallsInPreorder` | `CallsInOrder`: the *n*-th call is for the *n*-th node from the root on, with its depth and index |
| `WalksComplete` | `WalkComplete`: a walk calls back for every node, or up to the first with the hash |
| `KeyInvariant`, `TypeCorrect` | the invariant `TInv` of the keys and hashes; type correctness |
| `PathInvariant` | with `HashesDistinct`, the invariant `PInv`: what is found is where the keys so far lead |
| `SearchByKey` | with `HashesDistinct`, `CallsFollowSequence`: a search by hash ends at the first node with the key |
| `PathsResolved` | with `HashesDistinct`, `PathResolved`, for paths of any number of keys and slashes |

The argument for the recursion is about the
waiting activations, which no property mentions: each
is at a node of its own level, and all nodes between that one and the one ahead
(`Ahead`, the first not called back for) are deeper (`Waits`). So when a list ends
and an activation goes on, the node ahead is the next of the one it waited
at, if it is on the same level (`Follows`, `NextOfFacts`), and its index is one more
(`IndexOfNext` counts the siblings); the case of the end of a list and that of a node with
nothing below share one lemma, `GoOnStacked`. `SearchInv` says that no
node so far had the hash, for `WalksComplete`.

For paths, `KeyInv` says that the hash so far is the hash of the key's bytes so far
(`HashedUpTo`), so it is the key's hash at the slash or the end. `PlaceInv` says
that `end`, where the path will be read on, is where a key begins or behind the text, so that counting the
beginnings before it (`Taken`) counts the keys taken. `PathInv` then is
`PathResolved` in the middle of the loop: what is found is where the first `Taken` keys lead.
`SearchEnds` ties the hash search of `WalkComplete` to the first node with the key; `NothingBehind` is the end of the path.

| Theorem of `VolumeCollectionProofs` | Statement |
|---|---|
| `TypeCorrect` | type correctness, for every tree |
| `Invariant` | for well-formed trees, the inductive invariant `IInv` of the two walks |
| `SegmentsCollected` | for well-formed trees, `SegmentsAsWritten` |
| `PhysicalVolumeCollected` | for well-formed trees, `PhysicalVolumeAsWritten` |
| `NoWriteOutside` | for well-formed trees, `WritesStayInArrays` |
| `NullFollowedForCause` | for well-formed trees, `VolumeCollected` |

The callbacks get a node, its depth and its index, one after the other, and the properties speak of a nested
text; the proofs connect the two. The invariant says of the
place the walk has come to that everything *before* it is collected: `VolumeTaken` of the
physical volumes' names and numbers, `SegmentTaken` of each segment's numbers
and stripes, which are `IntegerAt` and `Element` of the part of the text that has been passed. And
it says of the static variables that they are those of the tree the walk is in (`StaticsFit`): after the first node
of a segment, `seg` is its number, and once its `stripe_count` has been passed,
`stripeCount` is that. The tree the walk is in is a matter of the node *last* passed, as the callback learns of the
next tree only when called for it.

Each action that writes has then one question to answer: whose is this node? A node two or
three levels below the volume is below one child only (`ChildOfChild`, `OneTree`); is that a segment,
the place written is its own, as the numbers are distinct (`OthersKept`), and is in the array, as
the number is no greater than the count (`SegmentHere`); is it none, `NothingCollected`
says nothing is written (`NothingHere`). Attributes come once, so what was taken before is not
lost (`AttributeTaken`); in particular the array of stripes is not allocated again after its first element,
because the list comes behind the count. Two elements of one list have different places
(`IndexOfOne`, from counting siblings), and of two with one half of their place one is the name and one the
extent, so a stripe's two writes do not touch one another (`StripeTaken`). At the end
everything is before the place the walk has come to, and a segment of which everything is taken
is the segment as written (`SegmentIsWritten`).

| Theorem of `VolumeAssemblyProofs` | Statement |
|---|---|
| `Invariant` | the inductive invariant `IInv` |
| `TypeCorrect` | type correctness |
| `ForeignBytesExcluded` | if the volume is linear (`Supported`), each byte of the block is junk or the byte that belongs there |
| `WindowConfines` | nothing from outside the partition's window reaches the block, unless an extent is in front of the partition or out of range (`Placed`) |
| `ReadsFitBlock` | without gaps (`Tiled`), the length summed up covers every place a segment is read to: no overflow of the block |
| `JunkExplained` | without gaps, junk in a returned block belongs to a segment whose read fell short |
| `SupportedVolumesDoNotCrash` | a crash means a foreign or nameless stripe, a segment without stripes, or an extent size of 0 |
| `Refinement` | `Spec => ImplementsVolumeImage`, which promises something of linear volumes |

**The inductive invariant of the assembly.** None of the properties is inductive alone. That
reads fit the block while reading depends on what the loop before it summed up;
so `SizeInv` says, with `Measured(at - 1, length)`, that the segments
passed so far lie in order in the first `length` bytes, do not overlap and
leave no byte uncovered. `ReadInv` carries the result into the read stage:
the block has exactly the measured length. `LinkedInv` says that the sizing loop
went on only past segments that are linked to the physical volume, which is why the
read loop never follows `NULL` (`SizeSegment` would have crashed before). `JunkInv`
generalises `JunkOnlyFromShortReads` to the middle of the loop: junk belongs to
a segment still to be read, or read short. `LinkInv` and `EmptyInv` tie down the
earlier stages. Each action has a lemma; the interesting one is
`ReadSegmentPreserves`, which rests on `ReadFacts` (what a read can deliver,
given the window check) and `ReceivedBytes` (which bytes of the block it changes).

**The refinement.** Since segments are disjoint, `SegmentOf(b)` is the one segment
that contains *b*, so the address a read puts into byte *b* is
`Content[b]`. With that, `Allocate` maps to `Allocate`, `ReadSegment` to `Fill`,
the ways to return to `Return`, the crashes to `Abort`, and sizing steps to
stuttering.

| Theorem of `PipelineProofs` | Statement |
|---|---|
| `Invariant` | the inductive invariant `IInv` of `main` |
| `TypeCorrect` | type correctness of `main` and all its stages at once |
| `FileConfined` | `FileFromLVMPartition`: whatever was parsed, no byte from outside the LVM partitions reaches the file, unless the volume collected places an extent in front of its partition |
| `FileHoldsVolume` | `FileIsVolume`: with a complete text and no failed allocation, the file comes from an LVM partition; if that partition's last active text is one in LVM's format, what was assembled is the volume it describes, and if that is linear a byte of the file belongs there in it, or is junk of a read that fell short |

`main`'s stages are instances of the modules above, and so are their proofs: each phase has
the stage's own invariant, by its own step lemmas. What is new is what lies between them. `SearchInv` and `WindowInv`
keep what `readGPT` found (`LastIsSelected`) through all the phases after it, in none of which the
window moves; `TextInv` keeps where the text came from (`TextOfLastActive`, `TextHasOrigin`); `HandoverInv` says
that the volume assembled is the one this text describes, if nothing damaged it; and `WaitingInv` that stages to come are still in their
initial state, so that their invariants hold when they start. With no
partition selected the window holds no metadata area, as `PipelineAssumption` has it, so
no text is found and no file written.

**Recursive functions.** The library's induction theorems take an operator as parameter,
which the provers cannot instantiate, so what a recursively defined function computes has no
general proof. Case by case the least counterexample does instead: a set of natural numbers that is
not empty has a least member (`LeastNumber`, from the well-foundedness of `<`), and
of the least number for which a claim about the function fails, the recurrence shows that
it holds. `IntegerIsNat`, `BuiltVisits`, `VisitsExist`, `SolutionOrdered`, `KeyInvariant` and `PathInvariant` (for `HashedUpTo` and
for the fold of a path's keys) rest on such an argument.

**Only model-checked.** All liveness properties (`SearchTerminates`, `ParsingEnds`,
`CollectionEnds` and the like), as liveness and `ENABLED` are out of the prover's reach.
Of the invariants, `ConstantsAreHashes` of `NodeTree`, which is a computation on the constants in the source that TLC does
completely.

## Abstractions

- Data on the medium is typed: a signature is right or not, a UUID is LVM's or
  not. Decoding little-endian integers is exact and left out.
- Sums and products of offsets, lengths and extents wrap in 64 bits as in C. Where the type is signed an
  overflow is not defined by C; the models take it to wrap, as it does where the compiler makes
  no use of that. The GPT reader's own numbers do not wrap: tables are those of the standard
  (`GPTAssumption`), whose 32-bit `count * size` fits.
- A label's offset to its lists is abstracted to what can be read from there.
- The parser gives an empty string a `NULL` pointer, which the callbacks'
  `strdup` follows (`parseMetadata.c:717` and others). The empty string of the
  models stands for that pointer. A string's copy that could not be allocated is
  not told from it.
- Bytes of a text that were not read are zero, as `calloc` left them.
- Logging is left out, except where a log statement can crash the program: the
  dump of a tree not found (`parseMetadata.c:223`), the dump of a segment whose
  stripe has no physical volume, the division at `parseMetadata.c:954`.
- A process that followed `NULL`, trapped, read memory that is not its own, or wrote outside a block or an array has stopped
  for the model ("crashed", "corrupted", "overrun", "exhausted"). It may have gone on after
  writing there; nothing is said of what it does then.

## Not modelled

- A value between a brace and the first key behind it is written to the tree's own node, whose
  pointer to its children is then stored in the same union (`parseMetadata.c:618`). No such text
  is in `Texts` of whole volume groups; among the short sequences it is, but what a
  walk makes of the confused type is not followed.
- The dumps of a tree, whose indentation ends at a depth of 45 (`kIndent`),
  and all other formatting of debug output.
- `calcCRC32`, whose result is only logged.
- `usage` and the command line.
- The shell script and generator that make a test image; the CMake files. They have no
  state of the program.

## Plan

1. *(done)* The models: `DriveAccess`, `PartitionTable`, `MetadataArea`,
   `VolumeCollection`, `VolumeAssembly` with `VolumeImage`; `MetadataText`, `NodeTree`
   with `StringHash`, `Pipeline`.
2. *(done)* The proofs of every safety property of the runs, but for the constants of the hash.
3. *(done)* `ParsedAsWritten` and `CutTextGivesPrefix` for every text of LVM's format.
4. That parsing and collecting, one step of `Pipeline`, are what `MetadataText` and
   `VolumeCollection` do: a volume collected from a well-formed text is one of `Described`.
