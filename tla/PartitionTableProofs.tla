------------------------ MODULE PartitionTableProofs ------------------------
(***************************************************************************)
(* Proofs about readGPT for tables of any length, entries of any size and  *)
(* partitions anywhere on a medium of any size.                            *)
(***************************************************************************)
EXTENDS PartitionTable, TLAPS

-----------------------------------------------------------------------------
(* The inductive invariant.                                                *)

\* Before the header is accepted the window is what openDrive made it.
OpeningInv ==
  stage \in {"open", "header", "table"} =>
    /\ drive.start = 0
    /\ drive.length \in {0, InitialWindow}

\* From then on it lies over the table, until the walk begins.
TableInv ==
  stage = "read" => drive.start = 0 /\ drive.length = TableWindow(gpt)

\* The walk is at the first entry until it moves, and moves only past
\* entries that are used.
PositionInv ==
  /\ stage \in {"open", "header", "table", "read"} => position = 1
  /\ stage = "walk" =>
       /\ position \in 1 .. Len(gpt.entries) + 1
       /\ \A n \in 1 .. position - 1 : gpt.entries[n].kind # "unused"

\* The walk is over a table that was read completely.
WholeInv ==
  (stage = "walk" /\ gpt.entries # <<>>) =>
    transfer = [first |-> TableOffset(gpt), count |-> TableLength(gpt)]

\* As long as no LVM entry was passed the window is still the table's.
UntouchedInv ==
  (stage = "walk" /\ \A n \in LVMEntries : n >= position) =>
    drive.start = 0 /\ drive.length = TableWindow(gpt)

\* Without a GPT header the window stays what openDrive made it.
SignedInv ==
  /\ stage \in {"table", "read", "walk"} => gpt.signed
  /\ ~ gpt.signed => drive.start = 0 /\ drive.length \in {0, InitialWindow}

\* A window off the start of the medium is the one of the last LVM entry the
\* walk has passed: there is one.
PassedInv ==
  (stage = "walk" /\ drive.start # 0) =>
    \E n \in LVMEntries :
      /\ n < position /\ \A m \in LVMEntries : m < position => m <= n
      /\ WindowStartsAt(n)

\* The window is always the one of the last LVM entry the walk has passed.
LatestSelected ==
  stage = "walk" =>
    \A n \in LVMEntries :
      (n < position /\ \A m \in LVMEntries : m < position => m <= n) =>
        WindowStartsAt(n)

\* When readGPT returns the walk has passed every LVM entry of the table, so
\* the window is the last one's.
LastSelected ==
  (stage = "returned" /\ drive.start # 0) =>
    \E n \in LVMEntries :
      /\ \A m \in LVMEntries : m <= n
      /\ WindowStartsAt(n)

IInv ==
  /\ TypeOK
  /\ OpeningInv
  /\ TableInv
  /\ PositionInv
  /\ WholeInv
  /\ UntouchedInv
  /\ LatestSelected
  /\ SelectionIsLVM
  /\ SelectionFromWholeTable
  /\ NoSelectionNoPartition
  /\ SignedInv
  /\ PassedInv
  /\ LastSelected

-----------------------------------------------------------------------------
(* Sizes.                                                                  *)

LEMMA SmallRemainder ==
  \A n \in Int, w \in Nat \ {0} : 0 <= n /\ n < w => n % w = n
OBVIOUS

LEMMA SignedKeeps == \A n \in Nat : n < SignBit => Signed(n) = n
BY DriveAssumption, SmallRemainder DEF Signed

LEMMA SignedType == \A n \in Int : Signed(n) \in Int
BY DriveAssumption DEF Signed

\* What a call of readDrive leaves.
LEMMA ReadFacts ==
  ASSUME TypeOK, NEW offset \in Int, NEW wanted \in Nat,
         NEW result \in ReadResults(offset, wanted), ReadDrive(offset, result)
  PROVE  /\ result \in -1 .. wanted
         /\ transfer' \in [first : Nat, count : Nat]
         /\ result > 0 => transfer' = [first |-> Target(offset), count |-> result]
         /\ UNCHANGED <<drive, descriptors>>
<1>1. Target(offset) \in Int
  BY SignedType DEF TypeOK, DriveOK, Target
<1>2. result \in -1 .. wanted /\ (result > 0 => Target(offset) >= 0)
  BY DEF ReadResults
<1>3. /\ transfer' = IF result > 0 THEN [first |-> Target(offset), count |-> result]
                      ELSE [first |-> 0, count |-> 0]
      /\ UNCHANGED <<drive, descriptors>>
  BY DEF ReadDrive
<1>4. CASE result > 0
  BY <1>1, <1>2, <1>3, <1>4
<1>5. CASE ~ (result > 0)
  BY <1>2, <1>3, <1>5
<1> QED
  BY <1>4, <1>5

LEMMA ProductType == \A a, b \in Nat : a * b \in Nat
OBVIOUS

LEMMA PositiveProduct == \A a, b \in Nat \ {0} : a * b \in Nat \ {0}
OBVIOUS

LEMMA Distribution ==
  \A a, b, c \in Nat : a <= b =>
    /\ (b - a) * c \in Nat
    /\ a * c + (b - a) * c <= (b + 1) * c
<1> SUFFICES ASSUME NEW a \in Nat, NEW b \in Nat, NEW c \in Nat, a <= b
             PROVE  (b - a) * c \in Nat /\ a * c + (b - a) * c <= (b + 1) * c
  OBVIOUS
<1>1. (b - a) \in Nat /\ (b + 1) \in Nat
  OBVIOUS
<1>2. (b - a) * c \in Nat /\ a * c \in Nat /\ b * c \in Nat
  BY <1>1, ProductType
<1>3. a * c + (b - a) * c = b * c /\ (b + 1) * c = b * c + c
  OBVIOUS
<1> QED
  BY <1>2, <1>3

LEMMA TableFacts ==
  ASSUME TypeOK
  PROVE  /\ gpt \in Headers
         /\ gpt.entries \in Seq(Entry)
         /\ Len(gpt.entries) \in Nat
         /\ TableOffset(gpt) \in Nat
         /\ TableLength(gpt) \in Nat
         /\ TableWindow(gpt) \in Nat
         /\ TableWindow(gpt) = TableOffset(gpt) + TableLength(gpt)
         /\ TableWindow(gpt) < SignBit
         /\ gpt.entries # <<>> => TableLength(gpt) > 0
<1>1. gpt \in Header /\ gpt \in Headers
  BY GPTAssumption DEF TypeOK
<1>2. gpt.entries \in Seq(Entry) /\ gpt.firstLBA \in Nat
  BY <1>1 DEF Header
<1>3. Len(gpt.entries) \in Nat /\ EntrySize \in Nat /\ SectorSize \in Nat
  BY <1>2, GPTAssumption, DriveAssumption
<1>4. TableOffset(gpt) \in Nat /\ TableLength(gpt) \in Nat
  BY <1>2, <1>3, ProductType DEF TableOffset, TableLength
<1>5. TableOffset(gpt) + TableLength(gpt) < SignBit
  BY <1>1, GPTAssumption
<1>6. gpt.entries # <<>> => TableLength(gpt) > 0
  <2> SUFFICES ASSUME gpt.entries # <<>>
               PROVE  TableLength(gpt) \in Nat \ {0}
    BY <1>4
  <2>1. Len(gpt.entries) \in Nat \ {0}
    BY <1>2
  <2> QED
    BY <2>1, GPTAssumption, PositiveProduct DEF TableLength
<1> QED
  BY <1>1, <1>2, <1>3, <1>4, <1>5, <1>6 DEF TableWindow

\* The window of an entry that is used does not start with the medium, and
\* ends with the partition or before it.
LEMMA EntryFacts ==
  ASSUME TypeOK, NEW n \in 1 .. Len(gpt.entries),
         gpt.entries[n].kind # "unused"
  PROVE  /\ gpt.entries[n].firstLBA * SectorSize \in Nat \ {0}
         /\ PartitionLength(gpt.entries[n]) \in Nat
         /\ gpt.entries[n].firstLBA * SectorSize + PartitionLength(gpt.entries[n])
              <= (gpt.entries[n].lastLBA + 1) * SectorSize
<1> DEFINE first == gpt.entries[n].firstLBA
           last == gpt.entries[n].lastLBA
<1>1. gpt.entries[n] \in Entry
  BY TableFacts
<1>2. first \in Nat /\ last \in Nat
  BY <1>1 DEF Entry
<1>3. first > 0 /\ first <= last
  BY TableFacts, GPTAssumption
<1>4. SectorSize \in Nat \ {0}
  BY DriveAssumption
<1>5. first * SectorSize \in Nat \ {0}
  BY <1>2, <1>3, <1>4, PositiveProduct
<1>6. /\ (last - first) * SectorSize \in Nat
      /\ first * SectorSize + (last - first) * SectorSize
           <= (last + 1) * SectorSize
  BY <1>2, <1>3, <1>4, Distribution
<1> QED
  BY <1>5, <1>6 DEF PartitionLength

-----------------------------------------------------------------------------
(* Preservation.                                                           *)

LEMMA InitEstablishes == Init => IInv
<1> SUFFICES ASSUME Init
             PROVE  IInv
  OBVIOUS
<1>1. /\ drive = [status |-> "unopened", start |-> 0, length |-> 0]
      /\ descriptors = 0
      /\ transfer = [first |-> 0, count |-> 0]
      /\ stage = "open" /\ gpt \in Headers /\ position = 1
  BY DEF Init, DriveInit
<1>2. TypeOK
  BY <1>1 DEF TypeOK, DriveOK, Status, Stages
<1> QED
  BY <1>1, <1>2
  DEF IInv, OpeningInv, TableInv, PositionInv, WholeInv, UntouchedInv,
      LatestSelected, SelectionIsLVM, SelectionFromWholeTable,
      NoSelectionNoPartition, SignedInv, PassedInv, LastSelected

LEMMA OpenPreserves == IInv /\ Open => IInv'
<1> SUFFICES ASSUME IInv, Open
             PROVE  IInv'
  OBVIOUS
<1>1. TypeOK /\ stage = "open" /\ position = 1 /\ UNCHANGED <<gpt, position>>
  BY DEF IInv, Open, PositionInv
<1>2. /\ drive' \in [status : Status, start : {0}, length : {0, InitialWindow}]
      /\ descriptors' \in Nat
      /\ UNCHANGED transfer
  BY <1>1
  DEF Open, OpenDrive, OpenFails, OpenUnsized, OpenLosesDescriptor,
      OpenSucceeds, NullDrive, Status, TypeOK, DriveOK
<1>3. stage' \in {"header", "returned"}
  BY DEF Open
<1>4. TypeOK'
  BY <1>1, <1>2, <1>3, DriveAssumption DEF TypeOK, DriveOK, Stages
<1>5. drive'.start = 0 /\ drive'.length \in {0, InitialWindow}
  BY <1>2
<1> QED
  BY <1>1, <1>3, <1>4, <1>5
  DEF IInv, OpeningInv, TableInv, PositionInv, WholeInv, UntouchedInv,
      LatestSelected, SelectionIsLVM, SelectionFromWholeTable,
      NoSelectionNoPartition, SignedInv, PassedInv, LastSelected

\* Where the walk ends there is no LVM entry left.
LEMMA PassedAll ==
  ASSUME TypeOK, WalkOver, NEW m \in LVMEntries
  PROVE  m < position
<1>1. /\ m \in 1 .. Len(gpt.entries)
      /\ \A k \in 1 .. m : gpt.entries[k].kind # "unused"
  BY DEF LVMEntries, Listed
<1>2. position \in Nat \ {0} /\ Len(gpt.entries) \in Nat
  BY TableFacts DEF TypeOK
<1>3. CASE position <= Len(gpt.entries)
  BY <1>1, <1>2, <1>3 DEF WalkOver, Current
<1>4. CASE ~ position <= Len(gpt.entries)
  BY <1>1, <1>2, <1>4
<1> QED
  BY <1>3, <1>4

\* The steps that only end the search: the window stays as it is.
LEMMA EndingPreserves == IInv /\ (OutOfMemory \/ FinishWalk) => IInv'
<1> SUFFICES ASSUME IInv, OutOfMemory \/ FinishWalk
             PROVE  IInv'
  OBVIOUS
<1>1. /\ stage' = "returned"
      /\ UNCHANGED <<drive, descriptors, transfer, gpt, position>>
  BY DEF OutOfMemory, FinishWalk
<1>2. TypeOK'
  BY <1>1 DEF IInv, TypeOK, DriveOK, Stages
<1>3. SelectionIsLVM' /\ SelectionFromWholeTable' /\ NoSelectionNoPartition'
  BY <1>1
  DEF IInv, SelectionIsLVM, SelectionFromWholeTable, NoSelectionNoPartition,
      LVMEntries, Listed, WindowStartsAt, TableOffset, TableLength
<1>4. LVMEntries' = LVMEntries /\ \A n : WindowStartsAt(n)' <=> WindowStartsAt(n)
  BY <1>1 DEF LVMEntries, Listed, WindowStartsAt
<1>5. LastSelected'
  <2> SUFFICES ASSUME drive.start # 0
               PROVE  \E n \in LVMEntries :
                        /\ \A m \in LVMEntries : m <= n
                        /\ WindowStartsAt(n)
    BY <1>1, <1>4 DEF LastSelected
  <2>1. stage = "walk" /\ WalkOver
    BY DEF IInv, OpeningInv, OutOfMemory, FinishWalk
  <2>2. PICK n \in LVMEntries :
          /\ \A m \in LVMEntries : m < position => m <= n
          /\ WindowStartsAt(n)
    BY <2>1 DEF IInv, PassedInv
  <2>3. \A m \in LVMEntries : m < position
    BY <2>1, PassedAll DEF IInv
  <2> QED
    BY <2>2, <2>3
<1> QED
  BY <1>1, <1>2, <1>3, <1>5
  DEF IInv, OpeningInv, TableInv, PositionInv, WholeInv, UntouchedInv,
      LatestSelected, SignedInv, PassedInv

LEMMA ReadHeaderPreserves == IInv /\ ReadHeader => IInv'
<1> SUFFICES ASSUME IInv, ReadHeader
             PROVE  IInv'
  OBVIOUS
<1>1. /\ TypeOK /\ stage = "header" /\ position = 1
      /\ drive.start = 0 /\ drive.length \in {0, InitialWindow}
  BY DEF IInv, ReadHeader, OpeningInv, PositionInv
<1>2. /\ UNCHANGED <<drive, descriptors, gpt, position>>
      /\ stage' \in {"table", "returned"}
  BY DEF ReadHeader, ReadDrive
<1>3. PICK result \in ReadResults(SectorSize, HeaderSize) :
        ReadDrive(SectorSize, result)
  BY DEF ReadHeader
<1>4. SectorSize \in Int /\ HeaderSize \in Nat
  BY DriveAssumption, GPTAssumption
<1>5. transfer' \in [first : Nat, count : Nat]
  BY <1>1, <1>3, <1>4, ReadFacts
<1>6. TypeOK'
  BY <1>1, <1>2, <1>5 DEF TypeOK, DriveOK, Stages
<1>7. stage' = "table" => gpt.signed
  BY DEF ReadHeader, HeaderAccepted
<1> QED
  BY <1>1, <1>2, <1>6, <1>7
  DEF IInv, OpeningInv, TableInv, PositionInv, WholeInv, UntouchedInv,
      LatestSelected, SelectionIsLVM, SelectionFromWholeTable,
      NoSelectionNoPartition, SignedInv, PassedInv, LastSelected

\* The checksum may be the process's end; the window is still openDrive's.
LEMMA DieOfChecksumPreserves == IInv /\ DieOfChecksum => IInv'
<1> SUFFICES ASSUME IInv, DieOfChecksum
             PROVE  IInv'
  OBVIOUS
<1>1. /\ TypeOK /\ stage = "header" /\ position = 1
      /\ drive.start = 0 /\ drive.length \in {0, InitialWindow}
  BY DEF IInv, DieOfChecksum, OpeningInv, PositionInv
<1>2. /\ UNCHANGED <<drive, descriptors, gpt, position>>
      /\ stage' = "crashed"
  BY DEF DieOfChecksum, ReadDrive
<1>3. SectorSize \in Int /\ HeaderSize \in Nat
  BY DriveAssumption, GPTAssumption
<1>4. transfer' \in [first : Nat, count : Nat]
  BY <1>1, <1>3, ReadFacts DEF DieOfChecksum
<1>5. TypeOK'
  BY <1>1, <1>2, <1>4 DEF TypeOK, DriveOK, Stages
<1> QED
  BY <1>1, <1>2, <1>5
  DEF IInv, OpeningInv, TableInv, PositionInv, WholeInv, UntouchedInv,
      LatestSelected, SelectionIsLVM, SelectionFromWholeTable,
      NoSelectionNoPartition, SignedInv, PassedInv, LastSelected

LEMMA WindowTablePreserves == IInv /\ WindowTable => IInv'
<1> SUFFICES ASSUME IInv, WindowTable
             PROVE  IInv'
  OBVIOUS
<1>1. TypeOK /\ stage = "table" /\ position = 1
  BY DEF IInv, WindowTable, PositionInv
<1>2. /\ drive' = [drive EXCEPT !.start = 0, !.length = TableWindow(gpt)]
      /\ stage' = "read"
      /\ UNCHANGED <<descriptors, transfer, gpt, position>>
  BY DEF WindowTable, SetPartition
<1>3. drive'.start = 0 /\ drive'.length = TableWindow(gpt)
  BY <1>1, <1>2 DEF TypeOK, DriveOK
<1>4. TypeOK'
  <2>1. 0 \in Int /\ TableWindow(gpt) \in Nat
    BY <1>1, TableFacts
  <2>2. drive' \in [status : Status, start : Int, length : Nat]
    BY <1>1, <1>2, <2>1 DEF TypeOK, DriveOK
  <2> QED
    BY <1>1, <1>2, <2>2 DEF TypeOK, DriveOK, Stages
<1>5. UNCHANGED <<TableWindow(gpt), TableOffset(gpt), TableLength(gpt)>>
  BY <1>2 DEF TableWindow, TableOffset, TableLength
<1>6. NoSelectionNoPartition'
  BY <1>1, <1>2, <1>3, <1>5, TableFacts DEF NoSelectionNoPartition
<1> QED
  BY <1>1, <1>2, <1>3, <1>4, <1>5, <1>6
  DEF IInv, OpeningInv, TableInv, PositionInv, WholeInv, UntouchedInv,
      LatestSelected, SelectionIsLVM, SelectionFromWholeTable, SignedInv,
      PassedInv, LastSelected

LEMMA ReadTablePreserves == IInv /\ ReadTable => IInv'
<1> SUFFICES ASSUME IInv, ReadTable
             PROVE  IInv'
  OBVIOUS
<1>1. /\ TypeOK /\ stage = "read" /\ position = 1
      /\ drive.start = 0 /\ drive.length = TableWindow(gpt)
  BY DEF IInv, ReadTable, TableInv, PositionInv
<1>2. PICK result \in ReadResults(TableOffset(gpt), TableLength(gpt)) :
        /\ ReadDrive(TableOffset(gpt), result)
        /\ stage' = IF TableRead(result) THEN "walk" ELSE "returned"
  BY DEF ReadTable
<1>3. /\ result \in -1 .. TableLength(gpt)
      /\ transfer' \in [first : Nat, count : Nat]
      /\ result > 0 => transfer' = [first |-> Target(TableOffset(gpt)),
                                   count |-> result]
      /\ UNCHANGED <<drive, descriptors>>
  <2>1. TableOffset(gpt) \in Int /\ TableLength(gpt) \in Nat
    BY <1>1, TableFacts
  <2> QED
    BY <1>1, <1>2, <2>1, ReadFacts
<1>4. UNCHANGED <<drive, descriptors, gpt, position>>
  BY <1>3 DEF ReadTable
<1>5. stage' \in {"walk", "returned"}
  BY <1>2
<1>6. TypeOK'
  BY <1>1, <1>3, <1>4, <1>5 DEF TypeOK, DriveOK, Stages
<1>7. UNCHANGED <<TableWindow(gpt), TableOffset(gpt), TableLength(gpt)>>
  BY <1>4 DEF TableWindow, TableOffset, TableLength
<1>8. WholeInv'
  <2> SUFFICES ASSUME stage' = "walk", gpt.entries # <<>>
               PROVE  transfer' = [first |-> TableOffset(gpt), count |-> TableLength(gpt)]
    BY <1>4, <1>7 DEF WholeInv
  <2>1. result = TableLength(gpt) /\ result > 0
    BY <1>1, <1>2, TableFacts DEF TableRead
  <2>2. /\ drive.start + TableOffset(gpt) = TableOffset(gpt)
        /\ TableOffset(gpt) \in Nat /\ TableOffset(gpt) < SignBit
    BY <1>1, TableFacts, DriveAssumption
  <2>3. Target(TableOffset(gpt)) = TableOffset(gpt)
    BY <2>2, SignedKeeps DEF Target
  <2> QED
    BY <1>3, <2>1, <2>3
<1>9. PositionInv'
  BY <1>1, <1>4, <1>5, TableFacts DEF PositionInv
<1>10. UntouchedInv' /\ NoSelectionNoPartition'
  BY <1>1, <1>4, <1>7, TableFacts DEF UntouchedInv, NoSelectionNoPartition
<1>11. LatestSelected'
  BY <1>1, <1>4 DEF LatestSelected, LVMEntries, Listed
<1> QED
  BY <1>1, <1>4, <1>5, <1>6, <1>8, <1>9, <1>10, <1>11
  DEF IInv, OpeningInv, TableInv, SelectionIsLVM, SelectionFromWholeTable,
      SignedInv, PassedInv, LastSelected

\* The entries the walk may select, given where it is.
LEMMA EntryHere ==
  ASSUME IInv, stage = "walk", ~ WalkOver
  PROVE  /\ position \in 1 .. Len(gpt.entries)
         /\ Current.kind # "unused"
         /\ \A n \in 1 .. position : gpt.entries[n].kind # "unused"
         /\ Current.kind = "lvm" <=> position \in LVMEntries
<1>1. TypeOK /\ PositionInv
  BY DEF IInv
<1>2. Len(gpt.entries) \in Nat
  BY <1>1, TableFacts
<1>3. position \in 1 .. Len(gpt.entries) /\ Current.kind # "unused"
  BY <1>1, <1>2 DEF WalkOver, PositionInv
<1>4. \A n \in 1 .. position - 1 : gpt.entries[n].kind # "unused"
  BY <1>1 DEF PositionInv
<1>5. \A n \in 1 .. position : gpt.entries[n].kind # "unused"
  BY <1>2, <1>3, <1>4 DEF Current
<1> QED
  BY <1>3, <1>5 DEF LVMEntries, Listed, Current

LEMMA SelectEntryPreserves == IInv /\ SelectEntry => IInv'
<1> SUFFICES ASSUME IInv, SelectEntry
             PROVE  IInv'
  OBVIOUS
<1>1. /\ TypeOK /\ stage = "walk" /\ ~ WalkOver /\ Current.kind = "lvm"
      /\ position' = position + 1
      /\ UNCHANGED <<descriptors, transfer, stage, gpt>>
  BY DEF IInv, SelectEntry, SetPartition, FollowingEntry
<1>2. /\ position \in 1 .. Len(gpt.entries)
      /\ position \in LVMEntries
      /\ \A n \in 1 .. position : gpt.entries[n].kind # "unused"
      /\ Len(gpt.entries) \in Nat
  BY <1>1, EntryHere, TableFacts
<1>3. drive' = [drive EXCEPT !.start = Current.firstLBA * SectorSize,
                             !.length = PartitionLength(Current)]
  BY DEF SelectEntry, SetPartition
<1>4. /\ drive'.start = gpt.entries[position].firstLBA * SectorSize
      /\ drive'.length = PartitionLength(gpt.entries[position])
  BY <1>1, <1>3 DEF TypeOK, DriveOK, Current
<1>5. /\ drive'.start \in Nat \ {0}
      /\ drive'.length \in Nat
      /\ drive'.start + drive'.length
           <= (gpt.entries[position].lastLBA + 1) * SectorSize
  BY <1>1, <1>2, <1>4, EntryFacts
<1>6. TypeOK'
  <2>1. drive' \in [status : Status, start : Int, length : Nat]
    <3>1. /\ Current.firstLBA * SectorSize \in Int
          /\ PartitionLength(Current) \in Nat
      BY <1>4, <1>5 DEF Current
    <3>2. drive \in [status : Status, start : Int, length : Nat]
      BY <1>1 DEF TypeOK, DriveOK
    <3> QED
      BY <1>3, <3>1, <3>2
  <2> QED
    BY <1>1, <1>2, <2>1 DEF TypeOK, DriveOK
<1>7. LVMEntries' = LVMEntries
  BY <1>1 DEF LVMEntries, Listed
<1>8. LVMEntries \subseteq Nat
  BY <1>2 DEF LVMEntries, Listed
<1>9. PositionInv'
  BY <1>1, <1>2 DEF PositionInv
<1>10. SelectionIsLVM'
  BY <1>1, <1>2, <1>4, <1>5, <1>7 DEF SelectionIsLVM, WindowStartsAt
<1>11. WholeInv' /\ SelectionFromWholeTable'
  <2>1. gpt.entries # <<>>
    BY <1>2
  <2> QED
    BY <1>1, <2>1
    DEF IInv, WholeInv, SelectionFromWholeTable, TableOffset, TableLength
<1>12. UntouchedInv'
  BY <1>1, <1>2, <1>7, <1>8 DEF UntouchedInv
<1>13. LatestSelected'
  <2> SUFFICES ASSUME NEW n \in LVMEntries, n < position + 1,
                      \A m \in LVMEntries : m < position + 1 => m <= n
               PROVE  drive'.start = gpt.entries[n].firstLBA * SectorSize
    BY <1>1, <1>7 DEF LatestSelected, WindowStartsAt
  <2>1. n = position
    BY <1>2, <1>8
  <2> QED
    BY <1>4, <2>1
<1>14. PassedInv'
  <2> SUFFICES \E n \in LVMEntries :
                 /\ n < position + 1 /\ \A m \in LVMEntries : m < position + 1 => m <= n
                 /\ drive'.start = gpt.entries[n].firstLBA * SectorSize
    BY <1>1, <1>7 DEF PassedInv, WindowStartsAt
  <2>1. /\ position < position + 1
        /\ \A m \in LVMEntries : m < position + 1 => m <= position
    BY <1>2, <1>8
  <2> QED
    BY <1>2, <1>4, <2>1
<1> QED
  BY <1>1, <1>5, <1>6, <1>9, <1>10, <1>11, <1>12, <1>13, <1>14
  DEF IInv, OpeningInv, TableInv, NoSelectionNoPartition, SignedInv, LastSelected

LEMMA PassEntryPreserves == IInv /\ PassEntry => IInv'
<1> SUFFICES ASSUME IInv, PassEntry
             PROVE  IInv'
  OBVIOUS
<1>1. /\ TypeOK /\ stage = "walk" /\ ~ WalkOver /\ Current.kind # "lvm"
      /\ position' = position + 1
      /\ UNCHANGED <<drive, descriptors, transfer, stage, gpt>>
  BY DEF IInv, PassEntry, FollowingEntry
<1>2. /\ position \in 1 .. Len(gpt.entries)
      /\ position \notin LVMEntries
      /\ \A n \in 1 .. position : gpt.entries[n].kind # "unused"
      /\ Len(gpt.entries) \in Nat
  BY <1>1, EntryHere, TableFacts
<1>3. TypeOK'
  BY <1>1, <1>2 DEF TypeOK, DriveOK
<1>4. LVMEntries' = LVMEntries
  BY <1>1 DEF LVMEntries, Listed
<1>5. LVMEntries \subseteq Nat
  BY <1>2 DEF LVMEntries, Listed
<1>6. PositionInv'
  BY <1>1, <1>2 DEF PositionInv
<1>7. /\ SelectionIsLVM' /\ SelectionFromWholeTable'
      /\ NoSelectionNoPartition' /\ WholeInv'
  BY <1>1, <1>4
  DEF IInv, SelectionIsLVM, SelectionFromWholeTable, NoSelectionNoPartition,
      WholeInv, WindowStartsAt, TableOffset, TableLength
\* Entries before the new position are those before the old one.
<1>8. \A n \in LVMEntries : n < position + 1 <=> n < position
  BY <1>2, <1>5
<1>9. UntouchedInv'
  <2> SUFFICES ASSUME \A n \in LVMEntries : n >= position + 1
               PROVE  drive.start = 0 /\ drive.length = TableWindow(gpt)
    BY <1>1, <1>4 DEF UntouchedInv, TableWindow, TableOffset, TableLength
  <2>1. ASSUME NEW n \in LVMEntries
        PROVE  n >= position
    <3>1. n \in Nat /\ position \in Nat /\ n >= position + 1
      BY <1>2, <1>5
    <3> QED
      BY <3>1
  <2> QED
    BY <1>1, <2>1 DEF IInv, UntouchedInv
<1>10. LatestSelected'
  BY <1>1, <1>4, <1>8 DEF IInv, LatestSelected, WindowStartsAt
<1>11. PassedInv'
  BY <1>1, <1>4, <1>8 DEF IInv, PassedInv, WindowStartsAt
<1> QED
  BY <1>1, <1>3, <1>6, <1>7, <1>9, <1>10, <1>11
  DEF IInv, OpeningInv, TableInv, SignedInv, LastSelected

LEMMA StutterPreserves == IInv /\ UNCHANGED vars => IInv'
<1> SUFFICES ASSUME IInv, UNCHANGED vars
             PROVE  IInv'
  OBVIOUS
<1>1. UNCHANGED <<drive, descriptors, transfer, stage, gpt, position>>
  BY DEF vars
<1>2. /\ TypeOK' /\ OpeningInv' /\ TableInv' /\ PositionInv' /\ WholeInv'
      /\ SelectionFromWholeTable' /\ NoSelectionNoPartition' /\ SignedInv'
  BY <1>1
  DEF IInv, TypeOK, DriveOK, OpeningInv, TableInv, PositionInv, WholeInv,
      SelectionFromWholeTable, NoSelectionNoPartition, SignedInv,
      TableWindow, TableOffset, TableLength
<1>3. /\ LVMEntries' = LVMEntries
      /\ \A n : WindowStartsAt(n)' <=> WindowStartsAt(n)
  BY <1>1 DEF LVMEntries, Listed, WindowStartsAt
<1>4. UntouchedInv' /\ LatestSelected' /\ SelectionIsLVM'
  BY <1>1, <1>3
  DEF IInv, UntouchedInv, LatestSelected, SelectionIsLVM, PartitionLength,
      TableWindow, TableOffset, TableLength
<1>5. PassedInv' /\ LastSelected'
  BY <1>1, <1>3 DEF IInv, PassedInv, LastSelected
<1> QED
  BY <1>2, <1>4, <1>5 DEF IInv

\* Every step of readGPT preserves the inductive invariant.
LEMMA StepPreserves == IInv /\ [Next]_vars => IInv'
BY OpenPreserves, EndingPreserves, ReadHeaderPreserves, DieOfChecksumPreserves,
   WindowTablePreserves, ReadTablePreserves, SelectEntryPreserves, PassEntryPreserves,
   StutterPreserves
DEF Next, Over

\* The inductive invariant holds throughout readGPT.
THEOREM Invariant == Spec => []IInv
BY InitEstablishes, StepPreserves, PTL DEF Spec

-----------------------------------------------------------------------------
(* The properties.                                                         *)

\* Type correctness of main's openDrive and readGPT (readlogicalvolume.c:344).
THEOREM TypeCorrect == Spec => []TypeOK
BY Invariant, PTL DEF IInv

\* Whatever the table and the reads, the window readGPT leaves off the start
\* of the medium lies inside an LVM partition (readlogicalvolume.c:389-411).
THEOREM SelectedIsLVM == Spec => []SelectionIsLVM
BY Invariant, PTL DEF IInv

\* A table that was not read completely selects nothing
\* (readlogicalvolume.c:382-386).
THEOREM SelectedFromWholeTable == Spec => []SelectionFromWholeTable
BY Invariant, PTL DEF IInv

\* In a table of any length the one LVM partition is selected, and none if
\* there is none (readlogicalvolume.c:389-411).
THEOREM SoleIsSelected == Spec => []SoleSelected
<1>1. IInv => SoleSelected
  <2> SUFFICES ASSUME IInv, stage = "walk", WalkOver
               PROVE  /\ \A n \in LVMEntries : LVMEntries = {n} => WindowStartsAt(n)
                      /\ LVMEntries = {} => drive.start = 0
    BY DEF SoleSelected
  <2>1. \A m \in LVMEntries : m < position
    BY PassedAll DEF IInv
  <2>2. ASSUME NEW n \in LVMEntries, LVMEntries = {n}
        PROVE  WindowStartsAt(n)
    <3>1. n < position /\ n \in Int
      BY <2>1 DEF LVMEntries, Listed
    <3>2. \A m \in LVMEntries : m <= n
      BY <2>2, <3>1
    <3> QED
      BY <3>1, <3>2 DEF IInv, LatestSelected
  <2> QED
    BY <2>2 DEF IInv, UntouchedInv
<1> QED
  BY <1>1, Invariant, PTL

\* When readGPT returns, a window off the start of the medium is the last LVM
\* partition's of the whole table (readlogicalvolume.c:389-411).
THEOREM LastIsSelected == Spec => []LastSelected
BY Invariant, PTL DEF IInv

\* A search that selected nothing leaves a window at the start of the medium
\* that ends no later than the table or openDrive's window does
\* (readlogicalvolume.c:381, readaccess.c:51-52).
THEOREM NothingSelected == Spec => []NoSelectionNoPartition
BY Invariant, PTL DEF IInv
=============================================================================
