------------------------- MODULE DriveCallerProofs -------------------------
(***************************************************************************)
(* Proofs about the drive access routines for any caller and any medium,   *)
(* with any width of the machine's words.                                  *)
(***************************************************************************)
EXTENDS DriveCaller, TLAPS

\* The type invariant and the balance of descriptors together are inductive.
IInv == TypeOK /\ DescriptorBalance

LEMMA InitEstablishes == DriveInit => IInv
BY DEF DriveInit, IInv, TypeOK, DriveOK, Status, DescriptorBalance

\* What openDrive leaves, on each of its four ways out.
LEMMA OpenDrivePreserves == IInv /\ OpenDrive => IInv'
<1> SUFFICES ASSUME IInv, OpenDrive
             PROVE  IInv'
  OBVIOUS
<1>1. /\ descriptors = 0
      /\ transfer \in [first : Nat, count : Nat]
      /\ InitialWindow \in Nat
  BY DriveAssumption
  DEF OpenDrive, IInv, TypeOK, DriveOK, DescriptorBalance
<1>2. /\ drive' \in [status : Status, start : Int, length : Nat]
      /\ transfer' = transfer
      /\ \/ drive'.status = "null" /\ descriptors' \in {0, 1}
         \/ drive'.status = "open" /\ descriptors' = 1
  BY <1>1
  DEF OpenDrive, OpenFails, OpenUnsized, OpenLosesDescriptor, OpenSucceeds,
      NullDrive, Status
<1> QED
  BY <1>1, <1>2 DEF IInv, TypeOK, DriveOK, DescriptorBalance

\* Moving the window leaves the descriptor alone.
LEMMA SetPartitionPreserves == IInv /\ CallSetPartition => IInv'
<1> SUFFICES ASSUME IInv, CallSetPartition
             PROVE  IInv'
  OBVIOUS
<1>1. PICK offset \in Int, length \in Nat : SetPartition(offset, length)
  BY DriveAssumption DEF CallSetPartition, Offsets, Lengths
<1>2. drive \in [status : Status, start : Int, length : Nat]
  BY DEF IInv, TypeOK, DriveOK
<1>3. /\ drive' = [drive EXCEPT !.start = offset, !.length = length]
      /\ UNCHANGED <<descriptors, transfer>>
  BY <1>1 DEF SetPartition
<1>4. /\ drive' \in [status : Status, start : Int, length : Nat]
      /\ drive'.status = drive.status
  BY <1>1, <1>2, <1>3
<1> QED
  BY <1>3, <1>4 DEF IInv, TypeOK, DriveOK, DescriptorBalance

\* A number that fits is kept as it is.
LEMMA SmallRemainder ==
  \A n \in Int, w \in Nat \ {0} : 0 <= n /\ n < w => n % w = n
OBVIOUS

LEMMA WordsKeep ==
  ASSUME NEW n \in Int
  PROVE  /\ 0 <= n /\ n < 2 * SignBit => Unsigned(n) = n
         /\ -SignBit <= n /\ n < SignBit => Signed(n) = n
         /\ Signed(n) \in Int
<1>1. 0 <= n /\ n < 2 * SignBit => Unsigned(n) = n
  BY DriveAssumption, SmallRemainder DEF Unsigned
<1>2. -SignBit <= n /\ n < SignBit => Signed(n) = n
  BY DriveAssumption, SmallRemainder DEF Signed
<1>3. Signed(n) \in Int
  BY DriveAssumption DEF Signed
<1> QED
  BY <1>1, <1>2, <1>3

\* What a call of readDrive does: an open drive delivers bytes from where it
\* seeks to, if the request is admitted, and any other drive none.
LEMMA ReadFacts ==
  ASSUME TypeOK, NEW offset \in Offsets, NEW length \in Lengths,
         Request(offset, length)
  PROVE  /\ transfer' \in [first : Nat, count : 0 .. length]
         /\ transfer'.count > 0 =>
              /\ drive.status = "open" /\ Admitted(offset, length)
              /\ transfer'.first = Target(offset)
         /\ UNCHANGED <<drive, descriptors>>
<1>1. PICK result \in ReadResults(offset, length) : ReadDrive(offset, result)
  BY DEF Request
<1>2. offset \in Int /\ length \in Nat
  BY DriveAssumption DEF Offsets, Lengths
<1>3. /\ result \in -1 .. length
      /\ result > 0 => /\ drive.status = "open" /\ Admitted(offset, length)
                       /\ Target(offset) >= 0
  BY <1>1, <1>2 DEF ReadResults
<1>4. drive.start \in Int
  BY DEF TypeOK, DriveOK
<1>5. Target(offset) \in Int
  BY <1>2, <1>4, WordsKeep DEF Target
<1>6. /\ transfer' = IF result > 0 THEN [first |-> Target(offset), count |-> result]
                      ELSE [first |-> 0, count |-> 0]
      /\ UNCHANGED <<drive, descriptors>>
  BY <1>1 DEF ReadDrive
<1>7. CASE result > 0
  BY <1>2, <1>3, <1>5, <1>6, <1>7
<1>8. CASE ~ (result > 0)
  BY <1>2, <1>6, <1>8
<1> QED
  BY <1>7, <1>8

LEMMA ReadDrivePreserves == IInv /\ CallReadDrive => IInv'
<1> SUFFICES ASSUME IInv, CallReadDrive
             PROVE  IInv'
  OBVIOUS
<1>1. PICK offset \in Offsets, length \in Lengths : Request(offset, length)
  BY DEF CallReadDrive
<1>2. /\ transfer' \in [first : Nat, count : 0 .. length]
      /\ UNCHANGED <<drive, descriptors>>
  BY <1>1, ReadFacts DEF IInv
<1>3. transfer' \in [first : Nat, count : Nat]
  BY <1>2, DriveAssumption DEF Lengths
<1> QED
  BY <1>2, <1>3 DEF IInv, TypeOK, DriveOK, DescriptorBalance

\* Closing gives the one descriptor back, and only once.
LEMMA CloseDrivePreserves == IInv /\ CallCloseDrive => IInv'
<1> SUFFICES ASSUME IInv, CallCloseDrive
             PROVE  IInv'
  OBVIOUS
<1>1. drive \in [status : Status, start : Int, length : Nat] /\ UNCHANGED transfer
  BY DEF IInv, TypeOK, DriveOK, CallCloseDrive, CloseDrive
<1>2. CASE drive.status = "open"
  <2>1. /\ drive' = [drive EXCEPT !.status = "closed"]
        /\ descriptors' = descriptors - 1
        /\ descriptors = 1
    BY <1>2 DEF CallCloseDrive, CloseDrive, IInv, DescriptorBalance
  <2>2. /\ drive' \in [status : Status, start : Int, length : Nat]
        /\ drive'.status = "closed"
        /\ descriptors' = 0
    BY <1>1, <2>1 DEF Status
  <2> QED
    BY <1>1, <2>2 DEF IInv, TypeOK, DriveOK, DescriptorBalance
<1>3. CASE drive.status # "open"
  BY <1>1, <1>3
  DEF CallCloseDrive, CloseDrive, IInv, TypeOK, DriveOK, DescriptorBalance
<1> QED
  BY <1>2, <1>3

\* Type correctness and the balance of descriptors, for any caller.
THEOREM Invariant == Spec => []IInv
<1>1. IInv /\ UNCHANGED driveVars => IInv'
  BY DEF IInv, TypeOK, DriveOK, DescriptorBalance, driveVars
<1>2. IInv /\ [Next]_driveVars => IInv'
  BY <1>1, OpenDrivePreserves, SetPartitionPreserves, ReadDrivePreserves,
     CloseDrivePreserves
  DEF Next
<1> QED
  BY <1>2, InitEstablishes, PTL DEF Spec

\* Type correctness of the drive, for any caller (readaccess.h:10-20).
THEOREM TypeCorrect == Spec => []TypeOK
BY Invariant, PTL DEF IInv

\* However often and in whatever order openDrive, setPartition, readDrive and
\* closeDrive (readaccess.c:27-123) are called, an open drive owns one
\* descriptor and a closed one none.
THEOREM DescriptorsBalance == Spec => []DescriptorBalance
BY Invariant, PTL DEF IInv

\* A plain request that readDrive (readaccess.c:80-111) admits delivers bytes
\* of the window in force and no others, for any window on any medium.
THEOREM ReadsConfined == Spec => ReadsStayInWindow
<1> DEFINE Confined ==
      \A offset \in Offsets, length \in Lengths :
        (/\ Request(offset, length) /\ Plain(offset, length) /\ PlainWindow
         /\ transfer' # transfer /\ transfer'.count > 0) =>
          /\ drive.status = "open"
          /\ drive.start <= transfer'.first
          /\ transfer'.first + transfer'.count <= drive.start + drive.length
<1>1. TypeOK => Confined
  <2> SUFFICES ASSUME TypeOK, NEW offset \in Offsets, NEW length \in Lengths,
                      Request(offset, length), Plain(offset, length),
                      PlainWindow, transfer'.count > 0
               PROVE  /\ drive.status = "open"
                      /\ drive.start <= transfer'.first
                      /\ transfer'.first + transfer'.count
                           <= drive.start + drive.length
    OBVIOUS
  <2>1. /\ transfer'.count \in 0 .. length
        /\ drive.status = "open" /\ Admitted(offset, length)
        /\ transfer'.first = Target(offset)
    BY ReadFacts
  <2>2. /\ drive.start \in Int /\ drive.length \in Nat
        /\ SignBit \in Nat \ {0} /\ length \in Nat /\ offset \in Nat
    BY DriveAssumption DEF TypeOK, DriveOK, Lengths, Plain
  <2>3. offset + length <= drive.length
    <3>1. Unsigned(offset + length) = offset + length
      BY <2>2, WordsKeep DEF Plain
    <3> QED
      BY <2>1, <3>1 DEF Admitted
  <2>4. Target(offset) = drive.start + offset
    <3>1. /\ drive.start + offset \in Int
          /\ -SignBit <= drive.start + offset /\ drive.start + offset < SignBit
      BY <2>1, <2>2, <2>3 DEF PlainWindow
    <3> QED
      BY <3>1, WordsKeep DEF Target
  <2> QED
    BY <2>1, <2>2, <2>3, <2>4
<1>2. TypeOK /\ [Next]_driveVars => [Confined]_driveVars
  BY <1>1
<1>3. IInv => TypeOK
  BY DEF IInv
<1> QED
  BY <1>2, <1>3, Invariant, PTL DEF Spec, ReadsStayInWindow
=============================================================================
