---------------------------- MODULE DriveAccess ----------------------------
(***************************************************************************)
(* The drive access routines of readaccess.c: one tDrive record with the   *)
(* partition window that every read is checked against, and the four      *)
(* operations openDrive, setPartition, readDrive and closeDrive.           *)
(*                                                                         *)
(* Each operation is an action fragment over the drive, so the readers     *)
(* (readGPT, readPhysicalVolumeLabel, readMetadata, readLogicalVolume) are *)
(* composed with it by EXTENDS; Spec below lets an arbitrary caller use    *)
(* them in any order.  A byte of the medium is named by its address; what  *)
(* a read delivers is the range of addresses it transferred.               *)
(***************************************************************************)
EXTENDS Integers

CONSTANTS
  SignBit,        \* 2^63: an off64_t is less than it, a size_t less than twice
  SectorSize,     \* drive->sectorSize, 512 in the code
  InitialWindow,  \* the window openDrive gives a drive, 4096 in the code
  MediaLength     \* bytes the opened file or device really holds

\* Files and devices are addressed by off64_t.
ASSUME DriveAssumption ==
  /\ SignBit \in Nat \ {0}
  /\ SectorSize \in Nat \ {0}
  /\ InitialWindow \in 0 .. SignBit
  /\ MediaLength \in 0 .. SignBit

Offsets == -SignBit .. SignBit - 1

Lengths == 0 .. 2 * SignBit - 1

\* A number as a size_t, and as an off64_t, keeps of it.
Unsigned(n) == n % (2 * SignBit)

Signed(n) == ((n + SignBit) % (2 * SignBit)) - SignBit

VARIABLES
  drive,       \* the tDrive: its descriptor's status and its window
  descriptors, \* file descriptors the process holds open
  transfer     \* the range of addresses the last read delivered

driveVars == <<drive, descriptors, transfer>>

\* "unopened": main has not called openDrive; "null": openDrive returned NULL;
\* "closed": drive->id is -1.
Status == {"unopened", "null", "open", "closed"}

DriveOK ==
  /\ drive \in [status : Status, start : Int, length : Nat]
  /\ descriptors \in Nat
  /\ transfer \in [first : Nat, count : Nat]

DriveInit ==
  /\ drive = [status |-> "unopened", start |-> 0, length |-> 0]
  /\ descriptors = 0
  /\ transfer = [first |-> 0, count |-> 0]

-----------------------------------------------------------------------------
(* Operations.                                                             *)

NullDrive == [status |-> "null", start |-> 0, length |-> 0]

\* calloc or open failed: nothing was acquired.
OpenFails ==
  /\ drive' = NullDrive
  /\ UNCHANGED <<descriptors, transfer>>

\* fstat failed: the drive is returned with the zero window calloc gave it.
OpenUnsized ==
  /\ drive' = [status |-> "open", start |-> 0, length |-> 0]
  /\ descriptors' = descriptors + 1
  /\ UNCHANGED transfer

\* strdup of the path failed: the record is freed, its descriptor is not.
OpenLosesDescriptor ==
  /\ drive' = NullDrive
  /\ descriptors' = descriptors + 1
  /\ UNCHANGED transfer

OpenSucceeds ==
  /\ drive' = [status |-> "open", start |-> 0, length |-> InitialWindow]
  /\ descriptors' = descriptors + 1
  /\ UNCHANGED transfer

OpenDrive ==
  /\ drive.status = "unopened"
  /\ OpenFails \/ OpenUnsized \/ OpenLosesDescriptor \/ OpenSucceeds

SetPartition(offset, length) ==
  /\ drive' = [drive EXCEPT !.start = offset, !.length = length]
  /\ UNCHANGED <<descriptors, transfer>>

\* Slip: the request checked against the end of the partition on the medium,
\* the number the refusal's log message prints.
AdmittedToAbsoluteEnd(offset, length) ==
  Unsigned(offset + length) <= drive.start + drive.length

\* The window check of readDrive: the request, relative to the partition,
\* against the partition's length.  The sum of an off64_t and a size_t is a
\* size_t: a negative offset, or a length that does not fit, may wrap round.
Admitted(offset, length) == Unsigned(offset + length) <= drive.length

\* Where readDrive seeks to; lseek64 fails on a negative position.
Target(offset) == Signed(drive.start + offset)

\* What readDrive may return.  0: no drive, request refused, seek failed or
\* end of file; -1: read failed; fewer bytes than asked: a short read.
ReadResults(offset, length) ==
  IF drive.status = "open" /\ Admitted(offset, length) /\ Target(offset) >= 0
  THEN {r \in -1 .. length : r > 0 => Target(offset) + r <= MediaLength}
  ELSE {0}

\* Slip: the -1 of a failed read taken for a number of bytes.
ReadUnchecked(offset, result) ==
  /\ transfer' = [first |-> 0, count |-> result]
  /\ UNCHANGED <<drive, descriptors>>

\* A call of readDrive that returned result: the bytes it put in dest are
\* those of the medium from the position on.
ReadDrive(offset, result) ==
  /\ transfer' = IF result > 0 THEN [first |-> Target(offset), count |-> result]
                 ELSE [first |-> 0, count |-> 0]
  /\ UNCHANGED <<drive, descriptors>>

\* The request is what it looks like: it does not start in front of the
\* partition, and its end is a number that fits a size_t.
Plain(offset, length) ==
  offset \in 0 .. SignBit - 1 /\ offset + length < 2 * SignBit

\* Slip: the descriptor is closed but drive->id keeps its number.
CloseWithoutForgetting ==
  /\ drive.status = "open"
  /\ descriptors' = descriptors - 1
  /\ UNCHANGED <<drive, transfer>>

\* closeDrive: a no-op on NULL and on a drive already closed.
CloseDrive ==
  /\ IF drive.status = "open"
     THEN /\ drive' = [drive EXCEPT !.status = "closed"]
          /\ descriptors' = descriptors - 1
     ELSE UNCHANGED <<drive, descriptors>>
  /\ UNCHANGED transfer
============================================================================
