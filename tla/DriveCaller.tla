---------------------------- MODULE DriveCaller ----------------------------
(***************************************************************************)
(* An arbitrary caller of the drive access routines: any sequence of       *)
(* openDrive, setPartition, readDrive and closeDrive, with any off64_t and  *)
(* any size_t.  The promises stated here are the ones every reader of the  *)
(* program leans on.                                                       *)
(***************************************************************************)
EXTENDS DriveAccess

Valid == drive.status \in {"open", "closed"}

CallSetPartition ==
  /\ Valid
  /\ \E offset \in Offsets, length \in Lengths : SetPartition(offset, length)

Request(offset, length) ==
  \E result \in ReadResults(offset, length) : ReadDrive(offset, result)

CallReadDrive ==
  /\ Valid
  /\ \E offset \in Offsets, length \in Lengths : Request(offset, length)

CallCloseDrive ==
  /\ drive.status # "unopened"
  /\ CloseDrive

Next == OpenDrive \/ CallSetPartition \/ CallReadDrive \/ CallCloseDrive

Spec == DriveInit /\ [][Next]_driveVars

-----------------------------------------------------------------------------
(* Properties.                                                             *)

\* Type invariant of the drive record (tDrive, readaccess.h).
TypeOK == DriveOK

\* The window is one that a partition on some medium can have.
PlainWindow ==
  drive.start >= 0 /\ drive.start + drive.length <= SignBit

\* A plain request transfers bytes only from an open drive and only from
\* inside the window in force at the call, whatever windows were set before
\* it: check, seek and read together (readaccess.c:80-111).  Of one
\* that starts in front of the window, or wraps round, it does not hold.
ReadsStayInWindow ==
  [][\A offset \in Offsets, length \in Lengths :
       (/\ Request(offset, length) /\ Plain(offset, length) /\ PlainWindow
        /\ transfer' # transfer /\ transfer'.count > 0) =>
         /\ drive.status = "open"
         /\ drive.start <= transfer'.first
         /\ transfer'.first + transfer'.count <= drive.start + drive.length
    ]_driveVars

\* An open drive owns the process's one descriptor and a closed one owns
\* none, however often closeDrive is called; only the failed strdup of
\* openDrive (readaccess.c:57-64) leaves a descriptor behind.
DescriptorBalance ==
  /\ drive.status \in {"unopened", "closed"} => descriptors = 0
  /\ drive.status = "open" => descriptors = 1
  /\ drive.status = "null" => descriptors \in {0, 1}
============================================================================
