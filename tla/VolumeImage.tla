---------------------------- MODULE VolumeImage ----------------------------
(***************************************************************************)
(* What reading a logical volume promises, however its segments are        *)
(* scattered over the physical volume and however its reads fare: an image *)
(* as long as the volume whose bytes, once they hold data at all, hold the *)
(* byte of the medium that belongs there.  A read that fails leaves junk   *)
(* behind; nothing ever puts a wrong byte into the image.                  *)
(***************************************************************************)
CONSTANT Junk  \* a byte of the image nothing was read into

VARIABLES
  content,  \* for each byte of the volume, the byte of the medium it is
  image,    \* the memory block handed to the caller
  status    \* "pending", "filling", "returned" or "aborted"

vars == <<content, image, status>>

Init ==
  /\ image = [b \in {} |-> Junk]
  /\ status = "pending"

Allocate ==
  /\ status = "pending"
  /\ image' = [b \in DOMAIN content |-> Junk]
  /\ status' = "filling"
  /\ UNCHANGED content

\* Any part of the image receives its content.
Fill ==
  /\ status = "filling"
  /\ DOMAIN image' = DOMAIN image
  /\ \A b \in DOMAIN image : image'[b] \in {image[b], content[b]}
  /\ UNCHANGED <<content, status>>

Return ==
  /\ status \in {"pending", "filling"}
  /\ status' = "returned"
  /\ UNCHANGED <<content, image>>

Abort ==
  /\ status \in {"pending", "filling"}
  /\ status' = "aborted"
  /\ UNCHANGED <<content, image>>

Next == Allocate \/ Fill \/ Return \/ Abort

Spec == Init /\ [][Next]_vars
============================================================================
