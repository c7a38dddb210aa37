---------------------------- MODULE RecordSource ----------------------------
(***************************************************************************)
(* What a program may rely on when it reads records, whichever reader it   *)
(* reads them with and however it got to them: a position in the index,    *)
(* and at most one record delivered by a call, just in front of the        *)
(* position and decoded under the configuration that governs it.           *)
(*                                                                         *)
(* How the position is found, what is cached, which configuration records  *)
(* are read on the way and when, is left to the readers: VRSReader and     *)
(* MultiVRSReader implement this specification.                            *)
(***************************************************************************)
EXTENDS Integers

CONSTANTS
  N,          \* the number of records
  Governing,  \* for each record, the configuration record it is to be decoded
              \* under, None where nothing is promised
  None

VARIABLES
  position,   \* the index the next record is looked for from
  delivered   \* the record the last call delivered, None if it delivered none

Init == position = 0 /\ delivered = None

(* A record is delivered and the position is behind it.                    *)
Deliver(i) ==
  /\ position' = i + 1
  /\ \E c \in 0..(N - 1) \cup {None} :
       /\ Governing[i] # None => c = Governing[i]
       /\ delivered' = [record |-> i, config |-> c]

(* Any other call: a seek, a read that failed or was at the end.  The      *)
(* position may go anywhere in the index, but not out of it.               *)
DeliverNothing ==
  /\ position' \in 0..N
  /\ delivered' = None

Next == DeliverNothing \/ \E i \in 0..(N - 1) : Deliver(i)

Spec == Init /\ [][Next]_<<position, delivered>>
=============================================================================
