---------------------------- MODULE RingObserver ----------------------------
(***************************************************************************)
(* A third thread that reads the occupancy of the ring for its statistics: *)
(* size() of spsc_ring.hpp, two relaxed loads one after the other, beside  *)
(* the producer and the consumer of SpscRing.                              *)
(***************************************************************************)
EXTENDS SpscRing

VARIABLES
  oPc,    \* the observer: next load of size()
  oWSeen, \* the observer: the store of write_ it has loaded
  oRSeen, \* the observer: the store of read_ it has loaded
  size    \* what its last call returned

observer == <<oPc, oWSeen, oRSeen, size>>
observedVars == <<vars, observer>>

ObservedInit == Init /\ oPc = "write" /\ oWSeen = 1 /\ oRSeen = 1 /\ size = 0

(* w = write_.load(relaxed): any store not older than the one it has seen. *)
ObserveWrite ==
  /\ oPc = "write"
  /\ oWSeen' \in oWSeen .. Len(write_)
  /\ oPc' = "read"
  /\ UNCHANGED <<vars, oRSeen, size>>

(* r = read_.load(relaxed), and the call returns w - r. *)
ObserveRead ==
  /\ oPc = "read"
  /\ oRSeen' \in oRSeen .. Len(read_)
  /\ size' = Size(write_[oWSeen].val, read_[oRSeen'].val)
  /\ oPc' = "write"
  /\ UNCHANGED <<vars, oWSeen>>

ObservedNext ==
  \/ Next /\ UNCHANGED observer
  \/ ObserveWrite \/ ObserveRead

ObservedSpec == ObservedInit /\ [][ObservedNext]_observedVars
-----------------------------------------------------------------------------
(* "Approximate occupied count. Safe for stats" (spsc_ring.hpp:89): what   *)
(* size() returns is an occupancy the ring can have.                       *)
SizeIsOccupancy == size <= Cap
=============================================================================
