----------------------------- MODULE MCPresence -----------------------------
(***************************************************************************)
(* Sockets of one device, which may be swapped, and so may tasks. The      *)
(* liveness run makes s2 the same socket as s1.                            *)
(***************************************************************************)
EXTENDS PresenceGateway, TLC

CONSTANTS s1, s2, laptop

MCSockets == {s1, s2}
MCDevices == {laptop}
MCDeviceOf == [s \in MCSockets |-> laptop]

Symmetry == Permutations(MCSockets) \union Permutations(Tasks)
=============================================================================
