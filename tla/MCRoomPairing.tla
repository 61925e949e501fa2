---------------------------- MODULE MCRoomPairing ----------------------------
(* RoomPairing with named users, each with a first writer key.               *)
EXTENDS RoomPairing

CONSTANTS boss, host, guest, kb, kh, kg
MCFirstWriter == [u \in Users |-> CASE u = boss -> kb [] u = host -> kh [] u = guest -> kg]
=============================================================================
