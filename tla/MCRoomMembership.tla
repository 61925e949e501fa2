-------------------------- MODULE MCRoomMembership --------------------------
(***************************************************************************)
(* Instances of RoomMembership for TLC.  Users, writers, requests, keys    *)
(* and reports are interchangeable: no property and no definition names    *)
(* one of them.                                                            *)
(***************************************************************************)
EXTENDS RoomMembership, TLC

Symmetry ==
  UNION {Permutations(S) : S \in {Users, Writers, Requests, Keys, Reports} \ {{}}}
=============================================================================
