---------------------------- MODULE MCReservation ----------------------------
(***************************************************************************)
(* Two chunks of one recipient each, and two cancel requests, which differ *)
(* in nothing but their names.                                             *)
(***************************************************************************)
EXTENDS ReservationCancel, TLC

CONSTANTS r1, r2, q1, q2

MCChunkOf == (r1 :> 1) @@ (r2 :> 2)
MCSymmetry == Permutations(Requests)
=============================================================================
