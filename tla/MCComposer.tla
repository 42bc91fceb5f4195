----------------------------- MODULE MCComposer -----------------------------
(***************************************************************************)
(* A form with a text the rules accept and one they refuse, a picture, one *)
(* or two users, and two failures.                                         *)
(***************************************************************************)
EXTENDS Composer

CONSTANTS u1, u2, nobody, plain, toolong, now, later
=============================================================================
