---------------------------- MODULE MCFaxTracking ----------------------------
(***************************************************************************)
(* A fax of ours, one sent at the PBX itself to another number and two     *)
(* that come in, of which a log of two ids has any two: a scan reads two   *)
(* ids, its first entry may be behind a gap, and two failures happen       *)
(* anywhere.                                                               *)
(***************************************************************************)
EXTENDS FaxTracking

MCRecipientOf == [j \in Jobs \cup {NoJob} |-> j]
=============================================================================
