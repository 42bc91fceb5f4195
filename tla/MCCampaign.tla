----------------------------- MODULE MCCampaign -----------------------------
(***************************************************************************)
(* Campaign on small instances: two chunks, the first of two recipients.   *)
(***************************************************************************)
EXTENDS Campaign

CONSTANTS r1, r2, r3

MCChunkOf == [r \in {r1, r2, r3} |-> IF r = r3 THEN 2 ELSE 1]
MCChunkOfPair == [r \in {r1, r2} |-> IF r = r2 THEN 2 ELSE 1]

\* A request is not repeated (retry off) only in a reply, sent at once.
AllModes ==
  {m \in [rcs : BOOLEAN, reserved : BOOLEAN, retry : BOOLEAN] :
     m.retry \/ ~m.reserved}

\* Immediate and reserved campaigns of plain messages.
PlainModes == [rcs : {FALSE}, reserved : BOOLEAN, retry : {TRUE}]
=============================================================================
