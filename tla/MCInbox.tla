------------------------------- MODULE MCInbox -------------------------------
(***************************************************************************)
(* Two colleagues look at the conversation of one customer, by way of two  *)
(* of our numbers; the browser of only one of them listens.  One batch     *)
(* repeats an item without key; the other has an answer in the old form    *)
(* and an item for a number that is not ours.                              *)
(***************************************************************************)
EXTENDS Inbox

CONSTANTS k1, none, blank, cust, other, rep, rep2, bot, stray, b1, b2

Item(key, number, callback, rcs) ==
  [key |-> key, number |-> number, callback |-> callback, text |-> "t", rcs |-> rcs]

MCCallers == {[number |-> rep, chatbot |-> bot], [number |-> rep2, chatbot |-> blank]}

ByBot == Item(none, cust, bot, TRUE)
MCBatches == {<<ByBot, ByBot>>,
              <<Item(k1, cust, rep, FALSE), Item(none, cust, stray, TRUE)>>}

MCView == [b \in Browsers |-> cust]
MCViewCaller == b1 :> rep @@ b2 :> rep2
=============================================================================
