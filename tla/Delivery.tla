------------------------------- MODULE Delivery -------------------------------
(***************************************************************************)
(* What a campaign promises its operator, without chunks, keys, webhooks   *)
(* or reconciliation.  truth is what the provider did with each recipient, *)
(* view what the application shows.  A result is shown only when it is the *)
(* provider's, and is never changed again; before that the application may *)
(* take a message for waiting or for failed, and may change its mind.      *)
(***************************************************************************)
CONSTANT Recipients

VARIABLES truth, view

vars == <<truth, view>>

Results == {"delivered", "undelivered"}

TypeOK ==
  /\ truth \in [Recipients -> {"unsent", "sent"} \cup Results]
  /\ view \in [Recipients -> {"none", "waiting", "failed"} \cup Results]

Init ==
  /\ truth = [r \in Recipients |-> "unsent"]
  /\ view = [r \in Recipients |-> "none"]

\* The provider takes the messages of some recipients, each at most once.
Accept ==
  /\ \E R \in SUBSET Recipients :
       /\ \A r \in R : truth[r] = "unsent"
       /\ truth' = [r \in Recipients |-> IF r \in R THEN "sent" ELSE truth[r]]
  /\ UNCHANGED view

\* The provider's final result for one recipient.
Resolve(r) ==
  /\ truth[r] = "sent"
  /\ \E result \in Results : truth' = [truth EXCEPT ![r] = result]
  /\ UNCHANGED view

\* What the application may show next of recipient r.
NextViews(r) ==
  IF view[r] \in Results THEN {view[r]}
  ELSE IF view[r] = "none" THEN {"none", "waiting", "failed"}
  ELSE {"waiting", "failed"} \cup ({truth[r]} \cap Results)

Observe ==
  /\ view' \in [Recipients -> {"none", "waiting", "failed"} \cup Results]
  /\ \A r \in Recipients : view'[r] \in NextViews(r)
  /\ UNCHANGED truth

Next == Accept \/ (\E r \in Recipients : Resolve(r)) \/ Observe

Spec == Init /\ [][Next]_vars
=============================================================================
