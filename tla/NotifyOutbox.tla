----------------------------- MODULE NotifyOutbox -----------------------------
(***************************************************************************)
(* A customer's message (MO) on its way to n8n: the webhook                *)
(* routes/webhook.py receive_mo stores it together with a row of           *)
(* notification_deliveries, and services/notify.py process_n8n_outbox      *)
(* posts the waiting rows.  Several runs of the outbox interleave at their *)
(* awaits: the periodic one of main.py and one after every webhook.        *)
(*                                                                         *)
(* The messages are addressed to a registered number, notifications are    *)
(* switched on, and there are fewer due rows than the batch of 100; the    *)
(* order inside a batch is left open.  Time is what the code compares it   *)
(* with: whether next_attempt_at has come and whether locked_at is older   *)
(* than five minutes.                                                      *)
(***************************************************************************)
EXTENDS Naturals, FiniteSets

CONSTANTS
  Mos,      \* the messages, each with its outbox row
  Runners,  \* the runs of process_n8n_outbox
  Loop,     \* the run that main.py starts every minute
  Tries,    \* _INLINE_RETRIES
  NoMo      \* no message

ASSUME NotifyAssumption ==
  /\ Loop \in Runners
  /\ Tries \in Nat \ {0}
  /\ NoMo \notin Mos

VARIABLES
  provider,  \* "queued" until msghub sees the success answer for the MO
  row,       \* the outbox row: status, due (next_attempt_at), stale (lock)
  run,       \* what each run posts, and the rest of its batch
  copies,    \* how often n8n took the message: 0, 1, or 2 for more than once
  unheard    \* n8n took it and no answer was recorded

vars == <<provider, row, run, copies, unheard>>

Waiting == {"PENDING", "FAILED"}
Rows == [status : Waiting \cup {"NONE", "SENDING", "DELIVERED"},
         due : BOOLEAN, stale : BOOLEAN]
Idle == [mo |-> NoMo, left |-> {}, tries |-> 0]
Runs == [mo : Mos, left : SUBSET Mos, tries : 1..Tries] \cup {Idle}

Init ==
  /\ provider = [m \in Mos |-> "queued"]
  /\ row = [m \in Mos |-> [status |-> "NONE", due |-> FALSE, stale |-> FALSE]]
  /\ run = [q \in Runners |-> Idle]
  /\ copies = [m \in Mos |-> 0]
  /\ unheard = [m \in Mos |-> FALSE]

Posted == {run[q].mo : q \in Runners} \ {NoMo}

(***************************************************************************)
(* The webhook.                                                            *)
(***************************************************************************)
\* msghub posts a batch of messages, some of them again.  Those not stored
\* yet are stored with their outbox rows in one transaction.
ReceiveMo(batch, answerArrives) ==
  /\ batch # {}
  /\ \A m \in batch : provider[m] = "queued"
  /\ row' = [m \in Mos |->
       IF m \in batch /\ row[m].status = "NONE"
       THEN [status |-> "PENDING", due |-> TRUE, stale |-> FALSE]
       ELSE row[m]]
  /\ provider' = IF answerArrives
                 THEN [m \in Mos |-> IF m \in batch THEN "done"
                                                    ELSE provider[m]]
                 ELSE provider
  /\ UNCHANGED <<run, copies, unheard>>

(***************************************************************************)
(* One run of the outbox.                                                  *)
(***************************************************************************)
\* Mutant: the claim does not see that another run is posting the row.
MayClaimUnlessDelivered(status) == status # "DELIVERED"

\* The WHERE of the claiming UPDATE.  It does not look at next_attempt_at.
MayClaim(status) == status \in Waiting

Claimed(m, rows) ==
  [rows EXCEPT ![m].status = "SENDING", ![m].stale = FALSE]

\* Run q goes on with its batch when the stored rows are rows: it claims the
\* next row that still waits and posts it, or ends.
GoOn(q, rows, left) ==
  LET claimable == {m \in left : MayClaim(rows[m].status)}
  IN  IF claimable = {}
      THEN /\ row' = rows
           /\ run' = [run EXCEPT ![q] = Idle]
      ELSE \E m \in claimable :
             /\ row' = Claimed(m, rows)
             /\ run' = [run EXCEPT ![q] =
                          [mo |-> m, left |-> left \ {m}, tries |-> 1]]

\* Mutant: a row left SENDING is never taken up again.
RecoveredNever == row

\* Rows whose lock is stale fail, and are due at once.
Recovered ==
  [m \in Mos |->
     IF row[m].status = "SENDING" /\ row[m].stale
     THEN [status |-> "FAILED", due |-> TRUE, stale |-> FALSE]
     ELSE row[m]]

Due(rows) == {m \in Mos : rows[m].status \in Waiting /\ rows[m].due}

Start(q) ==
  /\ run[q] = Idle
  /\ Due(Recovered) # {}
  /\ GoOn(q, Recovered, Due(Recovered))
  /\ UNCHANGED <<provider, copies, unheard>>

Posting(q) == run[q] # Idle

\* n8n takes the message, and one copy more arrives there.
Takes(m) ==
  copies' = [copies EXCEPT ![m] = IF copies[m] = 0 THEN 1 ELSE 2]

\* Mutant: the success is not written.
AfterSuccessLost(m) == row

AfterSuccess(m) == [row EXCEPT ![m].status = "DELIVERED"]

\* next_attempt_at is set some time ahead.
AfterFailure(m) == [row EXCEPT ![m].status = "FAILED", ![m].due = FALSE]

\* A 2xx answer: the row is DELIVERED.
Deliver(q) ==
  /\ Posting(q)
  /\ Takes(run[q].mo)
  /\ GoOn(q, AfterSuccess(run[q].mo), run[q].left)
  /\ UNCHANGED <<provider, unheard>>

\* n8n may have taken the message although no answer of it was recorded.
MayBeTaken(M) ==
  \E taken \in SUBSET M :
    /\ copies' = [m \in Mos |-> IF m \notin taken THEN copies[m]
                                ELSE IF copies[m] = 0 THEN 1 ELSE 2]
    /\ unheard' = [m \in Mos |-> unheard[m] \/ m \in taken]

\* An error that is tried again at once.
Retry(q) ==
  /\ Posting(q)
  /\ run[q].tries < Tries
  /\ run' = [run EXCEPT ![q].tries = run[q].tries + 1]
  /\ MayBeTaken({run[q].mo})
  /\ UNCHANGED <<provider, row>>

\* The last try fails, or n8n answers with a 3xx or a 4xx.
GiveUp(q) ==
  /\ Posting(q)
  /\ IF run[q].tries = Tries THEN MayBeTaken({run[q].mo}) ELSE MayBeTaken({})
  /\ GoOn(q, AfterFailure(run[q].mo), run[q].left)
  /\ UNCHANGED provider

\* The run ends between the post and its commit (SQLite is locked, or the
\* task is cancelled): the row stays SENDING.
Abort(q) ==
  /\ Posting(q)
  /\ run' = [run EXCEPT ![q] = Idle]
  /\ MayBeTaken({run[q].mo})
  /\ UNCHANGED <<provider, row>>

(***************************************************************************)
(* Time and restarts.                                                      *)
(***************************************************************************)
BackoffEnds(m) ==
  /\ row[m].status = "FAILED" /\ ~row[m].due
  /\ row' = [row EXCEPT ![m].due = TRUE]
  /\ UNCHANGED <<provider, run, copies, unheard>>

\* A lock gets older than five minutes.  A post is over long before that:
\* three tries, each limited by _TIMEOUT.
LockAges(m) ==
  /\ row[m].status = "SENDING" /\ ~row[m].stale
  /\ m \notin Posted
  /\ row' = [row EXCEPT ![m].stale = TRUE]
  /\ UNCHANGED <<provider, run, copies, unheard>>

Crash ==
  /\ Posted # {}
  /\ run' = [q \in Runners |-> Idle]
  /\ MayBeTaken(Posted)
  /\ UNCHANGED <<provider, row>>

Next ==
  \/ \E batch \in SUBSET Mos, answerArrives \in BOOLEAN :
       ReceiveMo(batch, answerArrives)
  \/ \E q \in Runners :
       Start(q) \/ Deliver(q) \/ Retry(q) \/ GiveUp(q) \/ Abort(q)
  \/ \E m \in Mos : BackoffEnds(m) \/ LockAges(m)
  \/ Crash

Spec == Init /\ [][Next]_vars

(***************************************************************************)
(* Properties.                                                             *)
(***************************************************************************)
TypeOK ==
  /\ provider \in [Mos -> {"queued", "done"}]
  /\ row \in [Mos -> Rows]
  /\ run \in [Runners -> Runs]
  /\ copies \in [Mos -> 0..2]
  /\ unheard \in [Mos -> BOOLEAN]

\* However many runs hold a row in their batches, one of them posts it: the
\* conditional UPDATE is the only thing between two posts of one message.
OnePoster ==
  \A p, q \in Runners : Posting(p) /\ Posting(q) /\ p # q
                          => run[p].mo # run[q].mo

\* n8n gets a message twice only after it took one whose answer was never
\* recorded; a lost answer, a failed commit or a crash, and nothing else.
RepeatsNeedALostAnswer ==
  \A m \in Mos : copies[m] = 2 => unheard[m]

\* A delivered notification stays delivered, and is never posted again.
DeliveredIsFinal ==
  [][\A m \in Mos :
       row[m].status = "DELIVERED"
         => row'[m].status = "DELIVERED" /\ copies'[m] = copies[m]]_vars

(***************************************************************************)
(* Liveness.  The loop runs every minute, httpx ends every post, time goes *)
(* on, and n8n answers a message that is posted again and again at last.   *)
(* Nothing obliges the runs after webhooks to start.                       *)
(***************************************************************************)
Fairness ==
  /\ WF_vars(Start(Loop))
  /\ \A q \in Runners : WF_vars(Deliver(q) \/ Retry(q) \/ GiveUp(q))
  /\ \A m \in Mos : SF_vars(\E q \in Runners : run[q].mo = m /\ Deliver(q))
  /\ \A m \in Mos : WF_vars(BackoffEnds(m)) /\ WF_vars(LockAges(m))

FairSpec == Spec /\ Fairness

\* A message msghub was told is received reaches n8n in the end, through
\* crashes, lost answers and rows that were left SENDING.
ReceivedIsAnnounced ==
  \A m \in Mos : provider[m] = "done" ~> row[m].status = "DELIVERED"
=============================================================================
