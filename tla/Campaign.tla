------------------------------- MODULE Campaign -------------------------------
(***************************************************************************)
(* One campaign from its creation to its results: the chunk loop of        *)
(* services/compose.py, the report webhook of routes/webhook.py with       *)
(* services/report.py, and the reconciliation loop of                      *)
(* services/reconcile.py, as coroutines of one process that interleave at  *)
(* their awaits, against a message provider (msghub) that may accept a     *)
(* request and lose the answer, deliver reports early, late, twice or      *)
(* never, and answer queries from its own state.  The process may die at   *)
(* any await.                                                              *)
(*                                                                         *)
(* A step is the code between two awaits, commits included.  The chat      *)
(* reply, reservation cancelling, costs and reports without a cliKey are   *)
(* not here.                                                               *)
(***************************************************************************)
EXTENDS MessageRows, Integers

CONSTANTS
  Recipients,   \* the recipients of the campaign, after deduplication
  NChunks,      \* the number of chunks, sent in the order 1..NChunks
  ChunkOf,      \* the chunk of each recipient
  Modes         \* the kinds of campaign: [rcs, reserved, retry]

ASSUME CampaignAssumption ==
  /\ IsFiniteSet(Recipients)
  /\ NChunks \in Nat \ {0}
  /\ ChunkOf \in [Recipients -> 1..NChunks]
  /\ \A c \in 1..NChunks : \E r \in Recipients : ChunkOf[r] = c
  /\ Modes \subseteq [rcs : BOOLEAN, reserved : BOOLEAN, retry : BOOLEAN]

Chunk(c) == {r \in Recipients : ChunkOf[r] = c}

(***************************************************************************)
(* A cliKey is a recipient and whether the key ends in "-fb".              *)
(***************************************************************************)
Keys == Recipients \X BOOLEAN

\* What the provider made of a key: "limbo" is a request whose answer was
\* lost, which it may still accept.
AttemptStates == {"none", "limbo", "accepted", "ok", "undelivered"}
Final == {"ok", "undelivered"}

\* What a chunk request ends in: an answer with the accepted recipients, a
\* [resend] error, an explicit rejection (with a 4xx code or without) or a
\* time-out, a 5xx or an unreadable answer.
Rejections == {"rate", "badreq", "auth"}
Replies ==
  [kind : {"accept"}, ok : SUBSET Recipients]
    \cup [kind : {"resend", "lost"}]
    \cup [kind : Rejections, explicit : BOOLEAN]
NoReply == [kind |-> "none"]

\* The items of a query_sent answer, by recipient, with the key that was
\* queried.
AnswersFor(R) == [R -> [fb : BOOLEAN, answer : Final \cup {"reg", "noresult"}]]
NoAnswers == [r \in {} |-> r]

\* The age of the chunks: up to NChunks, the last chunk sent over ten
\* minutes ago; then the query window of failed rows closes; then the
\* provider's retention ends.
WindowShut == NChunks + 1
RetentionOver == NChunks + 2

VARIABLES
  pc,        \* where dispatch_campaign is
  mode,      \* the campaign's mode, chosen when it is created
  chunk,     \* the chunk whose request is out
  attempt,   \* its "first" request, the same "again", or "direct" with -fb
  reply,     \* the provider's reply, once it is there
  failed,    \* failed_chunk_sizes and item_failed, as a set of recipients
  rows,      \* the messages of the campaign
  camp,      \* the campaigns row
  att,       \* the provider's state of every key
  acked,     \* the keys whose report a webhook answered with 200
  asked,     \* the answers the reconciliation is about to apply
  pass,      \* the pass the reconciliation makes next
  age

dispatchVars == <<pc, mode, chunk, attempt, reply, failed>>
reconcileVars == <<asked, pass>>
vars == <<pc, mode, chunk, attempt, reply, failed, rows, camp, att, acked,
          asked, pass, age>>

Init ==
  /\ pc = "idle"
  /\ mode \in Modes
  /\ chunk = 1
  /\ attempt = "first"
  /\ reply = NoReply
  /\ failed = {}
  /\ rows = [r \in Recipients |-> NoRow]
  /\ camp = [state |-> "NONE", ok |-> 0, fail |-> 0, pending |-> 0,
             completed |-> 0]
  /\ att = [k \in Keys |-> "none"]
  /\ acked = {}
  /\ asked = NoAnswers
  /\ pass = "pending"
  /\ age = 0

(***************************************************************************)
(* Dispatch.                                                               *)
(***************************************************************************)
CreatedCampaign ==
  [state |-> IF mode.reserved THEN "RESERVED" ELSE "DISPATCHING",
   ok |-> 0, fail |-> 0, pending |-> Cardinality(Recipients),
   completed |-> 0]

\* The campaign is committed, marked in _dispatching and _awaiting_record,
\* and the first chunk's request goes out.
CreateCampaign ==
  /\ pc = "idle"
  /\ pc' = "wait"
  /\ camp' = CreatedCampaign
  /\ UNCHANGED <<mode, chunk, attempt, reply, failed, rows, att, acked,
                 asked, pass, age>>

\* The keys of the request that is out.
RequestKeys == {<<r, attempt = "direct">> : r \in Chunk(chunk)}

\* The provider handles the request: it may accept any part of an immediate
\* request and all of a reservation; a lost answer leaves every key open.
ProviderAnswers(answer) ==
  /\ pc = "wait"
  /\ reply = NoReply
  /\ answer.kind = "accept" =>
       answer.ok \subseteq Chunk(chunk)
         /\ (mode.reserved => answer.ok = Chunk(chunk))
  /\ reply' = answer
  /\ att' = [k \in Keys |->
       IF k \notin RequestKeys THEN att[k]
       ELSE IF answer.kind = "accept" /\ k[1] \in answer.ok THEN "accepted"
       ELSE IF answer.kind = "lost" THEN "limbo"
       ELSE att[k]]
  /\ UNCHANGED <<pc, mode, chunk, attempt, failed, rows, camp, acked,
                 asked, pass, age>>

\* _create_messages_from_response.
RowFromResponse(r) ==
  [status |-> IF mode.reserved THEN "PENDING"
              ELSE IF r \in reply.ok THEN "REG" ELSE "FAILED",
   code |-> IF mode.reserved THEN "null"
            ELSE IF r \in reply.ok THEN "ok" ELSE "rejected",
   fb |-> attempt = "direct"]

\* _record_failed_chunk; without a code the acceptance stays uncertain.
FailedRow(explicit) ==
  [status |-> "FAILED", code |-> IF explicit THEN "rejected" ELSE "null",
   fb |-> attempt = "direct"]

\* dispatch_campaign after the last chunk, up to its commit.  The object it
\* holds was loaded when the campaign was created.
FinalVerdict(nFailed) ==
  LET total == Cardinality(Recipients)
  IN  [state |-> IF nFailed = 0
                 THEN IF mode.reserved THEN "RESERVED" ELSE "DISPATCHED"
                 ELSE IF nFailed # total THEN "PARTIAL_FAILED"
                 ELSE IF mode.reserved THEN "RESERVE_FAILED" ELSE "FAILED",
       ok |-> 0,
       fail |-> nFailed,
       pending |-> total - nFailed,
       completed |-> IF nFailed = total THEN camp.completed + 1 ELSE 0]

\* Mutant: results that came in during the dispatch are not aggregated.
FinalizedBlindly(newRows, nFailed) ==
  Flushed(camp, CreatedCampaign, FinalVerdict(nFailed))

Finalized(newRows, nFailed) ==
  LET verdict == FinalVerdict(nFailed)
      stored == Flushed(camp, CreatedCampaign, verdict)
  IN  IF \E r \in Recipients : newRows[r].status = "DONE"
      THEN Flushed(stored, verdict, Refreshed(verdict, stored, newRows))
      ELSE stored

\* Mutant: the loop runs once too often.
MoreChunksOffByOne(last) == last <= NChunks

MoreChunks(last) == last < NChunks

\* The chunks up to last are recorded; the next request goes out, or the
\* campaign is finalized and its marks are removed.
Advance(newRows, newFailed, last) ==
  /\ rows' = newRows
  /\ failed' = newFailed
  /\ attempt' = "first"
  /\ reply' = NoReply
  /\ IF MoreChunks(last)
     THEN /\ chunk' = last + 1
          /\ UNCHANGED <<pc, camp>>
     ELSE /\ pc' = "done"
          /\ camp' = Finalized(newRows, Cardinality(newFailed))
          /\ UNCHANGED chunk
  /\ UNCHANGED <<mode, att, acked, asked, pass, age>>

\* The request goes out again: after a pause under the same keys, or as a
\* direct message under "-fb" keys.
Resend(how) ==
  /\ attempt' = how
  /\ reply' = NoReply
  /\ UNCHANGED <<pc, mode, chunk, failed, rows, camp, att, acked, asked,
                 pass, age>>

RecordAccepted ==
  /\ pc = "wait"
  /\ reply.kind = "accept"
  /\ Advance([r \in Recipients |->
                IF r \in Chunk(chunk) THEN RowFromResponse(r) ELSE rows[r]],
             failed \cup (Chunk(chunk) \ reply.ok),
             chunk)

RecordFailed(explicit) ==
  Advance([r \in Recipients |->
             IF r \in Chunk(chunk) THEN FailedRow(explicit) ELSE rows[r]],
          failed \cup Chunk(chunk),
          chunk)

\* _send_with_resend repeats a [resend] error once, and 29002 once outside
\* RCS; a request under "-fb" keys is never repeated.
MayRepeat ==
  /\ mode.retry
  /\ attempt = "first"
  /\ reply.kind = "resend" \/ (reply.kind = "rate" /\ ~mode.rcs)

\* Mutant: a request that timed out is replaced as well.
MaySendDirectAfterLoss ==
  /\ mode.rcs
  /\ attempt # "direct"
  /\ reply.kind \in {"badreq", "rate", "lost"}

\* An RCS request that was refused is replaced by a direct message.
MaySendDirect ==
  /\ mode.rcs
  /\ attempt # "direct"
  /\ reply.kind = "badreq" \/ (reply.kind = "rate" /\ mode.retry)

\* An authentication error of the chunk's own request stops the campaign.
MustStop == reply.kind = "auth" /\ attempt # "direct"

RepeatRequest == pc = "wait" /\ MayRepeat /\ Resend("again")

SendDirect == pc = "wait" /\ MaySendDirect /\ Resend("direct")

\* _stop_on_auth_error records this chunk and those that were not sent.
StopOnAuthError ==
  /\ pc = "wait"
  /\ MustStop
  /\ LET rest == {r \in Recipients : ChunkOf[r] >= chunk}
     IN  Advance([r \in Recipients |->
                    IF r \in rest THEN FailedRow(TRUE) ELSE rows[r]],
                 failed \cup rest,
                 NChunks)

\* With retry off, 29002 of an RCS request is recorded as rejected outright.
RecordFailure ==
  /\ pc = "wait"
  /\ reply.kind \in {"resend", "lost"} \cup Rejections
  /\ ~MayRepeat /\ ~MaySendDirect /\ ~MustStop
  /\ RecordFailed(reply.kind \in Rejections
                    /\ (reply.explicit
                          \/ (reply.kind = "rate" /\ mode.rcs
                                /\ attempt # "direct")))

(***************************************************************************)
(* The provider, on its own.                                               *)
(***************************************************************************)
\* A request whose answer was lost is accepted after all, or never.
ProviderSettlesLimbo(k) ==
  /\ att[k] = "limbo"
  /\ \E s \in {"accepted", "none"} : att' = [att EXCEPT ![k] = s]
  /\ UNCHANGED <<dispatchVars, rows, camp, acked, reconcileVars, age>>

ProviderResolves(k) ==
  /\ att[k] = "accepted"
  /\ \E result \in Final : att' = [att EXCEPT ![k] = result]
  /\ UNCHANGED <<dispatchVars, rows, camp, acked, reconcileVars, age>>

(***************************************************************************)
(* The report webhook.                                                     *)
(***************************************************************************)
\* Mutant: the webhook does not wait for rows.
IsUnrecordedNever(k) == FALSE

\* _is_unrecorded: the campaign is marked and no row has exactly this key.
IsUnrecorded(k) ==
  /\ pc = "wait"
  /\ rows[k[1]].status = "NONE" \/ rows[k[1]].fb # k[2]

\* receive_report.  The provider posts a batch of results, new or repeated;
\* those whose rows may not be committed yet are left out, and make the
\* answer a 400 that has the whole batch posted again.
ReceiveReport(batch) ==
  /\ batch # {}
  /\ \A k \in batch : att[k] \in Final
  /\ \A j, k \in batch : j[1] = k[1] => j = k
  /\ LET ready == {k \in batch : ~IsUnrecorded(k)}
         newRows == [r \in Recipients |->
           IF <<r, TRUE>> \in ready
           THEN AfterReport(rows[r], TRUE, att[<<r, TRUE>>])
           ELSE IF <<r, FALSE>> \in ready
           THEN AfterReport(rows[r], FALSE, att[<<r, FALSE>>])
           ELSE rows[r]]
     IN  /\ rows' = newRows
         /\ camp' = IF newRows = rows THEN camp
                    ELSE Refreshed(camp, camp, newRows)
         /\ acked' = IF ready = batch THEN acked \cup batch ELSE acked
  /\ UNCHANGED <<dispatchVars, att, reconcileVars, age>>

(***************************************************************************)
(* The reconciliation loop: a pass over open rows, then one over rows that *)
(* failed without a code.                                                  *)
(***************************************************************************)
\* Mutant: reserved messages are not asked about.
QueriedWithoutPending(p) ==
  {r \in Recipients :
     /\ ChunkOf[r] <= age
     /\ IF p = "pending" THEN rows[r].status \in OpenStatuses \ {"PENDING"}
        ELSE /\ rows[r].status = "FAILED"
             /\ rows[r].code = "null"
             /\ age < WindowShut}

Queried(p) ==
  {r \in Recipients :
     /\ ChunkOf[r] <= age
     /\ IF p = "pending" THEN rows[r].status \in OpenStatuses
        ELSE /\ rows[r].status = "FAILED"
             /\ rows[r].code = "null"
             /\ age < WindowShut}

OtherPass(p) == IF p = "pending" THEN "failed" ELSE "pending"

\* The pass that has something to query; an empty one takes no await.
PassToRun == IF Queried(pass) # {} THEN pass ELSE OtherPass(pass)

ProviderState(k) ==
  IF age = RetentionOver \/ att[k] \in {"none", "limbo"} THEN "noresult"
  ELSE IF att[k] = "accepted" THEN "reg" ELSE att[k]

\* The rows are selected, query_sent is awaited and its answer arrives.
QuerySent ==
  /\ asked = NoAnswers
  /\ Queried(PassToRun) # {}
  /\ asked' = [r \in Queried(PassToRun) |->
                 [fb |-> rows[r].fb,
                  answer |-> ProviderState(<<r, rows[r].fb>>)]]
  /\ pass' = OtherPass(PassToRun)
  /\ UNCHANGED <<dispatchVars, rows, camp, att, acked, age>>

\* query_sent raises: the batch is skipped until the next cycle.
QueryFails ==
  /\ asked = NoAnswers
  /\ Queried(PassToRun) # {}
  /\ pass' = OtherPass(PassToRun)
  /\ UNCHANGED <<dispatchVars, rows, camp, att, acked, asked, age>>

AnsweredRows ==
  [r \in Recipients |->
     IF r \in DOMAIN asked
     THEN AfterAnswer(rows[r], asked[r].fb, asked[r].answer)
     ELSE rows[r]]

\* process_sent_query and the commit of the batch.
ApplyAnswers ==
  /\ asked # NoAnswers
  /\ rows' = AnsweredRows
  /\ camp' = AfterAnswers(camp, rows, AnsweredRows)
  /\ asked' = NoAnswers
  /\ UNCHANGED <<dispatchVars, att, acked, pass, age>>

(***************************************************************************)
(* Time and crashes.                                                       *)
(***************************************************************************)
\* A chunk that was sent, or a reservation that is due, becomes old enough
\* to be queried; a day and the retention pass only after the dispatch.
OldestLimit ==
  IF pc \in {"done", "crashed"} THEN RetentionOver
  ELSE IF pc = "wait" THEN IF mode.reserved THEN NChunks ELSE chunk - 1
  ELSE 0

TimePasses ==
  /\ age < OldestLimit
  /\ age' = IF mode.reserved /\ age < NChunks THEN NChunks ELSE age + 1
  /\ UNCHANGED <<dispatchVars, rows, camp, att, acked, reconcileVars>>

\* The process dies and restarts: the dispatch is gone with its marks and
\* is not resumed, and so is an answer that was not applied.
Crash ==
  /\ pc = "wait" \/ asked # NoAnswers
  /\ pc' = IF pc = "wait" THEN "crashed" ELSE pc
  /\ att' = [k \in Keys |->
       IF pc = "wait" /\ reply = NoReply /\ k \in RequestKeys THEN "limbo"
       ELSE att[k]]
  /\ reply' = NoReply
  /\ attempt' = "first"
  /\ asked' = NoAnswers
  /\ pass' = "pending"
  /\ UNCHANGED <<mode, chunk, failed, rows, camp, acked, age>>

Dispatch ==
  \/ CreateCampaign
  \/ RecordAccepted \/ RepeatRequest \/ SendDirect
  \/ StopOnAuthError \/ RecordFailure

Next ==
  \/ Dispatch
  \/ \E answer \in Replies : ProviderAnswers(answer)
  \/ \E k \in Keys : ProviderSettlesLimbo(k) \/ ProviderResolves(k)
  \/ \E batch \in SUBSET Keys : ReceiveReport(batch)
  \/ QuerySent \/ QueryFails \/ ApplyAnswers
  \/ TimePasses \/ Crash

Spec == Init /\ [][Next]_vars
(***************************************************************************)
(* Properties.                                                             *)
(***************************************************************************)
TypeOK ==
  /\ pc \in {"idle", "wait", "done", "crashed"}
  /\ mode \in Modes
  /\ chunk \in 1..NChunks
  /\ attempt \in {"first", "again", "direct"}
  /\ reply \in Replies \cup {NoReply}
  /\ failed \in SUBSET Recipients
  /\ rows \in [Recipients -> Row]
  /\ camp \in Campaigns
  /\ att \in [Keys -> AttemptStates]
  /\ acked \in SUBSET Keys
  /\ asked \in UNION {AnswersFor(R) : R \in SUBSET Recipients}
  /\ pass \in {"pending", "failed"}
  /\ age \in 0..RetentionOver

\* Whatever is retried or replaced by a direct message, at most one of a
\* recipient's two keys is ever accepted or may still be: nobody receives
\* the message twice (compose: "the request was refused as a whole").
NoDoubleSend ==
  \A r \in Recipients : att[<<r, FALSE>>] = "none" \/ att[<<r, TRUE>>] = "none"

\* A report the webhook answered with 200 is not lost: its row is settled
\* under its key, although reports may overtake the answer that creates the
\* row (awaiting_record).  Only a crash can leave the row out for good.
AckedIsRecorded ==
  \A k \in acked :
    IF rows[k[1]].status = "NONE" THEN pc = "crashed"
    ELSE rows[k[1]].status = "DONE" /\ rows[k[1]].fb = k[2]

\* A campaign shown as COMPLETED was delivered to every recipient, those of
\* chunks that were not sent yet when the first results came in included.
CompletedMeansDelivered ==
  camp.state = "COMPLETED" =>
    \A r \in Recipients : \E fb \in BOOLEAN : att[<<r, fb>>] = "ok"

\* When the dispatch is over and no row waits for a result, the stored
\* counters and the state are those of the rows: no verdict of the dispatch
\* overwrites an earlier aggregation for good.
CountersSettle ==
  (pc = "done" /\ OpenRows(rows) = {}) =>
    /\ camp.ok = Cardinality(OkRows(rows))
    /\ camp.fail = Cardinality(FailRows(rows))
    /\ camp.pending = 0
    /\ camp.completed = 1
    /\ camp.state \in {SettledState(OkRows(rows), FailRows(rows))}
         \cup (IF OkRows(rows) = {} THEN {"RESERVE_FAILED"} ELSE {})

Truth(r) ==
  LET states == {att[<<r, fb>>] : fb \in BOOLEAN}
  IN  IF "ok" \in states THEN "delivered"
      ELSE IF "undelivered" \in states THEN "undelivered"
      ELSE IF "accepted" \in states THEN "sent" ELSE "unsent"

View(r) ==
  CASE rows[r].status = "NONE" -> "none"
    [] rows[r].status = "FAILED" -> "failed"
    [] rows[r].status = "DONE" ->
         IF rows[r].code = "ok" THEN "delivered" ELSE "undelivered"
    [] OTHER -> "waiting"

\* The campaign keeps the promise of Delivery: late, repeated and stale
\* reports and answers never show a result that is not the provider's, and
\* never change one that is shown.
Promise == INSTANCE Delivery WITH truth <- [r \in Recipients |-> Truth(r)],
                                  view <- [r \in Recipients |-> View(r)]
ImplementsDelivery == Promise!Spec

(***************************************************************************)
(* Liveness.  httpx ends every request within its time-out and the loop    *)
(* runs every minute; the provider resolves what it accepted and answers   *)
(* some queries.  Nothing obliges it to post a report, or the process to   *)
(* stay up.                                                                *)
(***************************************************************************)
Fairness ==
  /\ WF_vars(RecordAccepted \/ RepeatRequest \/ SendDirect
              \/ StopOnAuthError \/ RecordFailure)
  /\ WF_vars(\E answer \in Replies : ProviderAnswers(answer))
  /\ \A k \in Keys : WF_vars(ProviderResolves(k))
  /\ WF_vars(TimePasses /\ age < NChunks)
  /\ \A p \in {"pending", "failed"} : SF_vars(QuerySent /\ PassToRun = p)
  /\ SF_vars(ApplyAnswers)

FairSpec == Spec /\ Fairness

\* Without any webhook, reconciliation settles every message that waits for
\* its result before the provider's retention ends, after crashes as well.
OpenRowsSettle ==
  \A r \in Recipients :
    rows[r].status \in OpenStatuses
      ~> (rows[r].status = "DONE" \/ age = RetentionOver)

\* A dispatch that ran to its end leads to a settled campaign.
CampaignSettles ==
  (pc = "done")
    ~> (camp.state \in {"COMPLETED", "PARTIAL_FAILED", "FAILED",
                        "RESERVE_FAILED"}
          \/ age = RetentionOver)

(***************************************************************************)
(* What the documentation says and the code does not do.                   *)
(***************************************************************************)
\* SPEC.md 4.1: when a query finds a failed message registered, the campaign
\* goes back to DISPATCHING.  The verdict of a dispatch that is still running
\* overwrites that, and shows a campaign FAILED whose messages are waiting.
FailedHasNoOpenRows == camp.state = "FAILED" => OpenRows(rows) = {}
=============================================================================
