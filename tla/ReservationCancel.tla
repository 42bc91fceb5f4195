-------------------------- MODULE ReservationCancel --------------------------
(***************************************************************************)
(* Cancelling a reserved campaign: cancel_campaign and                     *)
(* _cancel_reservation_chunks of app/routes/campaigns.py, with what        *)
(* interleaves with them at their awaits: the dispatch that records the    *)
(* chunks (services/compose.py), a second cancel request, the report       *)
(* webhook, the reconciliation loop, a restart, and the provider, which    *)
(* sends a chunk when it is due and may lose the answer to a cancel.       *)
(*                                                                         *)
(* Each chunk of a reservation has a reservation id of its own, and is     *)
(* cancelled by it.  A cancel request holds the campaign object it loaded  *)
(* across its awaits (expire_on_commit is off), so what it stores in the   *)
(* end may be stale.  Roles, legacy campaigns without chunk ids and the    *)
(* wording of the answers are not here; no row here has a "-fb" key.       *)
(***************************************************************************)
EXTENDS MessageRows

CONSTANTS
  Recipients,   \* the recipients of the campaign, after deduplication
  NChunks,      \* the number of chunks, reserved in the order 1..NChunks
  ChunkOf,      \* the chunk of each recipient
  Requests      \* the cancel requests users make, one after the other or not

ASSUME ReservationAssumption ==
  /\ IsFiniteSet(Recipients)
  /\ NChunks \in Nat \ {0}
  /\ ChunkOf \in [Recipients -> 1..NChunks]
  /\ \A c \in 1..NChunks : \E r \in Recipients : ChunkOf[r] = c

Chunks == 1..NChunks
Chunk(c) == {r \in Recipients : ChunkOf[r] = c}

\* The provider's view of a chunk, and of a message of a chunk it sent.
ChunkStates == {"none", "reserved", "cancelled", "sent"}
Results == {"ok", "undelivered"}

\* The age of the reservation: not due, due, due for over ten minutes (the
\* reconciliation asks about it).
Due == 1
Old == 2

\* A cancel request: the chunks it has yet to ask about, the answer to the
\* one it asks about, whether it cancelled any, and the object it holds.
CancelRequest ==
  [pc : {"idle", "asking", "done"}, todo : SUBSET Chunks,
   answer : {"none", "cancelled", "rejected", "error"}, any : BOOLEAN,
   held : Campaigns]

VARIABLES
  dispatching,  \* is the campaign in _dispatching?
  recorded,     \* the number of chunks that have rows
  webReq,       \* the chunks with a web_req_id
  provider,     \* the provider's state of every chunk
  result,       \* the result of every message, "none" before there is one
  rows,         \* the messages of the campaign
  camp,         \* the campaigns row
  cancel,       \* the cancel requests
  asked,        \* the answers the reconciliation is about to apply
  age

dispatchVars == <<dispatching, recorded, webReq>>
cancelVars == <<dispatching, recorded, webReq, provider, result, rows, camp, cancel,
          asked, age>>

CreatedCampaign ==
  [state |-> "RESERVED", ok |-> 0, fail |-> 0,
   pending |-> Cardinality(Recipients), completed |-> 0]

NoAnswers == [r \in {} |-> r]
NewRequest ==
  [pc |-> "idle", todo |-> {}, answer |-> "none", any |-> FALSE,
   held |-> CreatedCampaign]
EndedRequest == [NewRequest EXCEPT !.pc = "done"]

\* The campaign is committed, and its chunks are about to be reserved.
CancelInit ==
  /\ dispatching = TRUE
  /\ recorded = 0
  /\ webReq = {}
  /\ provider = [c \in Chunks |-> "none"]
  /\ result = [r \in Recipients |-> "none"]
  /\ rows = [r \in Recipients |-> NoRow]
  /\ camp = CreatedCampaign
  /\ cancel = [q \in Requests |-> NewRequest]
  /\ asked = NoAnswers
  /\ age = 0

(***************************************************************************)
(* The dispatch, a chunk at a time.  The request for a chunk is accepted,  *)
(* rejected, or its answer is lost.                                        *)
(***************************************************************************)
ChunkRow(outcome) ==
  [status |-> IF outcome = "accepted" THEN "PENDING" ELSE "FAILED",
   code |-> IF outcome = "rejected" THEN "rejected" ELSE "null",
   fb |-> FALSE]

\* The verdict of dispatch_campaign, on the object it holds since it created
\* the campaign.  There are no reports yet.
FinalVerdict(nFailed) ==
  LET total == Cardinality(Recipients)
  IN  [state |-> IF nFailed = 0 THEN "RESERVED"
                 ELSE IF nFailed = total THEN "RESERVE_FAILED"
                 ELSE "PARTIAL_FAILED",
       ok |-> 0,
       fail |-> nFailed,
       pending |-> total - nFailed,
       completed |-> IF nFailed = total THEN camp.completed + 1 ELSE 0]

\* What the provider may have made of a request whose outcome is known so far.
MayBecome(outcome) ==
  CASE outcome = "accepted" -> {"reserved"}
    [] outcome = "rejected" -> {"none"}
    [] outcome = "unknown" -> {"reserved", "none"}

\* Mutant: the loop runs once too often.
MoreChunksOffByOne(last) == last <= NChunks

MoreChunks(last) == last < NChunks

ReserveChunk(outcome) ==
  LET c == recorded + 1
      newRows == [r \in Recipients |->
                    IF r \in Chunk(c) THEN ChunkRow(outcome) ELSE rows[r]]
      nFailed == Cardinality({r \in Recipients : newRows[r].status = "FAILED"})
  IN  /\ dispatching
      /\ recorded' = c
      /\ rows' = newRows
      /\ webReq' = IF outcome = "accepted" THEN webReq \cup {c} ELSE webReq
      /\ \E s \in MayBecome(outcome) : provider' = [provider EXCEPT ![c] = s]
      /\ dispatching' = MoreChunks(c)
      /\ camp' = IF MoreChunks(c) THEN camp
                 ELSE Flushed(camp, CreatedCampaign, FinalVerdict(nFailed))
      /\ UNCHANGED <<result, cancel, asked, age>>

(***************************************************************************)
(* Cancelling.                                                             *)
(***************************************************************************)
\* Mutant: a query without a result counts as a rejection.
UncertainFailureWithoutCode(row) == row.status = "FAILED" /\ row.code = "null"

\* _uncertain_failure_condition: the provider may have accepted it.
UncertainFailure(row) ==
  row.status = "FAILED" /\ row.code \in {"null", "noresult"}

DefinitivelyNotSent(row) ==
  row.status = "CANCELED" \/ (row.status = "FAILED" /\ ~UncertainFailure(row))

HasReservationRows ==
  /\ camp.state # "RESERVE_CANCELED"
  /\ \E r \in Recipients : /\ rows[r].status \in {"PENDING", "CANCELED"}
                           /\ ChunkOf[r] \in webReq

IsDispatching == dispatching

\* The campaign is in _cancelling.
IsCancelling == \E q \in Requests : cancel[q].pc = "asking"

Targets ==
  {c \in webReq : \E r \in Chunk(c) : rows[r].status = "PENDING"}

First(todo) == CHOOSE c \in todo : \A d \in todo : c <= d

\* The end of _cancel_reservation_chunks: nothing left that may be sent, or
\* nothing cancelled, or a part.  With uncertain failures the campaign stays
\* reserved, whatever the aggregation says.
Concluded(held, any, newRows) ==
  LET canceled == {r \in Recipients : newRows[r].status = "CANCELED"}
      live == {r \in Recorded(newRows) : ~DefinitivelyNotSent(newRows[r])}
      uncertain == {r \in Recipients : UncertainFailure(newRows[r])}
      fresh == Refreshed(held, camp, newRows)
  IN  IF canceled # {} /\ live = {}
      THEN Flushed(camp, held,
             Refreshed([held EXCEPT !.state = "RESERVE_CANCELED"],
                       camp, newRows))
      ELSE IF ~any THEN camp
      ELSE Flushed(camp, held,
             IF uncertain = {} THEN fresh
             ELSE [fresh EXCEPT !.state = "RESERVED",
                                !.completed = held.completed])

\* The request asks about the next chunk, or comes to its end.
Proceed(q, held, todo, any, newRows) ==
  /\ rows' = newRows
  /\ cancel' = [cancel EXCEPT ![q] =
       IF todo = {} THEN EndedRequest
       ELSE [pc |-> "asking", todo |-> todo, answer |-> "none", any |-> any,
             held |-> held]]
  /\ camp' = IF todo = {} THEN Concluded(held, any, newRows) ELSE camp
  /\ UNCHANGED <<dispatchVars, provider, result, asked, age>>

CancelCampaign(q) ==
  /\ cancel[q].pc = "idle"
  /\ camp.state = "RESERVED" \/ HasReservationRows
  /\ ~IsDispatching
  /\ webReq # {}
  /\ ~IsCancelling
  /\ Proceed(q, camp, Targets, FALSE, rows)

\* The provider handles a cancel request; its answer may be lost.
ProviderCancels(q) ==
  LET c == First(cancel[q].todo)
  IN  /\ cancel[q].pc = "asking"
      /\ cancel[q].answer = "none"
      /\ provider[c] = "reserved"
      /\ provider' = [provider EXCEPT ![c] = "cancelled"]
      /\ \E answer \in {"cancelled", "error"} :
           cancel' = [cancel EXCEPT ![q].answer = answer]
      /\ UNCHANGED <<dispatchVars, result, rows, camp, asked, age>>

ProviderRefuses(q) ==
  /\ cancel[q].pc = "asking"
  /\ cancel[q].answer = "none"
  /\ \E answer \in {"rejected", "error"} :
       cancel' = [cancel EXCEPT ![q].answer = answer]
  /\ UNCHANGED <<dispatchVars, provider, result, rows, camp, asked, age>>

\* The UPDATE by which the accepted chunk's waiting rows become CANCELED.
CanceledRows(c) ==
  [r \in Recipients |->
     IF r \in Chunk(c) /\ rows[r].status = "PENDING"
     THEN [rows[r] EXCEPT !.status = "CANCELED"]
     ELSE rows[r]]

ChunkCancelled(q) ==
  LET c == First(cancel[q].todo)
  IN  /\ cancel[q].pc = "asking"
      /\ cancel[q].answer = "cancelled"
      /\ Proceed(q, cancel[q].held, cancel[q].todo \ {c}, TRUE,
                 CanceledRows(c))

\* Mutant: a refusal is taken for "cancelled already".
ChunkRefusedIsCancelled(q) ==
  LET c == First(cancel[q].todo)
  IN  /\ cancel[q].pc = "asking"
      /\ cancel[q].answer = "rejected"
      /\ Proceed(q, cancel[q].held, cancel[q].todo \ {c}, TRUE,
                 CanceledRows(c))

ChunkRefused(q) ==
  LET c == First(cancel[q].todo)
  IN  /\ cancel[q].pc = "asking"
      /\ cancel[q].answer = "rejected"
      /\ Proceed(q, cancel[q].held, cancel[q].todo \ {c}, cancel[q].any, rows)

\* Any other error ends the loop: the chunks left are not asked about.
CancelFails(q) ==
  /\ cancel[q].pc = "asking"
  /\ cancel[q].answer = "error"
  /\ Proceed(q, cancel[q].held, {}, cancel[q].any, rows)

(***************************************************************************)
(* The provider sends, reports and answers queries.                        *)
(***************************************************************************)
ProviderSends(c) ==
  /\ age >= Due
  /\ provider[c] = "reserved"
  /\ provider' = [provider EXCEPT ![c] = "sent"]
  /\ UNCHANGED <<dispatchVars, result, rows, camp, cancel, asked, age>>

ProviderResolves(r) ==
  /\ provider[ChunkOf[r]] = "sent"
  /\ result[r] = "none"
  /\ \E s \in Results : result' = [result EXCEPT ![r] = s]
  /\ UNCHANGED <<dispatchVars, provider, rows, camp, cancel, asked, age>>

\* receive_report: a batch of results, new or repeated.
ReceiveReport(batch) ==
  /\ batch # {}
  /\ \A r \in batch : result[r] # "none"
  /\ LET newRows == [r \in Recipients |->
           IF r \in batch THEN AfterReport(rows[r], FALSE, result[r])
           ELSE rows[r]]
     IN  /\ rows' = newRows
         /\ camp' = IF newRows = rows THEN camp
                    ELSE Refreshed(camp, camp, newRows)
  /\ UNCHANGED <<dispatchVars, provider, result, cancel, asked, age>>

\* Rows that wait, or failed without a code, ten minutes after the due time.
Queried ==
  {r \in Recipients :
     /\ age = Old
     /\ \/ rows[r].status \in OpenStatuses
        \/ rows[r].status = "FAILED" /\ rows[r].code = "null"}

MayAnswer(r) ==
  CASE provider[ChunkOf[r]] = "sent" ->
         IF result[r] = "none" THEN {"reg"} ELSE {result[r]}
    [] provider[ChunkOf[r]] = "reserved" -> {"reg", "noresult"}
    [] OTHER -> {"noresult"}

\* A batch of query_sent: selected, queried, answered.
QuerySent(batch) ==
  /\ asked = NoAnswers
  /\ batch # {}
  /\ batch \subseteq Queried
  /\ asked' \in [batch -> Results \cup {"reg", "noresult"}]
  /\ \A r \in batch : asked'[r] \in MayAnswer(r)
  /\ UNCHANGED <<dispatchVars, provider, result, rows, camp, cancel, age>>

ApplyAnswers ==
  LET newRows == [r \in Recipients |->
        IF r \in DOMAIN asked THEN AfterAnswer(rows[r], FALSE, asked[r])
        ELSE rows[r]]
  IN  /\ asked # NoAnswers
      /\ rows' = newRows
      /\ camp' = AfterAnswers(camp, rows, newRows)
      /\ asked' = NoAnswers
      /\ UNCHANGED <<dispatchVars, provider, result, cancel, age>>

(***************************************************************************)
(* Time and restarts.                                                      *)
(***************************************************************************)
\* RESERVE_MIN_LEAD_SECONDS leaves the dispatch time to end before.
TimePasses ==
  /\ age < Old
  /\ ~dispatching
  /\ age' = age + 1
  /\ UNCHANGED <<dispatchVars, provider, result, rows, camp, cancel, asked>>

\* The process dies and restarts.  A dispatch is not resumed: the chunk it
\* asked about may be reserved and has no rows.  A cancel is lost.
CancelRestart ==
  /\ dispatching \/ IsCancelling \/ asked # NoAnswers
  /\ IF dispatching
     THEN \E s \in MayBecome("unknown") :
            provider' = [provider EXCEPT ![recorded + 1] = s]
     ELSE UNCHANGED provider
  /\ dispatching' = FALSE
  /\ cancel' = [q \in Requests |->
       IF cancel[q].pc = "asking" THEN EndedRequest ELSE cancel[q]]
  /\ asked' = NoAnswers
  /\ UNCHANGED <<recorded, webReq, result, rows, camp, age>>

CancelNext ==
  \/ \E outcome \in {"accepted", "rejected", "unknown"} : ReserveChunk(outcome)
  \/ \E q \in Requests :
       \/ CancelCampaign(q)
       \/ ProviderCancels(q) \/ ProviderRefuses(q)
       \/ ChunkCancelled(q) \/ ChunkRefused(q) \/ CancelFails(q)
  \/ \E c \in Chunks : ProviderSends(c)
  \/ \E r \in Recipients : ProviderResolves(r)
  \/ \E batch \in SUBSET Recipients : ReceiveReport(batch) \/ QuerySent(batch)
  \/ ApplyAnswers
  \/ TimePasses \/ CancelRestart

CancelSpec == CancelInit /\ [][CancelNext]_cancelVars
(***************************************************************************)
(* Properties.                                                             *)
(***************************************************************************)
TypeOK ==
  /\ dispatching \in BOOLEAN
  /\ recorded \in 0..NChunks
  /\ webReq \in SUBSET Chunks
  /\ provider \in [Chunks -> ChunkStates]
  /\ result \in [Recipients -> Results \cup {"none"}]
  /\ rows \in [Recipients -> Row]
  /\ camp \in Campaigns
  /\ cancel \in [Requests -> CancelRequest]
  /\ asked \in UNION {[R -> Results \cup {"reg", "noresult"}] :
                        R \in SUBSET Recipients}
  /\ age \in 0..Old

\* A campaign shown as RESERVE_CANCELED has no message with a row that the
\* provider sent or will send: not those of a chunk whose answer was lost,
\* whatever a query said of it since, nor those a refused cancel left.
CanceledSendsNothing ==
  camp.state = "RESERVE_CANCELED" =>
    \A r \in Recorded(rows) : provider[ChunkOf[r]] \in {"none", "cancelled"}

\* A message is shown as canceled only if the provider accepted the cancel,
\* although its row may change while the answer is awaited, and a refusal
\* may mean that the chunk was cancelled by a request whose answer was lost.
CanceledRowsAreCancelled ==
  \A r \in Recipients :
    rows[r].status = "CANCELED" => provider[ChunkOf[r]] = "cancelled"

(***************************************************************************)
(* What the documentation says and the code does not do.                   *)
(***************************************************************************)
\* report.py: RESERVE_CANCELED means that the provider accepted the cancel.
\* After a restart in the middle of a dispatch, the chunk that was asked
\* about has no rows, and a cancel does not see it.
CanceledCampaignSendsNothing ==
  camp.state = "RESERVE_CANCELED" =>
    \A c \in Chunks : provider[c] \in {"none", "cancelled"}
=============================================================================
