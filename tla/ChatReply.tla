------------------------------- MODULE ChatReply -------------------------------
(***************************************************************************)
(* One answer to a customer, from a conversation: send_reply of            *)
(* app/services/chat.py with dispatch_chat_reply of services/compose.py    *)
(* and send_sms_fallback of services/report.py.  The answer goes out as    *)
(* two-way chat while the customer's reply id is fresh; as one-way RCS     *)
(* once the chat request is refused; as a direct message once that is      *)
(* refused too; and as a substitute SMS once a report tells that an        *)
(* accepted chat message failed.                                           *)
(*                                                                         *)
(* The browser posts the same answer several times under one Idempotency-  *)
(* Key.  A step is the code between two awaits.  A chat reply and a        *)
(* substitute SMS await the provider inside a transaction that holds       *)
(* SQLite's write lock: whoever else writes meanwhile fails with "database *)
(* is locked" after five seconds.  The chunk loop behind the one-way path  *)
(* is module Campaign; here it has one recipient.                          *)
(***************************************************************************)
EXTENDS MessageRows

CONSTANTS
  Posts,      \* the posts of the browser, all under one Idempotency-Key
  Channels,      \* the sendChannel values of the composer that are explored
  MaxRestarts    \* how often the process may die

\* A cliKey: c{campaign}-0-0, the token of a chat attempt, and "-fb".  The
\* request stands for the token it drew; OneWay has none.
OneWay == "oneway"

\* Who awaits an answer of the provider: a request of the browser, or the
\* webhook or reconciliation pass that sends a substitute.
Substitute == "substitute"

ASSUME ChatReplyAssumption ==
  /\ IsFiniteSet(Posts)
  /\ OneWay \notin Posts /\ Substitute \notin Posts
  /\ Channels \subseteq {"rcs", "sms"}
  /\ MaxRestarts \in Nat

Ids == 1..Cardinality(Posts)
Keys == [id : Ids, token : Posts \cup {OneWay}, fb : BOOLEAN]

Callers == Posts \cup {Substitute}

\* A request to the provider [key, stage]: it is "out", "taken", refused so
\* that another way may be tried ("replaceable"), or refused with or without
\* an explicit result code ("refused", "unexplained").
NoCall == [stage |-> "none"]

NoCampaign ==
  [camp |-> [state |-> "NONE", ok |-> 0, fail |-> 0, pending |-> 0,
             completed |-> 0],
   token |-> OneWay, row |-> NoRow]

VARIABLES
  channel,   \* the sendChannel the user chose
  fresh,     \* does _fresh_reply_id find a usable reply id?
  pc,        \* "new", "chat", "oneway", "direct" or "done"
  answer,    \* what the browser was told
  call,      \* the requests to the provider that are awaited
  db,        \* the committed campaigns, with their only row
  att,       \* the provider's state of every key
  limbo,     \* keys whose request was given up and may still arrive
  received,  \* the messages the customer got
  cut,       \* the awaited requests that a restart cut off
  restarts

replyVars == <<channel, fresh, pc, answer, call, db, att, limbo, received, cut,
          restarts>>
providerVars == <<att, limbo, received>>
restartVars == <<cut, restarts>>

ReplyInit ==
  /\ channel \in Channels
  /\ fresh \in BOOLEAN
  /\ pc = [r \in Posts |-> "new"]
  /\ answer = [r \in Posts |-> "none"]
  /\ call = [c \in Callers |-> NoCall]
  /\ db = [i \in Ids |-> NoCampaign]
  /\ att = [k \in Keys |-> "none"]
  /\ limbo = {}
  /\ received = 0
  /\ cut = 0
  /\ restarts = 0

(***************************************************************************)
(* Helpers.                                                                *)
(***************************************************************************)
Exists(i) == db[i].camp.state # "NONE"
KeyOf(i) == [id |-> i, token |-> db[i].token, fb |-> db[i].row.fb]
Chat(i) == db[i].token # OneWay
Calling == {c \in Callers : call[c] # NoCall}

\* A chat request and a substitute are awaited with a flushed, uncommitted
\* row: SQLite has one writer.
Locked == call[Substitute] # NoCall \/ \E r \in Posts : pc[r] = "chat"

\* max(id) + 1 over the committed rows: the id of a campaign that was rolled
\* back is given out again.
NextId == 1 + Cardinality({i \in Ids : Exists(i)})

\* _reply_result.
ReplyResult(i) ==
  IF db[i].camp.state # "FAILED" THEN "earlierSent"
  ELSE IF db[i].row.code = "null" THEN "earlierUnknown" ELSE "earlierFailed"

Rows(row) == [r \in {"to"} |-> row]

\* The campaign of a reply when it is first committed: in flight, sent or
\* failed, with its row.
Created(state, token, row) ==
  [camp |-> [state |-> state, ok |-> 0,
             fail |-> IF state = "FAILED" THEN 1 ELSE 0,
             pending |-> IF state = "FAILED" THEN 0 ELSE 1,
             completed |-> IF state = "FAILED" THEN 1 ELSE 0],
   token |-> token, row |-> row]

SentRow(fb) == [status |-> "REG", code |-> "ok", fb |-> fb]
FailedRow(code, fb) == [status |-> "FAILED", code |-> code, fb |-> fb]

Tell(r, what) ==
  /\ pc' = [pc EXCEPT ![r] = "done"]
  /\ answer' = [answer EXCEPT ![r] = what]

Out(key) == [key |-> key, stage |-> "out"]

(***************************************************************************)
(* send_reply.                                                             *)
(***************************************************************************)
AlreadySent == {i \in Ids : Exists(i)}

\* The key was used: no new message, the result of the first one.
RepeatedRequest(r) ==
  /\ pc[r] = "new"
  /\ \E i \in AlreadySent : Tell(r, ReplyResult(i))
  /\ UNCHANGED <<channel, fresh, call, db, providerVars, restartVars>>

\* The campaign cannot be written: HTTP 500.
DatabaseIsLocked(r) ==
  /\ pc[r] = "new"
  /\ AlreadySent = {}
  /\ Locked
  /\ Tell(r, "busy")
  /\ UNCHANGED <<channel, fresh, call, db, providerVars, restartVars>>

\* dispatch_chat_reply up to its await: the campaign is flushed, the key is
\* built from its id and a token.
SendChat(r) ==
  /\ pc[r] = "new"
  /\ AlreadySent = {}
  /\ ~Locked
  /\ channel = "rcs" /\ fresh
  /\ pc' = [pc EXCEPT ![r] = "chat"]
  /\ call' = [call EXCEPT ![r] =
                Out([id |-> NextId, token |-> r, fb |-> FALSE])]
  /\ UNCHANGED <<channel, fresh, answer, db, providerVars, restartVars>>

\* dispatch_campaign for one recipient: the campaign is committed first.
StartOneWay(r) ==
  /\ db' = [db EXCEPT ![NextId] = Created("DISPATCHING", OneWay, NoRow)]
  /\ call' = [call EXCEPT ![r] =
                Out([id |-> NextId, token |-> OneWay, fb |-> FALSE])]
  /\ pc' = [pc EXCEPT ![r] = "oneway"]
  /\ UNCHANGED answer

SendOneWay(r) ==
  /\ pc[r] = "new"
  /\ AlreadySent = {}
  /\ ~Locked
  /\ channel = "sms" \/ ~fresh
  /\ StartOneWay(r)
  /\ UNCHANGED <<channel, fresh, providerVars, restartVars>>

\* Mutant: every failure is told as a refusal.
VerdictAlwaysFailed(code) == "failed"

\* ReplySendFailed: without a code, the acceptance is uncertain.
Verdict(code) == IF code = "null" THEN "unknown" ELSE "failed"

\* The result of the request of r is recorded and told.
Record(r, state, row, what) ==
  LET key == call[r].key
  IN  /\ db' = [db EXCEPT ![key.id] = Created(state, key.token, row)]
      /\ call' = [call EXCEPT ![r] = NoCall]
      /\ Tell(r, what)

Accepted(r) ==
  /\ pc[r] \in {"chat", "oneway", "direct"}
  /\ call[r].stage = "taken"
  /\ Record(r, "DISPATCHED", SentRow(call[r].key.fb), "sent")
  /\ UNCHANGED <<channel, fresh, providerVars, restartVars>>

\* ChatReplyRejected: an explicit refusal of the request or of its item.
ChatRejected(r) == call[r].stage \in {"replaceable", "refused"}

\* The campaign is rolled back, and the one-way campaign takes over its key.
ReplaceChat(r) ==
  /\ pc[r] = "chat"
  /\ ChatRejected(r)
  /\ StartOneWay(r)
  /\ UNCHANGED <<channel, fresh, providerVars, restartVars>>

\* One-way RCS was refused outright: the same message, direct, under "-fb".
ReplaceOneWay(r) ==
  /\ pc[r] = "oneway" /\ channel = "rcs"
  /\ call[r].stage = "replaceable"
  /\ pc' = [pc EXCEPT ![r] = "direct"]
  /\ call' = [call EXCEPT ![r] = Out([call[r].key EXCEPT !.fb = TRUE])]
  /\ UNCHANGED <<channel, fresh, answer, db, providerVars, restartVars>>

\* A refusal nothing replaces; without a result code it stays uncertain.
Refused(r) ==
  /\ pc[r] \in {"oneway", "direct"}
  /\ \/ call[r].stage \in {"refused", "unexplained"}
     \/ call[r].stage = "replaceable" /\ (pc[r] = "direct" \/ channel = "sms")
  /\ LET code == IF call[r].stage = "unexplained" THEN "null" ELSE "rejected"
     IN  Record(r, "FAILED", FailedRow(code, call[r].key.fb),
                Verdict(code))
  /\ UNCHANGED <<channel, fresh, providerVars, restartVars>>

\* A time-out, a server error or an unreadable answer.
Uncertain(r) ==
  /\ pc[r] \in {"chat", "oneway", "direct"}
  /\ \/ call[r].stage \in {"out", "taken"}
     \/ pc[r] = "chat" /\ call[r].stage = "unexplained"
  /\ limbo' = IF call[r].stage = "out" THEN limbo \cup {call[r].key} ELSE limbo
  /\ Record(r, "FAILED", FailedRow("null", call[r].key.fb),
            Verdict("null"))
  /\ UNCHANGED <<channel, fresh, att, received, restartVars>>

(***************************************************************************)
(* Results: the report webhook and the reconciliation.                     *)
(***************************************************************************)
Final(k) == att[k] \in ResultCodes

\* _is_unrecorded: awaiting_record marks the campaign, no row has this key.
IsUnrecorded(k) ==
  /\ \E c \in Calling : call[c].key.id = k.id
  /\ ~(Exists(k.id) /\ db[k.id].row # NoRow /\ KeyOf(k.id) = k)

\* Mutant: the chat key has no token, so that the row of the campaign that
\* was given the same id matches.
MatchesWithoutToken(k) == Exists(k.id) /\ db[k.id].row # NoRow

\* _find_message: the key or its pair with or without "-fb".
Matches(k) == MatchesWithoutToken(k) /\ db[k.id].token = k.token

\* Mutant: a failure that may have been delivered is replaced as well.
NeedsSubstituteAnyFailure(i, row) ==
  Chat(i) /\ row.status = "DONE" /\ row.code # "ok" /\ ~row.fb

\* _mark_chat_fallback.
NeedsSubstitute(i, row) ==
  Chat(i) /\ row.status = "DONE" /\ row.code = "undelivered" /\ ~row.fb

Settled(i, row) ==
  [db[i] EXCEPT !.row = row,
                !.camp = Refreshed(db[i].camp, db[i].camp, Rows(row))]

\* A result changes the row to row: it is committed, or the transaction
\* stays open while a substitute is sent.  Without a client there is none.
ApplyResult(i, row) ==
  /\ ~Locked
  /\ \/ /\ ~NeedsSubstitute(i, row)
        /\ db' = [db EXCEPT ![i] = Settled(i, row)]
        /\ UNCHANGED call
     \/ /\ NeedsSubstitute(i, row)
        /\ db' = [db EXCEPT ![i] =
                    Settled(i, FailedRow(row.code, FALSE))]
        /\ UNCHANGED call
     \/ /\ NeedsSubstitute(i, row)
        /\ call' = [call EXCEPT ![Substitute] =
                      Out([KeyOf(i) EXCEPT !.fb = TRUE])]
        /\ UNCHANGED db
  /\ UNCHANGED <<channel, fresh, pc, answer, providerVars, restartVars>>

\* receive_report; the provider repeats reports.
Report(k) ==
  /\ Final(k)
  /\ ~IsUnrecorded(k)
  /\ Matches(k)
  /\ AfterReport(db[k.id].row, k.fb, att[k]) # db[k.id].row
  /\ ApplyResult(k.id, AfterReport(db[k.id].row, k.fb, att[k]))

\* Mutant: rows that failed without a code are not asked about.
AskedAboutIfOpen(row) == row.status \in OpenStatuses

AskedAbout(row) ==
  row.status \in OpenStatuses \/ (row.status = "FAILED" /\ row.code = "null")

QueryAnswer(k) ==
  IF Final(k) THEN att[k] ELSE IF att[k] = "accepted" THEN "reg" ELSE "noresult"

\* process_sent_query for the row's own key.  The provider says that it has
\* no result once no request is under way.
Query(i) ==
  LET k == KeyOf(i)
      row == AfterAnswer(db[i].row, k.fb, QueryAnswer(k))
  IN  /\ Exists(i)
      /\ AskedAbout(db[i].row)
      /\ k \notin limbo
      /\ row # db[i].row
      /\ IF Recovered(db[i].row, row)
         THEN /\ ~Locked
              /\ db' = [db EXCEPT ![i].row = row,
                          ![i].camp = AfterAnswers(db[i].camp,
                                        Rows(db[i].row), Rows(row))]
              /\ UNCHANGED <<channel, fresh, pc, answer, call, providerVars,
                             restartVars>>
         ELSE ApplyResult(i, row)

\* send_sms_fallback after its await, and the commit.
CloseSubstitute(status, code) ==
  LET key == call[Substitute].key
  IN  /\ db' = [db EXCEPT ![key.id] =
                  Settled(key.id, [status |-> status, code |-> code,
                                   fb |-> TRUE])]
      /\ call' = [call EXCEPT ![Substitute] = NoCall]
      /\ limbo' = IF call[Substitute].stage = "out" THEN limbo \cup {key}
                  ELSE limbo
      /\ UNCHANGED <<channel, fresh, pc, answer, att, received, restartVars>>

SubstituteAccepted ==
  /\ call[Substitute].stage = "taken"
  /\ CloseSubstitute("FB_PENDING", "undelivered")

\* The recipient was refused inside an answer.
SubstituteRefused ==
  /\ call[Substitute].stage = "refused"
  /\ CloseSubstitute("FAILED", "rejected")

\* The request raised: the row keeps the code of the chat failure.
SubstituteRaised ==
  /\ call[Substitute] # NoCall
  /\ CloseSubstitute("FAILED", "undelivered")

(***************************************************************************)
(* The customer, the provider and restarts.                                *)
(***************************************************************************)
\* 23 hours 30 minutes pass, or the customer writes again.
FreshnessChanges ==
  /\ \E r \in Posts : pc[r] = "new"
  /\ fresh' = ~fresh
  /\ UNCHANGED <<channel, pc, answer, call, db, providerVars, restartVars>>

\* A key the provider knows is taken again only after ten minutes; then the
\* customer gets the message again.
ProviderTakes(c) ==
  /\ call[c] # NoCall /\ call[c].stage = "out"
  /\ call[c].key \notin limbo
  /\ call' = [call EXCEPT ![c].stage = "taken"]
  /\ IF att[call[c].key] = "none"
     THEN /\ att' = [att EXCEPT ![call[c].key] = "accepted"]
          /\ UNCHANGED received
     ELSE received' = received + 1 /\ UNCHANGED att
  /\ UNCHANGED <<channel, fresh, pc, answer, db, limbo, restartVars>>

ReplyIsRefused(c, how) ==
  /\ call[c] # NoCall /\ call[c].stage = "out"
  /\ call' = [call EXCEPT ![c].stage = how]
  /\ UNCHANGED <<channel, fresh, pc, answer, db, providerVars, restartVars>>

\* A request that was given up arrives after all, or never.
LimboSettles(k) ==
  /\ k \in limbo
  /\ limbo' = limbo \ {k}
  /\ \/ UNCHANGED att
     \/ att[k] = "none" /\ att' = [att EXCEPT ![k] = "accepted"]
  /\ UNCHANGED <<channel, fresh, pc, answer, call, db, received, restartVars>>

\* The message arrives, fails, or may have arrived.
ReplyResolves(k) ==
  /\ att[k] = "accepted"
  /\ \E result \in ResultCodes :
       /\ att' = [att EXCEPT ![k] = result]
       /\ received' \in (IF result = "ok" THEN {received + 1}
                         ELSE IF result = "undelivered" THEN {received}
                         ELSE {received, received + 1})
  /\ UNCHANGED <<channel, fresh, pc, answer, call, db, limbo, restartVars>>

\* The process dies: open transactions are rolled back.
ReplyRestart ==
  /\ restarts < MaxRestarts
  /\ Calling # {}
  /\ restarts' = restarts + 1
  /\ cut' = cut + Cardinality(Calling)
  /\ limbo' = limbo \cup {call[c].key : c \in
                            {d \in Calling : call[d].stage = "out"}}
  /\ call' = [c \in Callers |-> NoCall]
  /\ pc' = [r \in Posts |->
              IF pc[r] \in {"chat", "oneway", "direct"} THEN "done" ELSE pc[r]]
  /\ answer' = [r \in Posts |->
                  IF pc[r] \in {"chat", "oneway", "direct"} THEN "lost"
                  ELSE answer[r]]
  /\ UNCHANGED <<channel, fresh, db, att, received>>

(***************************************************************************)
(* The whole.                                                              *)
(***************************************************************************)
\* What the code does once a request to the provider has ended; httpx ends
\* it after thirty seconds.
RequestEnds(r) ==
  Accepted(r) \/ ReplaceChat(r) \/ ReplaceOneWay(r) \/ Refused(r)
    \/ Uncertain(r)

SubstituteEnds == SubstituteAccepted \/ SubstituteRefused \/ SubstituteRaised

ReplyNext ==
  \/ \E r \in Posts :
       \/ RepeatedRequest(r) \/ DatabaseIsLocked(r)
       \/ SendChat(r) \/ SendOneWay(r)
       \/ Accepted(r) \/ ReplaceChat(r) \/ ReplaceOneWay(r) \/ Refused(r)
       \/ Uncertain(r)
  \/ SubstituteAccepted \/ SubstituteRefused \/ SubstituteRaised
  \/ \E k \in Keys : Report(k) \/ LimboSettles(k) \/ ReplyResolves(k)
  \/ \E i \in Ids : Query(i)
  \/ \E c \in Callers :
       \/ ProviderTakes(c)
       \/ \E how \in {"replaceable", "refused", "unexplained"} :
            ReplyIsRefused(c, how)
  \/ FreshnessChanges
  \/ ReplyRestart

\* Time-outs end every request, the reconciliation comes every minute, and
\* the provider finishes what it accepted.  Reports, users and restarts are
\* not fair.
ReplyFairness ==
  /\ \A r \in Posts : WF_replyVars(RequestEnds(r))
  /\ WF_replyVars(SubstituteEnds)
  /\ \A i \in Ids : WF_replyVars(Query(i))
  /\ \A k \in Keys : WF_replyVars(LimboSettles(k)) /\ WF_replyVars(ReplyResolves(k))

ReplySpec == ReplyInit /\ [][ReplyNext]_replyVars /\ ReplyFairness

(***************************************************************************)
(* Properties.                                                             *)
(***************************************************************************)
\* The customer gets an answer at most once, however often the browser posts
\* it, whichever of the four ways it goes and whatever the provider's answers
\* and reports say, unless a restart cut off a request: send_reply repeats
\* and replaces only what is known not to be delivered.
AtMostOneDelivery == received <= 1 + cut

\* What the conversation shows is the result of the message the row stands
\* for: reports of a chat attempt that was rolled back, of the message a
\* substitute replaced, or repeated ones never settle another attempt's row.
RowTellsItsOwnMessage ==
  \A i \in Ids :
    LET row == db[i].row
    IN  /\ row.status = "DONE" => att[KeyOf(i)] = row.code
        /\ row.code = "noresult" => att[KeyOf(i)] = "none"
        /\ row.code = "rejected" => att[KeyOf(i)] = "none" \/ cut > 0

\* "The answer was not accepted", told to the request that sent it, is true
\* and stays true: with this answer the operator writes it again.
OwnFailureIsCertain ==
  \A r \in Posts :
    answer[r] = "failed" => \A k \in Keys : att[k] = "none" \/ cut > 0

\* Every recorded answer gets a result: no failed chat message waits for
\* ever for its substitute, and no uncertain request stays uncertain.
HasResult(i) ==
  db[i].row.status = "DONE"
    \/ (db[i].row.status = "FAILED" /\ db[i].row.code # "null")
EveryReplySettles ==
  \A i \in Ids : db[i].row # NoRow ~> HasResult(i)
=============================================================================
