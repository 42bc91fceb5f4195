------------------------------- MODULE Threads -------------------------------
(***************************************************************************)
(* What is computed from the rows of a conversation: the charges of        *)
(* two-way chat (app/services/cost.py, msghub/codes.py), the list of       *)
(* conversations and the conversation itself (app/services/chat.py).       *)
(*                                                                         *)
(* Reports come in any order, with times of their own.  The times of the   *)
(* tables are text of several shapes: msghub writes the wall clock of      *)
(* Seoul, we write UTC.  Within a shape the order of the text is that of   *)
(* time; across shapes it is not.  A time is a record of its shape and its *)
(* instant; "odd" is a text that cannot be read, "none" is none.           *)
(*                                                                         *)
(* A chat message is the one row of its campaign.  Its number stands for   *)
(* the id of the row.                                                      *)
(***************************************************************************)
EXTENDS Integers, Sequences, FiniteSets, FiniteSetsExt

CONSTANTS
  NChats,       \* chat messages that were sent
  Phone,        \* the customer of a chat message
  Caller,       \* our number, of a chat message
  SentTimes,    \* the times campaigns are created at
  ReportTimes,  \* complete_time of the reports
  Answers,      \* the rows that receive_mo may store, of number, caller, time
  NoCaller,     \* mo_callback is NULL
  MaxAnswers,   \* bound
  Window,       \* CHAT_SESSION_WINDOW_HOURS
  MaxUnits,     \* CHAT_SESSION_MAX_UNITS
  KstAhead      \* how far the clock of Seoul is ahead

Chats == 1..NChats

Times == [shape : {"kst", "utc", "odd"}, at : Nat]
NoTime == [shape |-> "none", at |-> 0]

\* campaigns.created_at and mo_messages.received_at are never NULL.
ASSUME ThreadsAssumption ==
  /\ NChats \in Nat /\ MaxAnswers \in Nat
  /\ SentTimes \subseteq Times /\ ReportTimes \subseteq Times \cup {NoTime}
  /\ \A row \in Answers : row.time \in Times
  /\ Window \in Nat \ {0} /\ MaxUnits \in Nat \ {0} /\ KstAhead \in Nat

ChatPrice == 8
SmsPrice == 9

VARIABLES
  mts,    \* messages: time of the campaign, result, time of the report, cost
  total,  \* campaigns: total_cost
  moTable     \* mo_messages, by id

threadsVars == <<mts, total, moTable>>

ThreadsInit ==
  /\ \E sent \in [Chats -> SentTimes] :
       mts = [m \in Chats |-> [sent |-> sent[m], result |-> "open",
                               at |-> NoTime, cost |-> 0]]
  /\ total = [m \in Chats |-> 0]
  /\ moTable = <<>>

\* parse_mixed_ts gives an instant.
Readable(time) == time.shape \in {"kst", "utc"}

(***************************************************************************)
(* Charges.                                                                *)
(***************************************************************************)
Pair(m) == <<Caller[m], Phone[m]>>

\* The delivered chats of a pair of which the time is known.
Known(rows, pair) ==
  {m \in Chats : /\ Pair(m) = pair /\ rows[m].result = "chat"
                 /\ Readable(rows[m].sent)}

\* They are sorted by the time they were sent at, and by id.
Earlier(rows, m, n) ==
  \/ rows[m].sent.at < rows[n].sent.at
  \/ rows[m].sent.at = rows[n].sent.at /\ m < n

LatestOfAll(rows, S) == CHOOSE m \in S : \A n \in S \ {m} : Earlier(rows, n, m)

\* allocate_chat_session_costs: when the session of a message began, and the
\* units it has with it, by those of the message before.
Sessions(rows, known) ==
  LET session[m \in known] ==
        LET before == {n \in known : Earlier(rows, n, m)}
            last == session[LatestOfAll(rows, before)]
        IN IF before = {} \/ rows[m].sent.at >= last.start + Window
           THEN [start |-> rows[m].sent.at, units |-> 1]
           ELSE [start |-> last.start, units |-> last.units + 1]
  IN session

\* The cost of a row of a pair with a chat in this report.
Allocated(rows, m) ==
  LET known == Known(rows, Pair(m))
  IN IF rows[m].result # "chat" THEN rows[m].cost
     ELSE IF m \in known /\ Sessions(rows, known)[m].units > MaxUnits THEN 0
     ELSE ChatPrice

\* Mutant: only the rows of the report are charged.
SessionCapOfChanged(rows, changed) ==
  [m \in Chats |->
     IF m \in changed THEN Allocated(rows, m) ELSE rows[m].cost]

\* apply_chat_session_cap: all of the pairs with a chat in this report.
SessionCap(rows, changed) ==
  LET pairs == {Pair(m) : m \in {c \in changed : rows[c].result = "chat"}}
  IN [m \in Chats |-> IF Pair(m) \in pairs THEN Allocated(rows, m) ELSE rows[m].cost]

\* calculate_cost.
Cost(result) ==
  CASE result = "chat" -> ChatPrice
    [] result = "sms" -> SmsPrice
    [] OTHER -> 0

\* process_report and process_sent_query, for the first results of some rows:
\* the totals of the campaigns whose costs have changed are refreshed too.
ReceiveResults(results, time) ==
  LET changed == DOMAIN results
      applied == [m \in Chats |->
        IF m \in changed
        THEN [mts[m] EXCEPT !.result = results[m], !.at = time, !.cost = Cost(results[m])]
        ELSE mts[m]]
      cost == SessionCap(applied, changed)
  IN /\ \A m \in changed : mts[m].result = "open"
     /\ mts' = [m \in Chats |-> [applied[m] EXCEPT !.cost = cost[m]]]
     /\ total' = [m \in Chats |->
          IF m \in changed \/ cost[m] # applied[m].cost THEN cost[m] ELSE total[m]]
     /\ UNCHANGED moTable

(***************************************************************************)
(* Conversations.                                                          *)
(***************************************************************************)
\* _ts_rank: a time is later than any text that is none, and that than no
\* text at all.
Rank(time) ==
  CASE Readable(time) -> 2 + time.at
    [] time.shape = "odd" -> 1
    [] OTHER -> 0

\* What SQL compares.
Text(time) == IF time.shape = "kst" THEN time.at + KstAhead ELSE time.at

\* coalesce(complete_time, report_dt, created_at).
MtTime(m) == IF mts[m].at # NoTime THEN mts[m].at ELSE mts[m].sent

MtRows == {[side |-> "OUT", id |-> m, phone |-> Phone[m], caller |-> Caller[m],
            time |-> MtTime(m)] : m \in Chats}
MoRows == {[side |-> "IN", id |-> i, phone |-> moTable[i].phone,
            caller |-> moTable[i].caller, time |-> moTable[i].time] : i \in DOMAIN moTable}

\* Mutant: the rows of a number are one group, whatever the shape of the time.
ShapeIgnored(time) == [NoTime EXCEPT !.shape = "any"]

\* _ts_shape: the key that keeps the texts of one group comparable; a text of
\* no known shape is its own key.
ShapeOf(time) == IF time.shape = "odd" THEN time ELSE [NoTime EXCEPT !.shape = time.shape]

\* func.max of the groups by caller, number and shape; rows without our
\* number are not in the list.
Groups(rows) ==
  LET listed == {r \in rows : r.caller # NoCaller}
      group(r) == {s \in listed : /\ s.caller = r.caller /\ s.phone = r.phone
                                  /\ ShapeOf(s.time) = ShapeOf(r.time)}
  IN {r \in listed : \A s \in group(r) : Text(s.time) <= Text(r.time)}

BestRank(rows) == Max({0} \cup {Rank(r.time) : r \in rows})

\* The row list_thread_page makes of a number.
Listed(p) ==
  LET mt == {r \in Groups(MtRows) : r.phone = p}
      mo == {r \in Groups(MoRows) : r.phone = p}
      dir == IF BestRank(mo) > BestRank(mt) THEN "IN" ELSE "OUT"
      latest == {r \in mt \cup mo : Rank(r.time) = BestRank(mt \cup mo)}
      inLatest == {r \in latest : r.side = "IN"}
  IN [dir |-> dir, rank |-> BestRank(mt \cup mo),
      caller |-> (CHOOSE r \in (IF inLatest # {} THEN inLatest ELSE latest) : TRUE).caller]

\* _batch_last_mo_bodies and _batch_last_mt_bodies: the first of each shape,
\* then the latest of those, and of equals the one with the lowest id.
Preview(p) ==
  LET rows == {r \in (IF Listed(p).dir = "IN" THEN MoRows ELSE MtRows) : r.phone = p}
      first(r) == \A s \in rows \ {r} :
        ShapeOf(s.time) = ShapeOf(r.time) =>
          \/ Text(s.time) < Text(r.time)
          \/ Text(s.time) = Text(r.time) /\ r.id < s.id
      candidates == {r \in rows : first(r)}
  IN CHOOSE r \in candidates : \A s \in candidates \ {r} :
       \/ Rank(s.time) < Rank(r.time)
       \/ Rank(s.time) = Rank(r.time) /\ r.id < s.id

\* get_thread sorts by time, what cannot be read first, and keeps the order
\* of the queries among equals.
Precedes(r, s) ==
  LET key(x) == IF Readable(x.time) THEN x.time.at ELSE -1
  IN \/ key(r) < key(s)
     \/ key(r) = key(s) /\ r.side = "OUT" /\ s.side = "IN"
     \/ key(r) = key(s) /\ r.side = s.side /\ r.id < s.id

ThreadOf(p) == {r \in MtRows \cup MoRows : r.phone = p}

LastOfThread(p) ==
  CHOOSE r \in ThreadOf(p) : \A s \in ThreadOf(p) \ {r} : Precedes(s, r)

\* receive_mo.
Answer(row) ==
  /\ Len(moTable) < MaxAnswers
  /\ moTable' = Append(moTable, row)
  /\ UNCHANGED <<mts, total>>

ThreadsNext ==
  \/ \E some \in SUBSET Chats, time \in ReportTimes :
       \E results \in [some -> {"chat", "sms", "failed"}] :
         some # {} /\ ReceiveResults(results, time)
  \/ \E row \in Answers : Answer(row)

ThreadsSpec == ThreadsInit /\ [][ThreadsNext]_threadsVars
-----------------------------------------------------------------------------
\* The messages that open a session: those that no session covers that was
\* opened by a message sent before.
Openers(rows, pair) ==
  CHOOSE S \in SUBSET Known(rows, pair) : \A m \in Known(rows, pair) :
    m \in S <=>
      \A n \in S : Earlier(rows, n, m) => rows[m].sent.at >= rows[n].sent.at + Window

\* The messages of the session of m, up to m.
SessionUpTo(rows, m) ==
  LET upTo(k) == {n \in Known(rows, Pair(m)) : n = k \/ Earlier(rows, n, k)}
      start == LatestOfAll(rows, Openers(rows, Pair(m)) \cap upTo(m))
  IN {n \in upTo(m) : n = start \/ Earlier(rows, start, n)}

Charge(rows, m) ==
  IF rows[m].result = "chat" /\ Readable(rows[m].sent)
  THEN IF Cardinality(SessionUpTo(rows, m)) <= MaxUnits THEN ChatPrice ELSE 0
  ELSE Cost(rows[m].result)

\* In whatever order and company the reports come, a campaign is charged for
\* what its message is in its session of a day: the first MaxUnits cost, the
\* others are free, also those that were charged before an earlier one was
\* known; and the total of the campaign is never left behind.
ChargesAreTheSessions ==
  \A m \in Chats : mts[m].cost = Charge(mts, m) /\ total[m] = Charge(mts, m)

Clear(p) ==
  /\ \A r, s \in ThreadOf(p) : r # s => Rank(r.time) # Rank(s.time)
  /\ \A r \in ThreadOf(p) : r.caller # NoCaller
  /\ ThreadOf(p) # {}

\* The list, which SQL groups by the shape of the times, tells of a
\* conversation what the conversation, sorted in Python, shows as its last
\* message: the direction, the text, the time, and the number an answer is to
\* be sent from.  Of messages at one instant either may be shown.
ListTellsTheLastMessage ==
  \A p \in {r.phone : r \in MtRows \cup MoRows} : Clear(p) =>
    LET last == LastOfThread(p)
    IN /\ Preview(p) = last
       /\ Listed(p) = [dir |-> last.side, rank |-> Rank(last.time), caller |-> last.caller]
=============================================================================
