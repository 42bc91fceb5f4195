-------------------------------- MODULE Inbox --------------------------------
(***************************************************************************)
(* A customer's answer on its way to the screens of the open browsers:     *)
(* receive_mo of app/routes/webhook.py stores it, app/services/events.py   *)
(* announces it, chat_stream of app/routes/threads.py carries the          *)
(* announcement, useChatStream.ts fetches the conversation again, and      *)
(* ThreadView.tsx reports what it has shown to api_mark_read.              *)
(*                                                                         *)
(* msghub posts a batch until it gets a 200.  An answer is announced at    *)
(* once, or at the end of the five seconds that follow the announcement    *)
(* before it.  An announcement is only a signal: it is thrown away when    *)
(* the queue of a browser is full, and it is not kept for a browser that   *)
(* is not connected.                                                       *)
(*                                                                         *)
(* A number stands for the digits of whatever the provider writes, and a   *)
(* chatbot id for its normal form.  mos is the table mo_messages, and the  *)
(* id of a row is its position: SQLite has one writer at a time, so ids    *)
(* grow in the order of the commits.  What a browser has fetched is        *)
(* therefore a number, the highest id it contains.                         *)
(***************************************************************************)
EXTENDS Naturals, Sequences, FiniteSets, FiniteSetsExt, SequencesExt

CONSTANTS
  Batches,     \* the posts of msghub, sequences of items
  ActiveCallers, \* the active sender numbers, with their chatbots
  Mobiles,     \* the numbers that start with 010
  NoKey,       \* an item that came without moKey
  NoNumber,    \* a number that is blank or not registered
  Browsers,
  Listening,   \* the browsers that have EventSource
  View,        \* the customer whose conversation is open, by browser
  ViewCaller,  \* our number in the id of that conversation
  QueueMax,    \* _QUEUE_MAX
  MaxUpdates,  \* bound: the changes of a sent message
  MaxFaults    \* bound: lost answers, broken connections and restarts

ASSUME InboxAssumption ==
  /\ QueueMax \in Nat \ {0}
  /\ MaxUpdates \in Nat /\ MaxFaults \in Nat
  /\ IsFiniteSet(Browsers) /\ Listening \subseteq Browsers
  /\ IsFiniteSet(ActiveCallers)
  /\ DOMAIN View = Browsers /\ DOMAIN ViewCaller = Browsers
  /\ \A batch \in Batches : batch \in Seq(Range(batch))

Events == {"message.new", "thread.updated"}

VARIABLES
  waiting,   \* msghub: the batches without a 200
  mos,       \* mo_messages: the rows, by id
  marks,     \* thread_reads: last_read_mo_id by caller and customer
  throttle,  \* _throttles: last_published is long ago ("quiet"), less than a
             \* window ago ("open"), or trailing is set ("armed")
  stream,    \* the connection of a browser, and its queue on the server
  fetch,     \* the refresh of a browser: is one wanted, and what has the
             \* server read for the one under way?
  screen,    \* what a browser shows
  reads,     \* the posts of api_mark_read under way
  updates, faults

vars == <<waiting, mos, marks, throttle, stream, fetch, screen, reads,
          updates, faults>>

NotFetching == [wanted |-> FALSE, underway |-> FALSE, upto |-> 0]
Closed == [state |-> "off", queue |-> <<>>]
MoIds == DOMAIN mos

Init ==
  /\ waiting = Batches
  /\ mos = <<>>
  /\ marks = [c \in Range(ViewCaller) |-> [p \in Range(View) |-> 0]]
  /\ throttle = [e \in Events |-> "quiet"]
  /\ stream = [b \in Browsers |-> Closed]
  /\ fetch = [b \in Browsers |-> NotFetching]
  /\ screen = [b \in Browsers |-> 0]
  /\ reads = {}
  /\ updates = 0 /\ faults = 0

Fault == faults < MaxFaults /\ faults' = faults + 1

(***************************************************************************)
(* events.py.                                                              *)
(***************************************************************************)
\* Mutant: nothing is put off to the end of the window.
ThrottledWithoutTrailing(state) == "open"

\* The state after publish_throttled.
Throttled(state) == IF state = "quiet" THEN "open" ELSE "armed"

\* The streams after publish: a full queue drops the event.
Published(e) ==
  [b \in Browsers |->
     IF stream[b].state # "off" /\ Len(stream[b].queue) < QueueMax
     THEN [stream[b] EXCEPT !.queue = Append(@, e)]
     ELSE stream[b]]

PublishThrottled(e) ==
  /\ throttle' = [throttle EXCEPT ![e] = Throttled(@)]
  /\ stream' = IF throttle[e] = "quiet" THEN Published(e) ELSE stream

\* The window ends, and nothing was put off.
WindowEnds(e) ==
  /\ throttle[e] = "open"
  /\ throttle' = [throttle EXCEPT ![e] = "quiet"]
  /\ UNCHANGED <<waiting, mos, marks, stream, fetch, screen, reads, updates, faults>>

PublishTrailing(e) ==
  /\ throttle[e] = "armed"
  /\ throttle' = [throttle EXCEPT ![e] = "open"]
  /\ stream' = Published(e)
  /\ UNCHANGED <<waiting, mos, marks, fetch, screen, reads, updates, faults>>

\* A report or a query has changed a sent message; the row itself is not of
\* this module.
ThreadUpdated ==
  /\ updates < MaxUpdates
  /\ updates' = updates + 1
  /\ PublishThrottled("thread.updated")
  /\ UNCHANGED <<waiting, mos, marks, fetch, screen, reads, faults>>

(***************************************************************************)
(* The webhook.                                                            *)
(***************************************************************************)
\* The registered number that an alias stands for.
Resolve(alias) ==
  LET hits == {c \in ActiveCallers : alias # NoNumber /\ alias \in {c.number, c.chatbot}}
  IN IF hits = {} THEN NoNumber ELSE (CHOOSE c \in hits : TRUE).number

Or(x, y) == IF x # NoNumber THEN x ELSE y

Items == UNION {Range(batch) : batch \in Batches}

\* Which of the two numbers of an item is the customer's, and is the other
\* one ours?  The guide has SMS and MMS arrive with our number as moNumber;
\* older payloads have them the other way round.
Sides == [item \in Items |->
  LET mine == Resolve(item.number)
      back == Resolve(item.callback)
      side(customer, ours, known) ==
        [customer |-> customer, ours |-> ours, known |-> known]
  IN CASE item.rcs -> side(item.number, Or(back, item.callback), back # NoNumber)
       [] ~item.rcs /\ mine # NoNumber -> side(item.callback, mine, TRUE)
       [] ~item.rcs /\ mine = NoNumber /\ back # NoNumber ->
            side(item.number, back, TRUE)
       [] OTHER ->
            IF item.number \in Mobiles /\ item.callback \notin Mobiles
            THEN side(item.number, item.callback, ActiveCallers = {})
            ELSE side(Or(item.callback, item.number), item.number, ActiveCallers = {})]

\* Without a registered sender number nothing can be checked.
IsOurs(item) == ActiveCallers = {} \/ Sides[item].known

\* moKey, or the key that is made of the contents.
MoKey(item) ==
  IF item.key # NoKey THEN item.key
  ELSE <<Sides[item].customer, item.text, Sides[item].ours>>

MoRow == [item \in Items |->
  [key |-> MoKey(item), number |-> Sides[item].customer,
   callback |-> Sides[item].ours]]

StoredKeys == {mos[i].key : i \in MoIds}

\* The items of a batch that become rows.  A query does not see the rows of
\* the same batch, so their keys are remembered apart.
NewIn(batch) ==
  LET stored == StoredKeys
  IN {i \in DOMAIN batch :
        /\ IsOurs(batch[i])
        /\ MoRow[batch[i]].key \notin stored
        /\ \A j \in 1..(i - 1) :
             IsOurs(batch[j]) => MoRow[batch[j]].key # MoRow[batch[i]].key}

\* The k-th of a set of indices.
Kth(S, k) == CHOOSE i \in S : Cardinality({j \in S : j <= i}) = k

\* They get their ids in the order of the batch.
NewRows(batch) ==
  LET new == NewIn(batch)
  IN [k \in 1..Cardinality(new) |-> MoRow[batch[Kth(new, k)]]]

\* mo_key is UNIQUE: otherwise the whole batch is rolled back.
Insertable(rows) == \A i, j \in DOMAIN rows : rows[i].key = rows[j].key => i = j

\* receive_mo has no await between its first query and its answer.  A batch
\* that cannot be stored, and one of which the 200 is lost, is posted again.
ReceiveMo(batch) ==
  /\ batch \in waiting
  /\ Insertable(NewRows(batch))
  /\ mos' = mos \o NewRows(batch)
  /\ IF NewIn(batch) # {}
     THEN PublishThrottled("message.new")
     ELSE UNCHANGED <<throttle, stream>>
  /\ \/ waiting' = waiting \ {batch} /\ UNCHANGED faults
     \/ Fault /\ UNCHANGED waiting
  /\ UNCHANGED <<marks, fetch, screen, reads, updates>>

(***************************************************************************)
(* The stream and the browser.                                             *)
(***************************************************************************)
Want(b) == fetch' = [fetch EXCEPT ![b].wanted = TRUE]

\* EventSource is opened, and the server subscribes its queue.
Connect(b) ==
  /\ b \in Listening /\ stream[b].state = "off"
  /\ stream' = [stream EXCEPT ![b].state = "opening"]
  /\ UNCHANGED <<waiting, mos, marks, throttle, fetch, screen, reads, updates, faults>>

\* onConnect: what was announced before is not announced again.
CaughtUp(b) == Want(b)

Opened(b) ==
  /\ stream[b].state = "opening"
  /\ stream' = [stream EXCEPT ![b].state = "on"]
  /\ CaughtUp(b)
  /\ UNCHANGED <<waiting, mos, marks, throttle, screen, reads, updates, faults>>

\* The conversation on the screen has no message that waits for its result,
\* so that onUpdate does not refresh: the browser that learns the least.
Deliver(b) ==
  /\ stream[b].state = "on" /\ stream[b].queue # <<>>
  /\ stream' = [stream EXCEPT ![b].queue = Tail(@)]
  /\ IF Head(stream[b].queue) = "message.new" THEN Want(b) ELSE UNCHANGED fetch
  /\ UNCHANGED <<waiting, mos, marks, throttle, screen, reads, updates, faults>>

\* The user loads the page; a browser that listens does so by connecting.
Load(b) ==
  /\ b \notin Listening /\ Want(b)
  /\ UNCHANGED <<waiting, mos, marks, throttle, stream, screen, reads, updates, faults>>

\* The messages of the list and of the conversation are read.
StartFetch(b) ==
  /\ fetch[b].wanted /\ ~fetch[b].underway
  /\ fetch' = [fetch EXCEPT ![b] = [wanted |-> FALSE, underway |-> TRUE, upto |-> Len(mos)]]
  /\ UNCHANGED <<waiting, mos, marks, throttle, stream, screen, reads, updates, faults>>

LastOf(p, upto) == Max({0} \cup {i \in 1..upto : mos[i].number = p})

\* Mutant: the last message is asked for once more, after the messages.
LastInboundNow(b) == LastOf(View[b], Len(mos))

\* lastInboundMessageId: of the messages of the answer itself.
LastInbound(b) == LastOf(View[b], fetch[b].upto)

\* The team shares the highest id of a customer, whatever the caller.
Marker(p) == Max({marks[c][p] : c \in Range(ViewCaller)})

\* thread_unread.
Unread(b) == LastInbound(b) > Marker(View[b])

\* The marker is read, the answer arrives, and ThreadView reports what it
\* shows when that is unread.
Render(b) ==
  /\ fetch[b].underway
  /\ screen' = [screen EXCEPT ![b] = fetch[b].upto]
  /\ fetch' = [fetch EXCEPT ![b] = [NotFetching EXCEPT !.wanted = fetch[b].wanted]]
  /\ reads' = IF Unread(b) THEN reads \cup {[by |-> b, id |-> LastInbound(b)]} ELSE reads
  /\ UNCHANGED <<waiting, mos, marks, throttle, stream, updates, faults>>

LaterOf(old, new) == IF new > old THEN new ELSE old

\* api_mark_read: the message must be one of the conversation.
MarkRead(r) ==
  /\ r \in reads
  /\ reads' = reads \ {r}
  /\ marks' = IF r.id \in MoIds /\ mos[r.id].number = View[r.by]
              THEN [marks EXCEPT ![ViewCaller[r.by]][View[r.by]] = LaterOf(@, r.id)]
              ELSE marks
  /\ Want(r.by)
  /\ UNCHANGED <<waiting, mos, throttle, stream, screen, updates, faults>>

(***************************************************************************)
(* Failures.                                                               *)
(***************************************************************************)
Break(b) ==
  /\ stream[b].state # "off"
  /\ Fault
  /\ stream' = [stream EXCEPT ![b] = Closed]
  /\ UNCHANGED <<waiting, mos, marks, throttle, fetch, screen, reads, updates>>

Restart ==
  /\ Fault
  /\ throttle' = [e \in Events |-> "quiet"]
  /\ stream' = [b \in Browsers |-> Closed]
  /\ fetch' = [b \in Browsers |-> NotFetching]
  /\ reads' = {}
  /\ UNCHANGED <<waiting, mos, marks, screen, updates>>

BrowserStep(b) ==
  \/ Connect(b)
  \/ Opened(b)
  \/ Deliver(b)
  \/ StartFetch(b)
  \/ Render(b)

Next ==
  \/ \E batch \in Batches : ReceiveMo(batch)
  \/ ThreadUpdated
  \/ \E e \in Events : WindowEnds(e) \/ PublishTrailing(e)
  \/ \E b \in Browsers : BrowserStep(b) \/ Load(b) \/ Break(b)
  \/ \E r \in reads : MarkRead(r)
  \/ Restart

\* msghub repeats its posts, the loop runs its timers, and a browser connects
\* again after every error (with a pause that grows to thirty seconds).
Fairness ==
  /\ WF_vars(\E batch \in Batches : ReceiveMo(batch))
  /\ WF_vars(\E e \in Events : PublishTrailing(e))
  /\ \A b \in Listening : WF_vars(BrowserStep(b))

Spec == Init /\ [][Next]_vars /\ Fairness
-----------------------------------------------------------------------------
\* A marker never covers a message that nobody has seen: what comes between
\* the answer of a conversation and the report of having read it stays
\* unread, and so does what a colleague's late report would cover.
ReadMeansShown ==
  \A i \in MoIds :
    (mos[i].number \in Range(View) /\ i <= Marker(mos[i].number)) =>
      \E b \in Browsers : View[b] = mos[i].number /\ i <= screen[b]

\* Every answer that msghub delivers is stored, and every browser that listens
\* shows it in the end, whatever was lost, dropped or put off on the way.
EveryReplyIsShown ==
  <>[](waiting = {} /\ \A b \in Listening : screen[b] = Len(mos))
=============================================================================
