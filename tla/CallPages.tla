------------------------------ MODULE CallPages ------------------------------
(***************************************************************************)
(* The call list: list_calls of app/services/calls.py behind               *)
(* GET /pbx/calls, paged through by the "older calls" link of the page.    *)
(*                                                                         *)
(* The PBX keeps the calls and has no stable offset, so a page starts at   *)
(* the second of the last call shown and leaves out the calls of that      *)
(* second that were shown before.  A call is recorded when it ends, under  *)
(* the second in which it began; calls of one second come in any order.    *)
(* The list without dates ends today, and a page may be asked for after    *)
(* midnight.                                                               *)
(***************************************************************************)
EXTENDS Naturals, FiniteSets, FiniteSetsExt, Sequences

CONSTANTS
  CallIds,     \* cdr_id of the calls that the conditions of the list match
  SecondOf,    \* calldate_ts of each
  DaySeconds,  \* seconds of a day
  DaysShown,   \* how many days before today the list goes back
  LastDay,     \* bound: the last day of the model
  Limit,       \* rows of a page
  MaxIds,      \* MAX_LIMIT: the ids a cursor may hold
  PageFaults   \* bound: how many requests to the PBX fail

ASSUME CallPagesAssumption ==
  /\ CallIds \subseteq Nat
  /\ SecondOf \in [CallIds -> Nat]
  /\ {DaySeconds, Limit, MaxIds} \subseteq Nat \ {0}
  /\ {DaysShown, LastDay, PageFaults} \subseteq Nat
  /\ Limit <= MaxIds

VARIABLES
  inPbx,      \* the calls in the PBX
  today,      \* the day in Seoul
  stage,      \* "closed", "asking", "listed", "failed", "end" or "restart"
  nextCursor, \* of the last page that had one
  request,    \* the request under way
  pages,      \* the pages shown, each a set of calls
  atFirst,    \* the calls of the list when its first page was read
  pageFaults

callsVars == <<inPbx, today, stage, nextCursor, request, pages, atFirst,
               pageFaults>>

NoCursor == [ts |-> 0, ids |-> {}]

CallsInit ==
  /\ inPbx = {}
  /\ today = 0
  /\ stage = "closed"
  /\ nextCursor = NoCursor
  /\ request = [from |-> 0, to |-> 0, seen |-> {}]
  /\ pages = <<>>
  /\ atFirst = {}
  /\ pageFaults = 0

\* _kst_day_bounds
FirstSecond(day) == day * DaySeconds
LastSecond(day) == day * DaySeconds + DaySeconds - 1
StartDay == IF today < DaysShown THEN 0 ELSE today - DaysShown

\* A call ends and the PBX records it.
CallEnds ==
  /\ \E c \in CallIds \ inPbx :
       /\ SecondOf[c] <= LastSecond(today)
       /\ inPbx' = inPbx \cup {c}
  /\ UNCHANGED <<today, stage, nextCursor, request, pages, atFirst, pageFaults>>

Midnight ==
  /\ today < LastDay
  /\ today' = today + 1
  /\ UNCHANGED <<inPbx, stage, nextCursor, request, pages, atFirst, pageFaults>>

\* The list is opened, the link to the older calls followed, or either tried
\* again after a failure: the range and the calls to leave out are fixed
\* before the PBX is asked.  A cursor of too many ids is refused.
OpenList ==
  /\ stage = "closed"
  /\ stage' = "asking"
  /\ request' = [from |-> FirstSecond(StartDay), to |-> LastSecond(today),
               seen |-> {}]
  /\ UNCHANGED <<inPbx, today, nextCursor, pages, atFirst, pageFaults>>

DecodeCursor(c) == Cardinality(c.ids) <= MaxIds

RangeAfter(c) ==
  [from |-> FirstSecond(StartDay),
   to   |-> IF pages = <<>> THEN LastSecond(today)
            ELSE Min({LastSecond(today), c.ts}),
   seen |-> c.ids]

AskOlder ==
  /\ stage \in {"listed", "failed"}
  /\ IF DecodeCursor(nextCursor)
     THEN stage' = "asking" /\ request' = RangeAfter(nextCursor)
     ELSE stage' = "restart" /\ UNCHANGED request
  /\ UNCHANGED <<inPbx, today, nextCursor, pages, atFirst, pageFaults>>

\* What order_by calldate desc with a limit may return of S: the n newest,
\* and of the calls of one second any.
Newest(S, n) ==
  {T \in SUBSET S : /\ Cardinality(T) = Min({n, Cardinality(S)})
                    /\ \A c \in T, d \in S \ T : SecondOf[c] >= SecondOf[d]}

InRange == {c \in inPbx : SecondOf[c] >= request.from /\ SecondOf[c] <= request.to}

\* Mutants: the calls shown of a second that takes more than one page are
\* forgotten; no row is fetched in place of those to leave out.
NextCursorOfPage(page, req) ==
  LET last == Min({SecondOf[c] : c \in page})
  IN [ts |-> last, ids |-> {c \in page : SecondOf[c] = last}]
\* The cursor after page: its last second, and every call shown of it.
NextCursor(page, req) ==
  LET last == Min({SecondOf[c] : c \in page})
  IN [ts  |-> last,
      ids |-> {c \in page : SecondOf[c] = last}
                \cup (IF last = req.to THEN req.seen ELSE {})]
RowsToFetch(req) == Limit + Cardinality(req.seen) + 1

\* The PBX answers, the calls shown before are dropped and the page is cut.
AnswerPage ==
  /\ stage = "asking"
  /\ \E fetched \in Newest(InRange, RowsToFetch(request)) :
       LET rows == fetched \ request.seen
       IN \E page \in Newest(rows, Limit) :
            /\ pages' = Append(pages, page)
            /\ IF Cardinality(rows) > Limit
               THEN /\ stage' = "listed"
                    /\ nextCursor' = NextCursor(page, request)
               ELSE stage' = "end" /\ UNCHANGED nextCursor
  /\ atFirst' = IF pages = <<>> THEN InRange ELSE atFirst
  /\ UNCHANGED <<inPbx, today, request, pageFaults>>

\* PbxError: the page says that the PBX is unavailable.
PageFails ==
  /\ stage = "asking"
  /\ pageFaults < PageFaults
  /\ pageFaults' = pageFaults + 1
  /\ stage' = "failed"
  /\ UNCHANGED <<inPbx, today, nextCursor, request, pages, atFirst>>

CallsNext ==
  \/ CallEnds \/ Midnight
  \/ OpenList \/ AskOlder \/ AnswerPage \/ PageFails

CallsSpec == CallsInit /\ [][CallsNext]_callsVars

-----------------------------------------------------------------------------
Shown == UNION {pages[i] : i \in DOMAIN pages}

\* Page after page the list goes back in time and shows no call a second
\* time, though pages overlap in their boundary second, calls of one second
\* come in another order each time and calls are recorded late; and it steps
\* over none that it had when its first page was read, unless midnight moved
\* its start beyond the call (end_date and the seen ids of list_calls).
PagesTileTheList ==
  /\ \A i, j \in DOMAIN pages :
       i < j => \A c \in pages[i], d \in pages[j] :
                  c # d /\ SecondOf[c] >= SecondOf[d]
  /\ \A c \in atFirst \ Shown :
       \/ SecondOf[c] < request.from
       \/ /\ stage # "end"
          /\ \A d \in Shown : SecondOf[d] >= SecondOf[c]
=============================================================================
