------------------------------ MODULE Numbers ------------------------------
(***************************************************************************)
(* The sender numbers and which of them is the default:                    *)
(* app/routes/numbers.py.                                                  *)
(*                                                                         *)
(* The handlers are threads, each with a session that does not flush       *)
(* before a query (db.py) and holds SQLite's writer only from its flush to *)
(* its commit: what a request of one administrator read may be changed by  *)
(* another's before it writes.  A number is its id here, as in the         *)
(* requests; digits, label and RCS are left out, a second registration of  *)
(* the same digits is refused (UNIQUE) and changes nothing.                *)
(***************************************************************************)
EXTENDS Integers, FiniteSets, FiniteSetsExt

CONSTANTS
  NumberAdmins,  \* administrators, each with one request at a time
  MaxNumberId    \* bound: the largest id of a number

ASSUME NumbersAssumption == MaxNumberId \in Nat \ {0}

VARIABLES
  callers,    \* the table: [active, isDefault] of every id in use
  adminReq,   \* the request of each administrator and what it has read
  overtaken   \* did a request change a number by a row it read, and that
              \* another request had changed since?

numbersVars == <<callers, adminReq, overtaken>>

NumberIds == 1..MaxNumberId
NoNumber == 0
Registered == DOMAIN callers
Idle == [verb |-> "none", nid |-> NoNumber, active |-> FALSE, isDefault |-> FALSE,
         picked |-> FALSE, fallback |-> NoNumber, stale |-> FALSE]

NumbersInit ==
  /\ callers = <<>>
  /\ adminReq = [a \in NumberAdmins |-> Idle]
  /\ overtaken = FALSE

\* list_numbers(status="approved") and the order its rows come in: the
\* number on top is the one the send form starts with.
Approved == {n \in Registered : callers[n].active}
OnTop(n) ==
  /\ n \in Approved
  /\ \A o \in Approved \ {n} :
       \/ callers[n].isDefault /\ ~callers[o].isDefault
       \/ callers[n].isDefault = callers[o].isDefault /\ n < o

\* A request of a ends; if it changed the table, what the others have read
\* is no longer so.
Answered(a, changed) ==
  adminReq' = [b \in NumberAdmins |->
    IF b = a THEN Idle
    ELSE [adminReq[b] EXCEPT !.stale = @ \/ (changed /\ adminReq[b] # Idle)]]

\* create_number.  SQLite gives the id after the largest one in use.
CreateNumber(a) ==
  LET nid == Max(Registered \cup {NoNumber}) + 1 IN
  /\ adminReq[a] = Idle /\ nid \in NumberIds
  /\ callers' = [n \in Registered \cup {nid} |->
       IF n = nid THEN [active |-> TRUE, isDefault |-> FALSE] ELSE callers[n]]
  /\ Answered(a, TRUE)
  /\ UNCHANGED overtaken

\* What each handler demands of the row it reads first.
Accepts(verb, row) ==
  CASE verb = "toggle"  -> TRUE
    [] verb = "default" -> row.active
    [] verb = "delete"  -> ~row.active

\* db.get(Caller, caller_id); the refusals 404 and 422 change nothing.
ReadNumber(a, verb, nid) ==
  /\ adminReq[a] = Idle
  /\ nid \in Registered /\ Accepts(verb, callers[nid])
  /\ adminReq' = [adminReq EXCEPT ![a] =
       [Idle EXCEPT !.verb = verb, !.nid = nid, !.active = callers[nid].active,
                    !.isDefault = callers[nid].isDefault]]
  /\ UNCHANGED <<callers, overtaken>>

\* Mutant: the condition on the id is left out; nothing is flushed before
\* the query, so the row that is being switched off is still active in it.
SuccessorsWithItself(nid) == Approved

Successors(nid) == Approved \ {nid}

\* toggle_number looks for a successor of a default it switches off.
PickFallback(a) ==
  /\ adminReq[a].verb = "toggle" /\ ~adminReq[a].picked
  /\ adminReq' = [adminReq EXCEPT ![a].picked = TRUE, ![a].fallback =
       IF adminReq[a].active /\ adminReq[a].isDefault
            /\ Successors(adminReq[a].nid) # {}
       THEN Min(Successors(adminReq[a].nid)) ELSE NoNumber]
  /\ UNCHANGED <<callers, overtaken>>

\* The flush of toggle_number writes only the columns it changed; a row that
\* is gone is a StaleDataError, and nothing is written.
ToggleCommits(a) ==
  LET q == adminReq[a]
      switchedOff == q.active
      found == {q.nid} \cup ({q.fallback} \ {NoNumber}) \subseteq Registered IN
  /\ q.verb = "toggle" /\ q.picked
  /\ callers' = IF ~found THEN callers
       ELSE [n \in Registered |->
         [active |-> IF n = q.nid THEN ~q.active ELSE callers[n].active,
          isDefault |-> \/ n = q.fallback
                        \/ /\ callers[n].isDefault
                           /\ ~(n = q.nid /\ switchedOff /\ q.isDefault)]]
  /\ overtaken' = (overtaken \/ (found /\ q.stale))
  /\ Answered(a, found)

\* The two UPDATEs of set_default_number are one transaction; its refresh
\* fails when the row is gone.
DefaultCommits(a) ==
  LET q == adminReq[a]
      found == q.nid \in Registered IN
  /\ q.verb = "default"
  /\ callers' = IF ~found THEN callers
       ELSE [n \in Registered |-> [callers[n] EXCEPT !.isDefault = n = q.nid]]
  /\ overtaken' = (overtaken \/ (found /\ q.stale))
  /\ Answered(a, found)

\* delete_number; to delete a row that is gone is only a warning.
DeleteCommits(a) ==
  LET q == adminReq[a] IN
  /\ q.verb = "delete"
  /\ callers' = [n \in Registered \ {q.nid} |-> callers[n]]
  /\ overtaken' = (overtaken \/ (q.nid \in Registered /\ q.stale))
  /\ Answered(a, q.nid \in Registered)

NumbersNext ==
  \E a \in NumberAdmins :
    \/ CreateNumber(a)
    \/ \E verb \in {"toggle", "default", "delete"}, nid \in Registered :
         ReadNumber(a, verb, nid)
    \/ PickFallback(a) \/ ToggleCommits(a) \/ DefaultCommits(a) \/ DeleteCommits(a)

NumbersSpec == NumbersInit /\ [][NumbersNext]_numbersVars

-----------------------------------------------------------------------------
\* At most one number is the default, and it is one that can be sent from
\* and stands on top of the list ("기본=비활성" 상태 회피, numbers.py:268),
\* as long as no request wrote by a row another one had changed meanwhile.
OneActiveDefault ==
  overtaken \/
    \A n \in Registered : callers[n].isDefault => OnTop(n)
=============================================================================
