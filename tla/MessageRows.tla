----------------------------- MODULE MessageRows -----------------------------
(***************************************************************************)
(* The rules of app/services/report.py: how a delivery report or an answer *)
(* of query_sent changes one message row, and how a campaign's counters    *)
(* and state are derived from its rows.  No variables: the modules that    *)
(* model who applies these rules, and when, extend this one.               *)
(*                                                                         *)
(* A row is [status, code, fb].  fb says that its cliKey ends in "-fb".    *)
(* code abstracts messages.result_code: "null" is SQL NULL, "ok" a member  *)
(* of DELIVERED_CODES (10000 is also what an accepted item carries),       *)
(* "rejected" an explicit rejection, "noresult" OVER_DATE or INVALID_KEY,  *)
(* "undelivered" a final failure and "uncertain" one of UNCERTAIN_CODES.   *)
(* REG and ING are one status here: no rule tells them apart.              *)
(***************************************************************************)
EXTENDS Naturals, FiniteSets

OpenStatuses == {"PENDING", "REG", "FB_PENDING"}
Statuses == OpenStatuses \cup {"NONE", "FAILED", "DONE", "CANCELED"}
ResultCodes == {"ok", "undelivered", "uncertain"}
Codes == ResultCodes \cup {"null", "rejected", "noresult"}

Row == [status : Statuses, code : Codes, fb : BOOLEAN]
NoRow == [status |-> "NONE", code |-> "null", fb |-> FALSE]

(***************************************************************************)
(* One row.                                                                *)
(***************************************************************************)

\* A report of the attempt that the row's "-fb" attempt replaced.
Superseded(row, fb) == row.fb /\ ~fb

\* Mutant: a settled row takes another result.
UnsettledDespiteDone(row, fb) == row.status # "NONE" /\ ~Superseded(row, fb)

\* The row _find_message returns still waits for this result.
Unsettled(row, fb) ==
  /\ row.status \notin {"NONE", "DONE"}
  /\ ~Superseded(row, fb)

\* A report for the key with suffix fb: the row is found by that key or by
\* its pair, and a row still under the original key adopts the "-fb" key.
AfterReport(row, fb, code) ==
  IF Unsettled(row, fb)
  THEN [status |-> "DONE", code |-> code, fb |-> row.fb \/ fb]
  ELSE row

\* The rows OVER_DATE and INVALID_KEY close: the exact key, no code yet.
ClosedByNoResult(row, fb) ==
  /\ row.status \in OpenStatuses \cup {"FAILED"}
  /\ row.code = "null"
  /\ row.fb = fb

\* An item of a query_sent answer: "noresult", "reg", or a final code.
AfterAnswer(row, fb, answer) ==
  IF answer = "noresult"
  THEN IF ClosedByNoResult(row, fb)
       THEN [row EXCEPT !.status = "FAILED", !.code = "noresult"]
       ELSE row
  ELSE IF ~Unsettled(row, fb) THEN row
  ELSE IF answer # "reg" THEN [row EXCEPT !.status = "DONE", !.code = answer]
  ELSE IF row.status = "FB_PENDING" THEN row
  ELSE [row EXCEPT !.status = "REG"]

(***************************************************************************)
(* A campaign's rows: rows is a function from recipients to Row.           *)
(***************************************************************************)
Recorded(rows) == {r \in DOMAIN rows : rows[r].status # "NONE"}
OpenRows(rows) == {r \in DOMAIN rows : rows[r].status \in OpenStatuses}
OkRows(rows) ==
  {r \in DOMAIN rows : rows[r].status = "DONE" /\ rows[r].code = "ok"}
FailRows(rows) ==
  {r \in DOMAIN rows : rows[r].status \in {"FAILED", "DONE"}
                       /\ rows[r].code # "ok"}
\* What is left after ok, fail and canceled are subtracted from the total.
PendingRows(rows) ==
  {r \in Recorded(rows) : /\ r \notin OkRows(rows) \cup FailRows(rows)
                          /\ rows[r].status # "CANCELED"}

CampaignStates ==
  {"NONE", "DISPATCHING", "DISPATCHED", "RESERVED", "COMPLETED",
   "PARTIAL_FAILED", "FAILED", "RESERVE_FAILED", "RESERVE_CANCELED"}
\* Mutant: a dispatched campaign is left alone.
ReportDrivenStatesWithoutDispatched ==
  CampaignStates \ {"NONE", "RESERVE_CANCELED", "DISPATCHED"}

ReportDrivenStates == CampaignStates \ {"NONE", "RESERVE_CANCELED"}

\* completed counts the times completed_at was stamped; 0 is NULL.
Campaigns ==
  [state : CampaignStates, ok : Nat, fail : Nat, pending : Nat,
   completed : Nat]

SettledState(ok, fail) ==
  IF fail = {} THEN "COMPLETED"
  ELSE IF ok = {} THEN "FAILED" ELSE "PARTIAL_FAILED"

\* Mutant: chunks that were not recorded yet are forgotten.
ResultsAreInSoFar(rows) == PendingRows(rows) = {}

\* Every recipient has a row and no row is pending.
ResultsAreIn(rows) == PendingRows(rows) = {} /\ Recorded(rows) = DOMAIN rows

\* _refresh_campaign_counters on the object c the session holds, when the
\* stored campaign is db: a new stamp is later than the stored one.
Refreshed(c, db, rows) ==
  LET settles == ResultsAreIn(rows) /\ c.state \in ReportDrivenStates
  IN  [state |-> IF settles THEN SettledState(OkRows(rows), FailRows(rows))
                            ELSE c.state,
       ok |-> Cardinality(OkRows(rows)),
       fail |-> Cardinality(FailRows(rows)),
       pending |-> Cardinality(PendingRows(rows)),
       completed |-> IF settles /\ c.completed = 0 THEN db.completed + 1
                                                   ELSE c.completed]

\* process_sent_query: the changes after which a campaign is counted anew,
\* and the failed rows a query found waiting.
CountedChange(row, new) ==
  new.status # row.status /\ (new.status # "REG" \/ row.status = "FAILED")
Recovered(row, new) == row.status = "FAILED" /\ new.status = "REG"

\* The campaign c, when query answers change its rows to newRows.
AfterAnswers(c, rows, newRows) ==
  LET fresh == Refreshed(c, c, newRows)
  IN  IF ~\E r \in DOMAIN rows : CountedChange(rows[r], newRows[r]) THEN c
      ELSE IF /\ \E r \in DOMAIN rows : Recovered(rows[r], newRows[r])
              /\ fresh.pending > 0
              /\ fresh.state \in ReportDrivenStates
      THEN [fresh EXCEPT !.state = "DISPATCHING"]
      ELSE fresh

\* A flush of the ORM session: only the attributes that differ from the
\* values the session loaded are written (expire_on_commit is off, so an
\* object held across an await keeps the values of its load).
Flushed(db, loaded, held) ==
  [f \in DOMAIN db |-> IF held[f] = loaded[f] THEN db[f] ELSE held[f]]
=============================================================================
