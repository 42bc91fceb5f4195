----------------------------- MODULE FaxTracking -----------------------------
(***************************************************************************)
(* Faxes through the PBX: app/services/fax.py, services/fax_inbox.py, the  *)
(* fax routes of routes/pbx.py and pbx/client.py, pbx/sftp.py.  A request  *)
(* stores a job and hands the PBX a URL of its PDF; the periodic loop      *)
(* reads the PBX's fax log, one id after the other from a stored cursor,   *)
(* to learn what became of the jobs and which faxes came in.               *)
(*                                                                         *)
(* A step is the code between two awaits.  The tracker works on the jobs   *)
(* it loaded at its start and writes them at its end; an incoming fax it   *)
(* records is flushed at once, so that from then on it holds SQLite's      *)
(* write lock across its awaits.  A PBX error ends a run of the tracker,   *)
(* but what it changed stays in the session of the loop, whose next part   *)
(* (mo_media.fetch_pending) commits it - without the cursor.               *)
(***************************************************************************)
EXTENDS Naturals, FiniteSets

CONSTANTS
  NJobs,             \* the faxes users send
  RecipientOf,       \* their fax numbers, and that of a fax of nobody's
  MaxLog,            \* the ids of the PBX's log that are explored
  MaxInFlight,       \* MAX_IN_FLIGHT
  ScanMisses,        \* LOG_SCAN_MISSES
  DiscoveryMisses,   \* LOG_DISCOVERY_MISSES
  ScanBatch,         \* LOG_SCAN_BATCH
  BackfillBatch,     \* BACKFILL_BATCH
  MaxFetchAttempts,  \* fax_inbox.MAX_FETCH_ATTEMPTS
  MaxIncoming,       \* the incoming faxes that are explored
  MaxOthers,         \* the faxes sent at the PBX itself
  MaxFaults          \* how often the PBX, SFTP or the process fails

ASSUME FaxAssumption ==
  /\ NJobs \in Nat /\ MaxIncoming \in Nat /\ MaxOthers \in Nat
  /\ MaxLog \in Nat /\ MaxFaults \in Nat
  /\ MaxInFlight \in Nat \ {0}
  /\ ScanMisses \in Nat \ {0} /\ DiscoveryMisses \in Nat \ {0}
  /\ ScanBatch \in Nat \ {0} /\ BackfillBatch \in Nat \ {0}
  /\ MaxFetchAttempts \in Nat \ {0}

Jobs == 1..NJobs
LogIds == 1..MaxLog
NoLog == 0
NoJob == 0
Loop == "loop"
Refetch == "refetch"
Fetchers == {Loop, Refetch}

\* The age of a job: up to FETCH_URL_TTL_SECONDS, MATCH_DEADLINE,
\* TRACK_WINDOW, and past it.
Fresh == 0
Stale == 1
Late == 2
Old == 3

VARIABLES
  jobs,     \* the fax_jobs rows as committed, and their ages
  reply,    \* the request of a job at our end: what submit_job awaits
  pbx,      \* what the PBX makes of it
  logs,     \* the PBX's fax log
  cursor,   \* pbx.fax_log_cursor
  filled,   \* pbx.fax_inbox_backfill_upto
  inbox,    \* the fax_inbox rows as committed, by log id
  tracker,  \* a run of track_fax_jobs
  fetch,    \* the runs of fax_inbox.fetch_pending
  faults

vars == <<jobs, reply, pbx, logs, cursor, filled, inbox, tracker, fetch, faults>>

NewJob == [status |-> "NONE", file |-> FALSE, log |-> NoLog, age |-> Fresh]
NoEntry == [kind |-> "none", job |-> NoJob, state |-> "none", during |-> {}]
NoRow == [status |-> "none", attempts |-> 0]
IdleTracker == [pc |-> "idle", known |-> {}, unmatched |-> {}, cursor |-> 0,
                next |-> 0, misses |-> 0, reads |-> 0,
                changed |-> [j \in {} |-> NewJob], new |-> {}]
IdleFetch == [row |-> NoLog, held |-> [l \in {} |-> 0]]

Init ==
  /\ jobs = [j \in Jobs |-> NewJob]
  /\ reply = [j \in Jobs |-> "none"]
  /\ pbx = [j \in Jobs |-> "none"]
  /\ logs = [l \in LogIds |-> NoEntry]
  /\ cursor = 0 /\ filled = 0
  /\ inbox = [l \in LogIds |-> NoRow]
  /\ tracker = IdleTracker
  /\ fetch = [r \in Fetchers |-> IdleFetch]
  /\ faults = 0

\* The tracker's session has flushed rows it has not committed.
Locked == tracker.new # {}

(***************************************************************************)
(* Sending: send_fax and resend_fax with create_job and submit_job.        *)
(***************************************************************************)
InFlight == {j \in Jobs : jobs[j].status \in {"QUEUED", "SUBMITTED"}}

\* create_job and submit_job up to the request.  Without a fax device the
\* job has failed at once.
Send(j, configured) ==
  /\ jobs[j].status = "NONE" /\ ~Locked
  /\ \A i \in Jobs : i < j => jobs[i].status # "NONE"
  /\ Cardinality(InFlight) < MaxInFlight
  /\ jobs' = [jobs EXCEPT ![j].status = IF configured THEN "QUEUED" ELSE "FAILED"]
  /\ reply' = [reply EXCEPT ![j] = IF configured THEN "waiting" ELSE "none"]
  /\ pbx' = [pbx EXCEPT ![j] = IF configured THEN "asked" ELSE "none"]
  /\ UNCHANGED <<logs, cursor, filled, inbox, tracker, fetch, faults>>

Answered(j, answer) ==
  reply' = [reply EXCEPT ![j] = IF @ = "waiting" THEN answer ELSE @]

\* The status check of fetch_pdf.
MayFetch(status) == status \in {"QUEUED", "SUBMITTED"}

\* The PBX downloads the PDF within the request and takes the fax.
PbxTakes(j) ==
  /\ pbx[j] = "asked" /\ MayFetch(jobs[j].status) /\ ~Locked
  /\ pbx' = [pbx EXCEPT ![j] = "queued"]
  /\ Answered(j, "ok")
  /\ UNCHANGED <<jobs, logs, cursor, filled, inbox, tracker, fetch, faults>>

PbxRefuses(j) ==
  /\ pbx[j] = "asked"
  /\ pbx' = [pbx EXCEPT ![j] = "none"]
  /\ Answered(j, "refused")
  /\ UNCHANGED <<jobs, logs, cursor, filled, inbox, tracker, fetch, faults>>

\* The end of submit_job.  If the tracker holds the write lock, the commit
\* fails and the job is left as it was.
Submitted(j, job) ==
  /\ jobs' = IF Locked THEN jobs ELSE [jobs EXCEPT ![j] = job]
  /\ reply' = [reply EXCEPT ![j] = "none"]
  /\ UNCHANGED <<pbx, logs, cursor, filled, inbox, tracker, fetch, faults>>

SubmitAccepted(j, file) ==
  /\ reply[j] = "ok"
  /\ Submitted(j, [jobs[j] EXCEPT !.status = "SUBMITTED", !.file = file])

SubmitRefused(j) ==
  /\ reply[j] = "refused"
  /\ Submitted(j, [jobs[j] EXCEPT !.status = "FAILED"])

\* Mutant: any error is a refusal.
StatusWithoutAnswerFailed == "FAILED"

\* exc.uncertain: the PBX may have taken the fax.
StatusWithoutAnswer == "UNKNOWN"

\* A time-out, a broken connection, a 5xx or an answer nobody understands.
SubmitUncertain(j) ==
  /\ reply[j] # "none"
  /\ Submitted(j, [jobs[j] EXCEPT !.status = StatusWithoutAnswer])

(***************************************************************************)
(* The PBX's fax log.  Its ids may skip a few.                             *)
(***************************************************************************)
Used == {l \in LogIds : logs[l] # NoEntry}
Top == IF Used = {} THEN 0 ELSE CHOOSE l \in Used : \A k \in Used : k <= l

\* The jobs to its number, of those that exist, whose two hours an entry
\* falls into.
Around(job) ==
  {j \in Jobs : /\ RecipientOf[j] = RecipientOf[job]
                /\ jobs[j].status # "NONE" /\ jobs[j].age <= Stale}

\* A gap is shorter than what the scan skips.
Logged(entry) ==
  \E l \in LogIds :
    /\ l > Top
    /\ l - Top <= IF Top = 0 THEN DiscoveryMisses ELSE ScanMisses
    /\ logs' = [logs EXCEPT ![l] = entry]

\* The PBX's queue is shorter than two hours.
PbxStarts(j) ==
  /\ pbx[j] = "queued" /\ jobs[j].age <= Stale
  /\ Logged([kind |-> "out", job |-> j, state |-> "busy", during |-> Around(j)])
  /\ pbx' = [pbx EXCEPT ![j] = "logged"]
  /\ UNCHANGED <<jobs, reply, cursor, filled, inbox, tracker, fetch, faults>>

PbxEnds(l, state) ==
  /\ logs[l].kind = "out" /\ logs[l].state = "busy"
  /\ logs' = [logs EXCEPT ![l].state = state]
  /\ UNCHANGED <<jobs, reply, pbx, cursor, filled, inbox, tracker, fetch, faults>>

\* Someone else's fax, sent at the PBX.
PbxSendsOther ==
  /\ Cardinality({l \in Used : logs[l].kind = "out" /\ logs[l].job = NoJob})
       < MaxOthers
  /\ Logged([kind |-> "out", job |-> NoJob, state |-> "sent",
             during |-> Around(NoJob)])
  /\ UNCHANGED <<jobs, reply, pbx, cursor, filled, inbox, tracker, fetch, faults>>

PbxReceives ==
  /\ Cardinality({l \in Used : logs[l].kind = "in"}) < MaxIncoming
  /\ Logged([NoEntry EXCEPT !.kind = "in", !.state = "received"])
  /\ UNCHANGED <<jobs, reply, pbx, cursor, filled, inbox, tracker, fetch, faults>>

(***************************************************************************)
(* track_fax_jobs.                                                         *)
(***************************************************************************)
Override(changed) ==
  [j \in Jobs |-> IF j \in DOMAIN changed THEN changed[j] ELSE jobs[j]]

AfterStale ==
  [j \in Jobs |->
     IF jobs[j].status = "QUEUED" /\ jobs[j].age > Fresh
     THEN [jobs[j] EXCEPT !.status = "UNKNOWN"] ELSE jobs[j]]

\* Parts 0 and the load of the open jobs.
StartTracking ==
  /\ tracker = IdleTracker /\ fetch[Loop] = IdleFetch
  /\ jobs' = AfterStale
  /\ LET open == {j \in Jobs : /\ jobs'[j].status \in {"SUBMITTED", "UNKNOWN"}
                               /\ jobs'[j].age < Old}
         known == {j \in open : jobs'[j].log # NoLog}
     IN  tracker' = [IdleTracker EXCEPT
           !.pc = "known", !.known = known, !.unmatched = open \ known,
           !.cursor = cursor, !.next = cursor + 1]
  /\ UNCHANGED <<reply, pbx, logs, cursor, filled, inbox, fetch, faults>>

\* _apply_log.  The job is one the tracker holds.
Applied(job, l) ==
  LET state == logs[l].state
  IN  [job EXCEPT !.log = l,
         !.status = IF state = "sent" THEN "SENT"
                    ELSE IF state = "failed" THEN "FAILED"
                    ELSE "SUBMITTED"]

Change(j, job) ==
  [i \in DOMAIN tracker.changed \cup {j} |->
     IF i = j THEN job ELSE tracker.changed[i]]

\* Part 1: the log of a job that was found before.
ReadKnown ==
  /\ tracker.pc = "known" /\ tracker.known # {}
  /\ \E j \in tracker.known :
       tracker' = [tracker EXCEPT !.known = @ \ {j},
                     !.changed = Change(j, Applied(jobs[j], jobs[j].log))]
  /\ UNCHANGED <<jobs, reply, pbx, logs, cursor, filled, inbox, fetch, faults>>

\* Mutant: the time alone decides.
CandidatesByTime(l, early) ==
  {j \in tracker.unmatched : j \in logs[l].during \cup early}

\* The jobs an entry may belong to by number and time.  A job created up to
\* five minutes after the entry is one of them (early).
Candidates(l, early) ==
  {j \in tracker.unmatched :
     /\ RecipientOf[j] = RecipientOf[logs[l].job]
     /\ j \in logs[l].during \cup early}

Young == {j \in tracker.unmatched : jobs[j].age <= Stale}

\* _match_job: the file's name, or else the only candidate.
MatchJob(l, early) ==
  LET byFile == {j \in tracker.unmatched : jobs[j].file /\ logs[l].job = j}
  IN  IF byFile # {} THEN byFile
      ELSE IF Cardinality(Candidates(l, early)) = 1 THEN Candidates(l, early)
      ELSE {}

\* Mutant: the cursor is moved past the ids that are still empty.
EmptyIdMovesCursor(t) == [t EXCEPT !.next = @ + 1, !.cursor = t.next]

EmptyId(t) == [t EXCEPT !.next = @ + 1]

\* record_incoming, in the transaction of the tracker.
Recorded(l) ==
  IF inbox[l] = NoRow THEN tracker.new \cup {l} ELSE tracker.new

MaxMisses == IF tracker.cursor > 0 THEN ScanMisses ELSE DiscoveryMisses
Budget == ScanBatch + IF cursor = 0 THEN DiscoveryMisses ELSE 0

Scanned == tracker.misses >= MaxMisses \/ tracker.reads >= Budget

\* Part 2, one id.
ReadNext(early) ==
  /\ tracker.pc = "known" /\ tracker.known = {} /\ ~Scanned
  /\ LET l == tracker.next
         found == [tracker EXCEPT !.misses = 0, !.cursor = l,
                                  !.next = l + 1, !.reads = @ + 1]
     IN  IF l \notin Used
         THEN tracker' = [EmptyId(tracker) EXCEPT !.misses = @ + 1,
                                                  !.reads = @ + 1]
         ELSE IF logs[l].kind = "in"
         THEN tracker' = [found EXCEPT !.new = Recorded(l)]
         ELSE IF MatchJob(l, early) = {}
         THEN tracker' = found
         ELSE \E j \in MatchJob(l, early) :
                tracker' = [found EXCEPT !.unmatched = @ \ {j},
                              !.changed = Change(j, Applied(jobs[j], l))]
  /\ UNCHANGED <<jobs, reply, pbx, logs, cursor, filled, inbox, fetch, faults>>

RecordedRows(new) ==
  [l \in LogIds |-> IF l \in new THEN [NoRow EXCEPT !.status = "PENDING"]
                                 ELSE inbox[l]]

\* The cursor, the jobs and the incoming faxes are committed.
CommitScan ==
  /\ tracker.pc = "known" /\ tracker.known = {} /\ Scanned
  /\ jobs' = Override(tracker.changed)
  /\ inbox' = RecordedRows(tracker.new)
  /\ cursor' = tracker.cursor
  /\ tracker' = [IdleTracker EXCEPT
       !.pc = "backfill", !.next = filled + 1,
       !.unmatched = tracker.unmatched]
  /\ UNCHANGED <<reply, pbx, logs, filled, fetch, faults>>

BackfillUpTo ==
  IF cursor <= filled + BackfillBatch THEN cursor ELSE filled + BackfillBatch

\* backfill, one id.
ReadAgain ==
  /\ tracker.pc = "backfill" /\ tracker.next <= BackfillUpTo
  /\ tracker' = [tracker EXCEPT !.next = @ + 1,
       !.new = IF tracker.next \in Used /\ logs[tracker.next].kind = "in"
               THEN Recorded(tracker.next) ELSE @]
  /\ UNCHANGED <<jobs, reply, pbx, logs, cursor, filled, inbox, fetch, faults>>

Pending(rows) ==
  {l \in LogIds : /\ rows[l].status = "PENDING"
                  /\ rows[l].attempts < MaxFetchAttempts}

\* A run of fetch_pending goes on with the rows it holds.
Fetch(held) ==
  IF DOMAIN held = {} THEN IdleFetch
  ELSE [row |-> CHOOSE l \in DOMAIN held : \A k \in DOMAIN held : l <= k,
        held |-> held]

\* Part 3's condition.
PastDeadline(j) ==
  /\ j \in tracker.unmatched
  /\ jobs[j].status = "SUBMITTED" /\ jobs[j].age >= Late

\* The end of backfill, part 3, and the start of fetch_pending, which needs
\* an SFTP account.
EndTracking(sftp) ==
  /\ tracker.pc = "backfill" /\ tracker.next > BackfillUpTo
  /\ inbox' = RecordedRows(tracker.new)
  /\ filled' = IF cursor > filled THEN BackfillUpTo ELSE filled
  /\ jobs' = [j \in Jobs |-> IF PastDeadline(j)
                             THEN [jobs[j] EXCEPT !.status = "UNKNOWN"]
                             ELSE jobs[j]]
  /\ tracker' = IdleTracker
  /\ fetch' = [fetch EXCEPT ![Loop] =
       IF sftp THEN Fetch([l \in Pending(inbox') |-> inbox'[l].attempts])
       ELSE IdleFetch]
  /\ UNCHANGED <<reply, pbx, logs, cursor, faults>>

\* The PBX does not answer, or the transaction cannot be written.
TrackingFails(written) ==
  /\ tracker.pc \in {"known", "backfill"} /\ faults < MaxFaults
  /\ faults' = faults + 1
  /\ tracker' = IF written
                THEN [IdleTracker EXCEPT !.pc = "left", !.new = tracker.new,
                                         !.changed = tracker.changed]
                ELSE IdleTracker
  /\ UNCHANGED <<jobs, reply, pbx, logs, cursor, filled, inbox, fetch>>

\* The next commit of the loop's session.
CommitLeft ==
  /\ tracker.pc = "left"
  /\ jobs' = Override(tracker.changed)
  /\ inbox' = RecordedRows(tracker.new)
  /\ tracker' = IdleTracker
  /\ UNCHANGED <<reply, pbx, logs, cursor, filled, fetch, faults>>

(***************************************************************************)
(* fax_inbox.fetch_pending, in the loop and in refetch_fax_inbox.  A run   *)
(* keeps the rows it loaded; a column is written when the run sets it.     *)
(***************************************************************************)
\* Both runs: the row at hand gets these values.
FetchEnds(r, row) ==
  LET l == fetch[r].row
      rest == [k \in DOMAIN fetch[r].held \ {l} |-> fetch[r].held[k]]
  IN  /\ l # NoLog /\ ~Locked
      /\ inbox' = [inbox EXCEPT ![l] = row]
      /\ fetch' = [fetch EXCEPT ![r] = Fetch(rest)]

Attempts(r) == fetch[r].held[fetch[r].row] + 1

Fetched(r) ==
  /\ FetchEnds(r, [status |-> "FETCHED", attempts |-> Attempts(r)])
  /\ UNCHANGED <<jobs, reply, pbx, logs, cursor, filled, tracker, faults>>

\* Mutant: the last attempt is not the end.
GivenUpNever(r) == FALSE

GivenUp(r) == Attempts(r) >= MaxFetchAttempts

FetchFails(r) ==
  /\ FetchEnds(r, [status |-> IF GivenUp(r) THEN "FETCH_FAILED"
                              ELSE inbox[fetch[r].row].status,
                   attempts |-> Attempts(r)])
  /\ UNCHANGED <<jobs, reply, pbx, logs, cursor, filled, tracker, faults>>

\* An administrator asks for a fax again.
StartRefetch(l) ==
  /\ fetch[Refetch] = IdleFetch /\ inbox[l] # NoRow /\ ~Locked
  /\ faults < MaxFaults /\ faults' = faults + 1
  /\ inbox' = [inbox EXCEPT ![l] = [status |-> "PENDING", attempts |-> 0]]
  /\ fetch' = [fetch EXCEPT ![Refetch] =
       Fetch([k \in Pending(inbox') |-> inbox'[k].attempts])]
  /\ UNCHANGED <<jobs, reply, pbx, logs, cursor, filled, tracker>>

\* Its commit meets the tracker's lock: the request ends with an error.
RefetchLocked ==
  /\ fetch[Refetch] # IdleFetch /\ Locked
  /\ fetch' = [fetch EXCEPT ![Refetch] = IdleFetch]
  /\ UNCHANGED <<jobs, reply, pbx, logs, cursor, filled, inbox, tracker, faults>>

(***************************************************************************)
(* Time and restarts.                                                      *)
(***************************************************************************)
\* Requests and runs of the tracker are short.
Grows(j) ==
  /\ jobs[j].status \in {"QUEUED", "SUBMITTED", "UNKNOWN"}
  /\ jobs[j].age < Old
  /\ reply[j] = "none" /\ tracker = IdleTracker
  /\ jobs' = [jobs EXCEPT ![j].age = @ + 1]
  /\ UNCHANGED <<reply, pbx, logs, cursor, filled, inbox, tracker, fetch, faults>>

Restart ==
  /\ faults < MaxFaults /\ faults' = faults + 1
  /\ reply' = [j \in Jobs |-> "none"]
  /\ tracker' = IdleTracker
  /\ fetch' = [r \in Fetchers |-> IdleFetch]
  /\ UNCHANGED <<jobs, pbx, logs, cursor, filled, inbox>>

Track ==
  \/ StartTracking \/ ReadKnown \/ CommitScan \/ ReadAgain \/ CommitLeft
  \/ \E early \in SUBSET Young : ReadNext(early)
  \/ EndTracking(TRUE)

Next ==
  \/ \E j \in Jobs :
       \/ \E configured \in BOOLEAN : Send(j, configured)
       \/ PbxTakes(j) \/ PbxRefuses(j) \/ PbxStarts(j)
       \/ \E file \in BOOLEAN : SubmitAccepted(j, file)
       \/ SubmitRefused(j) \/ SubmitUncertain(j)
       \/ Grows(j)
  \/ \E l \in LogIds :
       \/ \E state \in {"sent", "failed"} : PbxEnds(l, state)
       \/ StartRefetch(l)
  \/ PbxReceives \/ PbxSendsOther
  \/ Track \/ EndTracking(FALSE)
  \/ \E written \in BOOLEAN : TrackingFails(written)
  \/ \E r \in Fetchers : Fetched(r) \/ FetchFails(r)
  \/ RefetchLocked
  \/ Restart

\* The loop runs every minute with an SFTP account, requests end by their
\* time-outs, and time passes.
FetchStep(r) == Fetched(r) \/ FetchFails(r)
Fairness ==
  /\ WF_vars(Track)
  /\ SF_vars(EndTracking(TRUE))
  /\ \A r \in Fetchers : SF_vars(FetchStep(r))
  /\ \A j \in Jobs : WF_vars(SubmitUncertain(j)) /\ WF_vars(Grows(j))

Spec == Init /\ [][Next]_vars /\ Fairness

(***************************************************************************)
(* Properties.                                                             *)
(***************************************************************************)
\* A fax shown as refused was not taken by the PBX, neither before nor
\* after: whoever sends it again does not send it twice (fax.py: an unknown
\* outcome is UNKNOWN, "이중 발송 방지").
RefusedIsNotFaxed ==
  \A j \in Jobs :
    jobs[j].status = "FAILED" /\ jobs[j].log = NoLog
      => pbx[j] \notin {"queued", "logged"}

\* A job shows what became of its own fax, although the log names no job:
\* whatever order requests, log entries, failed runs and restarts come in.
\* It holds for faxes to different numbers only.
ResultIsItsOwn ==
  \A j \in Jobs :
    /\ jobs[j].log # NoLog => logs[jobs[j].log].job = j
    /\ jobs[j].status = "SENT" => logs[jobs[j].log].state = "sent"

\* No incoming fax is stepped over for good.  The scan may step over one:
\* an id that was empty when it was read, and is filled together with the
\* next before that is read.  backfill reads every id up to the cursor once
\* more, and what is at or below its mark is in the inbox.
NothingIsSteppedOver ==
  \A l \in LogIds :
    l <= filled /\ logs[l].kind = "in" => inbox[l] # NoRow

\* Every incoming fax ends up stored, or marked as one that could not be
\* fetched, failures and restarts of any part notwithstanding.
IncomingFaxSettles ==
  \A l \in LogIds :
    logs[l].kind = "in" ~> inbox[l].status \in {"FETCHED", "FETCH_FAILED"}
=============================================================================
