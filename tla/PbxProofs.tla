------------------------------- MODULE PbxProofs -------------------------------
(***************************************************************************)
(* Proofs about what the office has of the PBX: faxes (FaxTracking) and    *)
(* the list of calls (CallPages), and recordings (RecordingCache).         *)
(***************************************************************************)
EXTENDS FaxTracking, CallPages, RecordingCache, FiniteSetTheorems, WellFoundedInduction,
        TLAPS

(***************************************************************************)
(* Faxes, for any number of them.  What a job shows is what the log says:  *)
(* the entries of the log are fixed but for the end of a busy one, and the *)
(* jobs a run of the tracker holds obey what the stored ones obey.  The    *)
(* log grows behind its last entry only, and neither the cursor nor the    *)
(* backfill mark is beyond it: what was read empty below stays empty.      *)
(***************************************************************************)
Job ==
  [status : {"NONE", "QUEUED", "SUBMITTED", "UNKNOWN", "SENT", "FAILED"},
   file : BOOLEAN, log : LogIds \cup {NoLog}, age : Fresh..Old]
Entry ==
  [kind : {"none", "in", "out"}, job : Jobs \cup {NoJob},
   state : {"none", "busy", "sent", "failed", "received"}, during : SUBSET Jobs]
InboxRow ==
  [status : {"none", "PENDING", "FETCHED", "FETCH_FAILED"}, attempts : Nat]
Changes == UNION {[D -> Job] : D \in SUBSET Jobs}
Run ==
  [pc : {"idle", "known", "backfill", "left"}, known : SUBSET Jobs,
   unmatched : SUBSET Jobs, cursor : Nat, next : Nat, misses : Nat, reads : Nat,
   changed : Changes, new : SUBSET LogIds]
Held == UNION {[D -> Nat] : D \in SUBSET LogIds}
FetchRun == [row : LogIds \cup {NoLog}, held : Held]

FaxTypeOK ==
  /\ jobs \in [Jobs -> Job]
  /\ reply \in [Jobs -> {"none", "waiting", "ok", "refused"}]
  /\ pbx \in [Jobs -> {"none", "asked", "queued", "logged"}]
  /\ logs \in [LogIds -> Entry]
  /\ cursor \in Nat /\ filled \in Nat
  /\ inbox \in [LogIds -> InboxRow]
  /\ tracker \in Run
  /\ fetch \in [Fetchers -> FetchRun]
  /\ \A r \in Fetchers : fetch[r].row # NoLog => fetch[r].row \in DOMAIN fetch[r].held
  /\ faults \in Nat

\* What becomes of a request at the PBX.
RequestsInOrder ==
  \A j \in Jobs :
    /\ reply[j] = "refused" => pbx[j] = "none"
    /\ jobs[j].status = "NONE" => pbx[j] = "none" /\ reply[j] = "none"
    /\ jobs[j].status = "FAILED" /\ jobs[j].log = NoLog => pbx[j] = "none"

\* A job that the tracker changed has a log entry.
ChangedHasLog ==
  /\ \A j \in DOMAIN tracker.changed :
       tracker.changed[j].log # NoLog /\ tracker.changed[j].status # "NONE"
  /\ \A j \in tracker.known : jobs[j].log # NoLog

\* The log of a job is of its own fax, and its end is what the log says.
IsOwn(job, j) ==
  /\ job.log # NoLog => job.log \in Used /\ logs[job.log].job = j
  /\ job.status = "SENT" => job.log # NoLog /\ logs[job.log].state = "sent"

ShowsItsOwn ==
  /\ \A j \in Jobs : IsOwn(jobs[j], j)
  /\ \A j \in DOMAIN tracker.changed : IsOwn(tracker.changed[j], j)

\* Cursor and mark.
InTheInbox(l) == logs[l].kind = "in" => inbox[l] # NoRow
ScanInOrder ==
  /\ tracker.cursor \in Used \cup {0}
  /\ cursor <= tracker.cursor /\ tracker.cursor < tracker.next
MarksInOrder ==
  /\ cursor \in Used \cup {0}
  /\ filled <= cursor
  /\ tracker.pc = "known" => ScanInOrder
  /\ \A l \in LogIds : l <= filled => InTheInbox(l)
  /\ tracker.pc = "backfill" =>
       \A l \in LogIds :
         l < tracker.next /\ l <= BackfillUpTo => InTheInbox(l) \/ l \in tracker.new

\* No two of the faxes go to one number.
DistinctNumbers ==
  \A i, j \in Jobs \cup {NoJob} : RecipientOf[i] = RecipientOf[j] => i = j

FaxInv == FaxTypeOK /\ RequestsInOrder /\ ChangedHasLog /\ MarksInOrder

(***************************************************************************)
(* Lemmas.                                                                 *)
(***************************************************************************)
\* Ids start at one, and an age is one of four.
LEMMA NoIds == NoLog \notin LogIds /\ NoJob \notin Jobs /\ Fresh..Old = {0, 1, 2, 3}
BY DEF NoLog, LogIds, NoJob, Jobs, Fresh, Old

\* A non-empty set of natural numbers has a least member.
LEMMA LeastMember ==
  ASSUME NEW S \in SUBSET Nat, S # {}
  PROVE  \E x \in S : \A y \in S : x <= y
<1> DEFINE Less == {ss \in Nat \X Nat : ss[1] < ss[2]}
<1>1. OpToRel(<, Nat) = Less
  BY DEF OpToRel
<1>2. IsWellFoundedOn(Less, Nat)
  BY NatLessThanWellFounded, <1>1
<1>3. PICK x \in S : \A y \in S : <<y, x>> \notin Less
  <2> HIDE DEF Less
  <2> QED
    BY <1>2, WFMin
<1>4. ASSUME NEW y \in S PROVE x <= y
  <2>1. <<y, x>> \in Nat \X Nat
    OBVIOUS
  <2>2. ~ (y < x)
    BY <1>3, <2>1
  <2> QED
    BY <2>2
<1> QED
  BY <1>4

\* Top is the last entry of the log.
LEMMA TopIsLast ==
  /\ Top \in Used \cup {0}
  /\ \A l \in Used : l <= Top
<1>1. CASE Used = {}
  BY <1>1 DEF Top
<1>2. CASE Used # {}
  <2> DEFINE below == {MaxLog - l : l \in Used}
  <2>1. MaxLog \in Nat /\ Used \subseteq LogIds
    BY FaxAssumption DEF Used
  <2>2. below \in SUBSET Nat /\ below # {}
    <3>1. \A l \in Used : MaxLog - l \in Nat
      BY <2>1 DEF LogIds
    <3> QED
      BY <1>2, <3>1
  <2>3. PICK x \in below : \A y \in below : x <= y
    <3> HIDE DEF below
    <3> QED
      BY <2>2, LeastMember
  <2>4. PICK m \in Used : x = MaxLog - m
    OBVIOUS
  <2>5. ASSUME NEW l \in Used PROVE l <= m
    <3>1. l \in Nat /\ m \in Nat /\ MaxLog - m <= MaxLog - l
      BY <2>1, <2>3, <2>4 DEF LogIds
    <3> QED
      BY <2>1, <3>1
  <2>6. Top \in Used /\ \A l \in Used : l <= Top
    <3>1. \E t \in Used : \A l \in Used : l <= t
      BY <2>5
    <3>2. Top = CHOOSE t \in Used : \A l \in Used : l <= t
      BY <1>2 DEF Top
    <3> QED
      BY <3>1, <3>2
  <2> QED
    BY <2>6
<1> QED
  BY <1>1, <1>2

\* A new entry is behind every other one, and changes none of them.
LEMMA LogGrows ==
  ASSUME FaxTypeOK, NEW entry \in Entry, entry.kind # "none", Logged(entry)
  PROVE  /\ logs' \in [LogIds -> Entry]
         /\ \A k \in Used : logs'[k] = logs[k] /\ k \in Used'
         /\ \A m \in Used \cup {0}, k \in LogIds : k <= m => logs'[k] = logs[k]
<1>1. PICK l \in LogIds : l > Top /\ logs' = [logs EXCEPT ![l] = entry]
  BY DEF Logged
<1>2. logs \in [LogIds -> Entry]
  BY DEF FaxTypeOK
<1>3. /\ Used \subseteq Nat /\ LogIds \subseteq Nat /\ Top \in Nat
      /\ \A m \in Used \cup {0} : m <= Top /\ m \in Nat
  BY TopIsLast, FaxAssumption DEF Used, LogIds
<1>4. l \notin Used
  BY <1>1, <1>3
<1>5. ASSUME NEW k \in Used PROVE logs'[k] = logs[k] /\ k \in Used'
  BY <1>1, <1>2, <1>4 DEF Used
<1>6. ASSUME NEW m \in Used \cup {0}, NEW k \in LogIds, k <= m PROVE logs'[k] = logs[k]
  <2>1. m <= Top /\ k \in Nat /\ m \in Nat /\ Top \in Nat /\ l \in Nat
    BY <1>3
  <2>2. k # l
    BY <1>1, <1>6, <2>1
  <2> QED
    BY <1>1, <1>2, <2>2
<1> QED
  BY <1>1, <1>2, <1>5, <1>6

\* A tracker and a fetcher that do nothing.
LEMMA IdleTypes ==
  /\ IdleTracker \in Run
  /\ IdleTracker.pc = "idle" /\ IdleTracker.known = {} /\ IdleTracker.new = {}
  /\ DOMAIN IdleTracker.changed = {}
  /\ IdleFetch \in FetchRun /\ IdleFetch.row = NoLog
<1>1. [j \in {} |-> NewJob] \in [{} -> Job] /\ [l \in {} |-> 0] \in [{} -> Nat]
  OBVIOUS
<1>2. [j \in {} |-> NewJob] \in Changes /\ [l \in {} |-> 0] \in Held
  BY <1>1 DEF Changes, Held
<1> QED
  BY <1>2 DEF IdleTracker, IdleFetch, Run, FetchRun

\* A run of the tracker that changes one job more.
LEMMA ChangeType ==
  ASSUME tracker \in Run, NEW j \in Jobs, NEW job \in Job
  PROVE  /\ Change(j, job) \in Changes
         /\ DOMAIN Change(j, job) = DOMAIN tracker.changed \cup {j}
         /\ Change(j, job)[j] = job
         /\ \A i \in DOMAIN tracker.changed \ {j} : Change(j, job)[i] = tracker.changed[i]
<1>1. PICK D \in SUBSET Jobs : tracker.changed \in [D -> Job]
  BY DEF Run, Changes
<1>2. Change(j, job) \in [D \cup {j} -> Job] /\ D \cup {j} \in SUBSET Jobs
  BY <1>1 DEF Change
<1> QED
  BY <1>1, <1>2 DEF Changes, Change

\* _apply_log gives a job the log of an entry, and what it says.
LEMMA AppliedType ==
  ASSUME NEW job \in Job, NEW l \in LogIds
  PROVE  /\ Applied(job, l) \in Job
         /\ Applied(job, l).log = l
         /\ Applied(job, l).status # "NONE"
         /\ Applied(job, l).status = "SENT" => logs[l].state = "sent"
BY DEF Applied, Job

\* The jobs with those of the tracker over them.
LEMMA OverrideType ==
  ASSUME FaxTypeOK
  PROVE  /\ Override(tracker.changed) \in [Jobs -> Job]
         /\ \A j \in Jobs : \/ /\ j \in DOMAIN tracker.changed
                               /\ Override(tracker.changed)[j] = tracker.changed[j]
                            \/ Override(tracker.changed)[j] = jobs[j]
<1>1. PICK D \in SUBSET Jobs : tracker.changed \in [D -> Job]
  BY DEF FaxTypeOK, Run, Changes
<1> QED
  BY <1>1 DEF Override, FaxTypeOK

\* The inbox with the faxes that a run recorded.
LEMMA RecordedType ==
  ASSUME FaxTypeOK, NEW new \in SUBSET LogIds
  PROVE  /\ RecordedRows(new) \in [LogIds -> InboxRow]
         /\ \A l \in new : RecordedRows(new)[l] # NoRow
         /\ \A l \in LogIds : inbox[l] # NoRow => RecordedRows(new)[l] # NoRow
<1>1. [NoRow EXCEPT !.status = "PENDING"] \in InboxRow
  BY DEF NoRow, InboxRow
<1>2. [NoRow EXCEPT !.status = "PENDING"] # NoRow
  BY DEF NoRow
<1> HIDE DEF NoRow, InboxRow
<1> QED
  BY <1>1, <1>2 DEF RecordedRows, FaxTypeOK

\* A run of fetch_pending has one of the rows it holds at hand.
LEMMA FetchType ==
  ASSUME NEW held \in Held
  PROVE  /\ Fetch(held) \in FetchRun
         /\ Fetch(held).row # NoLog => Fetch(held).row \in DOMAIN Fetch(held).held
<1>1. PICK D \in SUBSET LogIds : held \in [D -> Nat]
  BY DEF Held
<1>2. CASE D = {}
  BY <1>1, <1>2, IdleTypes DEF Fetch
<1>3. CASE D # {}
  <2>1. D \in SUBSET Nat
    BY FaxAssumption DEF LogIds
  <2>2. \E l \in D : \A k \in D : l <= k
    BY <1>3, <2>1, LeastMember
  <2> DEFINE row == CHOOSE l \in D : \A k \in D : l <= k
  <2>3. row \in D
    BY <2>2
  <2> HIDE DEF row
  <2>4. Fetch(held) = [row |-> row, held |-> held]
    BY <1>1, <1>3 DEF Fetch, row
  <2>5. Fetch(held).row = row /\ Fetch(held).held = held /\ row \in LogIds
    BY <2>3, <2>4
  <2>6. Fetch(held) \in FetchRun
    BY <2>4, <2>5 DEF FetchRun
  <2> QED
    BY <1>1, <2>3, <2>5, <2>6
<1> QED
  BY <1>2, <1>3

(***************************************************************************)
(* The invariant, a group of actions at a time.                            *)
(***************************************************************************)
\* The job at hand gets a file, a status or a request, and keeps its log.
LEMMA JobChanges ==
  ASSUME FaxInv, UNCHANGED <<logs, cursor, filled, inbox, tracker, fetch, faults>>,
         jobs' \in [Jobs -> Job],
         reply' \in [Jobs -> {"none", "waiting", "ok", "refused"}],
         pbx' \in [Jobs -> {"none", "asked", "queued", "logged"}],
         RequestsInOrder',
         \A j \in Jobs : /\ jobs'[j].log = jobs[j].log
                         /\ jobs'[j].status = "SENT" => jobs[j].status = "SENT"
  PROVE  FaxInv' /\ (ShowsItsOwn => ShowsItsOwn')
<1>1. FaxTypeOK'
  BY DEF FaxInv, FaxTypeOK
<1>2. ChangedHasLog'
  <2>1. \A j \in tracker.known : j \in Jobs
    BY DEF FaxInv, FaxTypeOK, Run
  <2> QED
    BY <2>1 DEF FaxInv, ChangedHasLog
<1>3. MarksInOrder'
  BY DEF FaxInv, MarksInOrder, InTheInbox, ScanInOrder, Used, BackfillUpTo
<1>4. ShowsItsOwn => ShowsItsOwn'
  BY DEF ShowsItsOwn, IsOwn, Used
<1> QED
  BY <1>1, <1>2, <1>3, <1>4 DEF FaxInv

\* A new job is queued, or fails without a fax device.
LEMMA SendKeeps ==
  ASSUME FaxInv, NEW j \in Jobs, NEW configured \in BOOLEAN, Send(j, configured)
  PROVE  FaxInv' /\ (ShowsItsOwn => ShowsItsOwn')
<1>1. /\ jobs \in [Jobs -> Job] /\ jobs[j] \in Job
      /\ reply \in [Jobs -> {"none", "waiting", "ok", "refused"}]
      /\ pbx \in [Jobs -> {"none", "asked", "queued", "logged"}]
  BY DEF FaxInv, FaxTypeOK
<1> DEFINE status == IF configured THEN "QUEUED" ELSE "FAILED"
<1>2. /\ jobs' = [jobs EXCEPT ![j].status = status]
      /\ reply' = [reply EXCEPT ![j] = IF configured THEN "waiting" ELSE "none"]
      /\ pbx' = [pbx EXCEPT ![j] = IF configured THEN "asked" ELSE "none"]
      /\ UNCHANGED <<logs, cursor, filled, inbox, tracker, fetch, faults>>
  BY DEF Send
<1>3. jobs' \in [Jobs -> Job]
  BY <1>1, <1>2 DEF Job
<1>4. jobs'[j].status = status /\ jobs'[j].log = jobs[j].log
  BY <1>1, <1>2 DEF Job
<1>5. \A i \in Jobs \ {j} : jobs'[i] = jobs[i] /\ reply'[i] = reply[i] /\ pbx'[i] = pbx[i]
  BY <1>1, <1>2
<1>6. RequestsInOrder'
  BY <1>1, <1>2, <1>4, <1>5 DEF FaxInv, RequestsInOrder
<1> QED
  BY <1>1, <1>2, <1>3, <1>4, <1>5, <1>6, JobChanges

\* The PBX takes what it was asked, or refuses it.
LEMMA PbxAnswers ==
  ASSUME FaxInv, NEW j \in Jobs, PbxTakes(j) \/ PbxRefuses(j)
  PROVE  FaxInv' /\ (ShowsItsOwn => ShowsItsOwn')
<1>1. /\ jobs \in [Jobs -> Job]
      /\ reply \in [Jobs -> {"none", "waiting", "ok", "refused"}]
      /\ pbx \in [Jobs -> {"none", "asked", "queued", "logged"}]
  BY DEF FaxInv, FaxTypeOK
<1>2. /\ UNCHANGED <<jobs, logs, cursor, filled, inbox, tracker, fetch, faults>>
      /\ reply' \in [Jobs -> {"none", "waiting", "ok", "refused"}]
      /\ pbx' \in [Jobs -> {"none", "asked", "queued", "logged"}]
      /\ \A i \in Jobs \ {j} : reply'[i] = reply[i] /\ pbx'[i] = pbx[i]
  BY <1>1 DEF PbxTakes, PbxRefuses, Answered
<1>3. pbx[j] = "asked" /\ reply[j] # "refused" /\ jobs[j].status # "NONE"
  BY DEF PbxTakes, PbxRefuses, FaxInv, RequestsInOrder
<1>4. RequestsInOrder'
  <2>1. CASE PbxTakes(j)
    <3>1. jobs[j].status # "FAILED" /\ reply'[j] # "refused"
      BY <1>1, <1>3, <2>1 DEF PbxTakes, MayFetch, Answered
    <3> QED
      BY <1>2, <1>3, <3>1 DEF FaxInv, RequestsInOrder
  <2>2. CASE PbxRefuses(j)
    <3>1. pbx'[j] = "none"
      BY <1>1, <2>2 DEF PbxRefuses
    <3> QED
      BY <1>2, <1>3, <3>1 DEF FaxInv, RequestsInOrder
  <2> QED
    BY <2>1, <2>2
<1> QED
  BY <1>1, <1>2, <1>4, JobChanges

\* The end of submit_job.
LEMMA SubmittedKeeps ==
  ASSUME FaxInv, NEW j \in Jobs, NEW job \in Job, Submitted(j, job), reply[j] # "none",
         job.log = jobs[j].log, job.status \notin {"NONE", "SENT"},
         job.status = "FAILED" => reply[j] = "refused"
  PROVE  FaxInv' /\ (ShowsItsOwn => ShowsItsOwn')
<1>1. /\ jobs \in [Jobs -> Job]
      /\ reply \in [Jobs -> {"none", "waiting", "ok", "refused"}]
      /\ pbx \in [Jobs -> {"none", "asked", "queued", "logged"}]
  BY DEF FaxInv, FaxTypeOK
<1>2. /\ jobs' = IF Locked THEN jobs ELSE [jobs EXCEPT ![j] = job]
      /\ reply' = [reply EXCEPT ![j] = "none"]
      /\ UNCHANGED <<pbx, logs, cursor, filled, inbox, tracker, fetch, faults>>
  BY DEF Submitted
<1>3. /\ jobs' \in [Jobs -> Job]
      /\ \A i \in Jobs \ {j} : jobs'[i] = jobs[i] /\ reply'[i] = reply[i]
      /\ jobs'[j] = jobs[j] \/ jobs'[j] = job
      /\ reply'[j] = "none"
      /\ reply' \in [Jobs -> {"none", "waiting", "ok", "refused"}]
  BY <1>1, <1>2
<1>4. RequestsInOrder'
  BY <1>2, <1>3 DEF FaxInv, RequestsInOrder
<1> QED
  BY <1>1, <1>2, <1>3, <1>4, JobChanges

\* The answers of submit_job.
LEMMA SubmitKeeps ==
  ASSUME FaxInv, NEW j \in Jobs,
         \/ \E file \in BOOLEAN : SubmitAccepted(j, file)
         \/ SubmitRefused(j) \/ SubmitUncertain(j)
  PROVE  FaxInv' /\ (ShowsItsOwn => ShowsItsOwn')
<1>1. jobs[j] \in Job
  BY DEF FaxInv, FaxTypeOK
<1>2. ASSUME NEW file \in BOOLEAN, SubmitAccepted(j, file)
      PROVE  FaxInv' /\ (ShowsItsOwn => ShowsItsOwn')
  <2> DEFINE job == [jobs[j] EXCEPT !.status = "SUBMITTED", !.file = file]
  <2>1. job \in Job /\ job.log = jobs[j].log /\ job.status = "SUBMITTED"
    BY <1>1 DEF Job
  <2>2. Submitted(j, job) /\ reply[j] = "ok"
    BY <1>2 DEF SubmitAccepted
  <2> HIDE DEF job
  <2> QED
    BY <2>1, <2>2, SubmittedKeeps
<1>3. CASE SubmitRefused(j)
  <2> DEFINE job == [jobs[j] EXCEPT !.status = "FAILED"]
  <2>1. job \in Job /\ job.log = jobs[j].log /\ job.status = "FAILED"
    BY <1>1 DEF Job
  <2>2. Submitted(j, job) /\ reply[j] = "refused"
    BY <1>3 DEF SubmitRefused
  <2> HIDE DEF job
  <2> QED
    BY <2>1, <2>2, SubmittedKeeps
<1>4. CASE SubmitUncertain(j)
  <2> DEFINE job == [jobs[j] EXCEPT !.status = StatusWithoutAnswer]
  <2>1. job \in Job /\ job.log = jobs[j].log /\ job.status = "UNKNOWN"
    BY <1>1 DEF Job, StatusWithoutAnswer
  <2>2. Submitted(j, job) /\ reply[j] # "none"
    BY <1>4 DEF SubmitUncertain
  <2> HIDE DEF job
  <2> QED
    BY <2>1, <2>2, SubmittedKeeps
<1> QED
  BY <1>2, <1>3, <1>4

\* A job gets older.
LEMMA GrowsKeeps ==
  ASSUME FaxInv, NEW j \in Jobs, Grows(j)
  PROVE  FaxInv' /\ (ShowsItsOwn => ShowsItsOwn')
<1>1. jobs \in [Jobs -> Job] /\ jobs[j] \in Job
  BY DEF FaxInv, FaxTypeOK
<1>2. /\ jobs' = [jobs EXCEPT ![j].age = @ + 1] /\ jobs[j].age < Old
      /\ UNCHANGED <<reply, pbx, logs, cursor, filled, inbox, tracker, fetch, faults>>
  BY DEF Grows
<1>3. jobs[j].age + 1 \in Fresh..Old
  BY <1>1, <1>2 DEF Job, Fresh, Old
<1>4. jobs' \in [Jobs -> Job] /\ jobs'[j].log = jobs[j].log /\ jobs'[j].status = jobs[j].status
  BY <1>1, <1>2, <1>3 DEF Job
<1>5. \A i \in Jobs \ {j} : jobs'[i] = jobs[i]
  BY <1>1, <1>2
<1>6. RequestsInOrder'
  BY <1>2, <1>4, <1>5 DEF FaxInv, RequestsInOrder
<1> QED
  BY <1>2, <1>4, <1>5, <1>6, JobChanges DEF FaxInv, FaxTypeOK

\* The log gets one entry more.
LEMMA LoggedKeeps ==
  ASSUME FaxInv, NEW entry \in Entry, entry.kind # "none", Logged(entry),
         UNCHANGED <<jobs, reply, cursor, filled, inbox, tracker, fetch, faults>>,
         pbx' \in [Jobs -> {"none", "asked", "queued", "logged"}],
         \A j \in Jobs : pbx[j] = "none" => pbx'[j] = "none"
  PROVE  FaxInv' /\ (ShowsItsOwn => ShowsItsOwn')
<1>1. /\ logs' \in [LogIds -> Entry]
      /\ \A k \in Used : logs'[k] = logs[k] /\ k \in Used'
      /\ \A m \in Used \cup {0}, k \in LogIds : k <= m => logs'[k] = logs[k]
  BY LogGrows DEF FaxInv
<1>2. FaxTypeOK'
  BY <1>1 DEF FaxInv, FaxTypeOK
<1>3. RequestsInOrder' /\ ChangedHasLog'
  BY DEF FaxInv, RequestsInOrder, ChangedHasLog
<1>4. MarksInOrder'
  <2>1. cursor \in Nat /\ filled \in Nat /\ BackfillBatch \in Nat /\ LogIds \subseteq Nat
    BY FaxAssumption DEF FaxInv, FaxTypeOK, LogIds
  <2>2. /\ BackfillUpTo' = BackfillUpTo /\ BackfillUpTo <= cursor
        /\ BackfillUpTo \in Nat /\ filled <= cursor
    BY <2>1 DEF FaxInv, MarksInOrder, BackfillUpTo
  <2>3. \A l \in LogIds : l <= cursor => logs'[l] = logs[l]
    BY <1>1 DEF FaxInv, MarksInOrder
  <2>4. \A l \in LogIds : l <= filled \/ l <= BackfillUpTo => logs'[l] = logs[l]
    BY <2>1, <2>2, <2>3
  <2> QED
    BY <1>1, <2>2, <2>4 DEF FaxInv, MarksInOrder, InTheInbox, ScanInOrder
<1>5. ShowsItsOwn => ShowsItsOwn'
  BY <1>1 DEF ShowsItsOwn, IsOwn
<1> QED
  BY <1>2, <1>3, <1>4, <1>5 DEF FaxInv

\* Faxes that the PBX sends and receives.
LEMMA PbxLogs ==
  ASSUME FaxInv, (\E j \in Jobs : PbxStarts(j)) \/ PbxSendsOther \/ PbxReceives
  PROVE  FaxInv' /\ (ShowsItsOwn => ShowsItsOwn')
<1>1. pbx \in [Jobs -> {"none", "asked", "queued", "logged"}]
  BY DEF FaxInv, FaxTypeOK
<1>2. \A j \in Jobs \cup {NoJob} : Around(j) \in SUBSET Jobs
  BY DEF Around
<1>3. ASSUME NEW j \in Jobs, PbxStarts(j)
      PROVE  FaxInv' /\ (ShowsItsOwn => ShowsItsOwn')
  <2> DEFINE entry == [kind |-> "out", job |-> j, state |-> "busy", during |-> Around(j)]
  <2>1. entry \in Entry /\ entry.kind # "none"
    BY <1>2 DEF Entry
  <2>2. /\ Logged(entry) /\ pbx[j] = "queued" /\ pbx' = [pbx EXCEPT ![j] = "logged"]
        /\ UNCHANGED <<jobs, reply, cursor, filled, inbox, tracker, fetch, faults>>
    BY <1>3 DEF PbxStarts
  <2> HIDE DEF entry
  <2> QED
    BY <1>1, <2>1, <2>2, LoggedKeeps
<1>4. CASE PbxSendsOther
  <2> DEFINE entry == [kind |-> "out", job |-> NoJob, state |-> "sent",
                       during |-> Around(NoJob)]
  <2>1. entry \in Entry /\ entry.kind # "none"
    BY <1>2 DEF Entry
  <2>2. /\ Logged(entry)
        /\ UNCHANGED <<jobs, reply, pbx, cursor, filled, inbox, tracker, fetch, faults>>
    BY <1>4 DEF PbxSendsOther
  <2> HIDE DEF entry
  <2> QED
    BY <1>1, <2>1, <2>2, LoggedKeeps
<1>5. CASE PbxReceives
  <2> DEFINE entry == [NoEntry EXCEPT !.kind = "in", !.state = "received"]
  <2>1. entry \in Entry /\ entry.kind # "none"
    BY DEF Entry, NoEntry
  <2>2. /\ Logged(entry)
        /\ UNCHANGED <<jobs, reply, pbx, cursor, filled, inbox, tracker, fetch, faults>>
    BY <1>5 DEF PbxReceives
  <2> HIDE DEF entry
  <2> QED
    BY <1>1, <2>1, <2>2, LoggedKeeps
<1> QED
  BY <1>3, <1>4, <1>5

\* A busy entry of the log gets its end.
LEMMA PbxEndsKeeps ==
  ASSUME FaxInv, NEW l \in LogIds, NEW state \in {"sent", "failed"}, PbxEnds(l, state)
  PROVE  FaxInv' /\ (ShowsItsOwn => ShowsItsOwn')
<1>1. logs \in [LogIds -> Entry] /\ logs[l] \in Entry
  BY DEF FaxInv, FaxTypeOK
<1>2. /\ logs[l].kind = "out" /\ logs[l].state = "busy"
      /\ logs' = [logs EXCEPT ![l].state = state]
      /\ UNCHANGED <<jobs, reply, pbx, cursor, filled, inbox, tracker, fetch, faults>>
  BY DEF PbxEnds
<1>3. /\ logs' \in [LogIds -> Entry]
      /\ \A k \in LogIds : logs'[k].kind = logs[k].kind /\ logs'[k].job = logs[k].job
      /\ \A k \in LogIds : logs[k].state = "sent" => logs'[k].state = "sent"
  BY <1>1, <1>2 DEF Entry
<1>4. Used' = Used
  <2>1. logs[l] # NoEntry /\ logs'[l] # NoEntry
    BY <1>2, <1>3 DEF NoEntry
  <2>2. \A k \in LogIds \ {l} : logs'[k] = logs[k]
    BY <1>1, <1>2
  <2> QED
    BY <2>1, <2>2 DEF Used
<1>5. FaxTypeOK'
  BY <1>2, <1>3 DEF FaxInv, FaxTypeOK
<1>6. RequestsInOrder' /\ ChangedHasLog'
  BY <1>2 DEF FaxInv, RequestsInOrder, ChangedHasLog
<1>7. MarksInOrder'
  BY <1>2, <1>3, <1>4 DEF FaxInv, MarksInOrder, InTheInbox, ScanInOrder, BackfillUpTo
<1>8. ShowsItsOwn => ShowsItsOwn'
  <2>1. \A k \in Used : k \in LogIds
    BY DEF Used
  <2> QED
    BY <1>2, <1>3, <1>4, <2>1 DEF ShowsItsOwn, IsOwn
<1> QED
  BY <1>5, <1>6, <1>7, <1>8 DEF FaxInv

\* The fields of a run that starts.
RunFrom(pc, known, unmatched, c, n) ==
  [IdleTracker EXCEPT !.pc = pc, !.known = known, !.unmatched = unmatched,
                      !.cursor = c, !.next = n]

\* It holds no job yet.
LEMMA RunStarts ==
  ASSUME NEW pc \in {"known", "backfill"}, NEW known \in SUBSET Jobs,
         NEW unmatched \in SUBSET Jobs, NEW c \in Nat, NEW n \in Nat
  PROVE  /\ RunFrom(pc, known, unmatched, c, n) \in Run
         /\ RunFrom(pc, known, unmatched, c, n).pc = pc
         /\ RunFrom(pc, known, unmatched, c, n).known = known
         /\ RunFrom(pc, known, unmatched, c, n).cursor = c
         /\ RunFrom(pc, known, unmatched, c, n).next = n
         /\ RunFrom(pc, known, unmatched, c, n).changed = IdleTracker.changed
<1> DEFINE a == [IdleTracker EXCEPT !.pc = pc, !.known = known]
           b == [a EXCEPT !.unmatched = unmatched, !.cursor = c]
<1>1. /\ a \in Run /\ a.pc = pc /\ a.known = known
      /\ a.changed = IdleTracker.changed /\ a.new = {}
  BY IdleTypes DEF Run
<1> HIDE DEF a
<1>2. /\ b \in Run /\ b.pc = pc /\ b.known = known /\ b.cursor = c
      /\ b.changed = IdleTracker.changed /\ b.new = {}
  BY <1>1 DEF Run
<1> HIDE DEF b
<1>3. RunFrom(pc, known, unmatched, c, n) = [b EXCEPT !.next = n]
  BY DEF a, b, RunFrom
<1> QED
  BY <1>2, <1>3, IdleTypes DEF Run

\* The tracker alone moves, outside of backfill.
LEMMA RunMoves ==
  ASSUME FaxInv, UNCHANGED <<jobs, reply, pbx, logs, cursor, filled, inbox, fetch>>,
         faults' \in Nat, tracker' \in Run, ChangedHasLog', tracker'.pc # "backfill",
         tracker'.pc = "known" =>
           /\ tracker'.cursor \in Used \cup {0}
           /\ cursor <= tracker'.cursor /\ tracker'.cursor < tracker'.next
  PROVE  FaxInv'
<1>1. FaxTypeOK'
  BY DEF FaxInv, FaxTypeOK
<1>2. RequestsInOrder' /\ MarksInOrder'
  BY DEF FaxInv, RequestsInOrder, MarksInOrder, InTheInbox, ScanInOrder, Used
<1> QED
  BY <1>1, <1>2 DEF FaxInv

\* Jobs and inbox are written, and the run starts anew or goes on to backfill.
LEMMA RunCommits ==
  ASSUME FaxInv, UNCHANGED <<reply, pbx, logs, filled>>,
         jobs' \in [Jobs -> Job], inbox' \in [LogIds -> InboxRow],
         tracker' \in Run, tracker'.known = {}, DOMAIN tracker'.changed = {},
         tracker'.pc \in {"idle", "backfill"},
         tracker'.pc = "backfill" => tracker'.next = filled + 1,
         fetch' = fetch, faults' = faults,
         cursor' = cursor \/ (tracker.pc = "known" /\ cursor' = tracker.cursor),
         filled <= cursor',
         \A j \in Jobs :
           \/ jobs'[j] = jobs[j]
           \/ jobs'[j].log # NoLog /\ jobs'[j].status # "NONE"
           \/ jobs'[j].log = jobs[j].log /\ jobs'[j].status \notin {"NONE", "FAILED"},
         \A l \in LogIds : inbox[l] # NoRow => inbox'[l] # NoRow
  PROVE  FaxInv'
<1>1. cursor' \in Used \cup {0} /\ cursor' \in Nat /\ filled \in Nat
  <2>1. Used \cup {0} \subseteq Nat
    BY FaxAssumption DEF Used, LogIds
  <2> QED
    BY <2>1 DEF FaxInv, FaxTypeOK, MarksInOrder, ScanInOrder
<1>2. FaxTypeOK'
  BY <1>1 DEF FaxInv, FaxTypeOK
<1>3. RequestsInOrder'
  BY DEF FaxInv, RequestsInOrder
<1>4. ChangedHasLog'
  BY DEF ChangedHasLog
<1>5. \A l \in LogIds : l <= filled => InTheInbox(l)'
  BY DEF FaxInv, MarksInOrder, InTheInbox
<1>6. MarksInOrder'
  <2>1. \A l \in LogIds : l < filled + 1 => l <= filled
    BY <1>1, FaxAssumption DEF LogIds
  <2>2. Used' = Used /\ tracker'.pc # "known"
    BY DEF Used
  <2> QED
    BY <1>1, <1>5, <2>1, <2>2 DEF MarksInOrder
<1> QED
  BY <1>2, <1>3, <1>4, <1>6 DEF FaxInv

\* The tracker loads the open jobs; stale ones become UNKNOWN.
LEMMA StartKeeps ==
  ASSUME FaxInv, StartTracking
  PROVE  FaxInv' /\ (ShowsItsOwn => ShowsItsOwn')
<1>1. jobs \in [Jobs -> Job] /\ cursor \in Nat /\ tracker = IdleTracker
  BY DEF FaxInv, FaxTypeOK, StartTracking
<1> DEFINE open == {j \in Jobs : /\ jobs'[j].status \in {"SUBMITTED", "UNKNOWN"}
                                 /\ jobs'[j].age < Old}
           known == {j \in open : jobs'[j].log # NoLog}
           run == [IdleTracker EXCEPT
                     !.pc = "known", !.known = known, !.unmatched = open \ known,
                     !.cursor = cursor, !.next = cursor + 1]
<1>2. /\ jobs' = AfterStale /\ tracker' = run
      /\ UNCHANGED <<reply, pbx, logs, cursor, filled, inbox, fetch, faults>>
  BY DEF StartTracking
<1>3. known \in SUBSET Jobs /\ open \ known \in SUBSET Jobs
  OBVIOUS
<1>4. \A j \in known : jobs'[j].log # NoLog
  OBVIOUS
<1> HIDE DEF open, known, run
<1>5. /\ run \in Run /\ run.pc = "known" /\ run.known = known
      /\ run.cursor = cursor /\ run.next = cursor + 1 /\ DOMAIN run.changed = {}
  <2> DEFINE n == cursor + 1
            unmatched == open \ known
  <2>1. n \in Nat /\ unmatched \in SUBSET Jobs
    BY <1>1, <1>3
  <2>2. run = RunFrom("known", known, unmatched, cursor, n)
    BY DEF RunFrom, run
  <2> HIDE DEF n, unmatched
  <2>3. /\ run \in Run /\ run.pc = "known" /\ run.known = known
        /\ run.cursor = cursor /\ run.next = n /\ run.changed = IdleTracker.changed
    BY <1>1, <1>3, <2>1, <2>2, RunStarts
  <2> QED
    BY <2>3, IdleTypes DEF n
<1>6. /\ jobs' \in [Jobs -> Job]
      /\ \A j \in Jobs : /\ jobs'[j].log = jobs[j].log
                         /\ \/ jobs'[j].status = jobs[j].status
                            \/ jobs'[j].status = "UNKNOWN"
  BY <1>1, <1>2 DEF AfterStale, Job
<1>7. FaxTypeOK'
  BY <1>2, <1>5, <1>6 DEF FaxInv, FaxTypeOK
<1>8. RequestsInOrder' /\ ChangedHasLog' /\ MarksInOrder'
  <2>1. RequestsInOrder'
    BY <1>2, <1>6 DEF FaxInv, RequestsInOrder
  <2>2. ChangedHasLog'
    BY <1>2, <1>4, <1>5 DEF ChangedHasLog
  <2>3. MarksInOrder'
    BY <1>1, <1>2, <1>5 DEF FaxInv, MarksInOrder, InTheInbox, ScanInOrder, Used
  <2> QED
    BY <2>1, <2>2, <2>3
<1>9. ShowsItsOwn => ShowsItsOwn'
  BY <1>2, <1>5, <1>6 DEF ShowsItsOwn, IsOwn, Used
<1> QED
  BY <1>7, <1>8, <1>9 DEF FaxInv

\* A job that a run finds or reads again in the log.
LEMMA ChangedKeeps ==
  ASSUME FaxInv, NEW j \in Jobs, NEW l \in LogIds,
         UNCHANGED <<jobs, logs>>, tracker' \in Run,
         tracker'.known \subseteq tracker.known,
         tracker'.changed = Change(j, Applied(jobs[j], l))
  PROVE  /\ ChangedHasLog'
         /\ ShowsItsOwn /\ l \in Used /\ logs[l].job = j => ShowsItsOwn'
<1> DEFINE job == Applied(jobs[j], l)
<1>1. jobs[j] \in Job /\ tracker \in Run
  BY DEF FaxInv, FaxTypeOK
<1>2. /\ job \in Job /\ job.log = l /\ job.status # "NONE"
      /\ job.status = "SENT" => logs[l].state = "sent"
  BY <1>1, AppliedType
<1> HIDE DEF job
<1>3. /\ DOMAIN Change(j, job) = DOMAIN tracker.changed \cup {j}
      /\ Change(j, job)[j] = job
      /\ \A i \in DOMAIN tracker.changed \ {j} : Change(j, job)[i] = tracker.changed[i]
  BY <1>1, <1>2, ChangeType
<1>4. tracker'.changed = Change(j, job)
  BY DEF job
<1>5. l # NoLog
  BY NoIds
<1>6. ChangedHasLog'
  BY <1>2, <1>3, <1>4, <1>5 DEF FaxInv, ChangedHasLog
<1>7. ASSUME ShowsItsOwn, l \in Used, logs[l].job = j PROVE ShowsItsOwn'
  <2>1. Used' = Used
    BY DEF Used
  <2>2. \A i \in DOMAIN tracker'.changed : IsOwn(tracker'.changed[i], i)
    BY <1>2, <1>3, <1>4, <1>5, <1>7 DEF ShowsItsOwn, IsOwn
  <2> QED
    BY <1>7, <2>1, <2>2 DEF ShowsItsOwn, IsOwn
<1> QED
  BY <1>6, <1>7

\* A log that was found before is read again.
LEMMA ReadKnownKeeps ==
  ASSUME FaxInv, ReadKnown
  PROVE  FaxInv' /\ (ShowsItsOwn => ShowsItsOwn')
<1>1. PICK j \in tracker.known :
        tracker' = [tracker EXCEPT !.known = @ \ {j},
                      !.changed = Change(j, Applied(jobs[j], jobs[j].log))]
  BY DEF ReadKnown
<1>2. /\ tracker \in Run /\ tracker.pc = "known"
      /\ UNCHANGED <<jobs, reply, pbx, logs, cursor, filled, inbox, fetch, faults>>
  BY DEF ReadKnown, FaxInv, FaxTypeOK
<1>3. j \in Jobs /\ jobs[j] \in Job /\ jobs[j].log \in LogIds
  BY <1>2 DEF FaxInv, FaxTypeOK, ChangedHasLog, Run, Job
<1>4. Change(j, Applied(jobs[j], jobs[j].log)) \in Changes
  BY <1>2, <1>3, AppliedType, ChangeType
<1>5. /\ tracker' \in Run /\ tracker'.known \subseteq tracker.known
      /\ tracker'.pc = "known" /\ tracker'.cursor = tracker.cursor
      /\ tracker'.next = tracker.next
      /\ tracker'.changed = Change(j, Applied(jobs[j], jobs[j].log))
  BY <1>1, <1>2, <1>4 DEF Run
<1>6. ChangedHasLog'
  BY <1>2, <1>3, <1>5, ChangedKeeps
<1>7. FaxInv'
  BY <1>2, <1>5, <1>6, RunMoves DEF FaxInv, FaxTypeOK, MarksInOrder, ScanInOrder
<1>8. ASSUME ShowsItsOwn PROVE ShowsItsOwn'
  <2>1. jobs[j].log \in Used /\ logs[jobs[j].log].job = j
    BY <1>3, <1>8, NoIds DEF ShowsItsOwn, IsOwn
  <2> QED
    BY <1>2, <1>3, <1>5, <1>8, <2>1, ChangedKeeps
<1> QED
  BY <1>7, <1>8

\* An entry of the log that is matched belongs to the job, if no two faxes go
\* to one number.
LEMMA MatchIsOwn ==
  ASSUME FaxTypeOK, DistinctNumbers, NEW l \in Used, NEW early \in SUBSET Young,
         NEW j \in MatchJob(l, early)
  PROVE  logs[l].job = j
<1>1. l \in LogIds /\ logs[l].job \in Jobs \cup {NoJob} /\ tracker.unmatched \subseteq Jobs
  BY DEF Used, FaxTypeOK, Entry, Run
<1>2. CASE j \in Candidates(l, early)
  BY <1>1, <1>2 DEF Candidates, DistinctNumbers
<1> QED
  BY <1>2 DEF MatchJob

\* The scan reads one id.
LEMMA ReadNextKeeps ==
  ASSUME FaxInv, NEW early \in SUBSET Young, ReadNext(early)
  PROVE  FaxInv' /\ (DistinctNumbers /\ ShowsItsOwn => ShowsItsOwn')
<1> DEFINE l == tracker.next
           found == [tracker EXCEPT !.misses = 0, !.cursor = l,
                                    !.next = l + 1, !.reads = @ + 1]
<1>1. /\ tracker \in Run /\ tracker.pc = "known" /\ l \in Nat
      /\ UNCHANGED <<jobs, reply, pbx, logs, cursor, filled, inbox, fetch, faults>>
  BY DEF ReadNext, FaxInv, FaxTypeOK, Run
<1>2. /\ found \in Run /\ found.pc = "known" /\ found.cursor = l /\ found.next = l + 1
      /\ found.known = tracker.known /\ found.changed = tracker.changed
      /\ found.unmatched = tracker.unmatched /\ found.new = tracker.new
  <2> DEFINE n == l + 1
            r == tracker.reads + 1
  <2>1. n \in Nat /\ r \in Nat
    BY <1>1 DEF Run
  <2>2. found = [tracker EXCEPT !.misses = 0, !.cursor = l, !.next = n, !.reads = r]
    OBVIOUS
  <2> HIDE DEF found, n, r
  <2>3. /\ found \in Run /\ found.pc = tracker.pc /\ found.cursor = l /\ found.next = n
        /\ found.known = tracker.known /\ found.changed = tracker.changed
        /\ found.unmatched = tracker.unmatched /\ found.new = tracker.new
    BY <1>1, <2>1, <2>2 DEF Run
  <2> QED
    BY <1>1, <2>3 DEF n
<1>3. /\ tracker.cursor \in Used \cup {0} /\ Used \subseteq LogIds /\ faults \in Nat
      /\ cursor <= tracker.cursor /\ tracker.cursor < l
      /\ cursor <= l /\ l < l + 1 /\ l <= l + 1 /\ tracker.cursor < l + 1
  <2>1. cursor \in Nat /\ tracker.cursor \in Nat
    BY <1>1 DEF FaxInv, FaxTypeOK, Run
  <2> QED
    BY <1>1, <2>1 DEF FaxInv, FaxTypeOK, MarksInOrder, ScanInOrder, Used
<1>4. ASSUME tracker'.known = tracker.known, tracker'.changed = tracker.changed
      PROVE  ChangedHasLog' /\ (ShowsItsOwn => ShowsItsOwn')
  BY <1>1, <1>4 DEF FaxInv, ChangedHasLog, ShowsItsOwn, IsOwn, Used
<1>5. CASE l \notin Used
  <2>1. tracker' = [EmptyId(tracker) EXCEPT !.misses = @ + 1, !.reads = @ + 1]
    BY <1>5 DEF ReadNext
  <2>2. /\ tracker' \in Run /\ tracker'.pc = "known" /\ tracker'.cursor = tracker.cursor
        /\ tracker'.next = l + 1
        /\ tracker'.known = tracker.known /\ tracker'.changed = tracker.changed
    <3> DEFINE m == tracker.misses + 1
               n == l + 1
               r == tracker.reads + 1
    <3>1. m \in Nat /\ n \in Nat /\ r \in Nat
      BY <1>1 DEF Run
    <3>2. tracker' = [tracker EXCEPT !.next = n, !.misses = m, !.reads = r]
      BY <1>1, <2>1 DEF EmptyId, Run
    <3> HIDE DEF m, r
    <3> QED
      BY <1>1, <3>1, <3>2 DEF Run
  <2> QED
    BY <1>1, <1>3, <1>4, <2>2, RunMoves
<1>6. CASE l \in Used /\ logs[l].kind = "in"
  <2> HIDE DEF found
  <2>1. tracker' = [found EXCEPT !.new = Recorded(l)]
    BY <1>6 DEF ReadNext, found
  <2>2. Recorded(l) \in SUBSET LogIds
    BY <1>1, <1>3, <1>6 DEF Recorded, Run
  <2>3. /\ tracker' \in Run /\ tracker'.pc = "known" /\ tracker'.cursor = l
        /\ tracker'.next = l + 1
        /\ tracker'.known = tracker.known /\ tracker'.changed = tracker.changed
    BY <1>2, <2>1, <2>2 DEF Run
  <2> QED
    BY <1>1, <1>3, <1>4, <1>6, <2>3, RunMoves
<1>7. CASE l \in Used /\ logs[l].kind # "in" /\ MatchJob(l, early) = {}
  <2>1. tracker' = found
    BY <1>7 DEF ReadNext
  <2> HIDE DEF found
  <2> QED
    BY <1>1, <1>2, <1>3, <1>4, <1>7, <2>1, RunMoves
<1>8. CASE l \in Used /\ logs[l].kind # "in" /\ MatchJob(l, early) # {}
  <2> HIDE DEF found
  <2>1. PICK j \in MatchJob(l, early) :
          tracker' = [found EXCEPT !.unmatched = @ \ {j},
                                   !.changed = Change(j, Applied(jobs[j], l))]
    BY <1>8 DEF ReadNext, found
  <2>2. j \in Jobs /\ l \in LogIds /\ jobs[j] \in Job
    BY <1>1, <1>3, <1>8, <2>1 DEF MatchJob, Candidates, Run, FaxInv, FaxTypeOK
  <2>3. Change(j, Applied(jobs[j], l)) \in Changes
    BY <1>1, <2>2, AppliedType, ChangeType
  <2>4. /\ tracker' \in Run /\ tracker'.pc = "known" /\ tracker'.cursor = l
        /\ tracker'.next = l + 1
        /\ tracker'.known = tracker.known
        /\ tracker'.changed = Change(j, Applied(jobs[j], l))
    BY <1>2, <2>1, <2>3 DEF Run
  <2>5. ChangedHasLog'
    BY <1>1, <2>2, <2>4, ChangedKeeps
  <2>6. FaxInv'
    BY <1>1, <1>3, <1>8, <2>4, <2>5, RunMoves
  <2>7. DistinctNumbers => logs[l].job = j
    BY <1>8, MatchIsOwn DEF FaxInv
  <2>8. DistinctNumbers /\ ShowsItsOwn => ShowsItsOwn'
    BY <1>1, <1>8, <2>2, <2>4, <2>7, ChangedKeeps
  <2> QED
    BY <2>6, <2>8
<1> QED
  BY <1>5, <1>6, <1>7, <1>8

\* A run over the jobs it changed.
LEMMA OverrideKeeps ==
  ASSUME FaxInv, jobs' = Override(tracker.changed), UNCHANGED logs,
         DOMAIN tracker'.changed = {}
  PROVE  /\ \A j \in Jobs :
              jobs'[j] = jobs[j] \/ (jobs'[j].log # NoLog /\ jobs'[j].status # "NONE")
         /\ ShowsItsOwn => ShowsItsOwn'
<1>1. \A j \in Jobs : \/ /\ j \in DOMAIN tracker.changed
                         /\ jobs'[j] = tracker.changed[j]
                      \/ jobs'[j] = jobs[j]
  BY OverrideType DEF FaxInv
<1>2. Used' = Used
  BY DEF Used
<1>3. ShowsItsOwn => ShowsItsOwn'
  BY <1>1, <1>2 DEF ShowsItsOwn, IsOwn
<1> QED
  BY <1>1, <1>3 DEF FaxInv, ChangedHasLog

\* The scan commits jobs, faxes and cursor.
LEMMA CommitScanKeeps ==
  ASSUME FaxInv, CommitScan
  PROVE  FaxInv' /\ (ShowsItsOwn => ShowsItsOwn')
<1>1. /\ tracker \in Run /\ tracker.pc = "known" /\ filled \in Nat
      /\ jobs' = Override(tracker.changed) /\ inbox' = RecordedRows(tracker.new)
      /\ cursor' = tracker.cursor
      /\ tracker' = [IdleTracker EXCEPT !.pc = "backfill", !.next = filled + 1,
                                        !.unmatched = tracker.unmatched]
      /\ UNCHANGED <<reply, pbx, logs, filled, fetch, faults>>
  BY DEF CommitScan, FaxInv, FaxTypeOK
<1>2. /\ tracker' \in Run /\ tracker'.known = {} /\ DOMAIN tracker'.changed = {}
      /\ tracker'.pc = "backfill" /\ tracker'.next = filled + 1
  <2> DEFINE n == filled + 1
            u == tracker.unmatched
  <2>1. n \in Nat /\ u \in SUBSET Jobs
    BY <1>1 DEF Run
  <2>2. tracker' = [IdleTracker EXCEPT !.pc = "backfill", !.next = n, !.unmatched = u]
    BY <1>1
  <2> HIDE DEF n, u
  <2>3. /\ tracker' \in Run /\ tracker'.known = {} /\ tracker'.pc = "backfill"
        /\ tracker'.next = n /\ tracker'.changed = IdleTracker.changed
    BY <2>1, <2>2, IdleTypes DEF Run
  <2> QED
    BY <2>3, IdleTypes DEF n
<1>3. /\ \A j \in Jobs :
           jobs'[j] = jobs[j] \/ (jobs'[j].log # NoLog /\ jobs'[j].status # "NONE")
      /\ ShowsItsOwn => ShowsItsOwn'
  BY <1>1, <1>2, OverrideKeeps
<1>4. jobs' \in [Jobs -> Job]
  BY <1>1, OverrideType DEF FaxInv
<1>5. /\ inbox' \in [LogIds -> InboxRow]
      /\ \A l \in LogIds : inbox[l] # NoRow => inbox'[l] # NoRow
  BY <1>1, RecordedType DEF FaxInv, Run
<1>6. filled <= cursor'
  BY <1>1 DEF FaxInv, FaxTypeOK, MarksInOrder, ScanInOrder, Run
<1>7. FaxInv'
  BY <1>1, <1>2, <1>3, <1>4, <1>5, <1>6, RunCommits
<1> QED
  BY <1>3, <1>7

\* backfill looks at one id more.
LEMMA ReadAgainKeeps ==
  ASSUME FaxInv, ReadAgain
  PROVE  FaxInv' /\ (ShowsItsOwn => ShowsItsOwn')
<1> DEFINE new == IF tracker.next \in Used /\ logs[tracker.next].kind = "in"
                  THEN Recorded(tracker.next) ELSE tracker.new
           n == tracker.next + 1
<1>1. /\ tracker \in Run /\ tracker.pc = "backfill" /\ tracker.next <= BackfillUpTo
      /\ tracker.next \in Nat /\ faults \in Nat
      /\ UNCHANGED <<jobs, reply, pbx, logs, cursor, filled, inbox, fetch, faults>>
  BY DEF ReadAgain, FaxInv, FaxTypeOK, Run
<1>2. tracker' = [tracker EXCEPT !.next = n, !.new = new]
  BY DEF ReadAgain
<1>3. new \in SUBSET LogIds /\ tracker.new \subseteq new /\ n \in Nat
  BY <1>1 DEF Recorded, Run, Used
<1>4. tracker.next \in LogIds => InTheInbox(tracker.next) \/ tracker.next \in new
  <2>1. ASSUME tracker.next \in LogIds, logs[tracker.next].kind = "in"
        PROVE  tracker.next \in Used
    BY <2>1 DEF Used, NoEntry
  <2> QED
    BY <2>1 DEF InTheInbox, Recorded
<1>5. \A l \in LogIds : l < n => l < tracker.next \/ l = tracker.next
  BY <1>1, FaxAssumption DEF LogIds
<1> HIDE DEF new, n
<1>6. /\ tracker' \in Run /\ tracker'.pc = "backfill" /\ tracker'.next = n
      /\ tracker'.new = new /\ tracker'.known = tracker.known
      /\ tracker'.changed = tracker.changed
  BY <1>1, <1>2, <1>3 DEF Run
<1>7. FaxTypeOK' /\ RequestsInOrder' /\ ChangedHasLog'
  <2>1. FaxTypeOK'
    BY <1>1, <1>6 DEF FaxInv, FaxTypeOK
  <2> QED
    BY <1>1, <1>6, <2>1 DEF FaxInv, RequestsInOrder, ChangedHasLog
<1>8. MarksInOrder'
  <2>1. BackfillUpTo' = BackfillUpTo /\ Used' = Used
    BY <1>1 DEF BackfillUpTo, Used
  <2>2. ASSUME NEW l \in LogIds, l < n, l <= BackfillUpTo PROVE InTheInbox(l) \/ l \in new
    BY <1>1, <1>3, <1>4, <1>5, <2>2 DEF FaxInv, MarksInOrder
  <2> QED
    BY <1>1, <1>6, <2>1, <2>2 DEF FaxInv, MarksInOrder, InTheInbox
<1>9. ShowsItsOwn => ShowsItsOwn'
  BY <1>1, <1>6 DEF ShowsItsOwn, IsOwn, Used
<1> QED
  BY <1>7, <1>8, <1>9 DEF FaxInv

\* The mark is moved to the last id that backfill has read.
LEMMA EndTrackingKeeps ==
  ASSUME FaxInv, NEW sftp \in BOOLEAN, EndTracking(sftp)
  PROVE  FaxInv' /\ (ShowsItsOwn => ShowsItsOwn')
<1>1. /\ tracker \in Run /\ tracker.new \in SUBSET LogIds
      /\ cursor \in Nat /\ filled \in Nat /\ BackfillBatch \in Nat
      /\ tracker.next \in Nat /\ LogIds \subseteq Nat /\ faults \in Nat
  BY FaxAssumption DEF FaxInv, FaxTypeOK, Run, LogIds
<1>2. /\ tracker.pc = "backfill" /\ tracker.next > BackfillUpTo
      /\ inbox' = RecordedRows(tracker.new)
      /\ filled' = IF cursor > filled THEN BackfillUpTo ELSE filled
      /\ jobs' = [j \in Jobs |-> IF PastDeadline(j)
                                 THEN [jobs[j] EXCEPT !.status = "UNKNOWN"] ELSE jobs[j]]
      /\ tracker' = IdleTracker
      /\ UNCHANGED <<reply, pbx, logs, cursor, faults>>
  BY DEF EndTracking
<1>3. /\ inbox' \in [LogIds -> InboxRow]
      /\ \A l \in tracker.new : inbox'[l] # NoRow
      /\ \A l \in LogIds : inbox[l] # NoRow => inbox'[l] # NoRow
  BY <1>1, <1>2, RecordedType DEF FaxInv
<1>4. /\ jobs' \in [Jobs -> Job]
      /\ \A j \in Jobs : /\ jobs'[j].log = jobs[j].log
                         /\ jobs'[j] = jobs[j] \/ jobs'[j].status = "UNKNOWN"
  BY <1>2 DEF FaxInv, FaxTypeOK, Job
<1>5. /\ fetch' \in [Fetchers -> FetchRun]
      /\ \A r \in Fetchers :
           fetch'[r].row # NoLog => fetch'[r].row \in DOMAIN fetch'[r].held
  <2> DEFINE held == [l \in Pending(inbox') |-> inbox'[l].attempts]
             run == IF sftp THEN Fetch(held) ELSE IdleFetch
  <2>1. held \in [Pending(inbox') -> Nat] /\ Pending(inbox') \in SUBSET LogIds
    BY <1>3 DEF Pending, InboxRow
  <2>2. held \in Held
    BY <2>1 DEF Held
  <2> HIDE DEF held
  <2>3. run \in FetchRun /\ (run.row # NoLog => run.row \in DOMAIN run.held)
    BY <2>2, FetchType, IdleTypes
  <2>4. fetch' = [fetch EXCEPT ![Loop] = run]
    BY DEF EndTracking, held
  <2> HIDE DEF run
  <2> QED
    BY <2>3, <2>4 DEF FaxInv, FaxTypeOK
<1>6. BackfillUpTo \in Nat /\ BackfillUpTo <= cursor
  BY <1>1 DEF BackfillUpTo
<1>7. filled' \in Nat /\ filled' <= cursor
  BY <1>1, <1>2, <1>6 DEF FaxInv, MarksInOrder
<1>8. FaxTypeOK'
  BY <1>1, <1>2, <1>3, <1>4, <1>5, <1>7, IdleTypes DEF FaxInv, FaxTypeOK
<1>9. RequestsInOrder' /\ ChangedHasLog'
  <2>1. RequestsInOrder'
    BY <1>2, <1>4 DEF FaxInv, RequestsInOrder
  <2> QED
    BY <1>2, <2>1, IdleTypes DEF ChangedHasLog
<1>10. MarksInOrder'
  <2>1. ASSUME NEW l \in LogIds, l <= filled' PROVE InTheInbox(l)'
    <3>1. CASE l <= filled
      BY <1>2, <1>3, <3>1 DEF FaxInv, MarksInOrder, InTheInbox
    <3>2. CASE ~ (l <= filled)
      <4>1. l <= BackfillUpTo /\ l < tracker.next
        BY <1>1, <1>2, <1>6, <2>1, <3>2
      <4>2. InTheInbox(l) \/ l \in tracker.new
        BY <1>2, <4>1 DEF FaxInv, MarksInOrder
      <4> QED
        BY <1>2, <1>3, <4>2 DEF InTheInbox
    <3> QED
      BY <3>1, <3>2
  <2>2. tracker'.pc = "idle" /\ Used' = Used
    BY <1>2, IdleTypes DEF Used
  <2> QED
    BY <1>2, <1>7, <2>1, <2>2 DEF FaxInv, MarksInOrder
<1>11. ShowsItsOwn => ShowsItsOwn'
  BY <1>2, <1>4, IdleTypes DEF ShowsItsOwn, IsOwn, Used
<1> QED
  BY <1>8, <1>9, <1>10, <1>11 DEF FaxInv

\* A failed run leaves what it changed, and that is committed later.
LEMMA FailsKeeps ==
  ASSUME FaxInv, NEW written \in BOOLEAN, TrackingFails(written)
  PROVE  FaxInv' /\ (ShowsItsOwn => ShowsItsOwn')
<1>1. /\ tracker \in Run /\ faults' \in Nat
      /\ UNCHANGED <<jobs, reply, pbx, logs, cursor, filled, inbox, fetch>>
  BY DEF TrackingFails, FaxInv, FaxTypeOK
<1>2. CASE tracker' = IdleTracker
  <2>1. ChangedHasLog' /\ tracker' \in Run /\ tracker'.pc = "idle"
    BY <1>2, IdleTypes DEF ChangedHasLog
  <2>2. FaxInv'
    BY <1>1, <2>1, RunMoves
  <2> QED
    BY <1>1, <1>2, <2>2, IdleTypes DEF ShowsItsOwn, IsOwn, Used
<1>3. CASE tracker' = [IdleTracker EXCEPT !.pc = "left", !.new = tracker.new,
                                          !.changed = tracker.changed]
  <2>1. /\ tracker' \in Run /\ tracker'.pc = "left" /\ tracker'.known = {}
        /\ tracker'.changed = tracker.changed
    BY <1>1, <1>3, IdleTypes DEF Run
  <2>2. ChangedHasLog'
    BY <2>1 DEF FaxInv, ChangedHasLog
  <2>3. FaxInv'
    BY <1>1, <2>1, <2>2, RunMoves
  <2> QED
    BY <1>1, <2>1, <2>3 DEF ShowsItsOwn, IsOwn, Used
<1> QED
  BY <1>2, <1>3 DEF TrackingFails

\* What a failed run left is committed without the cursor.
LEMMA CommitLeftKeeps ==
  ASSUME FaxInv, CommitLeft
  PROVE  FaxInv' /\ (ShowsItsOwn => ShowsItsOwn')
<1>1. /\ jobs' = Override(tracker.changed) /\ inbox' = RecordedRows(tracker.new)
      /\ tracker' = IdleTracker /\ tracker.new \in SUBSET LogIds
      /\ UNCHANGED <<reply, pbx, logs, cursor, filled, fetch, faults>>
  BY DEF CommitLeft, FaxInv, FaxTypeOK, Run
<1>2. /\ tracker' \in Run /\ tracker'.known = {} /\ DOMAIN tracker'.changed = {}
      /\ tracker'.pc = "idle"
  BY <1>1, IdleTypes
<1>3. /\ \A j \in Jobs :
           jobs'[j] = jobs[j] \/ (jobs'[j].log # NoLog /\ jobs'[j].status # "NONE")
      /\ ShowsItsOwn => ShowsItsOwn'
  BY <1>1, <1>2, OverrideKeeps
<1>4. jobs' \in [Jobs -> Job]
  BY <1>1, OverrideType DEF FaxInv
<1>5. /\ inbox' \in [LogIds -> InboxRow]
      /\ \A l \in LogIds : inbox[l] # NoRow => inbox'[l] # NoRow
  BY <1>1, RecordedType DEF FaxInv
<1>6. filled <= cursor'
  BY <1>1 DEF FaxInv, MarksInOrder
<1>7. FaxInv'
  BY <1>1, <1>2, <1>3, <1>4, <1>5, <1>6, RunCommits
<1> QED
  BY <1>3, <1>7

\* The inbox and the runs of fetch_pending move; no row goes away.
LEMMA InboxMoves ==
  ASSUME FaxInv, UNCHANGED <<jobs, reply, pbx, logs, cursor, filled, tracker>>,
         faults' \in Nat, inbox' \in [LogIds -> InboxRow],
         \A l \in LogIds : inbox[l] # NoRow => inbox'[l] # NoRow,
         fetch' \in [Fetchers -> FetchRun],
         \A r \in Fetchers :
           fetch'[r].row # NoLog => fetch'[r].row \in DOMAIN fetch'[r].held
  PROVE  FaxInv' /\ (ShowsItsOwn => ShowsItsOwn')
<1>1. FaxTypeOK'
  BY DEF FaxInv, FaxTypeOK
<1>2. RequestsInOrder' /\ ChangedHasLog' /\ MarksInOrder'
  BY DEF FaxInv, RequestsInOrder, ChangedHasLog, MarksInOrder, InTheInbox,
         ScanInOrder, Used, BackfillUpTo
<1>3. ShowsItsOwn => ShowsItsOwn'
  BY DEF ShowsItsOwn, IsOwn, Used
<1> QED
  BY <1>1, <1>2, <1>3 DEF FaxInv

\* A row that was tried is a row.
LEMMA FetchEndsKeeps ==
  ASSUME FaxInv, NEW r \in Fetchers, Fetched(r) \/ FetchFails(r)
  PROVE  FaxInv' /\ (ShowsItsOwn => ShowsItsOwn')
<1> DEFINE l == fetch[r].row
           held == fetch[r].held
           n == Attempts(r)
           rest == [k \in DOMAIN held \ {l} |-> held[k]]
<1>1. PICK status \in {"FETCHED", "FETCH_FAILED", inbox[l].status} :
        FetchEnds(r, [status |-> status, attempts |-> n])
  BY DEF Fetched, FetchFails
<1>2. fetch[r] \in FetchRun /\ l # NoLog /\ inbox \in [LogIds -> InboxRow]
  BY <1>1 DEF FetchEnds, FaxInv, FaxTypeOK
<1>3. l \in LogIds /\ l \in DOMAIN held
  BY <1>2 DEF FaxInv, FaxTypeOK, FetchRun
<1>4. PICK D \in SUBSET LogIds : held \in [D -> Nat]
  BY <1>2 DEF FetchRun, Held
<1>5. n \in Nat /\ n # 0
  BY <1>3, <1>4 DEF Attempts
<1> HIDE DEF n
<1>6. /\ [status |-> status, attempts |-> n] \in InboxRow
      /\ [status |-> status, attempts |-> n] # NoRow
  BY <1>2, <1>3, <1>5 DEF InboxRow, NoRow
<1>7. inbox' = [inbox EXCEPT ![l] = [status |-> status, attempts |-> n]]
  BY <1>1 DEF FetchEnds
<1>8. inbox' \in [LogIds -> InboxRow]
  BY <1>2, <1>6, <1>7
<1>9. \A k \in LogIds : inbox[k] # NoRow => inbox'[k] # NoRow
  BY <1>2, <1>6, <1>7
<1>10. rest \in Held
  <2>1. rest \in [D \ {l} -> Nat]
    BY <1>4
  <2> HIDE DEF rest
  <2> QED
    BY <2>1 DEF Held
<1>11. fetch' = [fetch EXCEPT ![r] = Fetch(rest)]
  BY <1>1 DEF FetchEnds
<1> HIDE DEF rest
<1>12. /\ fetch' \in [Fetchers -> FetchRun]
       /\ \A s \in Fetchers :
            fetch'[s].row # NoLog => fetch'[s].row \in DOMAIN fetch'[s].held
  BY <1>10, <1>11, FetchType DEF FaxInv, FaxTypeOK
<1>13. UNCHANGED <<jobs, reply, pbx, logs, cursor, filled, tracker>> /\ faults' \in Nat
  BY DEF Fetched, FetchFails, FaxInv, FaxTypeOK
<1> QED
  BY <1>8, <1>9, <1>12, <1>13, InboxMoves

\* An administrator asks again, or is turned away by the lock.
LEMMA RefetchKeeps ==
  ASSUME FaxInv, (\E l \in LogIds : StartRefetch(l)) \/ RefetchLocked
  PROVE  FaxInv' /\ (ShowsItsOwn => ShowsItsOwn')
<1>1. ASSUME NEW l \in LogIds, StartRefetch(l)
      PROVE  FaxInv' /\ (ShowsItsOwn => ShowsItsOwn')
  <2> DEFINE row == [status |-> "PENDING", attempts |-> 0]
             held == [k \in Pending(inbox') |-> inbox'[k].attempts]
  <2>1. /\ inbox' = [inbox EXCEPT ![l] = row] /\ faults' = faults + 1
        /\ fetch' = [fetch EXCEPT ![Refetch] = Fetch(held)]
        /\ UNCHANGED <<jobs, reply, pbx, logs, cursor, filled, tracker>>
    BY <1>1 DEF StartRefetch
  <2>2. row \in InboxRow /\ row # NoRow /\ faults' \in Nat
    BY <2>1 DEF InboxRow, NoRow, FaxInv, FaxTypeOK
  <2> HIDE DEF row
  <2>3. /\ inbox' \in [LogIds -> InboxRow]
        /\ \A k \in LogIds : inbox[k] # NoRow => inbox'[k] # NoRow
    BY <2>1, <2>2 DEF FaxInv, FaxTypeOK
  <2>4. held \in [Pending(inbox') -> Nat] /\ Pending(inbox') \in SUBSET LogIds
    BY <2>3 DEF Pending, InboxRow
  <2>5. held \in Held
    BY <2>4 DEF Held
  <2> HIDE DEF held
  <2>6. /\ fetch' \in [Fetchers -> FetchRun]
        /\ \A s \in Fetchers :
             fetch'[s].row # NoLog => fetch'[s].row \in DOMAIN fetch'[s].held
    BY <2>1, <2>5, FetchType DEF FaxInv, FaxTypeOK
  <2> QED
    BY <2>1, <2>2, <2>3, <2>6, InboxMoves
<1>2. CASE RefetchLocked
  <2>1. /\ fetch' = [fetch EXCEPT ![Refetch] = IdleFetch]
        /\ UNCHANGED <<jobs, reply, pbx, logs, cursor, filled, inbox, tracker, faults>>
    BY <1>2 DEF RefetchLocked
  <2>2. /\ fetch' \in [Fetchers -> FetchRun]
        /\ \A s \in Fetchers :
             fetch'[s].row # NoLog => fetch'[s].row \in DOMAIN fetch'[s].held
    BY <2>1, IdleTypes DEF FaxInv, FaxTypeOK
  <2>3. inbox' \in [LogIds -> InboxRow] /\ faults' \in Nat
    BY <2>1 DEF FaxInv, FaxTypeOK
  <2> QED
    BY <2>1, <2>2, <2>3, InboxMoves
<1> QED
  BY <1>1, <1>2

\* The stored rows, the cursor and the PBX survive a restart.
LEMMA RestartKeeps ==
  ASSUME FaxInv, Restart
  PROVE  FaxInv' /\ (ShowsItsOwn => ShowsItsOwn')
<1>1. /\ reply' = [j \in Jobs |-> "none"] /\ tracker' = IdleTracker
      /\ fetch' = [r \in Fetchers |-> IdleFetch] /\ faults' = faults + 1
      /\ UNCHANGED <<jobs, pbx, logs, cursor, filled, inbox>>
  BY DEF Restart
<1>2. /\ tracker' \in Run /\ tracker'.pc = "idle" /\ tracker'.known = {}
      /\ DOMAIN tracker'.changed = {}
  BY <1>1, IdleTypes
<1>3. FaxTypeOK'
  BY <1>1, <1>2, IdleTypes DEF FaxInv, FaxTypeOK
<1>4. RequestsInOrder' /\ ChangedHasLog' /\ MarksInOrder'
  <2>1. RequestsInOrder'
    BY <1>1 DEF FaxInv, RequestsInOrder
  <2>2. ChangedHasLog'
    BY <1>2 DEF ChangedHasLog
  <2>3. MarksInOrder'
    BY <1>1, <1>2 DEF FaxInv, MarksInOrder, InTheInbox, Used
  <2> QED
    BY <2>1, <2>2, <2>3
<1>5. ShowsItsOwn => ShowsItsOwn'
  BY <1>1, <1>2 DEF ShowsItsOwn, IsOwn, Used
<1> QED
  BY <1>3, <1>4, <1>5 DEF FaxInv

(***************************************************************************)
(* The theorems.                                                           *)
(***************************************************************************)
\* No job, an empty log and an empty inbox.
LEMMA FaxInitHolds == Init => FaxInv /\ ShowsItsOwn
<1> SUFFICES ASSUME Init PROVE FaxInv /\ ShowsItsOwn
  OBVIOUS
<1>1. /\ NewJob \in Job /\ NewJob.status = "NONE" /\ NewJob.log = NoLog
      /\ NoEntry \in Entry /\ NoRow \in InboxRow
  BY NoIds DEF NewJob, Job, NoEntry, Entry, NoRow, InboxRow, Fresh
<1>2. /\ jobs = [j \in Jobs |-> NewJob] /\ logs = [l \in LogIds |-> NoEntry]
      /\ reply = [j \in Jobs |-> "none"] /\ pbx = [j \in Jobs |-> "none"]
      /\ inbox = [l \in LogIds |-> NoRow] /\ tracker = IdleTracker
      /\ fetch = [r \in Fetchers |-> IdleFetch]
      /\ cursor = 0 /\ filled = 0 /\ faults = 0
  BY DEF Init
<1>3. FaxTypeOK
  BY <1>1, <1>2, IdleTypes DEF FaxTypeOK
<1>4. RequestsInOrder /\ ChangedHasLog
  BY <1>1, <1>2, IdleTypes DEF RequestsInOrder, ChangedHasLog
<1>5. MarksInOrder
  <2>1. \A l \in LogIds : logs[l].kind # "in"
    BY <1>2 DEF NoEntry
  <2> QED
    BY <1>2, <2>1, IdleTypes DEF MarksInOrder, InTheInbox
<1>6. ShowsItsOwn
  BY <1>1, <1>2, IdleTypes DEF ShowsItsOwn, IsOwn
<1> QED
  BY <1>3, <1>4, <1>5, <1>6 DEF FaxInv

\* One step for each action of Next.
LEMMA FaxNextKeeps ==
  ASSUME FaxInv, [Next]_vars
  PROVE  FaxInv' /\ (DistinctNumbers /\ ShowsItsOwn => ShowsItsOwn')
<1>1. ASSUME NEW j \in Jobs,
             \/ \E configured \in BOOLEAN : Send(j, configured)
             \/ PbxTakes(j) \/ PbxRefuses(j) \/ PbxStarts(j)
             \/ \E file \in BOOLEAN : SubmitAccepted(j, file)
             \/ SubmitRefused(j) \/ SubmitUncertain(j)
             \/ Grows(j)
      PROVE  FaxInv' /\ (ShowsItsOwn => ShowsItsOwn')
  BY <1>1, SendKeeps, PbxAnswers, PbxLogs, SubmitKeeps, GrowsKeeps
<1>2. ASSUME NEW l \in LogIds,
             (\E state \in {"sent", "failed"} : PbxEnds(l, state)) \/ StartRefetch(l)
      PROVE  FaxInv' /\ (ShowsItsOwn => ShowsItsOwn')
  BY <1>2, PbxEndsKeeps, RefetchKeeps
<1>3. CASE PbxReceives \/ PbxSendsOther
  BY <1>3, PbxLogs
<1>4. CASE Track \/ EndTracking(FALSE)
  BY <1>4, StartKeeps, ReadKnownKeeps, CommitScanKeeps, ReadAgainKeeps, CommitLeftKeeps,
     ReadNextKeeps, EndTrackingKeeps DEF Track
<1>5. CASE \E written \in BOOLEAN : TrackingFails(written)
  BY <1>5, FailsKeeps
<1>6. CASE \E r \in Fetchers : Fetched(r) \/ FetchFails(r)
  BY <1>6, FetchEndsKeeps
<1>7. CASE RefetchLocked
  BY <1>7, RefetchKeeps
<1>8. CASE Restart
  BY <1>8, RestartKeeps
<1>9. CASE UNCHANGED vars
  <2>1. FaxTypeOK'
    BY <1>9 DEF vars, FaxInv, FaxTypeOK
  <2>2. RequestsInOrder' /\ ChangedHasLog' /\ MarksInOrder'
    BY <1>9 DEF vars, FaxInv, RequestsInOrder, ChangedHasLog, MarksInOrder, InTheInbox,
         ScanInOrder, Used, BackfillUpTo
  <2>3. ShowsItsOwn => ShowsItsOwn'
    BY <1>9 DEF vars, ShowsItsOwn, IsOwn, Used
  <2> QED
    BY <2>1, <2>2, <2>3 DEF FaxInv
<1> QED
  BY <1>1, <1>2, <1>3, <1>4, <1>5, <1>6, <1>7, <1>8, <1>9 DEF Next

\* Requests, runs and marks stay in order.
THEOREM FaxInvariance == Spec => []FaxInv
  BY FaxInitHolds, FaxNextKeeps, PTL DEF Spec

\* The variables of FaxTracking keep their types.
THEOREM FaxTypeCorrect == Spec => []FaxTypeOK
<1>1. FaxInv => FaxTypeOK
  BY DEF FaxInv
<1> QED
  BY FaxInvariance, <1>1, PTL

\* submit_job shows FAILED for a refusal only, and any other outcome as
\* UNKNOWN: a fax that failed without an entry of the log was not taken by the
\* PBX and will not be, for any number of jobs.
THEOREM RefusedWasNotFaxed == Spec => []RefusedIsNotFaxed
<1>1. FaxInv => RefusedIsNotFaxed
  BY DEF FaxInv, RequestsInOrder, RefusedIsNotFaxed
<1> QED
  BY FaxInvariance, <1>1, PTL

\* The scan and the backfill of track_fax_jobs: an incoming fax up to the mark
\* is in the inbox, whatever the log looked like when it was read, and
\* whichever runs failed.
THEOREM NoFaxIsSteppedOver == Spec => []NothingIsSteppedOver
<1>1. FaxInv => NothingIsSteppedOver
  BY DEF FaxInv, MarksInOrder, InTheInbox, NothingIsSteppedOver
<1> QED
  BY FaxInvariance, <1>1, PTL

\* _match_job and _apply_log: as long as no two faxes go to one number, the
\* log entry of a job is its own and SENT means that this entry was sent.
THEOREM ResultsAreTheirOwn ==
  ASSUME DistinctNumbers
  PROVE  Spec => []ResultIsItsOwn
<1>1. FaxInv /\ ShowsItsOwn /\ [Next]_vars => (FaxInv /\ ShowsItsOwn)'
  BY FaxNextKeeps
<1>2. FaxInv /\ ShowsItsOwn => ResultIsItsOwn
  BY DEF ShowsItsOwn, IsOwn, ResultIsItsOwn
<1> QED
  BY FaxInitHolds, <1>1, <1>2, PTL DEF Spec

(***************************************************************************)
(* The call list, for any calls, pages and days.  The cursor holds all     *)
(* that was shown of the last second (CursorTells), so what a request      *)
(* leaves out is what its range overlaps with the pages before; and the    *)
(* start of the list only moves on.                                        *)
(***************************************************************************)
CursorTells ==
  /\ \E c \in Shown : SecondOf[c] = nextCursor.ts
  /\ \A c \in Shown : SecondOf[c] >= nextCursor.ts
  /\ nextCursor.ids = {c \in Shown : SecondOf[c] = nextCursor.ts}

RequestFollows ==
  /\ request.seen = nextCursor.ids
  /\ pages # <<>> => request.to = nextCursor.ts

CallsTypeOK ==
  /\ inPbx \subseteq CallIds /\ IsFiniteSet(inPbx)
  /\ today \in Nat
  /\ request.from \in Nat /\ request.to \in Nat
  /\ pages \in Seq(SUBSET inPbx)
  /\ atFirst \subseteq inPbx

CallsInv ==
  /\ CallsTypeOK
  /\ request.from <= FirstSecond(StartDay)
  /\ \A c \in inPbx : SecondOf[c] <= LastSecond(today)
  /\ pages = <<>> => nextCursor = NoCursor /\ atFirst = {}
  /\ stage = "closed" => pages = <<>>
  /\ pages # <<>> /\ stage # "end" => CursorTells
  /\ stage = "asking" => RequestFollows
  /\ PagesTileTheList

-----------------------------------------------------------------------------
LEMMA MinOfNumbers ==
  ASSUME NEW S \in SUBSET Nat, S # {}
  PROVE  Min(S) \in S /\ \A x \in S : Min(S) <= x
BY LeastMember DEF Min

LEMMA MinOfTwo ==
  ASSUME NEW a \in Nat, NEW b \in Nat
  PROVE  /\ Min({a, b}) \in Nat
         /\ Min({a, b}) = IF a <= b THEN a ELSE b
<1> DEFINE S == {a, b}
<1>1. S \in SUBSET Nat /\ S # {}
  OBVIOUS
<1>2. \A m : m \in S <=> m = a \/ m = b
  OBVIOUS
<1> HIDE DEF S
<1>3. Min(S) \in S /\ \A x \in S : Min(S) <= x
  BY <1>1, MinOfNumbers
<1>4. Min(S) \in Nat /\ Min(S) = IF a <= b THEN a ELSE b
  BY <1>1, <1>2, <1>3
<1> QED
  BY <1>4 DEF S

\* The bounds of a day only move on.
LEMMA DaysPass ==
  ASSUME NEW d \in Nat
  PROVE  /\ FirstSecond(d) \in Nat /\ LastSecond(d) \in Nat
         /\ FirstSecond(d) <= FirstSecond(d + 1) /\ LastSecond(d) <= LastSecond(d + 1)
<1>1. DaySeconds \in Nat /\ DaySeconds > 0
  BY CallPagesAssumption
<1>2. d * DaySeconds \in Nat /\ (d + 1) * DaySeconds = d * DaySeconds + DaySeconds
  BY <1>1
<1> QED
  BY <1>1, <1>2 DEF FirstSecond, LastSecond

LEMMA StartMovesOn ==
  ASSUME today \in Nat, today' = today + 1
  PROVE  /\ StartDay \in Nat /\ StartDay' \in Nat
         /\ FirstSecond(StartDay) <= FirstSecond(StartDay')
<1>1. DaysShown \in Nat
  BY CallPagesAssumption
<1>2. StartDay \in Nat /\ StartDay' \in {StartDay, StartDay + 1}
  BY <1>1 DEF StartDay
<1>3. FirstSecond(StartDay) \in Nat /\ FirstSecond(StartDay) <= FirstSecond(StartDay + 1)
  BY <1>2, DaysPass
<1> QED
  BY <1>2, <1>3

\* What a page adds.
LEMMA PageIsShown ==
  ASSUME CallsTypeOK, NEW page \in SUBSET inPbx, pages' = Append(pages, page)
  PROVE  /\ pages' \in Seq(SUBSET inPbx) /\ pages' # <<>>
         /\ Shown' = Shown \cup page
         /\ Shown \subseteq inPbx
         /\ DOMAIN pages' = DOMAIN pages \cup {Len(pages) + 1}
         /\ DOMAIN pages = 1..Len(pages) /\ Len(pages) \in Nat
         /\ \A i \in DOMAIN pages : pages'[i] = pages[i]
         /\ pages'[Len(pages) + 1] = page
<1>1. pages \in Seq(SUBSET inPbx) /\ Len(pages) \in Nat /\ DOMAIN pages = 1..Len(pages)
  BY DEF CallsTypeOK
<1>2. /\ pages' \in Seq(SUBSET inPbx) /\ pages' # <<>>
      /\ DOMAIN pages' = DOMAIN pages \cup {Len(pages) + 1}
      /\ \A i \in DOMAIN pages : pages'[i] = pages[i]
      /\ pages'[Len(pages) + 1] = page
  BY <1>1
<1>3. \A i \in DOMAIN pages : pages[i] \subseteq inPbx
  BY <1>1
<1>4. Shown' = Shown \cup page
  BY <1>2 DEF Shown
<1>5. Shown \subseteq inPbx
  BY <1>3 DEF Shown
<1> QED
  BY <1>1, <1>2, <1>4, <1>5

LEMMA CallsInitHolds == CallsInit => CallsInv
<1> SUFFICES ASSUME CallsInit PROVE CallsInv
  OBVIOUS
<1>1. StartDay = 0 /\ FirstSecond(0) = 0
  BY CallPagesAssumption DEF CallsInit, StartDay, FirstSecond
<1>2. IsFiniteSet({})
  BY FS_EmptySet
<1>3. CallsTypeOK
  BY <1>2 DEF CallsInit, CallsTypeOK
<1>4. PagesTileTheList
  BY DEF CallsInit, PagesTileTheList
<1> QED
  BY <1>1, <1>3, <1>4 DEF CallsInit, CallsInv

\* A call is recorded, or a day passes: what was shown and asked stays.
LEMMA PbxMoves ==
  ASSUME CallsInv, CallEnds \/ Midnight
  PROVE  CallsInv'
<1>1. UNCHANGED <<stage, nextCursor, request, pages, atFirst>> /\ inPbx \subseteq inPbx'
  BY DEF CallEnds, Midnight
<1>2. Shown' = Shown
  BY <1>1 DEF Shown
<1>3. PagesTileTheList'
  BY <1>1, <1>2 DEF CallsInv, PagesTileTheList
<1>4. /\ pages' # <<>> /\ stage' # "end" => CursorTells'
      /\ stage' = "asking" => RequestFollows'
  BY <1>1, <1>2 DEF CallsInv, CursorTells, RequestFollows
<1>5. inPbx' \subseteq CallIds /\ IsFiniteSet(inPbx')
  <2>1. CASE CallEnds
    BY <2>1, FS_AddElement DEF CallEnds, CallsInv, CallsTypeOK
  <2>2. CASE Midnight
    BY <2>2 DEF Midnight, CallsInv, CallsTypeOK
  <2> QED
    BY <2>1, <2>2
<1>6. pages \in Seq(SUBSET inPbx')
  <2>1. pages \in Seq(SUBSET inPbx)
    BY DEF CallsInv, CallsTypeOK
  <2> QED
    BY <1>1, <2>1
<1>7. today \in Nat /\ today' \in {today, today + 1}
  BY DEF CallEnds, Midnight, CallsInv, CallsTypeOK
<1>8. CallsTypeOK'
  BY <1>1, <1>5, <1>6, <1>7 DEF CallsInv, CallsTypeOK
<1>9. request.from <= FirstSecond(StartDay')
  <2>1. CASE today' = today
    BY <2>1 DEF CallsInv, StartDay
  <2>2. CASE today' = today + 1
    <3>1. /\ FirstSecond(StartDay) \in Nat /\ FirstSecond(StartDay') \in Nat
          /\ FirstSecond(StartDay) <= FirstSecond(StartDay')
      BY <1>7, <2>2, StartMovesOn, DaysPass
    <3>2. request.from \in Nat /\ request.from <= FirstSecond(StartDay)
      BY DEF CallsInv, CallsTypeOK
    <3> QED
      BY <3>1, <3>2
  <2> QED
    BY <1>7, <2>1, <2>2
<1>10. \A c \in inPbx' : SecondOf[c] <= LastSecond(today')
  <2>1. CASE CallEnds
    BY <2>1 DEF CallEnds, CallsInv
  <2>2. CASE Midnight
    <3> SUFFICES ASSUME NEW c \in inPbx PROVE SecondOf[c] <= LastSecond(today + 1)
      BY <2>2 DEF Midnight
    <3>1. SecondOf[c] \in Nat /\ SecondOf[c] <= LastSecond(today)
      BY CallPagesAssumption DEF CallsInv, CallsTypeOK
    <3>2. LastSecond(today) \in Nat /\ LastSecond(today + 1) \in Nat
          /\ LastSecond(today) <= LastSecond(today + 1)
      BY <1>7, DaysPass
    <3> QED
      BY <3>1, <3>2
  <2> QED
    BY <2>1, <2>2
<1> QED
  BY <1>1, <1>3, <1>4, <1>8, <1>9, <1>10 DEF CallsInv

\* The range of a request ends at the last call shown.
LEMMA ListIsAsked ==
  ASSUME CallsInv, OpenList \/ AskOlder
  PROVE  CallsInv'
<1>1. UNCHANGED <<inPbx, today, nextCursor, pages, atFirst>> /\ stage' # "closed" /\ stage' # "end"
  BY DEF OpenList, AskOlder
<1>2. Shown' = Shown /\ StartDay' = StartDay /\ stage # "end"
  BY <1>1 DEF Shown, StartDay, OpenList, AskOlder
<1>3. today \in Nat /\ StartDay \in Nat /\ FirstSecond(StartDay) \in Nat /\ LastSecond(today) \in Nat
  <2>1. today \in Nat /\ DaysShown \in Nat
    BY CallPagesAssumption DEF CallsInv, CallsTypeOK
  <2>2. StartDay \in Nat
    BY <2>1 DEF StartDay
  <2> QED
    BY <2>1, <2>2, DaysPass
<1>4. ASSUME pages # <<>>
      PROVE  /\ CursorTells /\ nextCursor.ts \in Nat
             /\ Min({LastSecond(today), nextCursor.ts}) = nextCursor.ts
  <2>1. CursorTells
    BY <1>2, <1>4 DEF CallsInv
  <2>2. PICK c \in Shown : SecondOf[c] = nextCursor.ts
    BY <2>1 DEF CursorTells
  <2>3. c \in inPbx
    BY DEF Shown, CallsInv, CallsTypeOK
  <2>4. SecondOf[c] \in Nat /\ SecondOf[c] <= LastSecond(today)
    BY <2>3, CallPagesAssumption DEF CallsInv, CallsTypeOK
  <2>5. Min({LastSecond(today), nextCursor.ts}) = nextCursor.ts
    BY <1>3, <2>2, <2>4, MinOfTwo
  <2> QED
    BY <2>1, <2>2, <2>4, <2>5
<1>5. \/ request' = request /\ stage' = "restart"
      \/ /\ stage' = "asking"
         /\ request'.from = FirstSecond(StartDay)
         /\ request'.to \in Nat
         /\ request'.seen = nextCursor.ids
         /\ pages # <<>> => request'.to = nextCursor.ts
  <2>1. CASE OpenList
    BY <1>3, <2>1 DEF OpenList, CallsInv, NoCursor
  <2>2. CASE AskOlder
    BY <1>3, <1>4, <2>2 DEF AskOlder, RangeAfter
  <2> QED
    BY <2>1, <2>2
<1>6. request'.from \in Nat /\ request'.to \in Nat
      /\ request.from <= request'.from /\ request'.from <= FirstSecond(StartDay)
      /\ request.from \in Nat
  BY <1>3, <1>5 DEF CallsInv, CallsTypeOK
<1>7. CallsTypeOK'
  BY <1>1, <1>6 DEF CallsInv, CallsTypeOK
<1>8. /\ pages' # <<>> => CursorTells'
      /\ stage' = "asking" => RequestFollows'
  BY <1>1, <1>2, <1>4, <1>5 DEF CursorTells, RequestFollows
<1>9. PagesTileTheList'
  <2>1. ASSUME NEW c \in atFirst, SecondOf[c] < request.from PROVE SecondOf[c] < request'.from
    <3>1. SecondOf[c] \in Nat
      BY CallPagesAssumption DEF CallsInv, CallsTypeOK
    <3> QED
      BY <1>6, <2>1, <3>1
  <2> QED
    BY <1>1, <1>2, <2>1 DEF CallsInv, PagesTileTheList
<1> QED
  BY <1>1, <1>2, <1>6, <1>7, <1>8, <1>9 DEF CallsInv

LEMMA PageFailsKeeps ==
  ASSUME CallsInv, PageFails
  PROVE  CallsInv'
<1>1. UNCHANGED <<inPbx, today, nextCursor, request, pages, atFirst>>
      /\ stage' = "failed" /\ stage = "asking"
  BY DEF PageFails
<1>2. Shown' = Shown /\ StartDay' = StartDay
  BY <1>1 DEF Shown, StartDay
<1> QED
  BY <1>1, <1>2 DEF CallsInv, CallsTypeOK, CursorTells, PagesTileTheList
\* The PBX returns as many as it has and was asked for, the newest.
LEMMA NewestOf ==
  ASSUME NEW S \in SUBSET CallIds, IsFiniteSet(S), NEW n \in Nat, NEW T \in Newest(S, n)
  PROVE  /\ T \subseteq S /\ IsFiniteSet(T)
         /\ \A c \in T, d \in S \ T : SecondOf[c] >= SecondOf[d]
         /\ Cardinality(T) < n => T = S
         /\ Cardinality(T) = n \/ Cardinality(T) = Cardinality(S)
         /\ Cardinality(T) <= n
         /\ Cardinality(S) <= n => T = S
         /\ Cardinality(T) \in Nat /\ Cardinality(S) \in Nat
<1>1. /\ T \subseteq S /\ Cardinality(T) = Min({n, Cardinality(S)})
      /\ \A c \in T, d \in S \ T : SecondOf[c] >= SecondOf[d]
  BY DEF Newest
<1>2. Cardinality(S) \in Nat
  BY FS_CardinalityType
<1>3. Cardinality(T) = IF n <= Cardinality(S) THEN n ELSE Cardinality(S)
  BY <1>1, <1>2, MinOfTwo
<1>4. IsFiniteSet(T) /\ (Cardinality(S) = Cardinality(T) => S = T)
  BY <1>1, FS_Subset
<1> QED
  BY <1>1, <1>2, <1>3, <1>4

LEMMA AnswerKeeps ==
  ASSUME CallsInv, AnswerPage
  PROVE  CallsInv'
<1> DEFINE seen == request.seen
<1>1. PICK fetched \in Newest(InRange, RowsToFetch(request)) :
        \E page \in Newest(fetched \ request.seen, Limit) :
          /\ pages' = Append(pages, page)
          /\ IF Cardinality(fetched \ request.seen) > Limit
             THEN /\ stage' = "listed"
                  /\ nextCursor' = NextCursor(page, request)
             ELSE stage' = "end" /\ UNCHANGED nextCursor
  BY DEF AnswerPage
<1> DEFINE rows == fetched \ seen
<1>2. PICK page \in Newest(rows, Limit) :
          /\ pages' = Append(pages, page)
          /\ IF Cardinality(rows) > Limit
             THEN /\ stage' = "listed"
                  /\ nextCursor' = NextCursor(page, request)
             ELSE stage' = "end" /\ UNCHANGED nextCursor
  BY <1>1
<1>3. /\ stage = "asking" /\ UNCHANGED <<inPbx, today, request>>
      /\ atFirst' = IF pages = <<>> THEN InRange ELSE atFirst
  BY DEF AnswerPage
<1>4. CallsTypeOK /\ RequestFollows /\ PagesTileTheList
      /\ (pages # <<>> => CursorTells)
      /\ (pages = <<>> => nextCursor = NoCursor /\ atFirst = {})
  BY <1>3 DEF CallsInv
<1>5. /\ InRange \subseteq inPbx /\ InRange \in SUBSET CallIds /\ IsFiniteSet(InRange)
      /\ \A c \in CallIds : SecondOf[c] \in Nat
  BY <1>4, FS_Subset, CallPagesAssumption DEF InRange, CallsTypeOK
<1>6. /\ Shown \subseteq inPbx /\ IsFiniteSet(inPbx)
      /\ pages = <<>> => Shown = {}
      /\ seen = IF pages = <<>> THEN {} ELSE {c \in Shown : SecondOf[c] = request.to}
      /\ \A c \in Shown : SecondOf[c] >= request.to
      /\ request.to \in Nat /\ request.from \in Nat
  <2>1. Shown \subseteq inPbx /\ IsFiniteSet(inPbx)
    BY <1>4 DEF Shown, CallsTypeOK
  <2>2. pages = <<>> => Shown = {}
    BY <1>4 DEF Shown, CallsTypeOK
  <2>3. pages = <<>> => seen = {}
    BY <1>4 DEF RequestFollows, NoCursor
  <2>4. pages # <<>> => /\ seen = {c \in Shown : SecondOf[c] = request.to}
                        /\ \A c \in Shown : SecondOf[c] >= request.to
    BY <1>4 DEF RequestFollows, CursorTells
  <2> QED
    BY <1>4, <2>1, <2>2, <2>3, <2>4 DEF CallsTypeOK
<1>7. IsFiniteSet(seen) /\ Cardinality(seen) \in Nat /\ seen \subseteq Shown
  <2>1. seen \subseteq Shown
    BY <1>6
  <2>2. IsFiniteSet(seen)
    BY <1>6, <2>1, FS_Subset
  <2> QED
    BY <2>1, <2>2, FS_CardinalityType
<1>8. Limit \in Nat /\ Limit > 0 /\ RowsToFetch(request) \in Nat
      /\ RowsToFetch(request) = Limit + Cardinality(seen) + 1
  BY <1>7, CallPagesAssumption DEF RowsToFetch
<1>9. /\ fetched \subseteq InRange /\ IsFiniteSet(fetched)
      /\ \A c \in fetched, d \in InRange \ fetched : SecondOf[c] >= SecondOf[d]
      /\ Cardinality(fetched) < RowsToFetch(request) => fetched = InRange
      /\ Cardinality(fetched) \in Nat
  BY <1>5, <1>8, NewestOf
<1>10. /\ rows \in SUBSET CallIds /\ IsFiniteSet(rows)
       /\ Cardinality(rows) \in Nat /\ Cardinality(fetched) <= Cardinality(rows) + Cardinality(seen)
  <2>1. rows \in SUBSET CallIds
    BY <1>5, <1>9
  <2>2. IsFiniteSet(rows) /\ Cardinality(rows) = Cardinality(fetched) - Cardinality(fetched \cap seen)
    BY <1>9, FS_Difference
  <2>3. IsFiniteSet(fetched \cap seen) /\ Cardinality(fetched \cap seen) <= Cardinality(seen)
    BY <1>7, FS_Intersection
  <2>4. Cardinality(rows) \in Nat /\ Cardinality(fetched \cap seen) \in Nat
    BY <2>2, <2>3, FS_CardinalityType
  <2> HIDE DEF rows, seen
  <2> QED
    BY <1>7, <1>9, <2>1, <2>2, <2>3, <2>4
<1>11. /\ page \subseteq rows /\ IsFiniteSet(page)
       /\ \A c \in page, d \in rows \ page : SecondOf[c] >= SecondOf[d]
       /\ Cardinality(rows) <= Limit => page = rows
       /\ Cardinality(rows) > Limit => Cardinality(page) = Limit
  <2> HIDE DEF rows
  <2>1. /\ page \subseteq rows /\ IsFiniteSet(page)
        /\ \A c \in page, d \in rows \ page : SecondOf[c] >= SecondOf[d]
        /\ Cardinality(page) = Limit \/ Cardinality(page) = Cardinality(rows)
        /\ Cardinality(page) <= Limit
        /\ Cardinality(rows) <= Limit => page = rows
    BY <1>2, <1>8, <1>10, NewestOf
  <2> QED
    BY <1>8, <1>10, <2>1
\* The page has what was not shown before, and nothing newer.
<1>12. /\ page \subseteq InRange /\ page \in SUBSET inPbx /\ page \cap Shown = {}
       /\ \A c \in page : SecondOf[c] <= request.to /\ SecondOf[c] >= request.from
  <2>1. page \subseteq InRange /\ page \cap seen = {}
    BY <1>9, <1>11
  <2>2. \A c \in page : SecondOf[c] <= request.to /\ SecondOf[c] >= request.from
    BY <2>1 DEF InRange
  <2>3. ASSUME NEW c \in page, c \in Shown PROVE FALSE
    <3>1. SecondOf[c] \in Nat /\ SecondOf[c] <= request.to /\ SecondOf[c] >= request.to
      BY <1>5, <1>6, <2>1, <2>2, <2>3
    <3>2. SecondOf[c] = request.to
      BY <1>6, <3>1
    <3>3. c \in seen
      BY <1>6, <2>3, <3>2
    <3> QED
      BY <2>1, <3>3
  <2> QED
    BY <1>5, <2>1, <2>2, <2>3
<1>13. /\ pages' \in Seq(SUBSET inPbx) /\ pages' # <<>>
       /\ Shown' = Shown \cup page
       /\ DOMAIN pages' = DOMAIN pages \cup {Len(pages) + 1}
       /\ DOMAIN pages = 1..Len(pages) /\ Len(pages) \in Nat
       /\ \A i \in DOMAIN pages : pages'[i] = pages[i] /\ pages[i] \subseteq Shown
       /\ pages'[Len(pages) + 1] = page
  <2>1. \A i \in DOMAIN pages : pages[i] \subseteq Shown
    BY DEF Shown
  <2> QED
    BY <1>2, <1>4, <1>12, <2>1, PageIsShown
<1> HIDE DEF rows, seen
<1>14. CallsTypeOK'
  BY <1>3, <1>4, <1>5, <1>13 DEF CallsTypeOK
<1>15. ASSUME Cardinality(rows) > Limit PROVE CursorTells'
  <2> DEFINE secs == {SecondOf[c] : c \in page}
             last == Min(secs)
  <2>1. page # {}
    BY <1>8, <1>11, <1>15, FS_EmptySet
  <2>2. secs \in SUBSET Nat /\ secs # {}
    BY <1>5, <1>12, <2>1
  <2>3. last \in secs /\ \A x \in secs : last <= x
    <3> HIDE DEF secs
    <3> QED
      BY <2>2, MinOfNumbers
  <2>4. /\ last \in Nat /\ \A c \in page : last <= SecondOf[c]
        /\ \E c \in page : SecondOf[c] = last
    BY <2>2, <2>3
  <2>5. /\ nextCursor'.ts = last
        /\ nextCursor'.ids = {c \in page : SecondOf[c] = last}
                               \cup (IF last = request.to THEN seen ELSE {})
    <3>1. nextCursor' = NextCursor(page, request)
      BY <1>2, <1>15
    <3>2. NextCursor(page, request)
            = [ts |-> last, ids |-> {c \in page : SecondOf[c] = last}
                                      \cup (IF last = request.to THEN seen ELSE {})]
      BY Zenon DEF NextCursor, seen
    <3> HIDE DEF last
    <3> QED
      BY <3>1, <3>2
  <2> HIDE DEF last
  <2>6. last <= request.to
    BY <1>5, <1>6, <1>12, <2>4
  <2>7. \A c \in Shown : SecondOf[c] \in Nat /\ SecondOf[c] >= last
    <3> SUFFICES ASSUME NEW c \in Shown PROVE SecondOf[c] \in Nat /\ SecondOf[c] >= last
      OBVIOUS
    <3>1. c \in CallIds
      BY <1>4, <1>6 DEF CallsTypeOK
    <3> QED
      BY <1>5, <1>6, <2>4, <2>6, <3>1
  <2>8. {c \in Shown : SecondOf[c] = last} = IF last = request.to THEN seen ELSE {}
    <3>1. CASE last = request.to
      BY <1>6, <3>1
    <3>2. CASE last # request.to
      BY <1>6, <2>4, <2>6, <2>7, <3>2
    <3> QED
      BY <3>1, <3>2
  <2>9. nextCursor'.ids = {c \in Shown' : SecondOf[c] = last}
    BY <1>13, <2>5, <2>8
  <2>10. \A c \in Shown' : SecondOf[c] >= last
    BY <1>13, <2>4, <2>7
  <2>11. \E c \in Shown' : SecondOf[c] = last
    BY <1>13, <2>4
  <2> QED
    BY <2>5, <2>9, <2>10, <2>11 DEF CursorTells
<1>16. \A i, j \in DOMAIN pages' :
         i < j => \A c \in pages'[i], d \in pages'[j] : c # d /\ SecondOf[c] >= SecondOf[d]
  <2> SUFFICES ASSUME NEW i \in DOMAIN pages', NEW j \in DOMAIN pages', i < j,
                      NEW c \in pages'[i], NEW d \in pages'[j]
               PROVE  c # d /\ SecondOf[c] >= SecondOf[d]
    OBVIOUS
  <2>1. i \in DOMAIN pages
    BY <1>13
  <2>2. CASE j \in DOMAIN pages
    BY <1>4, <1>13, <2>1, <2>2 DEF PagesTileTheList
  <2>3. CASE j = Len(pages) + 1
    <3>1. c \in Shown /\ d \in page
      BY <1>13, <2>1, <2>3
    <3>2. c \in CallIds /\ d \in CallIds
      BY <1>4, <1>6, <1>12, <3>1 DEF CallsTypeOK
    <3>3. SecondOf[c] >= request.to /\ request.to >= SecondOf[d]
      BY <1>6, <1>12, <3>1, <3>2, <1>5
    <3> QED
      BY <1>5, <1>6, <1>12, <3>1, <3>2, <3>3
  <2> QED
    BY <1>13, <2>2, <2>3
\* What of the range is not on the page, nor was shown, is older.
<1>17. ASSUME NEW c \in InRange, c \notin Shown'
       PROVE  Cardinality(rows) > Limit /\ \A d \in page : SecondOf[d] >= SecondOf[c]
  <2>1. c \notin seen /\ c \notin page
    BY <1>7, <1>13, <1>17
  <2>2. CASE c \in fetched
    <3>1. c \in rows
      BY <2>1, <2>2 DEF rows, seen
    <3> QED
      BY <1>8, <1>10, <1>11, <2>1, <3>1
  <2>3. CASE c \notin fetched
    <3>1. ~ (Cardinality(fetched) < RowsToFetch(request))
      BY <1>9, <2>3, <1>17
    <3>2. Cardinality(rows) > Limit
      BY <1>7, <1>8, <1>9, <1>10, <3>1
    <3>3. page \subseteq fetched
      BY <1>11 DEF rows
    <3> QED
      BY <1>9, <1>17, <2>3, <3>2, <3>3
  <2> QED
    BY <2>2, <2>3
<1>18. \A c \in atFirst' \ Shown' :
         \/ SecondOf[c] < request.from
         \/ /\ Cardinality(rows) > Limit
            /\ \A d \in Shown' : SecondOf[d] >= SecondOf[c]
  <2> SUFFICES ASSUME NEW c \in atFirst' \ Shown', ~ (SecondOf[c] < request.from)
               PROVE  /\ Cardinality(rows) > Limit
                      /\ \A d \in Shown' : SecondOf[d] >= SecondOf[c]
    OBVIOUS
  <2>1. CASE pages = <<>>
    <3>1. c \in InRange /\ Shown = {}
      BY <1>3, <1>6, <2>1
    <3> QED
      BY <1>13, <1>17, <3>1
  <2>2. CASE pages # <<>>
    <3>1. c \in atFirst \ Shown /\ c \in inPbx /\ c \in CallIds
      BY <1>3, <1>4, <1>13, <2>2 DEF CallsTypeOK
    <3>2. \A d \in Shown : SecondOf[d] >= SecondOf[c]
      BY <1>4, <3>1 DEF PagesTileTheList
    <3>3. \E d \in Shown : SecondOf[d] = request.to
      BY <1>4, <2>2 DEF CursorTells, RequestFollows
    <3>4. SecondOf[c] <= request.to /\ SecondOf[c] >= request.from
      BY <1>5, <1>6, <3>1, <3>2, <3>3
    <3>5. c \in InRange
      BY <3>1, <3>4 DEF InRange
    <3> QED
      BY <1>13, <1>17, <3>2, <3>5
  <2> QED
    BY <2>1, <2>2
<1>19. PagesTileTheList'
  <2>1. Cardinality(rows) > Limit => stage' # "end"
    BY <1>2 DEF rows, seen
  <2> QED
    BY <1>3, <1>16, <1>18, <2>1 DEF PagesTileTheList
<1>20. stage' \in {"listed", "end"} /\ (stage' # "end" => CursorTells')
  <2>1. Cardinality(rows) > Limit \/ stage' = "end"
    BY <1>2 DEF rows, seen
  <2>2. stage' \in {"listed", "end"}
    BY <1>2
  <2> QED
    BY <1>15, <2>1, <2>2
<1>21. StartDay' = StartDay
  BY <1>3 DEF StartDay
<1> QED
  BY <1>3, <1>13, <1>14, <1>19, <1>20, <1>21 DEF CallsInv

LEMMA CallsNextKeeps == CallsInv /\ [CallsNext]_callsVars => CallsInv'
<1>1. CallsInv /\ UNCHANGED callsVars => CallsInv'
  BY DEF callsVars, CallsInv, CallsTypeOK, CursorTells, RequestFollows, PagesTileTheList,
     Shown, StartDay
<1> QED
  BY <1>1, PbxMoves, ListIsAsked, AnswerKeeps, PageFailsKeeps DEF CallsNext

\* The cursor tells the last second shown and every call shown of it.
THEOREM CallsInvariance == CallsSpec => []CallsInv
BY CallsInitHolds, CallsNextKeeps, PTL DEF CallsSpec

\* list_calls: no call twice and none stepped over, whatever the order of
\* calls of one second, and however many of them there are.
THEOREM PagesTile == CallsSpec => []PagesTileTheList
<1>1. CallsInv => PagesTileTheList
  BY DEF CallsInv
<1> QED
  BY <1>1, CallsInvariance, PTL

-----------------------------------------------------------------------------
(***************************************************************************)
(* Sums over finite sets.  MapThenSumSet takes the members out of a set in *)
(* an order of its own; the lemmas show that any member may be taken out.  *)
(* They go by the smallest set, or number, for which a claim would fail.   *)
(***************************************************************************)
LEMMA SmallestSet ==
  ASSUME NEW S, IsFiniteSet(S), NEW B \in SUBSET SUBSET S, B # {}
  PROVE  \E s \in B : \A t \in SUBSET s : t # s => t \notin B
<1> DEFINE sizes == {Cardinality(s) : s \in B}
<1>1. ASSUME NEW s \in B PROVE IsFiniteSet(s) /\ Cardinality(s) \in Nat
  <2>1. IsFiniteSet(s)
    BY FS_Subset
  <2> QED
    BY <2>1, FS_CardinalityType
<1>2. sizes \in SUBSET Nat /\ sizes # {}
  BY <1>1
<1>3. PICK n \in sizes : \A k \in sizes : n <= k
  <2> HIDE DEF sizes
  <2> QED
    BY <1>2, LeastMember
<1>4. PICK s \in B : Cardinality(s) = n
  OBVIOUS
<1>5. ASSUME NEW t \in SUBSET s, t # s, t \in B PROVE FALSE
  <2>1. Cardinality(t) <= Cardinality(s) /\ (Cardinality(t) = Cardinality(s) => t = s)
    BY <1>1, FS_Subset
  <2>2. Cardinality(t) \in sizes
    BY <1>5
  <2>3. n <= Cardinality(t)
    <3> HIDE DEF sizes
    <3> QED
      BY <2>2, <1>3
  <2> QED
    BY <1>1, <1>4, <1>5, <2>1, <2>3
<1> QED
  BY <1>5

\* One step of a sum.
Summed(w, F, s) ==
  IF s = {} THEN 0 ELSE LET x == CHOOSE x \in s : TRUE IN w[x] + F[s \ {x}]

SumOf(w, S, F) == F = [s \in SUBSET S |-> Summed(w, F, s)]

LEMMA SumExists ==
  ASSUME NEW w, NEW S, IsFiniteSet(S)
  PROVE  \E F : SumOf(w, S, F)
<1> DEFINE upto(F, n) ==
             /\ F = [s \in SUBSET S |-> F[s]]
             /\ \A s \in SUBSET S : Cardinality(s) <= n => F[s] = Summed(w, F, s)
           bad == {n \in Nat : ~ \E F : upto(F, n)}
<1>1. ASSUME NEW s \in SUBSET S PROVE IsFiniteSet(s) /\ Cardinality(s) \in Nat
  <2>1. IsFiniteSet(s)
    BY FS_Subset
  <2> QED
    BY <2>1, FS_CardinalityType
<1>2. ASSUME NEW s \in SUBSET S, NEW x \in s
      PROVE  s \ {x} \in SUBSET S /\ Cardinality(s \ {x}) = Cardinality(s) - 1
  BY <1>1, FS_RemoveElement
<1>3. \A s \in SUBSET S : s # {} => (CHOOSE x \in s : TRUE) \in s
  OBVIOUS
<1>4. \E F : upto(F, 0)
  <2> DEFINE F == [s \in SUBSET S |-> 0]
  <2>1. ASSUME NEW s \in SUBSET S, Cardinality(s) <= 0 PROVE s = {}
    BY <1>1, <2>1, FS_EmptySet
  <2>2. \A s \in SUBSET S : Cardinality(s) <= 0 => F[s] = Summed(w, F, s)
    BY <2>1 DEF Summed
  <2>3. F = [s \in SUBSET S |-> F[s]]
    OBVIOUS
  <2> HIDE DEF F
  <2> QED
    BY <2>2, <2>3
<1>5. ASSUME NEW n \in Nat, NEW F, upto(F, n)
      PROVE  \E G : upto(G, n + 1)
  <2> DEFINE G == [s \in SUBSET S |-> IF Cardinality(s) = n + 1 THEN Summed(w, F, s) ELSE F[s]]
  <2>1. ASSUME NEW s \in SUBSET S, Cardinality(s) <= n + 1
        PROVE  Summed(w, G, s) = Summed(w, F, s)
    <3>1. CASE s = {}
      BY <3>1 DEF Summed
    <3>2. CASE s # {}
      <4> DEFINE x == CHOOSE x \in s : TRUE
      <4>1. x \in s
        BY <3>2
      <4> HIDE DEF x
      <4>2. s \ {x} \in SUBSET S /\ Cardinality(s \ {x}) <= n
        BY <4>1, <1>1, <1>2, <2>1
      <4>3. G[s \ {x}] = F[s \ {x}]
        BY <4>2, <1>1
      <4> HIDE DEF G
      <4> QED
        BY <4>3, <3>2 DEF Summed, x
    <3> QED
      BY <3>1, <3>2
  <2>2. ASSUME NEW s \in SUBSET S, Cardinality(s) <= n + 1 PROVE G[s] = Summed(w, F, s)
    <3>1. CASE Cardinality(s) = n + 1
      BY <3>1
    <3>2. CASE Cardinality(s) # n + 1
      <4>1. Cardinality(s) <= n
        BY <1>1, <2>2, <3>2
      <4> QED
        BY <4>1, <3>2, <1>5
    <3> QED
      BY <3>1, <3>2
  <2>3. G = [s \in SUBSET S |-> G[s]]
    OBVIOUS
  <2> HIDE DEF G
  <2> QED
    BY <2>1, <2>2, <2>3
<1> HIDE DEF upto
<1>6. bad = {}
  <2> SUFFICES ASSUME bad # {} PROVE FALSE
    OBVIOUS
  <2>1. PICK n \in bad : \A k \in bad : n <= k
    <3>1. bad \in SUBSET Nat
      OBVIOUS
    <3> HIDE DEF bad
    <3> QED
      BY <3>1, LeastMember
  <2>2. n \in Nat /\ n # 0
    BY <1>4
  <2>3. n - 1 \in Nat /\ n - 1 \notin bad /\ (n - 1) + 1 = n
    <3>1. n - 1 \in Nat /\ ~(n <= n - 1) /\ (n - 1) + 1 = n
      BY <2>2
    <3> QED
      BY <3>1, <2>1
  <2>4. PICK F : upto(F, n - 1)
    BY <2>3
  <2>5. \E G : upto(G, (n - 1) + 1)
    BY <2>3, <2>4, <1>5
  <2> QED
    BY <2>3, <2>5
<1>7. Cardinality(S) \in Nat /\ \A s \in SUBSET S : Cardinality(s) <= Cardinality(S)
  BY <1>1, FS_Subset
<1>8. PICK F : upto(F, Cardinality(S))
  BY <1>6, <1>7
<1>9. \A s \in SUBSET S : F[s] = Summed(w, F, s)
  BY <1>7, <1>8 DEF upto
<1>10. F = [s \in SUBSET S |-> F[s]]
  BY <1>8 DEF upto
<1> QED
  BY <1>9, <1>10 DEF SumOf

\* What one step takes out.
LEMMA SumStep ==
  ASSUME NEW w, NEW S, NEW F, SumOf(w, S, F), NEW s \in SUBSET S
  PROVE  /\ s = {} => F[s] = 0
         /\ s # {} => \E x \in s : F[s] = w[x] + F[s \ {x}]
<1>1. F[s] = Summed(w, F, s)
  BY DEF SumOf
<1>2. CASE s = {}
  BY <1>1, <1>2 DEF Summed
<1>3. CASE s # {}
  <2> DEFINE x == CHOOSE x \in s : TRUE
  <2>1. x \in s
    BY <1>3
  <2>2. F[s] = w[x] + F[s \ {x}]
    BY <1>1, <1>3 DEF Summed
  <2> HIDE DEF x
  <2> QED
    BY <1>3, <2>1, <2>2
<1> QED
  BY <1>2, <1>3

LEMMA SumSplits ==
  ASSUME NEW S, IsFiniteSet(S), NEW w, \A x \in S : w[x] \in Nat,
         NEW F, SumOf(w, S, F)
  PROVE  \A s \in SUBSET S : /\ F[s] \in Nat
                             /\ \A x \in s : F[s] = w[x] + F[s \ {x}]
<1> DEFINE ok(s) == F[s] \in Nat /\ \A x \in s : F[s] = w[x] + F[s \ {x}]
           bad == {s \in SUBSET S : ~ ok(s)}
<1> SUFFICES ASSUME bad # {} PROVE FALSE
  OBVIOUS
<1>1. PICK s \in bad : \A t \in SUBSET s : t # s => t \notin bad
  <2>1. bad \in SUBSET SUBSET S
    OBVIOUS
  <2> HIDE DEF bad
  <2> QED
    BY <2>1, SmallestSet
<1>2. s \in SUBSET S /\ ~ ok(s)
  OBVIOUS
<1>3. \A t \in SUBSET s : t # s => t \in SUBSET S /\ ok(t)
  BY <1>1, <1>2
<1>4. CASE s = {}
  BY <1>2, <1>4, SumStep
<1>5. CASE s # {}
  <2>1. PICK x \in s : F[s] = w[x] + F[s \ {x}]
    BY <1>2, <1>5, SumStep
  <2>2. F[s \ {x}] \in Nat /\ w[x] \in Nat
    <3>1. s \ {x} # s /\ s \ {x} \in SUBSET s
      OBVIOUS
    <3> QED
      BY <3>1, <1>2, <1>3
  <2>3. F[s] \in Nat
    BY <2>1, <2>2
  <2>4. ASSUME NEW y \in s PROVE F[s] = w[y] + F[s \ {y}]
    <3>1. CASE y = x
      BY <3>1, <2>1
    <3>2. CASE y # x
      <4>1. y \in s \ {x} /\ x \in s \ {y} /\ (s \ {x}) \ {y} = (s \ {y}) \ {x}
        BY <3>2
      <4>2. ok(s \ {x}) /\ ok(s \ {y}) /\ ok((s \ {x}) \ {y})
        <5>1. /\ s \ {x} \in SUBSET s /\ s \ {x} # s
              /\ s \ {y} \in SUBSET s /\ s \ {y} # s
              /\ (s \ {x}) \ {y} \in SUBSET s /\ (s \ {x}) \ {y} # s
          OBVIOUS
        <5> HIDE DEF ok
        <5> QED
          BY <5>1, <1>3
      <4>3. F[s \ {x}] = w[y] + F[(s \ {x}) \ {y}]
        BY <4>1, <4>2
      <4>4. F[s \ {y}] = w[x] + F[(s \ {x}) \ {y}]
        BY <4>1, <4>2
      <4>5. w[y] \in Nat /\ F[(s \ {x}) \ {y}] \in Nat
        BY <1>2, <4>2
      <4> QED
        BY <2>1, <2>2, <4>3, <4>4, <4>5
    <3> QED
      BY <3>1, <3>2
  <2> QED
    BY <1>2, <2>3, <2>4
<1> QED
  BY <1>4, <1>5

\* Sums over a part of a set.
LEMMA SumsAgree ==
  ASSUME NEW w, NEW S, IsFiniteSet(S), NEW F, SumOf(w, S, F),
         NEW T \in SUBSET S, NEW G, SumOf(w, T, G)
  PROVE  \A s \in SUBSET T : F[s] = G[s]
<1> DEFINE bad == {s \in SUBSET T : F[s] # G[s]}
<1> SUFFICES ASSUME bad # {} PROVE FALSE
  OBVIOUS
<1>1. PICK s \in bad : \A t \in SUBSET s : t # s => t \notin bad
  <2>1. bad \in SUBSET SUBSET S
    OBVIOUS
  <2> HIDE DEF bad
  <2> QED
    BY <2>1, SmallestSet
<1>2. s \in SUBSET T /\ s \in SUBSET S /\ F[s] # G[s]
  OBVIOUS
<1>3. F[s] = Summed(w, F, s) /\ G[s] = Summed(w, G, s)
  BY <1>2 DEF SumOf
<1>4. s # {}
  BY <1>2, <1>3 DEF Summed
<1> DEFINE x == CHOOSE x \in s : TRUE
<1>5. x \in s
  BY <1>4
<1>6. F[s] = w[x] + F[s \ {x}] /\ G[s] = w[x] + G[s \ {x}]
  BY <1>3, <1>4 DEF Summed
<1> HIDE DEF x
<1>7. F[s \ {x}] = G[s \ {x}]
  BY <1>1, <1>2, <1>5
<1> QED
  BY <1>2, <1>6, <1>7

Total(w, S) == MapThenSumSet(LAMBDA p : w[p], S)

\* A sum is the value of such a function at its set.
LEMMA SumIs ==
  ASSUME NEW S, IsFiniteSet(S), NEW w
  PROVE  \E F : SumOf(w, S, F) /\ Total(w, S) = F[S]
<1> DEFINE sum == CHOOSE F : SumOf(w, S, F)
<1>1. Total(w, S) = sum[S]
  BY DEF Total, MapThenSumSet, MapThenFoldSet, SumOf, Summed
<1>2. SumOf(w, S, sum)
  BY SumExists
<1> HIDE DEF sum
<1> QED
  BY <1>1, <1>2

\* Any member may be taken out of a sum.
LEMMA SumWithout ==
  ASSUME NEW S, IsFiniteSet(S), NEW w, \A x \in S : w[x] \in Nat, NEW y \in S
  PROVE  /\ Total(w, S \ {y}) \in Nat
         /\ Total(w, S)
              = w[y] + Total(w, S \ {y})
<1> DEFINE T == S \ {y}
<1>1. IsFiniteSet(T) /\ T \in SUBSET S
  BY FS_RemoveElement
<1>2. PICK F : SumOf(w, S, F) /\ Total(w, S) = F[S]
  BY SumIs
<1>3. PICK G : SumOf(w, T, G) /\ Total(w, T) = G[T]
  BY <1>1, SumIs
<1>4. F[S] = w[y] + F[T] /\ F[T] \in Nat
  <2>1. \A s \in SUBSET S : F[s] \in Nat /\ \A x \in s : F[s] = w[x] + F[s \ {x}]
    BY <1>2, SumSplits
  <2> QED
    BY <1>1, <2>1
<1>5. F[T] = G[T]
  <2>1. \A s \in SUBSET T : F[s] = G[s]
    <3> HIDE DEF T
    <3> QED
      BY <1>1, <1>2, <1>3, SumsAgree
  <2> QED
    BY <2>1
<1> QED
  BY <1>2, <1>3, <1>4, <1>5

(***************************************************************************)
(* Recordings (module RecordingCache), for any recordings, listeners,      *)
(* limits and times.  An item of the cache, and a transfer under way, are  *)
(* as old as the last moment the PBX had the recording, and a transfer     *)
(* more (ItemsFit, TransfersInTime); no recording is in the cache twice,   *)
(* so that its bytes are those of its paths.                               *)
(***************************************************************************)
CacheItem == [path : Paths, at : Nat]

\* Items c of the cache at time t, if recordings went at the times g.
ItemsFit(c, t, g) ==
  /\ c \in Seq(CacheItem)
  /\ \A i, j \in DOMAIN c : c[i].path = c[j].path => i = j
  /\ \A i \in DOMAIN c : c[i].at <= t /\ c[i].at <= g[c[i].path] + MaxTransfer

TransfersInTime ==
  \A u \in Listeners :
    \/ player[u] = Silent
    \/ /\ player[u] \in [path : Paths, since : Nat]
       /\ player[u].since <= tick /\ tick <= player[u].since + MaxTransfer
       /\ player[u].since <= gone[player[u].path]

RecInv ==
  /\ tick \in 0..LastTick
  /\ gone \in [Paths -> Nat] /\ \A p \in Paths : gone[p] <= tick \/ gone[p] = Never
  /\ player = [u \in Listeners |-> player[u]]
  /\ ItemsFit(cache, tick, gone)
  /\ TransfersInTime
  /\ heard.at \in Nat /\ heard.at <= tick
  /\ DeletedRecordingsAgeOut

LEMMA RecNumbers ==
  /\ LastTick \in Nat /\ Never = LastTick + 1 /\ MaxTransfer \in Nat /\ CacheTtl \in Nat
  /\ MaxItems \in Nat \ {0} /\ MaxBytes \in Nat
  /\ NoPath \notin Paths /\ \A p \in Paths : BytesOf[p] \in Nat
BY RecordingAssumption DEF Never

LEMMA RemovedAt ==
  ASSUME NEW c \in Seq(CacheItem), NEW i \in DOMAIN c, NEW d, d = RemoveAt(c, i)
  PROVE  /\ d \in Seq(CacheItem) /\ Len(d) = Len(c) - 1
         /\ \A j \in DOMAIN d : d[j] = IF j < i THEN c[j] ELSE c[j + 1]
<1> DEFINE before == SubSeq(c, 1, i - 1)
           after == SubSeq(c, i + 1, Len(c))
<1>1. i \in 1..Len(c) /\ Len(c) \in Nat
  OBVIOUS
<1>2. /\ before \in Seq(CacheItem) /\ Len(before) = i - 1
      /\ \A j \in 1..i - 1 : before[j] = c[j]
  BY <1>1
<1>3. /\ after \in Seq(CacheItem) /\ Len(after) = Len(c) - i
      /\ \A j \in 1..Len(c) - i : after[j] = c[j + i]
  BY <1>1
<1>4. d = before \o after
  BY DEF RemoveAt
<1> HIDE DEF before, after
<1>5. d \in Seq(CacheItem) /\ Len(d) = Len(c) - 1
  BY <1>1, <1>2, <1>3, <1>4
<1>6. ASSUME NEW j \in DOMAIN d PROVE d[j] = IF j < i THEN c[j] ELSE c[j + 1]
  <2>1. j \in 1..Len(c) - 1
    BY <1>5
  <2>2. CASE j < i
    BY <1>1, <1>2, <1>3, <1>4, <2>1, <2>2
  <2>3. CASE ~(j < i)
    <3>1. d[j] = after[j - (i - 1)]
      BY <1>1, <1>2, <1>3, <1>4, <2>1, <2>3
    <3>2. j - (i - 1) \in 1..Len(c) - i /\ (j - (i - 1)) + i = j + 1
      BY <1>1, <2>1, <2>3
    <3> QED
      BY <1>3, <2>3, <3>1, <3>2
  <2> QED
    BY <2>2, <2>3
<1> QED
  BY <1>5, <1>6

\* The items that are left are those of other recordings.
LEMMA ItemsWithout ==
  ASSUME NEW t, NEW g, NEW c, ItemsFit(c, t, g), NEW p, NEW d, d = Without(c, p)
  PROVE  /\ ItemsFit(d, t, g)
         /\ PathsIn(d) = PathsIn(c) \ {p}
         /\ Len(d) <= Len(c) /\ (Has(c, p) => Len(d) = Len(c) - 1)
<1>1. c \in Seq(CacheItem) /\ Len(c) \in Nat /\ DOMAIN c = 1..Len(c)
  BY DEF ItemsFit
<1>2. CASE ~ Has(c, p)
  <2>1. d = c
    BY <1>2 DEF Without
  <2>2. p \notin PathsIn(c)
    BY <1>2 DEF PathsIn, Has
  <2>3. ItemsFit(d, t, g)
    BY <2>1
  <2>4. PathsIn(d) = PathsIn(c) \ {p}
    BY <2>1, <2>2
  <2>5. Len(d) <= Len(c)
    BY <1>1, <2>1
  <2> QED
    BY <1>2, <2>3, <2>4, <2>5
<1>3. CASE Has(c, p)
  <2> DEFINE i == PlaceOf(c, p)
  <2>1. i \in DOMAIN c /\ c[i].path = p
    BY <1>3 DEF Has, PlaceOf
  <2>2. d = RemoveAt(c, i)
    BY <1>3 DEF Without
  <2> HIDE DEF i
  <2>3. /\ d \in Seq(CacheItem) /\ Len(d) = Len(c) - 1
        /\ \A j \in DOMAIN d : d[j] = IF j < i THEN c[j] ELSE c[j + 1]
    <3>1. c \in Seq(CacheItem)
      BY <1>1
    <3> QED
      BY <2>1, <2>2, <3>1, RemovedAt
  <2> DEFINE from(j) == IF j < i THEN j ELSE j + 1
  <2>4. DOMAIN d = 1..Len(c) - 1 /\ i \in 1..Len(c)
    BY <1>1, <2>1, <2>3
  <2>5. ASSUME NEW j \in DOMAIN d
        PROVE  from(j) \in DOMAIN c /\ from(j) # i /\ d[j] = c[from(j)]
    BY <1>1, <2>3, <2>4
  <2>6. ASSUME NEW j \in DOMAIN d, NEW k \in DOMAIN d, from(j) = from(k) PROVE j = k
    BY <2>4, <2>6
  <2>7. ASSUME NEW k \in DOMAIN c, k # i PROVE \E j \in DOMAIN d : from(j) = k
    <3>1. CASE k < i
      BY <1>1, <2>4, <3>1
    <3>2. CASE ~(k < i)
      <4>1. k - 1 \in DOMAIN d /\ from(k - 1) = k
        BY <1>1, <2>4, <2>7, <3>2
      <4> QED
        BY <4>1
    <3> QED
      BY <3>1, <3>2
  <2> HIDE DEF from
  <2>8. \A j, k \in DOMAIN d : d[j].path = d[k].path => j = k
    BY <2>5, <2>6 DEF ItemsFit
  <2>9. \A j \in DOMAIN d : d[j].at <= t /\ d[j].at <= g[d[j].path] + MaxTransfer
    BY <2>5 DEF ItemsFit
  <2>10. ItemsFit(d, t, g)
    BY <2>3, <2>8, <2>9 DEF ItemsFit
  <2>11. \A j \in DOMAIN d : d[j].path \in PathsIn(c) /\ d[j].path # p
    BY <2>1, <2>5 DEF PathsIn, ItemsFit
  <2>12. \A k \in DOMAIN c : c[k].path # p => \E j \in DOMAIN d : d[j].path = c[k].path
    BY <2>1, <2>5, <2>7
  <2>13. PathsIn(d) = PathsIn(c) \ {p}
    BY <2>11, <2>12 DEF PathsIn
  <2> QED
    BY <1>1, <2>3, <2>10, <2>13
<1> QED
  BY <1>2, <1>3

LEMMA ItemsWith ==
  ASSUME NEW t, NEW g, NEW c, ItemsFit(c, t, g),
         NEW e \in CacheItem, e.path \notin PathsIn(c),
         e.at <= t, e.at <= g[e.path] + MaxTransfer
  PROVE  /\ ItemsFit(Append(c, e), t, g)
         /\ PathsIn(Append(c, e)) = PathsIn(c) \cup {e.path}
         /\ Len(Append(c, e)) = Len(c) + 1
<1> DEFINE d == Append(c, e)
<1>1. c \in Seq(CacheItem) /\ Len(c) \in Nat /\ DOMAIN c = 1..Len(c)
  BY DEF ItemsFit
<1>2. d \in Seq(CacheItem) /\ Len(d) = Len(c) + 1 /\ DOMAIN d = 1..Len(c) + 1
  BY <1>1
<1>3. d[Len(c) + 1] = e /\ \A i \in DOMAIN c : d[i] = c[i]
  BY <1>1
<1>4. DOMAIN d = DOMAIN c \cup {Len(c) + 1} /\ Len(c) + 1 \notin DOMAIN c
  BY <1>1, <1>2
<1> HIDE DEF d
<1>5. \A i \in DOMAIN c : c[i].path # e.path
  BY DEF PathsIn
<1>6. \A i, j \in DOMAIN d : d[i].path = d[j].path => i = j
  BY <1>3, <1>4, <1>5 DEF ItemsFit
<1>7. \A i \in DOMAIN d : d[i].at <= t /\ d[i].at <= g[d[i].path] + MaxTransfer
  BY <1>3, <1>4 DEF ItemsFit
<1>8. PathsIn(d) = PathsIn(c) \cup {e.path}
  <2>1. \A i \in DOMAIN d : d[i].path \in PathsIn(c) \cup {e.path}
    BY <1>3, <1>4 DEF PathsIn
  <2>2. \A i \in DOMAIN c : c[i].path \in PathsIn(d)
    BY <1>3, <1>4 DEF PathsIn
  <2>3. e.path \in PathsIn(d)
    BY <1>3, <1>4 DEF PathsIn
  <2> QED
    BY <2>1, <2>2, <2>3 DEF PathsIn
<1> QED
  BY <1>2, <1>6, <1>7, <1>8 DEF ItemsFit, d

LEMMA PathsAreFinite ==
  ASSUME NEW c \in Seq(CacheItem)
  PROVE  IsFiniteSet(PathsIn(c)) /\ PathsIn(c) \subseteq Paths
<1> DEFINE f == [i \in DOMAIN c |-> c[i].path]
<1>1. f \in Surjection(DOMAIN c, PathsIn(c))
  BY DEF Surjection, PathsIn
<1>2. DOMAIN c = 1..Len(c) /\ Len(c) \in Nat
  OBVIOUS
<1>3. IsFiniteSet(DOMAIN c)
  BY <1>2, FS_Interval
<1>4. IsFiniteSet(PathsIn(c))
  BY <1>1, <1>3, FS_Surjection
<1>5. \A i \in DOMAIN c : c[i].path \in Paths
  <2>1. \A i \in DOMAIN c : c[i] \in CacheItem
    BY <1>2
  <2> QED
    BY <2>1 DEF CacheItem
<1> QED
  BY <1>4, <1>5 DEF PathsIn

LEMMA BytesAreTheTotal == ASSUME NEW c PROVE BytesIn(c) = Total(BytesOf, PathsIn(c))
BY DEF BytesIn, Total

\* What fits still does with a recording less.
LEMMA LessFits ==
  ASSUME NEW c \in Seq(CacheItem), NEW d \in Seq(CacheItem), Fits(c), Len(d) <= Len(c), NEW p,
         PathsIn(d) = PathsIn(c) \/ PathsIn(d) = PathsIn(c) \ {p}
  PROVE  Fits(d)
<1>1. Len(c) \in Nat /\ Len(d) \in Nat /\ MaxItems \in Nat /\ MaxBytes \in Nat
  BY RecNumbers
<1>2. BytesIn(c) <= MaxBytes => BytesIn(d) <= MaxBytes
  <2>1. CASE PathsIn(d) = PathsIn(c)
    BY <2>1, BytesAreTheTotal
  <2>2. CASE PathsIn(d) = PathsIn(c) \ {p} /\ p \in PathsIn(c)
    <3> DEFINE P == PathsIn(c)
    <3>1. IsFiniteSet(P) /\ \A q \in P : BytesOf[q] \in Nat
      BY PathsAreFinite, RecNumbers
    <3> HIDE DEF P
    <3>2. p \in P
      BY <2>2 DEF P
    <3>3. /\ Total(BytesOf, P \ {p}) \in Nat
          /\ Total(BytesOf, P) = BytesOf[p] + Total(BytesOf, P \ {p})
      BY <3>1, <3>2, SumWithout
    <3>4. BytesIn(c) = Total(BytesOf, P) /\ BytesIn(d) = Total(BytesOf, P \ {p})
      BY <2>2, BytesAreTheTotal DEF P
    <3>5. BytesOf[p] \in Nat
      BY <3>1, <3>2
    <3> QED
      BY <1>1, <3>3, <3>4, <3>5
  <2>3. CASE PathsIn(d) = PathsIn(c) \ {p} /\ p \notin PathsIn(c)
    <3>1. PathsIn(d) = PathsIn(c)
      BY <2>3
    <3> QED
      BY <3>1, BytesAreTheTotal
  <2> QED
    BY <2>1, <2>2, <2>3
<1> QED
  BY <1>1, <1>2 DEF Fits

LEMMA GetKeeps ==
  ASSUME RecInv, NEW p \in Paths, NEW d, d = AfterGet(cache, p)
  PROVE  /\ ItemsFit(d, tick, gone) /\ Fits(d)
         /\ Has(d, p) => tick <= gone[p] + MaxTransfer + CacheTtl
<1>1. ItemsFit(cache, tick, gone) /\ Fits(cache) /\ cache \in Seq(CacheItem) /\ Len(cache) \in Nat
  BY DEF RecInv, ItemsFit, DeletedRecordingsAgeOut
<1>2. CASE ~ Has(cache, p)
  BY <1>1, <1>2 DEF AfterGet
<1>3. CASE Has(cache, p)
  <2> DEFINE rest == Without(cache, p)
             hit == cache[PlaceOf(cache, p)]
  <2>1. hit \in CacheItem /\ hit.path = p /\ hit.at <= tick /\ hit.at <= gone[p] + MaxTransfer
    <3>1. PlaceOf(cache, p) \in DOMAIN cache /\ hit.path = p
      BY <1>3 DEF Has, PlaceOf
    <3> QED
      BY <1>1, <3>1 DEF ItemsFit
  <2>2. /\ ItemsFit(rest, tick, gone) /\ rest \in Seq(CacheItem)
        /\ PathsIn(rest) = PathsIn(cache) \ {p} /\ Len(rest) = Len(cache) - 1
    <3>1. ItemsFit(rest, tick, gone) /\ PathsIn(rest) = PathsIn(cache) \ {p}
      BY <1>1, ItemsWithout
    <3>2. Len(rest) = Len(cache) - 1
      BY <1>1, <1>3, ItemsWithout
    <3> QED
      BY <3>1, <3>2 DEF ItemsFit
  <2>3. p \in PathsIn(cache)
    BY <1>3 DEF Has, PathsIn
  <2>4. d = IF tick > hit.at + CacheTtl THEN rest ELSE Append(rest, hit)
    BY <1>3 DEF AfterGet
  <2> HIDE DEF rest, hit
  <2>5. CASE tick > hit.at + CacheTtl
    <3>1. d = rest
      BY <2>4, <2>5
    <3>2. Fits(d)
      <4>1. Len(rest) <= Len(cache)
        BY <1>1, <2>2
      <4> QED
        BY <1>1, <2>2, <3>1, <4>1, LessFits
    <3>3. ~ Has(d, p)
      BY <2>2, <3>1 DEF Has, PathsIn
    <3> QED
      BY <2>2, <3>1, <3>2, <3>3
  <2>6. CASE ~(tick > hit.at + CacheTtl)
    <3>1. d = Append(rest, hit)
      BY <2>4, <2>6
    <3>2. /\ ItemsFit(d, tick, gone) /\ PathsIn(d) = PathsIn(rest) \cup {p}
          /\ Len(d) = Len(rest) + 1
      BY <2>1, <2>2, <3>1, ItemsWith
    <3>3. PathsIn(d) = PathsIn(cache) /\ Len(d) <= Len(cache) /\ d \in Seq(CacheItem)
      BY <1>1, <2>2, <2>3, <3>2 DEF ItemsFit
    <3>4. Fits(d)
      BY <1>1, <3>3, LessFits
    <3>5. tick <= gone[p] + MaxTransfer + CacheTtl
      <4>1. tick \in Nat /\ hit.at \in Nat /\ gone[p] \in Nat
        BY <2>1 DEF RecInv, CacheItem
      <4> QED
        BY <4>1, <2>1, <2>6, RecNumbers
    <3> QED
      BY <3>2, <3>4, <3>5
  <2> QED
    BY <2>5, <2>6
<1> QED
  BY <1>2, <1>3

\* The end of a sequence of items.
LEMMA EndFits ==
  ASSUME NEW t, NEW g, NEW c, ItemsFit(c, t, g), NEW k \in 0..Len(c) - 1, NEW d,
         d = SubSeq(c, k + 1, Len(c))
  PROVE  ItemsFit(d, t, g) /\ Len(d) = Len(c) - k
<1>1. c \in Seq(CacheItem) /\ Len(c) \in Nat /\ DOMAIN c = 1..Len(c)
  BY DEF ItemsFit
<1>2. /\ d \in Seq(CacheItem) /\ Len(d) = Len(c) - k /\ DOMAIN d = 1..Len(c) - k
      /\ \A i \in DOMAIN d : d[i] = c[i + k]
  BY <1>1
<1>3. \A i \in DOMAIN d : i + k \in DOMAIN c
  BY <1>1, <1>2
<1>4. ASSUME NEW i \in DOMAIN d, NEW j \in DOMAIN d, d[i].path = d[j].path
      PROVE  i + k = j + k
  <2>1. d[i] = c[i + k] /\ d[j] = c[j + k]
    BY <1>2
  <2>2. i + k \in DOMAIN c /\ j + k \in DOMAIN c
    BY <1>3
  <2>3. \A a, b \in DOMAIN c : c[a].path = c[b].path => a = b
    BY DEF ItemsFit
  <2>4. c[i + k].path = c[j + k].path
    BY <1>4, <2>1
  <2> QED
    BY <2>2, <2>3, <2>4
<1>5. \A i, j \in DOMAIN d : i + k = j + k => i = j
  BY <1>1, <1>2
<1>6. \A i \in DOMAIN d : d[i].at <= t /\ d[i].at <= g[d[i].path] + MaxTransfer
  <2>1. \A j \in DOMAIN c : c[j].at <= t /\ c[j].at <= g[c[j].path] + MaxTransfer
    BY DEF ItemsFit
  <2>2. ASSUME NEW i \in DOMAIN d PROVE \E j \in DOMAIN c : d[i] = c[j]
    BY <1>2, <1>3
  <2> QED
    BY <2>1, <2>2
<1> QED
  BY <1>2, <1>4, <1>5, <1>6 DEF ItemsFit

LEMMA PutKeeps ==
  ASSUME RecInv, NEW p \in Paths, tick <= gone[p] + MaxTransfer,
         NEW d, d = AfterPut(cache, p)
  PROVE  ItemsFit(d, tick, gone) /\ Fits(d)
<1> DEFINE item == [path |-> p, at |-> tick]
           rest == Without(cache, p)
           all == Append(rest, item)
           tail(k) == SubSeq(all, k + 1, Len(all))
           good == {k \in 0..Len(all) - 1 : Fits(tail(k))}
           drop == CHOOSE k \in 0..Len(all) - 1 :
                     Fits(tail(k)) /\ \A j \in 0..k - 1 : ~ Fits(tail(j))
<1>1. ItemsFit(rest, tick, gone) /\ PathsIn(rest) = PathsIn(cache) \ {p}
  BY ItemsWithout DEF RecInv
<1>2. item \in CacheItem /\ tick \in Nat
  BY DEF CacheItem, RecInv
<1>3. ItemsFit(all, tick, gone) /\ Len(all) = Len(rest) + 1
  BY <1>1, <1>2, ItemsWith
<1>4. Len(all) \in Nat \ {0} /\ all \in Seq(CacheItem)
  <2>1. Len(rest) \in Nat
    BY <1>1 DEF ItemsFit
  <2> QED
    BY <1>3, <2>1 DEF ItemsFit
<1>5. d = tail(drop)
  BY DEF AfterPut
<1> HIDE DEF all
<1>6. Len(all) - 1 \in good
  <2> DEFINE k == Len(all) - 1
  <2>1. k \in 0..Len(all) - 1
    BY <1>4
  <2>2. Len(tail(k)) = 1
    <3> HIDE DEF k
    <3>1. Len(tail(k)) = Len(all) - k
      BY <1>3, <2>1, EndFits
    <3> QED
      BY <3>1, <1>4 DEF k
  <2>3. Fits(tail(k))
    BY <2>2, RecNumbers DEF Fits
  <2> QED
    BY <2>1, <2>3
<1> HIDE DEF tail
<1>7. good \in SUBSET Nat /\ good # {}
  BY <1>4, <1>6
<1>8. PICK k \in good : \A j \in good : k <= j
  <2> HIDE DEF good
  <2> QED
    BY <1>7, LeastMember
<1>9. k \in 0..Len(all) - 1 /\ Fits(tail(k)) /\ \A j \in 0..k - 1 : ~ Fits(tail(j))
  <2>1. k \in 0..Len(all) - 1 /\ Fits(tail(k))
    OBVIOUS
  <2>2. ASSUME NEW j \in 0..k - 1, Fits(tail(j)) PROVE FALSE
    <3>1. j \in 0..Len(all) - 1 /\ ~(k <= j)
      BY <1>4, <2>1
    <3> QED
      BY <1>8, <2>2, <3>1
  <2> QED
    BY <2>1, <2>2
<1>10. drop \in 0..Len(all) - 1 /\ Fits(tail(drop))
  BY <1>9
<1> HIDE DEF drop
<1>11. ItemsFit(tail(drop), tick, gone)
  BY <1>3, <1>10, EndFits DEF tail
<1> QED
  BY <1>5, <1>10, <1>11

-----------------------------------------------------------------------------
LEMMA RecInitHolds == RecInit => RecInv
<1> SUFFICES ASSUME RecInit PROVE RecInv
  OBVIOUS
<1>1. ItemsFit(cache, tick, gone)
  BY DEF RecInit, ItemsFit
<1>2. Fits(cache)
  <2>1. Len(cache) = 0
    BY DEF RecInit
  <2> QED
    BY <2>1, RecNumbers DEF Fits
<1> QED
  BY <1>1, <1>2, RecNumbers
  DEF RecInit, RecInv, TransfersInTime, DeletedRecordingsAgeOut

LEMMA RecPlayKeeps ==
  ASSUME RecInv, NEW u \in Listeners, NEW p \in Paths, PlayRecording(u, p)
  PROVE  RecInv'
<1>1. /\ cache' = AfterGet(cache, p) /\ UNCHANGED <<tick, gone, listed>>
      /\ player[u] = Silent
  BY DEF PlayRecording
<1>2. /\ ItemsFit(cache', tick, gone) /\ Fits(cache')
      /\ Has(cache', p) => tick <= gone[p] + MaxTransfer + CacheTtl
  BY <1>1, GetKeeps
<1>3. CASE Has(cache', p)
  <2>1. heard' = [path |-> p, at |-> tick] /\ player' = player
    BY <1>3 DEF PlayRecording
  <2> QED
    BY <1>1, <1>2, <1>3, <2>1 DEF RecInv, TransfersInTime, DeletedRecordingsAgeOut
<1>4. CASE ~ Has(cache', p)
  <2>1. /\ heard' = heard
        /\ player' = IF gone[p] = Never
                     THEN [player EXCEPT ![u] = [path |-> p, since |-> tick]] ELSE player
    BY <1>4 DEF PlayRecording
  <2>2. player' = [v \in Listeners |-> player'[v]]
    BY <2>1 DEF RecInv
  <2>3. TransfersInTime'
    <3>1. ASSUME NEW v \in Listeners, player'[v] # player[v]
          PROVE  player'[v] = [path |-> p, since |-> tick] /\ gone[p] = Never
      BY <2>1, <3>1 DEF RecInv
    <3>2. tick \in Nat /\ tick <= Never /\ tick <= tick + MaxTransfer
      BY RecNumbers DEF RecInv
    <3>3. ASSUME NEW v \in Listeners
          PROVE  \/ player'[v] = Silent
                 \/ /\ player'[v] \in [path : Paths, since : Nat]
                    /\ player'[v].since <= tick /\ tick <= player'[v].since + MaxTransfer
                    /\ player'[v].since <= gone[player'[v].path]
      <4>1. CASE player'[v] = player[v]
        BY <4>1 DEF RecInv, TransfersInTime
      <4>2. CASE player'[v] # player[v]
        BY <4>2, <3>1, <3>2
      <4> QED
        BY <4>1, <4>2
    <3> QED
      BY <1>1, <3>3 DEF TransfersInTime
  <2>4. DeletedRecordingsAgeOut'
    BY <1>1, <1>2, <2>1 DEF RecInv, DeletedRecordingsAgeOut
  <2> QED
    BY <1>1, <1>2, <2>1, <2>2, <2>3, <2>4 DEF RecInv
<1> QED
  BY <1>3, <1>4

\* A transfer that is under way, and one that has ended.
LEMMA TransferEnds ==
  ASSUME RecInv, NEW u \in Listeners, player' = [player EXCEPT ![u] = Silent],
         UNCHANGED <<tick, gone>>
  PROVE  player' = [v \in Listeners |-> player'[v]] /\ TransfersInTime'
<1>1. player' = [v \in Listeners |-> player'[v]]
  BY DEF RecInv
<1>2. \A v \in Listeners : player'[v] = Silent \/ player'[v] = player[v]
  BY DEF RecInv
<1> QED
  BY <1>1, <1>2 DEF RecInv, TransfersInTime

LEMMA RecArrivesKeeps ==
  ASSUME RecInv, NEW u \in Listeners, RecordingArrives(u)
  PROVE  RecInv'
<1> DEFINE p == player[u].path
<1>1. /\ cache' = AfterPut(cache, p) /\ heard' = [path |-> p, at |-> tick]
      /\ player' = [player EXCEPT ![u] = Silent] /\ UNCHANGED <<tick, gone, listed>>
  BY DEF RecordingArrives
<1>2. p \in Paths /\ tick <= gone[p] + MaxTransfer
  <2>1. /\ player[u] \in [path : Paths, since : Nat]
        /\ tick <= player[u].since + MaxTransfer /\ player[u].since <= gone[p]
    BY DEF RecInv, TransfersInTime, RecordingArrives
  <2>2. gone[p] \in Nat /\ tick \in Nat
    BY <2>1 DEF RecInv
  <2> QED
    BY <2>1, <2>2, RecNumbers
<1> HIDE DEF p
<1>3. ItemsFit(cache', tick, gone) /\ Fits(cache')
  BY <1>1, <1>2, PutKeeps
<1>4. player' = [v \in Listeners |-> player'[v]] /\ TransfersInTime'
  BY <1>1, TransferEnds
<1>5. tick \in Nat /\ gone[p] \in Nat
  BY <1>2 DEF RecInv
<1>6. DeletedRecordingsAgeOut'
  <2>1. tick <= gone[p] + MaxTransfer + CacheTtl
    BY <1>2, <1>5, RecNumbers
  <2> QED
    BY <1>1, <1>3, <2>1 DEF DeletedRecordingsAgeOut
<1> QED
  BY <1>1, <1>3, <1>4, <1>5, <1>6 DEF RecInv

LEMMA RecFailsKeeps ==
  ASSUME RecInv, NEW u \in Listeners, RecordingFails(u)
  PROVE  RecInv'
<1>1. player' = [player EXCEPT ![u] = Silent] /\ UNCHANGED <<tick, gone, listed, cache, heard>>
  BY DEF RecordingFails
<1>2. player' = [v \in Listeners |-> player'[v]] /\ TransfersInTime'
  BY <1>1, TransferEnds
<1> QED
  BY <1>1, <1>2 DEF RecInv, DeletedRecordingsAgeOut

LEMMA RecDeletesKeeps ==
  ASSUME RecInv, NEW p \in Paths, PbxDeletes(p)
  PROVE  RecInv'
<1>1. /\ gone[p] = Never /\ gone' = [gone EXCEPT ![p] = tick]
      /\ UNCHANGED <<tick, listed, cache, player, heard>>
  BY DEF PbxDeletes
<1>2. tick \in Nat /\ tick \in 0..LastTick /\ heard.at \in Nat
  BY RecNumbers DEF RecInv
<1>3. gone' \in [Paths -> Nat] /\ \A q \in Paths : gone'[q] = gone[q] \/ gone'[q] = tick
  BY <1>1, <1>2 DEF RecInv
<1>4. ASSUME NEW n \in Nat, n <= tick, NEW q \in Paths
      PROVE  n <= gone'[q] \/ gone'[q] = gone[q]
  BY <1>3, <1>4
<1>5. ItemsFit(cache', tick', gone')
  <2>1. ASSUME NEW i \in DOMAIN cache
        PROVE  cache[i].at <= gone'[cache[i].path] + MaxTransfer
    <3>1. cache[i] \in CacheItem /\ cache[i].at <= tick
          /\ cache[i].at <= gone[cache[i].path] + MaxTransfer
      BY DEF RecInv, ItemsFit
    <3>2. cache[i].path \in Paths /\ cache[i].at \in Nat
      BY <3>1 DEF CacheItem
    <3>3. gone'[cache[i].path] \in Nat
      BY <1>3, <3>2
    <3> QED
      BY <1>4, <3>1, <3>2, <3>3, RecNumbers
  <2> QED
    BY <1>1, <2>1 DEF RecInv, ItemsFit
<1>6. TransfersInTime'
  <2>1. ASSUME NEW u \in Listeners, player[u] # Silent
        PROVE  player[u].since <= gone'[player[u].path]
    <3>1. /\ player[u] \in [path : Paths, since : Nat]
          /\ player[u].since <= tick /\ player[u].since <= gone[player[u].path]
      BY <2>1 DEF RecInv, TransfersInTime
    <3> QED
      BY <1>4, <3>1
  <2> QED
    BY <1>1, <2>1 DEF RecInv, TransfersInTime
<1>7. DeletedRecordingsAgeOut'
  <2>1. ASSUME heard.path \in Paths
        PROVE  heard.at <= gone'[heard.path] + MaxTransfer + CacheTtl
    <3>1. heard.at <= tick /\ heard.at <= gone[heard.path] + MaxTransfer + CacheTtl
      BY <2>1 DEF RecInv, DeletedRecordingsAgeOut
    <3>2. gone'[heard.path] \in Nat
      BY <1>3, <2>1
    <3> QED
      BY <1>2, <1>4, <2>1, <3>1, <3>2, RecNumbers
  <2> QED
    BY <1>1, <2>1 DEF RecInv, DeletedRecordingsAgeOut
<1>8. \A q \in Paths : gone'[q] <= tick' \/ gone'[q] = Never
  <2>1. \A q \in Paths : gone'[q] = IF q = p THEN tick ELSE gone[q]
    BY <1>1 DEF RecInv
  <2> QED
    BY <1>1, <1>2, <2>1 DEF RecInv
<1> QED
  BY <1>1, <1>3, <1>5, <1>6, <1>7, <1>8 DEF RecInv

LEMMA RecAgesKeeps == ASSUME RecInv, RecordingAges PROVE RecInv'
<1>1. /\ tick < LastTick /\ tick' = tick + 1
      /\ \A u \in Listeners : player[u] # Silent => tick < player[u].since + MaxTransfer
      /\ UNCHANGED <<gone, listed, cache, player, heard>>
  BY DEF RecordingAges
<1>2. tick \in Nat /\ tick' \in 0..LastTick
  BY <1>1, RecNumbers DEF RecInv
<1>3. \A n \in Nat : n <= tick => n <= tick'
  BY <1>1, <1>2
<1>4. ItemsFit(cache', tick', gone')
  <2>1. \A i \in DOMAIN cache : cache[i].at \in Nat /\ cache[i].at <= tick
    <3>1. ASSUME NEW i \in DOMAIN cache PROVE cache[i] \in CacheItem /\ cache[i].at <= tick
      BY DEF RecInv, ItemsFit
    <3> QED
      BY <3>1 DEF CacheItem
  <2>2. \A i \in DOMAIN cache : cache[i].at <= tick'
    BY <1>3, <2>1
  <2> QED
    BY <1>1, <2>2 DEF RecInv, ItemsFit
<1>5. TransfersInTime'
  <2>1. ASSUME NEW u \in Listeners, player[u] # Silent
        PROVE  /\ player[u].since <= tick' /\ tick' <= player[u].since + MaxTransfer
    <3>1. player[u].since \in Nat /\ player[u].since <= tick
      BY <2>1 DEF RecInv, TransfersInTime
    <3> QED
      BY <1>1, <1>2, <1>3, <2>1, <3>1, RecNumbers
  <2> QED
    BY <1>1, <2>1 DEF RecInv, TransfersInTime
<1>6. DeletedRecordingsAgeOut'
  BY <1>1 DEF RecInv, DeletedRecordingsAgeOut
<1>7. \A q \in Paths : gone'[q] <= tick' \/ gone'[q] = Never
  <2>1. \A q \in Paths : gone[q] \in Nat
    BY DEF RecInv
  <2> QED
    BY <1>1, <1>3, <2>1 DEF RecInv
<1> QED
  BY <1>1, <1>2, <1>3, <1>4, <1>5, <1>6, <1>7 DEF RecInv

LEMMA RecRestartKeeps == ASSUME RecInv, RecordingRestart PROVE RecInv'
<1>1. /\ cache' = <<>> /\ player' = [u \in Listeners |-> Silent]
      /\ UNCHANGED <<tick, gone, listed, heard>>
  BY DEF RecordingRestart
<1>2. ItemsFit(cache', tick', gone')
  BY <1>1 DEF ItemsFit
<1>3. Fits(cache')
  <2>1. Len(cache') = 0
    BY <1>1
  <2> QED
    BY <2>1, RecNumbers DEF Fits
<1> QED
  BY <1>1, <1>2, <1>3 DEF RecInv, TransfersInTime, DeletedRecordingsAgeOut

LEMMA RecNextKeeps == RecInv /\ [RecNext]_recVars => RecInv'
<1> SUFFICES ASSUME RecInv, [RecNext]_recVars PROVE RecInv'
  OBVIOUS
<1>1. ASSUME UNCHANGED <<tick, gone, cache, player, heard>> PROVE RecInv'
  BY <1>1 DEF RecInv, ItemsFit, TransfersInTime, DeletedRecordingsAgeOut
<1>2. CASE UNCHANGED recVars
  BY <1>1, <1>2 DEF recVars
<1>3. ASSUME NEW u \in Listeners, ListCalls(u) PROVE RecInv'
  BY <1>1, <1>3 DEF ListCalls
<1>4. CASE \E u \in Listeners : RecordingArrives(u) \/ RecordingFails(u)
  BY <1>4, RecArrivesKeeps, RecFailsKeeps
<1>5. CASE \E u \in Listeners, p \in Paths : PlayRecording(u, p)
  BY <1>5, RecPlayKeeps
<1>6. CASE \E p \in Paths : PbxDeletes(p)
  BY <1>6, RecDeletesKeeps
<1>7. CASE RecordingAges \/ RecordingRestart
  BY <1>7, RecAgesKeeps, RecRestartKeeps
<1> QED
  BY <1>2, <1>3, <1>4, <1>5, <1>6, <1>7 DEF RecNext

\* What is kept of a recording, or on its way, the PBX had a transfer before.
THEOREM RecordingsInvariance == RecSpec => []RecInv
BY RecInitHolds, RecNextKeeps, PTL DEF RecSpec

\* A deleted recording is not played for longer than a transfer and the time
\* in the cache, which keeps its limits (_RecordingCache.get and put).
THEOREM DeletedAreForgotten == RecSpec => []DeletedRecordingsAgeOut
<1>1. RecInv => DeletedRecordingsAgeOut
  BY DEF RecInv
<1> QED
  BY <1>1, RecordingsInvariance, PTL
=============================================================================
