-------------------------------- MODULE MoMedia --------------------------------
(***************************************************************************)
(* Attachments of customers' answers: app/services/mo_media.py.  The       *)
(* report webhook stores a PENDING row for each file and downloads the     *)
(* files of its own batch right after its answer; the periodic loop picks  *)
(* up whatever is left.  Both run fetch_pending as coroutines of one       *)
(* process, interleaved at the awaits of the downloads; a restart leaves   *)
(* rows in FETCHING, which are given up five minutes after their lock.     *)
(*                                                                         *)
(* MediaRows are numbered by id.  A tick of time is ROW_TIMEOUT, the longest a  *)
(* download may take.  The contents of files and the seven days msghub     *)
(* keeps an MMS are behind the outcome of a download.                      *)
(***************************************************************************)
EXTENDS Naturals, FiniteSets

CONSTANTS
  NRows,        \* the number of attachments
  Mms,          \* the rows that are fetched from msghub, not from a RCS URL
  MaxAttempts,  \* the downloads a row is worth, by row
  FetchBatch,   \* the rows of one cycle of the loop
  WebhookBatch, \* the most attachments a webhook post brings
  LockTimeout,  \* in ticks
  Webhooks      \* the runs of fetch_new that may overlap

MediaRows == 1..NRows

ASSUME MoMediaAssumption ==
  /\ NRows \in Nat
  /\ Mms \subseteq MediaRows
  /\ MaxAttempts \in [MediaRows -> Nat \ {0}]
  /\ FetchBatch \in Nat \ {0} /\ WebhookBatch \in Nat \ {0}
  /\ LockTimeout \in Nat \ {0}
  /\ IsFiniteSet(Webhooks)

Loop == "loop"
Runners == Webhooks \cup {Loop}

\* Ages stop counting once the lock timeout is past.
Older(age) == IF age > LockTimeout THEN age ELSE age + 1

NoMedia == 0
Idle == [row |-> NoMedia, held |-> 0, todo |-> {}, age |-> 0, waited |-> FALSE]

VARIABLES
  media,   \* the mo_media rows: status, attempts, is next_fetch_at past?, lock
  runner,  \* the runs of fetch_pending: the row that is being downloaded, its
           \* fetch_attempts as loaded, the ids still to do, the age of the
           \* run's now, and whether the download has taken a tick
  spent    \* the downloads of each row that ended for a reason of its own

mediaVars == <<media, runner, spent>>

MediaInit ==
  /\ media = [i \in MediaRows |-> [status |-> "NONE", attempts |-> 0, due |-> TRUE,
                              lock |-> 0]]
  /\ runner = [r \in Runners |-> Idle]
  /\ spent = [i \in MediaRows |-> 0]

Pick(S) == CHOOSE i \in S : \A j \in S : i <= j

(***************************************************************************)
(* fetch_pending.                                                          *)
(***************************************************************************)
AfterStale(i) ==
  IF media[i].attempts < MaxAttempts[i] THEN "PENDING" ELSE "FAILED"

\* Mutant: nothing is released.
ReleasedNever == media

\* The rows after the stale locks are released.
Released ==
  [i \in MediaRows |->
     IF media[i].status = "FETCHING" /\ media[i].lock > LockTimeout
     THEN [media[i] EXCEPT !.status = AfterStale(i), !.due = TRUE, !.lock = 0]
     ELSE media[i]]

\* Mutant: the claim does not look at the status.
ClaimableAnyStatus(row) == row.status # "NONE"

\* The condition of the UPDATE in _claim.
Claimable(row) == row.status = "PENDING" /\ row.due

\* The run r goes on with todo, on rows that are now m: the next row it can
\* claim, under a lock as old as its now, or its end.
Continue(r, m, todo, age) ==
  LET open == {i \in todo : Claimable(m[i])}
      i == Pick(open)
      claimed == [m[i] EXCEPT !.status = "FETCHING",
                              !.attempts = m[i].attempts + 1, !.lock = age]
  IN  IF open = {}
      THEN /\ media' = m
           /\ runner' = [runner EXCEPT ![r] = Idle]
      ELSE /\ media' = [m EXCEPT ![i] = claimed]
           /\ runner' = [runner EXCEPT ![r] =
                [row |-> i, held |-> claimed.attempts,
                 todo |-> {j \in todo : j > i}, age |-> age,
                 waited |-> FALSE]]

\* Without a msghub client, MMS rows are left out.
Selected(m, msghub) ==
  {i \in MediaRows : m[i].status = "PENDING" /\ m[i].due
                /\ (i \in Mms => msghub)}
FirstOf(S, n) == {i \in S : Cardinality({j \in S : j <= i}) <= n}

\* The periodic cycle.
StartCycle(msghub) ==
  /\ runner[Loop] = Idle
  /\ Continue(Loop, Released, FirstOf(Selected(Released, msghub), FetchBatch), 0)
  /\ UNCHANGED spent

\* The webhook stores answers with files and starts fetch_new for them; or
\* the process dies after the commit and the rows wait for the loop.
ReceiveFiles(r, ids, msghub) ==
  /\ runner[r] = Idle
  /\ ids # {} /\ Cardinality(ids) <= WebhookBatch
  /\ \A i \in MediaRows : i \in ids => media[i].status = "NONE"
  /\ \A i \in ids, j \in MediaRows : j < i => j \in ids \/ media[j].status # "NONE"
  /\ LET stored == [i \in MediaRows |->
           IF i \in ids THEN [media[i] EXCEPT !.status = "PENDING"]
                        ELSE Released[i]]
     IN  Continue(r, stored, Selected(stored, msghub) \cap ids, 0)
  /\ UNCHANGED spent

ReceiveFilesAndDie(ids) ==
  /\ \A r \in Runners : runner[r] = Idle
  /\ ids # {} /\ Cardinality(ids) <= WebhookBatch
  /\ \A i \in ids : media[i].status = "NONE"
  /\ \A i \in ids, j \in MediaRows : j < i => j \in ids \/ media[j].status # "NONE"
  /\ media' = [i \in MediaRows |->
       IF i \in ids THEN [media[i] EXCEPT !.status = "PENDING"] ELSE media[i]]
  /\ UNCHANGED <<runner, spent>>

(***************************************************************************)
(* The end of a download.  The run writes to the row it holds, which       *)
(* another run may have taken over.                                        *)
(***************************************************************************)
Ended(r, row) ==
  LET i == runner[r].row
  IN  Continue(r, [media EXCEPT ![i] = row], runner[r].todo, runner[r].age)

Spend(r) == spent' = [spent EXCEPT ![runner[r].row] = @ + 1]

Fetched(r) ==
  /\ runner[r].row # NoMedia
  /\ Ended(r, [media[runner[r].row] EXCEPT
                 !.status = "FETCHED", !.due = TRUE, !.lock = 0])
  /\ Spend(r)

LastAttempt(i, attempts) == attempts >= MaxAttempts[i]

\* _Retry: a time-out, an HTTP error or a server that is down.
Retry(r) ==
  /\ runner[r].row # NoMedia
  /\ LET i == runner[r].row
         last == LastAttempt(i, runner[r].held)
     IN  Ended(r, [media[i] EXCEPT
                     !.status = IF last THEN "FAILED" ELSE "PENDING",
                     !.due = IF last THEN @ ELSE FALSE, !.lock = 0])
  /\ Spend(r)

\* _Fail: nothing that another download could change.
Fail(r) ==
  /\ runner[r].row # NoMedia
  /\ Ended(r, [media[runner[r].row] EXCEPT !.status = "FAILED", !.lock = 0])
  /\ Spend(r)

\* Mutant: the attempt is counted although the row was not to blame.
GivenBackNothing(attempts) == attempts

\* row.fetch_attempts -= 1 on the held row.
GivenBack(attempts) == attempts - 1

\* _Stop: msghub does not authenticate us.  The run ends.
Stop(r) ==
  /\ runner[r].row \in Mms
  /\ LET i == runner[r].row
     IN  media' = [media EXCEPT ![i] =
           [@ EXCEPT !.status = "PENDING", !.lock = 0,
                     !.attempts = GivenBack(runner[r].held)]]
  /\ runner' = [runner EXCEPT ![r] = Idle]
  /\ UNCHANGED spent

(***************************************************************************)
(* Time and restarts.                                                      *)
(***************************************************************************)
BackoffElapses(i) ==
  /\ ~media[i].due
  /\ media' = [media EXCEPT ![i].due = TRUE]
  /\ UNCHANGED <<runner, spent>>

\* A tick of ROW_TIMEOUT passes: every download that was out for one ended.
Tick ==
  /\ \A r \in Runners : ~runner[r].waited
  /\ \E i \in MediaRows : media[i].status = "FETCHING" /\ media[i].lock <= LockTimeout
  /\ media' = [i \in MediaRows |->
       IF media[i].status = "FETCHING"
       THEN [media[i] EXCEPT !.lock = Older(media[i].lock)] ELSE media[i]]
  /\ runner' = [r \in Runners |->
       IF runner[r].row # NoMedia
       THEN [runner[r] EXCEPT !.age = Older(runner[r].age), !.waited = TRUE]
       ELSE runner[r]]
  /\ UNCHANGED spent

\* The downloads are cut off; each was an attempt.
MediaRestart ==
  /\ \E r \in Runners : runner[r] # Idle
  /\ runner' = [r \in Runners |-> Idle]
  /\ spent' = [i \in MediaRows |->
       spent[i] + Cardinality({r \in Runners : runner[r].row = i})]
  /\ UNCHANGED media

MediaNext ==
  \/ \E msghub \in BOOLEAN :
       \/ StartCycle(msghub)
       \/ \E r \in Webhooks, ids \in SUBSET MediaRows : ReceiveFiles(r, ids, msghub)
  \/ \E ids \in SUBSET MediaRows : ReceiveFilesAndDie(ids)
  \/ \E r \in Runners : Fetched(r) \/ Retry(r) \/ Fail(r) \/ Stop(r)
  \/ \E i \in MediaRows : BackoffElapses(i)
  \/ Tick
  \/ MediaRestart

\* The loop runs every minute with a client, time passes, time-outs end
\* every download, and msghub's authentication is not down at every attempt.
\* A restart within every attempt for ever is excluded by the bound on
\* attempts.
RowEnds(r) == Fetched(r) \/ Retry(r) \/ Fail(r)
MediaFairness ==
  /\ WF_mediaVars(StartCycle(TRUE))
  /\ \A r \in Runners : SF_mediaVars(RowEnds(r))
  /\ \A i \in MediaRows : WF_mediaVars(BackoffElapses(i))
  /\ WF_mediaVars(Tick)

MediaSpec == MediaInit /\ [][MediaNext]_mediaVars /\ MediaFairness

(***************************************************************************)
(* Properties.                                                             *)
(***************************************************************************)
\* A file is not downloaded twice at a time (mo_media.py: "같은 행을 동시에
\* 두 번 받지 않도록 PENDING→FETCHING 을 조건부 UPDATE 로 선점한다"): a RCS address
\* may be good for one download.
OneDownloadAtATime ==
  \A r, s \in Runners :
    runner[r].row = runner[s].row /\ runner[r].row # NoMedia => r = s

\* A row is downloaded as often as it is worth, and no more: attempts count
\* the downloads that ended or were cut off for a reason of the row's own,
\* and the one that is under way, but not those msghub's authentication
\* failed; and a row that waits has one left.
AttemptsAreSpent ==
  \A i \in MediaRows :
    /\ media[i].attempts = spent[i]
         + Cardinality({r \in Runners : runner[r].row = i})
    /\ media[i].attempts <= MaxAttempts[i]
    /\ media[i].status = "PENDING" => media[i].attempts < MaxAttempts[i]

\* Every attachment is stored or given up, restarts in mid-download and
\* authentication failures notwithstanding.
EveryAttachmentSettles ==
  \A i \in MediaRows :
    media[i].status = "PENDING" ~> media[i].status \in {"FETCHED", "FAILED"}
=============================================================================
