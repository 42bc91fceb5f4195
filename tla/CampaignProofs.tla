--------------------------- MODULE CampaignProofs ---------------------------
(***************************************************************************)
(* What Campaign promises for every number of recipients and chunks:       *)
(* nothing is sent twice, no acknowledged report is lost, what is shown    *)
(* implements Delivery, and the stored record settles as the record of the *)
(* rows.  The inductive invariant IInv ties the dispatch loop's position   *)
(* to the rows and to the provider's keys; CountInv, further down, ties    *)
(* the campaign's record to the rows.                                      *)
(***************************************************************************)
EXTENDS Campaign, MessageRowsProofs

Untouched(r) == att[<<r, FALSE>>] = "none" /\ att[<<r, TRUE>>] = "none"

\* Before the dispatch nothing is recorded and nothing was sent.
IdleInv ==
  pc = "idle" =>
    /\ chunk = 1
    /\ \A r \in Recipients : rows[r].status = "NONE" /\ Untouched(r)

\* The chunks before the current one are recorded, the current one and
\* those after it are not; the keys of a request are untouched until the
\* provider answers, and a request that is sent again left them untouched.
WaitInv ==
  pc = "wait" =>
    \A r \in Recipients :
      /\ (rows[r].status = "NONE") <=> (ChunkOf[r] >= chunk)
      /\ ChunkOf[r] > chunk => Untouched(r)
      /\ ChunkOf[r] = chunk =>
           /\ att[<<r, attempt # "direct">>] = "none"
           /\ reply.kind \notin {"accept", "lost"} => Untouched(r)

DoneInv == pc = "done" => \A r \in Recipients : rows[r].status # "NONE"

\* After a crash only the chunk whose request was out may be half done.
CrashInv ==
  pc = "crashed" =>
    \A r \in Recipients : \E fb \in BOOLEAN : att[<<r, fb>>] = "none"

\* The key a row does not have was never accepted, so the key it has is
\* the only one results can come for.
KeyInv ==
  \A r \in Recipients :
    rows[r].status # "NONE" => att[<<r, ~rows[r].fb>>] = "none"

\* A shown result is the provider's.
ShownInv ==
  \A r \in Recipients :
    rows[r].status = "DONE" =>
      rows[r].code \in Final /\ att[<<r, rows[r].fb>>] = rows[r].code

\* An answer that waits to be applied is for the key the row still has, and
\* a final answer is still the provider's result.
AskedInv ==
  \A r \in DOMAIN asked :
    /\ rows[r].status # "NONE"
    /\ asked[r].fb = rows[r].fb
    /\ asked[r].answer \in Final => att[<<r, rows[r].fb>>] = asked[r].answer

IInv ==
  /\ TypeOK
  /\ IdleInv /\ WaitInv /\ DoneInv /\ CrashInv
  /\ KeyInv /\ ShownInv /\ AskedInv
  /\ AckedIsRecorded

(***************************************************************************)
(* Types of the helpers.                                                   *)
(***************************************************************************)
\* A set of recipients has a natural number of elements.
LEMMA RecipientsCount ==
  \A S \in SUBSET Recipients : Cardinality(S) \in Nat
BY CampaignAssumption, FS_Subset, FS_CardinalityType

\* What the dispatch writes when it ends is a campaign record.
LEMMA FinalizedType ==
  ASSUME TypeOK, NEW messages \in [Recipients -> Row],
         NEW lost \in SUBSET Recipients
  PROVE  Finalized(messages, Cardinality(lost)) \in Campaigns
<1> DEFINE total == Cardinality(Recipients)
           n == Cardinality(lost)
<1>1. total \in Nat /\ n \in Nat /\ n <= total
  BY CampaignAssumption, RecipientsCount, FS_Subset
<1>2. camp \in Campaigns /\ CreatedCampaign \in Campaigns
  BY <1>1 DEF TypeOK, CreatedCampaign, Campaigns, CampaignStates
<1>3. total - n \in Nat
  BY <1>1
<1>4. camp.completed + 1 \in Nat
  BY <1>2 DEF Campaigns
<1>5. FinalVerdict(n) \in Campaigns
  <2> HIDE DEF n
  <2> QED
    BY <1>1, <1>3, <1>4 DEF FinalVerdict, Campaigns, CampaignStates
<1>6. Flushed(camp, CreatedCampaign, FinalVerdict(n)) \in Campaigns
  BY <1>2, <1>5, FlushedType
<1>7. Refreshed(FinalVerdict(n),
                Flushed(camp, CreatedCampaign, FinalVerdict(n)),
                messages) \in Campaigns
  BY <1>5, <1>6, RefreshedType, CampaignAssumption
<1> QED
  BY <1>5, <1>6, <1>7, FlushedType DEF Finalized

(***************************************************************************)
(* Type correctness.                                                       *)
(***************************************************************************)
LEMMA TypeInit == Init => TypeOK
<1> SUFFICES ASSUME Init PROVE TypeOK
  OBVIOUS
<1>1. rows \in [Recipients -> Row]
  BY DEF Init, NoRow, Row, Statuses, Codes
<1>2. camp \in Campaigns
  BY DEF Init, Campaigns, CampaignStates
<1>3. asked \in AnswersFor({})
  BY DEF Init, NoAnswers, AnswersFor
<1>4. chunk \in 1..NChunks /\ age \in 0..RetentionOver
  BY CampaignAssumption DEF Init, RetentionOver
<1>5. att \in [Keys -> AttemptStates]
  BY DEF Init, AttemptStates
<1> QED
  BY <1>1, <1>2, <1>3, <1>4, <1>5 DEF Init, TypeOK

\* Recording a chunk keeps the types, whatever rows are written.
LEMMA AdvanceType ==
  ASSUME TypeOK, NEW messages \in [Recipients -> Row],
         NEW lost \in SUBSET Recipients, NEW last \in 1..NChunks,
         Advance(messages, lost, last)
  PROVE  TypeOK'
<1>1. Finalized(messages, Cardinality(lost)) \in Campaigns
  BY FinalizedType
<1>2. camp' \in Campaigns
  BY <1>1 DEF Advance, MoreChunks, TypeOK
<1>3. chunk' \in 1..NChunks /\ pc' \in {"idle", "wait", "done", "crashed"}
  BY CampaignAssumption DEF Advance, MoreChunks, TypeOK
<1> QED
  BY <1>2, <1>3 DEF Advance, MoreChunks, TypeOK

LEMMA RowsFromDispatch ==
  /\ \A r \in Recipients : RowFromResponse(r) \in Row
  /\ \A explicit \in BOOLEAN : FailedRow(explicit) \in Row
BY DEF RowFromResponse, FailedRow, Row, Statuses, OpenStatuses, Codes,
       ResultCodes

LEMMA AnsweredRowsType ==
  ASSUME TypeOK PROVE AnsweredRows \in [Recipients -> Row]
<1>1. PICK R \in SUBSET Recipients : asked \in AnswersFor(R)
  BY DEF TypeOK
<1>2. \A r \in DOMAIN asked :
        /\ asked[r].fb \in BOOLEAN
        /\ asked[r].answer \in Final \cup {"reg", "noresult"}
  BY <1>1 DEF AnswersFor
<1>3. \A r \in Recipients : rows[r] \in Row
  BY DEF TypeOK
<1> QED
  BY <1>2, <1>3, AfterAnswerRow DEF AnsweredRows, Final, ResultCodes

\* Every step keeps the types.
LEMMA TypeStep == TypeOK /\ [Next]_vars => TypeOK'
<1> SUFFICES ASSUME TypeOK, [Next]_vars PROVE TypeOK'
  OBVIOUS
<1>1. CASE CreateCampaign
  <2>1. Cardinality(Recipients) \in Nat
    BY RecipientsCount
  <2>2. camp' \in Campaigns
    BY <1>1, <2>1 DEF CreateCampaign, CreatedCampaign, Campaigns,
                      CampaignStates
  <2> QED
    BY <1>1, <2>2 DEF CreateCampaign, TypeOK
<1>2. ASSUME NEW answer \in Replies, ProviderAnswers(answer) PROVE TypeOK'
  <2>1. att' \in [Keys -> AttemptStates]
    BY <1>2 DEF ProviderAnswers, TypeOK, AttemptStates
  <2> QED
    BY <1>2, <2>1 DEF ProviderAnswers, TypeOK
<1>3. CASE RecordAccepted
  <2> DEFINE messages == [r \in Recipients |->
               IF r \in Chunk(chunk) THEN RowFromResponse(r) ELSE rows[r]]
             lost == failed \cup (Chunk(chunk) \ reply.ok)
  <2>1. messages \in [Recipients -> Row]
    BY RowsFromDispatch DEF TypeOK
  <2>2. lost \in SUBSET Recipients
    BY DEF TypeOK, Chunk
  <2>3. chunk \in 1..NChunks /\ Advance(messages, lost, chunk)
    BY <1>3 DEF RecordAccepted, TypeOK
  <2> QED
    BY <2>1, <2>2, <2>3, AdvanceType
<1>4. CASE RepeatRequest \/ SendDirect
  BY <1>4 DEF RepeatRequest, SendDirect, Resend, TypeOK
<1>5. CASE StopOnAuthError
  <2> DEFINE rest == {r \in Recipients : ChunkOf[r] >= chunk}
             messages == [r \in Recipients |->
               IF r \in rest THEN FailedRow(TRUE) ELSE rows[r]]
  <2>1. messages \in [Recipients -> Row]
    BY RowsFromDispatch DEF TypeOK
  <2>2. failed \cup rest \in SUBSET Recipients
    BY DEF TypeOK
  <2>3. NChunks \in 1..NChunks /\ Advance(messages, failed \cup rest, NChunks)
    BY <1>5, CampaignAssumption DEF StopOnAuthError
  <2> QED
    BY <2>1, <2>2, <2>3, AdvanceType
<1>6. CASE RecordFailure
  <2>1. PICK explicit \in BOOLEAN : RecordFailed(explicit)
    BY <1>6 DEF RecordFailure
  <2> DEFINE messages == [r \in Recipients |->
               IF r \in Chunk(chunk) THEN FailedRow(explicit) ELSE rows[r]]
  <2>2. messages \in [Recipients -> Row]
    BY RowsFromDispatch DEF TypeOK
  <2>3. failed \cup Chunk(chunk) \in SUBSET Recipients
    BY DEF TypeOK, Chunk
  <2>4. chunk \in 1..NChunks
        /\ Advance(messages, failed \cup Chunk(chunk), chunk)
    BY <2>1 DEF RecordFailed, TypeOK
  <2> QED
    BY <2>2, <2>3, <2>4, AdvanceType
<1>7. ASSUME NEW k \in Keys, ProviderSettlesLimbo(k) \/ ProviderResolves(k)
      PROVE  TypeOK'
  BY <1>7 DEF ProviderSettlesLimbo, ProviderResolves, TypeOK, AttemptStates,
              Final, dispatchVars, reconcileVars
<1>8. ASSUME NEW batch \in SUBSET Keys, ReceiveReport(batch) PROVE TypeOK'
  <2>1. \A k \in batch : att[k] \in ResultCodes
    BY <1>8 DEF ReceiveReport, Final, ResultCodes
  <2>2. \A k \in batch, row \in Row, fb \in BOOLEAN :
          AfterReport(row, fb, att[k]) \in Row
    BY <2>1, AfterReportRow
  <2>3. rows' \in [Recipients -> Row]
    BY <1>8, <2>2 DEF ReceiveReport, TypeOK
  <2>4. camp' = camp \/ camp' = Refreshed(camp, camp, rows')
    BY <1>8 DEF ReceiveReport
  <2>5. camp' \in Campaigns
    BY <2>3, <2>4, RefreshedType, CampaignAssumption DEF TypeOK
  <2>6. acked' \in SUBSET Keys
    BY <1>8 DEF ReceiveReport, TypeOK
  <2> QED
    BY <1>8, <2>3, <2>5, <2>6
    DEF ReceiveReport, TypeOK, dispatchVars, reconcileVars
<1>9. CASE QuerySent
  <2>1. asked' \in AnswersFor(Queried(PassToRun))
    BY <1>9 DEF QuerySent, AnswersFor, ProviderState, TypeOK, Row,
                AttemptStates, Final, Keys, Queried
  <2>2. Queried(PassToRun) \in SUBSET Recipients
    BY DEF Queried
  <2>3. pass' \in {"pending", "failed"}
    BY <1>9 DEF QuerySent, OtherPass
  <2> QED
    BY <1>9, <2>1, <2>2, <2>3 DEF QuerySent, TypeOK, dispatchVars
<1>10. CASE QueryFails
  BY <1>10 DEF QueryFails, OtherPass, TypeOK, dispatchVars
<1>11. CASE ApplyAnswers
  <2>1. rows' \in [Recipients -> Row]
    BY <1>11, AnsweredRowsType DEF ApplyAnswers
  <2> DEFINE fresh == Refreshed(camp, camp, AnsweredRows)
  <2>2. fresh \in Campaigns
    BY AnsweredRowsType, RefreshedType, CampaignAssumption DEF TypeOK
  <2>3. camp' \in {camp, fresh, [fresh EXCEPT !.state = "DISPATCHING"]}
    BY <1>11 DEF ApplyAnswers, AfterAnswers
  <2>4. [fresh EXCEPT !.state = "DISPATCHING"] \in Campaigns
    <3> HIDE DEF fresh
    <3> QED
      BY <2>2 DEF Campaigns, CampaignStates
  <2>5. camp' \in Campaigns
    BY <2>2, <2>3, <2>4 DEF TypeOK
  <2>6. asked' \in AnswersFor({})
    BY <1>11 DEF ApplyAnswers, NoAnswers, AnswersFor
  <2> QED
    BY <1>11, <2>1, <2>5, <2>6 DEF ApplyAnswers, TypeOK, dispatchVars
<1>12. CASE TimePasses
  <2>1. age' \in 0..RetentionOver
    BY <1>12, CampaignAssumption
    DEF TimePasses, TypeOK, OldestLimit, RetentionOver
  <2> QED
    BY <1>12, <2>1 DEF TimePasses, TypeOK, dispatchVars, reconcileVars
<1>13. CASE Crash
  <2>1. att' \in [Keys -> AttemptStates]
    BY <1>13 DEF Crash, TypeOK, AttemptStates
  <2>2. asked' \in AnswersFor({})
    BY <1>13 DEF Crash, NoAnswers, AnswersFor
  <2> QED
    BY <1>13, <2>1, <2>2 DEF Crash, TypeOK
<1>14. CASE UNCHANGED vars
  BY <1>14 DEF vars, TypeOK
<1> QED
  BY <1>1, <1>2, <1>3, <1>4, <1>5, <1>6, <1>7, <1>8, <1>9, <1>10, <1>11,
     <1>12, <1>13, <1>14 DEF Next, Dispatch

\* The variables of a campaign keep their types, whatever it sends to how
\* many recipients in how many chunks.
THEOREM TypeCorrect == Spec => []TypeOK
BY TypeInit, TypeStep, PTL DEF Spec

(***************************************************************************)
(* The inductive invariant.                                                *)
(***************************************************************************)
LEMMA InvInit == Init => IInv
<1> SUFFICES ASSUME Init PROVE IInv
  OBVIOUS
<1>1. TypeOK
  BY TypeInit
<1>2. \A r \in Recipients : rows[r].status = "NONE" /\ Untouched(r)
  BY DEF Init, NoRow, Untouched, Keys
<1>3. DOMAIN asked = {}
  BY DEF Init, NoAnswers
<1> QED
  BY <1>1, <1>2, <1>3 DEF Init, IInv, IdleInv, WaitInv, DoneInv, CrashInv,
                          KeyInv, ShownInv, AskedInv, AckedIsRecorded

\* A report settles a row whose key it carries, and any other row it finds
\* settled already.
LEMMA ReportSettles ==
  ASSUME NEW row \in Row, NEW code \in ResultCodes
  PROVE  LET after == AfterReport(row, row.fb, code)
         IN  /\ row.status \in {"NONE", "DONE"} => after = row
             /\ row.status \notin {"NONE", "DONE"} =>
                  after.status = "DONE" /\ after.code = code
             /\ after.fb = row.fb
BY DEF AfterReport, Unsettled, Superseded, Row

\* An answer for the key of a recorded row keeps its key, settles it only
\* with a final answer, and leaves a settled row alone.
LEMMA AnswerSettles ==
  ASSUME NEW row \in Row, row.status # "NONE",
         NEW answer \in Final \cup {"reg", "noresult"}
  PROVE  LET after == AfterAnswer(row, row.fb, answer)
         IN  /\ row.status = "DONE" => after = row
             /\ after.status # "NONE"
             /\ after.fb = row.fb
             /\ (after.status = "DONE" /\ row.status # "DONE") =>
                  answer \in Final /\ after.code = answer
<1>1. CASE answer = "noresult"
  BY <1>1 DEF AfterAnswer, ClosedByNoResult, Row, OpenStatuses
<1>2. CASE answer # "noresult" /\ ~Unsettled(row, row.fb)
  BY <1>2 DEF AfterAnswer, Unsettled, Superseded
<1>3. CASE answer # "noresult" /\ Unsettled(row, row.fb)
  <2>1. row.status # "DONE"
    BY <1>3 DEF Unsettled
  <2>2. CASE answer = "reg"
    BY <1>3, <2>1, <2>2 DEF AfterAnswer, Row
  <2>3. CASE answer # "reg"
    BY <1>3, <2>1, <2>3 DEF AfterAnswer, Row
  <2> QED
    BY <2>2, <2>3
<1> QED
  BY <1>1, <1>2, <1>3

\* The dispatch records the chunks from the current one up to last, with
\* rows whose other key was never accepted.
LEMMA RecordStep ==
  ASSUME IInv, TypeOK', pc = "wait",
         NEW messages \in [Recipients -> Row], NEW lost,
         NEW last \in chunk..NChunks,
         Advance(messages, lost, last),
         \A r \in Recipients :
           ~(chunk <= ChunkOf[r] /\ ChunkOf[r] <= last) => messages[r] = rows[r],
         \A r \in Recipients :
           (chunk <= ChunkOf[r] /\ ChunkOf[r] <= last)
             => messages[r].status \notin {"NONE", "DONE"},
         \A r \in Recipients :
           (chunk <= ChunkOf[r] /\ ChunkOf[r] <= last)
             => att[<<r, ~messages[r].fb>>] = "none"
  PROVE  IInv'
<1>1. /\ rows' = messages /\ att' = att /\ acked' = acked /\ asked' = asked
      /\ reply' = NoReply /\ attempt' = "first"
  BY DEF Advance, MoreChunks
<1>2. /\ NChunks \in Nat /\ chunk \in 1..NChunks /\ last \in chunk..NChunks
      /\ \A r \in Recipients : ChunkOf[r] \in 1..NChunks
  BY CampaignAssumption DEF IInv, TypeOK
<1>3. \A r \in Recipients : rows[r].status = "NONE" <=> ChunkOf[r] >= chunk
  BY DEF IInv, WaitInv
<1>4. \A r \in Recipients :
        rows[r].status # "NONE" => rows'[r] = rows[r]
  BY <1>1, <1>2, <1>3
<1>5. \A r \in Recipients : rows'[r].status = "NONE" <=> ChunkOf[r] > last
  BY <1>1, <1>2, <1>3
<1>6. pc' \in {"wait", "done"}
  BY DEF Advance, MoreChunks
<1>7. IdleInv' /\ CrashInv'
  BY <1>6 DEF IdleInv, CrashInv
<1>8. WaitInv'
  <2>1. ASSUME pc' = "wait", NEW r \in Recipients
        PROVE  /\ rows'[r].status = "NONE" <=> ChunkOf[r] >= chunk'
               /\ ChunkOf[r] >= chunk' => Untouched(r)'
    <3>1. chunk' = last + 1
      BY <2>1 DEF Advance, MoreChunks
    <3>2. ChunkOf[r] > chunk => Untouched(r)
      BY DEF IInv, WaitInv
    <3>3. ChunkOf[r] > chunk => Untouched(r)'
      BY <1>1, <3>2 DEF Untouched
    <3> QED
      BY <1>2, <1>5, <3>1, <3>3
  <2>2. TRUE = (attempt' # "direct")
    BY <1>1
  <2>3. \A r \in Recipients :
          Untouched(r)' => att'[<<r, attempt' # "direct">>] = "none"
    BY <2>2, Zenon DEF Untouched
  <2>4. \A r \in Recipients :
          /\ ChunkOf[r] > chunk' => ChunkOf[r] >= chunk'
          /\ ChunkOf[r] = chunk' => ChunkOf[r] >= chunk'
    BY <1>2, CampaignAssumption DEF TypeOK
  <2> QED
    BY <2>1, <2>3, <2>4, Zenon DEF WaitInv
<1>9. DoneInv'
  BY <1>2, <1>5 DEF Advance, MoreChunks, DoneInv
<1>10. KeyInv'
  <2> SUFFICES ASSUME NEW r \in Recipients, rows'[r].status # "NONE"
               PROVE  att[<<r, ~rows'[r].fb>>] = "none"
    BY <1>1 DEF KeyInv
  <2> QED
    BY <1>1, <1>2, <1>3 DEF IInv, KeyInv
<1>11. ShownInv'
  <2> SUFFICES ASSUME NEW r \in Recipients, rows'[r].status = "DONE"
               PROVE  /\ rows'[r].code \in Final
                      /\ att[<<r, rows'[r].fb>>] = rows'[r].code
    BY <1>1 DEF ShownInv
  <2>1. rows'[r] = rows[r]
    BY <1>1
  <2> QED
    BY <2>1 DEF IInv, ShownInv
<1>12. AskedInv'
  <2>1. \A r \in DOMAIN asked : r \in Recipients /\ rows'[r] = rows[r]
    BY <1>4 DEF IInv, AskedInv, TypeOK, AnswersFor
  <2> QED
    BY <1>1, <2>1 DEF IInv, AskedInv
<1>13. AckedIsRecorded'
  <2>1. \A k \in acked : rows[k[1]].status # "NONE" /\ k[1] \in Recipients
    BY DEF IInv, AckedIsRecorded, TypeOK, Keys
  <2> QED
    BY <1>1, <1>4, <2>1 DEF IInv, AckedIsRecorded
<1> QED
  BY <1>7, <1>8, <1>9, <1>10, <1>11, <1>12, <1>13 DEF IInv

\* A step of the provider alone that sends nothing and keeps its results.
LEMMA ProviderStep ==
  ASSUME IInv, TypeOK',
         \A k \in Keys : att[k] = "none" => att'[k] = "none",
         \A k \in Keys : att[k] \in Final => att'[k] = att[k],
         UNCHANGED <<dispatchVars, rows, camp, acked, reconcileVars, age>>
  PROVE  IInv'
<1>1. \A r \in Recipients, fb \in BOOLEAN :
        /\ att[<<r, fb>>] = "none" => att'[<<r, fb>>] = "none"
        /\ att[<<r, fb>>] \in Final => att'[<<r, fb>>] = att[<<r, fb>>]
  BY DEF Keys
<1>2. \A r \in Recipients : Untouched(r) => Untouched(r)'
  BY <1>1 DEF Untouched
<1>3. IdleInv'
  BY <1>2 DEF IInv, IdleInv, dispatchVars
<1>4. WaitInv'
  <2>1. \A r \in Recipients :
          att[<<r, attempt # "direct">>] = "none"
            => att'[<<r, attempt # "direct">>] = "none"
    BY <1>1, Zenon
  <2> QED
    BY <1>2, <2>1, Zenon DEF IInv, WaitInv, dispatchVars
<1>5. DoneInv'
  BY DEF IInv, DoneInv, dispatchVars
<1>6. CrashInv'
  BY <1>1, Zenon DEF IInv, CrashInv, dispatchVars
<1>7. KeyInv'
  BY <1>1, Zenon DEF IInv, KeyInv
<1>8. ShownInv'
  <2> SUFFICES ASSUME NEW r \in Recipients, rows[r].status = "DONE"
               PROVE  /\ rows[r].code \in Final
                      /\ att'[<<r, rows[r].fb>>] = rows[r].code
    BY DEF ShownInv
  <2>1. rows[r].fb \in BOOLEAN
    BY DEF IInv, TypeOK, Row
  <2> QED
    BY <1>1, <2>1 DEF IInv, ShownInv
<1>9. AskedInv'
  <2> SUFFICES ASSUME NEW r \in DOMAIN asked
               PROVE  /\ rows[r].status # "NONE"
                      /\ asked[r].fb = rows[r].fb
                      /\ asked[r].answer \in Final =>
                           att'[<<r, rows[r].fb>>] = asked[r].answer
    BY DEF AskedInv, reconcileVars
  <2>1. r \in Recipients
    BY DEF IInv, TypeOK, AnswersFor
  <2>2. rows[r].fb \in BOOLEAN
    BY <2>1 DEF IInv, TypeOK, Row
  <2> QED
    BY <1>1, <2>1, <2>2 DEF IInv, AskedInv
<1>10. AckedIsRecorded'
  BY DEF IInv, AckedIsRecorded, dispatchVars
<1> QED
  BY <1>3, <1>4, <1>5, <1>6, <1>7, <1>8, <1>9, <1>10 DEF IInv

\* The provider's answer to a request touches keys of the current chunk
\* only, which has no rows yet.
LEMMA AnswerStep ==
  ASSUME IInv, TypeOK', NEW answer \in Replies, ProviderAnswers(answer)
  PROVE  IInv'
<1>1. pc = "wait" /\ reply = NoReply /\ reply' = answer
      /\ UNCHANGED <<pc, chunk, attempt, rows, acked, asked>>
  BY DEF ProviderAnswers
<1>2. \A r \in Recipients :
        /\ (rows[r].status = "NONE") <=> (ChunkOf[r] >= chunk)
        /\ ChunkOf[r] > chunk => Untouched(r)
        /\ ChunkOf[r] = chunk => Untouched(r)
  BY <1>1 DEF IInv, WaitInv, NoReply
<1>3. \A r \in Recipients, fb \in BOOLEAN :
        ChunkOf[r] # chunk => att'[<<r, fb>>] = att[<<r, fb>>]
  BY DEF ProviderAnswers, RequestKeys, Chunk, Keys
<1>4. \A r \in Recipients : ChunkOf[r] # chunk /\ Untouched(r) => Untouched(r)'
  BY <1>3 DEF Untouched
<1>5. /\ chunk \in Nat
      /\ \A r \in Recipients : ChunkOf[r] \in Nat /\ rows[r].fb \in BOOLEAN
  BY CampaignAssumption DEF IInv, TypeOK, Row
<1>6. \A r \in Recipients : rows[r].status # "NONE" => ChunkOf[r] # chunk
  BY <1>2, <1>5
<1>7. WaitInv'
  <2>1. \A r \in Recipients : ChunkOf[r] > chunk => Untouched(r)'
    BY <1>2, <1>4, <1>5
  <2>2. ASSUME NEW r \in Recipients, ChunkOf[r] = chunk
        PROVE  att'[<<r, attempt # "direct">>] = "none"
    <3>1. att[<<r, attempt # "direct">>] = "none"
      BY <1>2, <2>2, Zenon DEF Untouched
    <3>2. <<r, attempt # "direct">> \in Keys
      BY Zenon DEF Keys
    <3>3. <<r, attempt # "direct">> \notin RequestKeys
      BY Zenon DEF RequestKeys
    <3> QED
      BY <3>1, <3>2, <3>3, Zenon DEF ProviderAnswers
  <2>3. ASSUME answer.kind \notin {"accept", "lost"},
               NEW r \in Recipients, ChunkOf[r] = chunk
        PROVE  Untouched(r)'
    <3>1. att' = [k \in Keys |-> att[k]]
      BY <2>3 DEF ProviderAnswers
    <3> QED
      BY <1>2, <2>3, <3>1 DEF Untouched, Keys
  <2> QED
    BY <1>1, <1>2, <2>1, <2>2, <2>3, Zenon DEF WaitInv
<1>8. KeyInv'
  <2>1. ASSUME NEW r \in Recipients, rows[r].status # "NONE",
               NEW fb \in BOOLEAN, att[<<r, fb>>] = "none"
        PROVE  att'[<<r, fb>>] = "none"
    BY <1>3, <1>6, <2>1
  <2> QED
    BY <1>1, <2>1, Zenon DEF IInv, KeyInv
<1>9. ShownInv'
  <2> SUFFICES ASSUME NEW r \in Recipients, rows[r].status = "DONE"
               PROVE  /\ rows[r].code \in Final
                      /\ att'[<<r, rows[r].fb>>] = rows[r].code
    BY <1>1 DEF ShownInv
  <2> QED
    BY <1>3, <1>5, <1>6 DEF IInv, ShownInv
<1>10. AskedInv'
  <2> SUFFICES ASSUME NEW r \in DOMAIN asked
               PROVE  /\ rows[r].status # "NONE"
                      /\ asked[r].fb = rows[r].fb
                      /\ asked[r].answer \in Final =>
                           att'[<<r, rows[r].fb>>] = asked[r].answer
    BY <1>1 DEF AskedInv
  <2>1. r \in Recipients
    BY DEF IInv, TypeOK, AnswersFor
  <2> QED
    BY <1>3, <1>5, <1>6, <2>1 DEF IInv, AskedInv
<1>11. IdleInv' /\ DoneInv' /\ CrashInv' /\ AckedIsRecorded'
  BY <1>1 DEF IdleInv, DoneInv, CrashInv, IInv, AckedIsRecorded
<1> QED
  BY <1>7, <1>8, <1>9, <1>10, <1>11 DEF IInv

\* A step outside the dispatch loop that leaves the provider alone, records
\* no recipient anew and keeps the keys and the settled rows.
LEMMA RowsStep ==
  ASSUME IInv, TypeOK', UNCHANGED <<dispatchVars, att>>,
         \A r \in Recipients :
           (rows[r].status = "NONE") <=> (rows'[r].status = "NONE"),
         \A r \in Recipients : rows'[r].fb = rows[r].fb,
         \A r \in Recipients : rows[r].status = "DONE" => rows'[r] = rows[r],
         \A r \in Recipients :
           (rows'[r].status = "DONE" /\ rows[r].status # "DONE") =>
             /\ rows'[r].code \in Final
             /\ att[<<r, rows[r].fb>>] = rows'[r].code,
         \A r \in DOMAIN asked' : r \in DOMAIN asked /\ asked'[r] = asked[r],
         \A k \in acked' \ acked :
           IF rows'[k[1]].status = "NONE" THEN pc = "crashed"
           ELSE rows'[k[1]].status = "DONE" /\ rows'[k[1]].fb = k[2]
  PROVE  IInv'
<1>1. pc' = pc /\ chunk' = chunk /\ attempt' = attempt /\ reply' = reply
        /\ att' = att
  BY DEF dispatchVars
<1>2. IdleInv' /\ WaitInv' /\ DoneInv' /\ CrashInv'
  <2>1. IdleInv' /\ DoneInv'
    BY <1>1, Zenon DEF IInv, IdleInv, DoneInv, Untouched
  <2>2. WaitInv'
    <3>1. \A r \in Recipients : Untouched(r) => Untouched(r)'
      BY <1>1 DEF Untouched
    <3>2. \A r \in Recipients : pc = "wait" =>
            ((rows'[r].status = "NONE") <=> (ChunkOf[r] >= chunk))
      BY DEF IInv, WaitInv
    <3>3. \A r \in Recipients :
            att[<<r, attempt # "direct">>] = "none"
              => att'[<<r, attempt' # "direct">>] = "none"
      BY <1>1, Zenon
    <3>4. /\ pc' = "wait" => pc = "wait"
          /\ \A r \in Recipients :
               /\ ChunkOf[r] > chunk' => ChunkOf[r] > chunk
               /\ ChunkOf[r] = chunk' => ChunkOf[r] = chunk
               /\ ChunkOf[r] >= chunk => ChunkOf[r] >= chunk'
               /\ ChunkOf[r] >= chunk' => ChunkOf[r] >= chunk
          /\ reply'.kind \notin {"accept", "lost"}
               => reply.kind \notin {"accept", "lost"}
      BY <1>1, Zenon
    <3> QED
      BY <3>1, <3>2, <3>3, <3>4, Zenon DEF IInv, WaitInv
  <2>3. CrashInv'
    BY <1>1, Zenon DEF IInv, CrashInv
  <2> QED
    BY <2>1, <2>2, <2>3
<1>3. KeyInv'
  <2> SUFFICES ASSUME NEW r \in Recipients, rows'[r].status # "NONE"
               PROVE  att[<<r, ~rows'[r].fb>>] = "none"
    BY <1>1 DEF KeyInv
  <2>1. rows[r].status # "NONE" /\ rows'[r].fb = rows[r].fb
    OBVIOUS
  <2>2. KeyInv
    BY DEF IInv
  <2> QED
    BY <2>1, <2>2, Zenon DEF KeyInv
<1>4. ShownInv'
  <2> SUFFICES ASSUME NEW r \in Recipients, rows'[r].status = "DONE"
               PROVE  /\ rows'[r].code \in Final
                      /\ att[<<r, rows'[r].fb>>] = rows'[r].code
    BY <1>1 DEF ShownInv
  <2> QED
    BY DEF IInv, ShownInv
<1>5. AskedInv'
  <2> SUFFICES ASSUME NEW r \in DOMAIN asked'
               PROVE  /\ rows'[r].status # "NONE"
                      /\ asked'[r].fb = rows'[r].fb
                      /\ asked'[r].answer \in Final =>
                           att[<<r, rows'[r].fb>>] = asked'[r].answer
    BY <1>1 DEF AskedInv
  <2>1. r \in DOMAIN asked /\ r \in Recipients
    BY DEF IInv, TypeOK, AnswersFor
  <2> QED
    BY <2>1 DEF IInv, AskedInv
<1>6. AckedIsRecorded'
  <2> SUFFICES ASSUME NEW k \in acked', k \in acked
               PROVE  IF rows'[k[1]].status = "NONE" THEN pc = "crashed"
                      ELSE rows'[k[1]].status = "DONE" /\ rows'[k[1]].fb = k[2]
    BY <1>1 DEF AckedIsRecorded
  <2>1. k[1] \in Recipients
    BY DEF IInv, TypeOK, Keys
  <2> QED
    BY <2>1 DEF IInv, AckedIsRecorded
<1> QED
  BY <1>2, <1>3, <1>4, <1>5, <1>6 DEF IInv

\* A report is for the key its row has, since the other key was never
\* accepted; so it settles the row with the provider's result.
LEMMA ReportStep ==
  ASSUME IInv, TypeOK', NEW batch \in SUBSET Keys, ReceiveReport(batch)
  PROVE  /\ IInv'
         /\ att' = att
         /\ \A r \in Recipients :
              /\ (rows[r].status = "NONE") <=> (rows'[r].status = "NONE")
              /\ rows[r].status = "DONE" => rows'[r] = rows[r]
<1> DEFINE ready == {k \in batch : ~IsUnrecorded(k)}
<1>1. \A k \in batch : att[k] \in Final /\ att[k] \in ResultCodes
                        /\ k = <<k[1], k[2]>>
                        /\ k[1] \in Recipients /\ k[2] \in BOOLEAN
  BY DEF ReceiveReport, Final, ResultCodes, Keys
<1>2. \A r \in Recipients : rows[r] \in Row /\ rows[r].fb \in BOOLEAN
  BY DEF IInv, TypeOK, Row
<1>3. ASSUME NEW r \in Recipients, NEW fb \in BOOLEAN, <<r, fb>> \in batch,
             rows[r].status # "NONE"
      PROVE  rows[r].fb = fb
  <2>1. att[<<r, fb>>] # "none"
    BY <1>1, <1>3 DEF Final
  <2>2. att[<<r, ~rows[r].fb>>] = "none"
    BY <1>3, Zenon DEF IInv, KeyInv
  <2>3. fb # ~rows[r].fb
    BY <2>1, <2>2, Zenon
  <2> QED
    BY <1>2, <2>3
<1>4. \A r \in Recipients :
        rows'[r] = IF <<r, TRUE>> \in ready
                   THEN AfterReport(rows[r], TRUE, att[<<r, TRUE>>])
                   ELSE IF <<r, FALSE>> \in ready
                   THEN AfterReport(rows[r], FALSE, att[<<r, FALSE>>])
                   ELSE rows[r]
  <2>1. \A k \in Keys : k \in ready <=> k \in {j \in batch : ~IsUnrecorded(j)}
    OBVIOUS
  <2> HIDE DEF ready
  <2> QED
    BY <2>1 DEF ReceiveReport, Keys
<1>5. \A r \in Recipients :
        rows[r].status = "NONE" =>
          \A fb \in BOOLEAN, code \in ResultCodes :
            AfterReport(rows[r], fb, code) = rows[r]
  BY DEF AfterReport, Unsettled
<1>6. \A r \in Recipients : rows[r].status = "NONE" => rows'[r] = rows[r]
  BY <1>1, <1>4, <1>5
<1>7. ASSUME NEW r \in Recipients, rows[r].status # "NONE",
             NEW fb \in BOOLEAN, <<r, fb>> \in ready
      PROVE  /\ rows[r].fb = fb
             /\ rows'[r] = AfterReport(rows[r], rows[r].fb, att[<<r, fb>>])
             /\ att[<<r, fb>>] \in Final
             /\ att[<<r, fb>>] \in ResultCodes
  <2>1. rows[r].fb = fb
    BY <1>3, <1>7
  <2>2. <<r, ~fb>> \notin batch
    BY <1>3, <1>7, <2>1
  <2> QED
    BY <1>1, <1>4, <1>7, <2>1, <2>2
<1>8. \A r \in Recipients :
        /\ rows[r].status = "NONE" <=> rows'[r].status = "NONE"
        /\ rows'[r].fb = rows[r].fb
        /\ rows[r].status = "DONE" => rows'[r] = rows[r]
        /\ (rows'[r].status = "DONE" /\ rows[r].status # "DONE") =>
             /\ rows'[r].code \in Final
             /\ att[<<r, rows[r].fb>>] = rows'[r].code
  <2> SUFFICES ASSUME NEW r \in Recipients, rows[r].status # "NONE"
               PROVE  /\ rows'[r].status # "NONE"
                      /\ rows'[r].fb = rows[r].fb
                      /\ rows[r].status = "DONE" => rows'[r] = rows[r]
                      /\ (rows'[r].status = "DONE" /\ rows[r].status # "DONE")
                           => /\ rows'[r].code \in Final
                              /\ att[<<r, rows[r].fb>>] = rows'[r].code
    BY <1>6
  <2>1. CASE \E fb \in BOOLEAN : <<r, fb>> \in ready
    <3>1. PICK fb \in BOOLEAN : <<r, fb>> \in ready
      BY <2>1
    <3> QED
      BY <1>2, <1>7, <3>1, ReportSettles
  <2>2. CASE \A fb \in BOOLEAN : <<r, fb>> \notin ready
    BY <1>4, <2>2
  <2> QED
    BY <2>1, <2>2
<1>9. UNCHANGED <<dispatchVars, att>>
      /\ \A r \in DOMAIN asked' : r \in DOMAIN asked /\ asked'[r] = asked[r]
  BY DEF ReceiveReport, reconcileVars
<1>10. ASSUME NEW k \in acked' \ acked
       PROVE  IF rows'[k[1]].status = "NONE" THEN pc = "crashed"
              ELSE rows'[k[1]].status = "DONE" /\ rows'[k[1]].fb = k[2]
  <2>1. ready = batch /\ k \in batch
    BY <1>10 DEF ReceiveReport
  <2>2. k = <<k[1], k[2]>> /\ k[1] \in Recipients /\ k[2] \in BOOLEAN
    BY <1>1, <2>1
  <2>3. CASE rows[k[1]].status = "NONE"
    <3>1. pc # "wait"
      BY <2>1, <2>3 DEF IsUnrecorded
    <3>2. att[<<k[1], k[2]>>] # "none"
      BY <1>1, <2>1 DEF Final
    <3>3. pc # "idle"
      BY <2>2, <3>2, Zenon DEF IInv, IdleInv, Untouched
    <3>4. pc # "done"
      BY <2>2, <2>3 DEF IInv, DoneInv
    <3> QED
      BY <1>6, <2>2, <2>3, <3>1, <3>3, <3>4 DEF IInv, TypeOK
  <2>4. CASE rows[k[1]].status # "NONE"
    <3>1. <<k[1], k[2]>> \in ready
      BY <2>1, <2>2
    <3> QED
      BY <1>2, <1>7, <1>8, <2>2, <2>4, <3>1, ReportSettles
  <2> QED
    BY <2>3, <2>4
<1> QED
  BY <1>8, <1>9, <1>10, RowsStep

\* Applying the answers of a query settles rows with the provider's results
\* only, for the key they were asked for.
LEMMA ApplyStep ==
  ASSUME IInv, TypeOK', ApplyAnswers
  PROVE  /\ IInv'
         /\ att' = att
         /\ \A r \in Recipients :
              (rows[r].status = "NONE") <=> (rows'[r].status = "NONE")
         /\ \A r \in Recipients :
              rows[r].status = "DONE" => rows'[r] = rows[r]
<1>1. \A r \in Recipients : rows[r] \in Row
  BY DEF IInv, TypeOK
<1>2. \A r \in DOMAIN asked :
        /\ r \in Recipients
        /\ asked[r].answer \in Final \cup {"reg", "noresult"}
  BY DEF IInv, TypeOK, AnswersFor
<1>3. \A r \in Recipients : r \notin DOMAIN asked => rows'[r] = rows[r]
  BY DEF ApplyAnswers, AnsweredRows
<1>4. ASSUME NEW r \in DOMAIN asked
      PROVE  /\ rows[r].status # "NONE"
             /\ rows'[r] = AfterAnswer(rows[r], rows[r].fb, asked[r].answer)
  BY <1>2 DEF ApplyAnswers, AnsweredRows, IInv, AskedInv
<1>5. ASSUME NEW r \in DOMAIN asked
      PROVE  /\ rows[r].status = "DONE" => rows'[r] = rows[r]
             /\ rows'[r].status # "NONE"
             /\ rows'[r].fb = rows[r].fb
             /\ (rows'[r].status = "DONE" /\ rows[r].status # "DONE") =>
                  asked[r].answer \in Final /\ rows'[r].code = asked[r].answer
  BY <1>1, <1>2, <1>4, AnswerSettles
<1>6. \A r \in Recipients :
        (rows[r].status = "NONE") <=> (rows'[r].status = "NONE")
  BY <1>3, <1>4, <1>5
<1>7. \A r \in Recipients : rows'[r].fb = rows[r].fb
  BY <1>3, <1>5
<1>8. \A r \in Recipients : rows[r].status = "DONE" => rows'[r] = rows[r]
  BY <1>3, <1>5
<1>9. \A r \in Recipients :
        (rows'[r].status = "DONE" /\ rows[r].status # "DONE") =>
          /\ rows'[r].code \in Final
          /\ att[<<r, rows[r].fb>>] = rows'[r].code
  BY <1>3, <1>5 DEF IInv, AskedInv
<1>10. UNCHANGED <<dispatchVars, att>> /\ acked' = acked /\ DOMAIN asked' = {}
  BY DEF ApplyAnswers, NoAnswers
<1> QED
  BY <1>6, <1>7, <1>8, <1>9, <1>10, RowsStep

\* The rows of a query are asked for under the key they have.
LEMMA QueryStep ==
  ASSUME IInv, TypeOK', QuerySent PROVE IInv'
<1>1. /\ UNCHANGED <<dispatchVars, rows, att, acked>>
      /\ asked' = [r \in Queried(PassToRun) |->
                    [fb |-> rows[r].fb,
                     answer |-> ProviderState(<<r, rows[r].fb>>)]]
  BY DEF QuerySent
<1>2. \A r \in Queried(PassToRun) : r \in Recipients /\ rows[r].status # "NONE"
  BY DEF Queried, OpenStatuses
<1>3. \A k \in Keys : ProviderState(k) \in Final => att[k] = ProviderState(k)
  BY DEF ProviderState, Final
<1>4. \A r \in Recipients : <<r, rows[r].fb>> \in Keys
  BY DEF IInv, TypeOK, Row, Keys
<1>5. AskedInv'
  BY <1>1, <1>2, <1>3, <1>4 DEF AskedInv
<1>6. /\ pc' = pc /\ chunk' = chunk /\ attempt' = attempt /\ reply' = reply
      /\ rows' = rows /\ att' = att /\ acked' = acked
  BY <1>1 DEF dispatchVars
<1>7. IdleInv' /\ DoneInv' /\ CrashInv' /\ KeyInv' /\ ShownInv'
        /\ AckedIsRecorded'
  BY <1>6 DEF IInv, IdleInv, DoneInv, CrashInv, KeyInv, ShownInv,
              AckedIsRecorded, Untouched
<1>8. WaitInv'
  BY <1>6 DEF IInv, WaitInv, Untouched
<1> QED
  BY <1>5, <1>7, <1>8 DEF IInv

\* A crash leaves at most the keys of the request that was out in limbo.
LEMMA CrashStep ==
  ASSUME IInv, TypeOK', Crash PROVE IInv'
<1>1. /\ rows' = rows /\ acked' = acked /\ DOMAIN asked' = {}
      /\ pc' \in {"crashed", pc} /\ pc' # "wait"
  BY DEF Crash, NoAnswers
<1>2. ASSUME pc # "wait" PROVE att' = att /\ pc' = pc
  BY <1>2 DEF Crash, IInv, TypeOK
<1>3. CASE pc # "wait"
  <2>1. pc' = pc /\ att' = att /\ chunk' = chunk
    BY <1>2, <1>3 DEF Crash
  <2>2. IdleInv' /\ DoneInv' /\ CrashInv'
    BY <1>1, <2>1 DEF IInv, IdleInv, DoneInv, CrashInv, Untouched
  <2>3. KeyInv' /\ ShownInv'
    BY <1>1, <2>1 DEF IInv, KeyInv, ShownInv
  <2>4. WaitInv' /\ AskedInv'
    BY <1>1 DEF WaitInv, AskedInv
  <2>5. AckedIsRecorded'
    BY <1>1, <2>1 DEF IInv, AckedIsRecorded
  <2> QED
    BY <2>2, <2>3, <2>4, <2>5 DEF IInv
<1>4. CASE pc = "wait"
  <2>1. pc' = "crashed"
    BY <1>4 DEF Crash
  <2>2. /\ chunk \in Nat
        /\ \A r \in Recipients : ChunkOf[r] \in Nat /\ rows[r].fb \in BOOLEAN
    BY CampaignAssumption DEF IInv, TypeOK, Row
  <2>3. \A r \in Recipients, fb \in BOOLEAN :
          ChunkOf[r] # chunk => att'[<<r, fb>>] = att[<<r, fb>>]
    BY DEF Crash, RequestKeys, Chunk, Keys
  <2>4. \A r \in Recipients :
          (rows[r].status = "NONE") <=> (ChunkOf[r] >= chunk)
    BY <1>4 DEF IInv, WaitInv
  <2>5. \A r \in Recipients : rows[r].status # "NONE" => ChunkOf[r] # chunk
    BY <2>2, <2>4
  <2>6. ASSUME NEW r \in Recipients
        PROVE  \E fb \in BOOLEAN : att'[<<r, fb>>] = "none"
    <3>1. CASE ChunkOf[r] > chunk
      <4>1. Untouched(r)
        BY <1>4, <3>1 DEF IInv, WaitInv
      <4>2. ChunkOf[r] # chunk
        BY <2>2, <3>1
      <4> QED
        BY <2>3, <4>1, <4>2 DEF Untouched
    <3>2. CASE ChunkOf[r] = chunk
      <4>1. att[<<r, attempt # "direct">>] = "none"
        BY <1>4, <3>2, Zenon DEF IInv, WaitInv
      <4>2. <<r, attempt # "direct">> \in Keys
        BY Zenon DEF Keys
      <4>3. <<r, attempt # "direct">> \notin RequestKeys
        BY Zenon DEF RequestKeys
      <4>4. att'[<<r, attempt # "direct">>] = "none"
        BY <4>1, <4>2, <4>3, Zenon DEF Crash
      <4>5. (attempt # "direct") = TRUE \/ (attempt # "direct") = FALSE
        BY Zenon
      <4> QED
        BY <4>4, <4>5, Zenon
    <3>3. CASE ChunkOf[r] < chunk
      <4>1. rows[r].status # "NONE"
        BY <2>2, <2>4, <3>3
      <4>2. att[<<r, ~rows[r].fb>>] = "none" /\ (~rows[r].fb) \in BOOLEAN
        BY <4>1, Zenon DEF IInv, KeyInv
      <4>3. ChunkOf[r] # chunk
        BY <2>5, <4>1
      <4>4. att'[<<r, ~rows[r].fb>>] = "none"
        BY <2>3, <4>2, <4>3, Zenon
      <4> QED
        BY <4>2, <4>4, Zenon
    <3> QED
      BY <2>2, <3>1, <3>2, <3>3
  <2>7. KeyInv'
    <3>1. ASSUME NEW r \in Recipients, rows[r].status # "NONE",
                 NEW fb \in BOOLEAN, att[<<r, fb>>] = "none"
          PROVE  att'[<<r, fb>>] = "none"
      BY <2>3, <2>5, <3>1
    <3> QED
      BY <1>1, <3>1, Zenon DEF IInv, KeyInv
  <2>8. ShownInv'
    <3> SUFFICES ASSUME NEW r \in Recipients, rows[r].status = "DONE"
                 PROVE  /\ rows[r].code \in Final
                        /\ att'[<<r, rows[r].fb>>] = rows[r].code
      BY <1>1 DEF ShownInv
    <3> QED
      BY <2>2, <2>3, <2>5 DEF IInv, ShownInv
  <2>9. AckedIsRecorded'
    BY <1>1, <1>4, <2>1 DEF IInv, AckedIsRecorded
  <2> QED
    BY <1>1, <2>1, <2>6, <2>7, <2>8, <2>9
    DEF IInv, IdleInv, WaitInv, DoneInv, CrashInv, AskedInv
<1> QED
  BY <1>3, <1>4

\* Every step keeps the inductive invariant.
LEMMA InvStep == IInv /\ [Next]_vars => IInv'
<1> SUFFICES ASSUME IInv, [Next]_vars PROVE IInv'
  OBVIOUS
<1>1. TypeOK'
  BY TypeStep DEF IInv
<1>2. CASE CreateCampaign
  <2>1. /\ pc = "idle" /\ pc' = "wait" /\ chunk' = 1
        /\ UNCHANGED <<attempt, reply, rows, att, acked, asked>>
    BY <1>2 DEF CreateCampaign, IInv, IdleInv
  <2>2. \A r \in Recipients :
          rows[r].status = "NONE" /\ Untouched(r) /\ ChunkOf[r] \in 1..NChunks
    BY <2>1, CampaignAssumption DEF IInv, IdleInv
  <2>3. \A r \in Recipients : rows'[r].status = "NONE" /\ ChunkOf[r] >= chunk'
    BY <2>1, <2>2, CampaignAssumption
  <2>4. \A r \in Recipients :
          Untouched(r)' /\ att'[<<r, attempt' # "direct">>] = "none"
    BY <2>1, <2>2, Zenon DEF Untouched
  <2>5. WaitInv'
    BY <2>3, <2>4, Zenon DEF WaitInv
  <2>6. acked = {} /\ DOMAIN asked = {}
    <3>1. \A k \in acked : k[1] \in Recipients
      BY DEF IInv, TypeOK, Keys
    <3>2. DOMAIN asked \subseteq Recipients
      BY DEF IInv, TypeOK, AnswersFor
    <3> QED
      BY <2>1, <2>2, <3>1, <3>2 DEF IInv, AckedIsRecorded, AskedInv
  <2> QED
    BY <1>1, <2>1, <2>2, <2>5, <2>6
    DEF IInv, IdleInv, DoneInv, CrashInv, KeyInv, ShownInv, AskedInv,
        AckedIsRecorded
<1>3. ASSUME NEW answer \in Replies, ProviderAnswers(answer) PROVE IInv'
  BY <1>1, <1>3, AnswerStep
<1>4. CASE RecordAccepted
  <2> DEFINE messages == [r \in Recipients |->
               IF r \in Chunk(chunk) THEN RowFromResponse(r) ELSE rows[r]]
             lost == failed \cup (Chunk(chunk) \ reply.ok)
  <2>1. messages \in [Recipients -> Row]
    BY RowsFromDispatch DEF IInv, TypeOK
  <2>2. pc = "wait" /\ Advance(messages, lost, chunk)
    BY <1>4 DEF RecordAccepted
  <2>3. chunk \in chunk..NChunks /\ chunk \in Nat
        /\ \A r \in Recipients : ChunkOf[r] \in Nat
    BY CampaignAssumption DEF IInv, TypeOK
  <2>4. \A r \in Recipients :
          ~(chunk <= ChunkOf[r] /\ ChunkOf[r] <= chunk) => messages[r] = rows[r]
    BY <2>3 DEF Chunk
  <2>5. \A r \in Recipients :
          (chunk <= ChunkOf[r] /\ ChunkOf[r] <= chunk)
            => ChunkOf[r] = chunk /\ messages[r] = RowFromResponse(r)
    BY <2>3 DEF Chunk
  <2>6. \A r \in Recipients :
          (chunk <= ChunkOf[r] /\ ChunkOf[r] <= chunk)
            => messages[r].status \notin {"NONE", "DONE"}
    <3>1. \A r \in Recipients :
            RowFromResponse(r).status \in {"PENDING", "REG", "FAILED"}
      BY DEF RowFromResponse
    <3> QED
      BY <2>5, <3>1
  <2>7. \A r \in Recipients :
          (chunk <= ChunkOf[r] /\ ChunkOf[r] <= chunk)
            => att[<<r, ~messages[r].fb>>] = "none"
    <3>1. \A r \in Recipients : RowFromResponse(r).fb = (attempt = "direct")
      BY DEF RowFromResponse
    <3>2. \A r \in Recipients :
            ChunkOf[r] = chunk => att[<<r, attempt # "direct">>] = "none"
      BY <2>2, Zenon DEF IInv, WaitInv
    <3>3. (~(attempt = "direct")) = (attempt # "direct")
      OBVIOUS
    <3> QED
      BY <2>5, <3>1, <3>2, <3>3, Zenon
  <2> QED
    BY <1>1, <2>1, <2>2, <2>3, <2>4, <2>6, <2>7, RecordStep
<1>5. CASE RepeatRequest \/ SendDirect
  <2>1. /\ pc = "wait" /\ reply.kind \notin {"accept", "lost"}
        /\ reply' = NoReply
        /\ UNCHANGED <<pc, chunk, rows, att, acked, asked>>
    BY <1>5 DEF RepeatRequest, SendDirect, MayRepeat, MaySendDirect, Resend
  <2>2. \A r \in Recipients : ChunkOf[r] = chunk => Untouched(r)
    BY <2>1 DEF IInv, WaitInv
  <2>3. \A r \in Recipients :
          ChunkOf[r] = chunk => att[<<r, attempt' # "direct">>] = "none"
    BY <2>2, Zenon DEF Untouched
  <2>4. \A r \in Recipients : Untouched(r) => Untouched(r)'
    BY <2>1 DEF Untouched
  <2>5. \A r \in Recipients :
          /\ (rows'[r].status = "NONE") <=> (ChunkOf[r] >= chunk')
          /\ ChunkOf[r] > chunk' => Untouched(r)'
    BY <2>1, <2>4 DEF IInv, WaitInv
  <2>6. \A r \in Recipients :
          ChunkOf[r] = chunk' =>
            /\ att'[<<r, attempt' # "direct">>] = "none"
            /\ Untouched(r)'
    BY <2>1, <2>2, <2>3, <2>4, Zenon
  <2>7. WaitInv'
    BY <2>5, <2>6, Zenon DEF WaitInv
  <2> QED
    BY <1>1, <2>1, <2>7
    DEF IInv, IdleInv, DoneInv, CrashInv, KeyInv, ShownInv, AskedInv,
        AckedIsRecorded
<1>6. CASE StopOnAuthError
  <2> DEFINE rest == {r \in Recipients : ChunkOf[r] >= chunk}
             messages == [r \in Recipients |->
               IF r \in rest THEN FailedRow(TRUE) ELSE rows[r]]
  <2>1. messages \in [Recipients -> Row]
    BY RowsFromDispatch DEF IInv, TypeOK
  <2>2. /\ pc = "wait" /\ reply.kind = "auth" /\ attempt # "direct"
        /\ Advance(messages, failed \cup rest, NChunks)
    BY <1>6 DEF StopOnAuthError, MustStop
  <2>3. /\ chunk \in Nat /\ NChunks \in Nat /\ NChunks \in chunk..NChunks
        /\ \A r \in Recipients : ChunkOf[r] \in 1..NChunks
    BY CampaignAssumption DEF IInv, TypeOK
  <2>4. \A r \in Recipients :
          ~(chunk <= ChunkOf[r] /\ ChunkOf[r] <= NChunks)
            => messages[r] = rows[r]
    <3>1. \A r \in Recipients :
            ~(chunk <= ChunkOf[r] /\ ChunkOf[r] <= NChunks)
              => ~(ChunkOf[r] >= chunk)
      BY <2>3
    <3>2. \A r \in Recipients : ~(ChunkOf[r] >= chunk) => messages[r] = rows[r]
      OBVIOUS
    <3> QED
      BY <3>1, <3>2, Zenon
  <2>5. \A r \in Recipients :
          (chunk <= ChunkOf[r] /\ ChunkOf[r] <= NChunks)
            => r \in rest /\ messages[r] = FailedRow(TRUE)
    BY <2>3
  <2>6. FailedRow(TRUE).status = "FAILED" /\ FailedRow(TRUE).fb = FALSE
    BY <2>2 DEF FailedRow
  <2>7. \A r \in Recipients :
          (chunk <= ChunkOf[r] /\ ChunkOf[r] <= NChunks)
            => messages[r].status \notin {"NONE", "DONE"}
    <3> HIDE DEF messages, rest
    <3> QED
      BY <2>5, <2>6
  <2>8. \A r \in Recipients :
          (chunk <= ChunkOf[r] /\ ChunkOf[r] <= NChunks)
            => att[<<r, ~messages[r].fb>>] = "none"
    <3>1. \A r \in Recipients : ChunkOf[r] >= chunk => Untouched(r)
      <4>1. \A r \in Recipients :
              ChunkOf[r] >= chunk => ChunkOf[r] > chunk \/ ChunkOf[r] = chunk
        BY <2>3
      <4>2. reply.kind \notin {"accept", "lost"}
        BY <2>2
      <4> QED
        BY <2>2, <4>1, <4>2, Zenon DEF IInv, WaitInv
    <3>2. (~FALSE) = TRUE
      OBVIOUS
    <3> QED
      BY <2>5, <2>6, <3>1, <3>2, Zenon DEF Untouched
  <2> QED
    BY <1>1, <2>1, <2>2, <2>3, <2>4, <2>7, <2>8, RecordStep
<1>7. CASE RecordFailure
  <2>1. PICK explicit \in BOOLEAN : RecordFailed(explicit)
    BY <1>7 DEF RecordFailure
  <2> DEFINE messages == [r \in Recipients |->
               IF r \in Chunk(chunk) THEN FailedRow(explicit) ELSE rows[r]]
  <2>2. messages \in [Recipients -> Row]
    BY RowsFromDispatch DEF IInv, TypeOK
  <2>3. pc = "wait" /\ Advance(messages, failed \cup Chunk(chunk), chunk)
    BY <1>7, <2>1 DEF RecordFailure, RecordFailed
  <2>4. chunk \in chunk..NChunks /\ chunk \in Nat
        /\ \A r \in Recipients : ChunkOf[r] \in Nat
    BY CampaignAssumption DEF IInv, TypeOK
  <2>5. \A r \in Recipients :
          ~(chunk <= ChunkOf[r] /\ ChunkOf[r] <= chunk) => messages[r] = rows[r]
    BY <2>4 DEF Chunk
  <2>6. \A r \in Recipients :
          (chunk <= ChunkOf[r] /\ ChunkOf[r] <= chunk)
            => ChunkOf[r] = chunk /\ messages[r] = FailedRow(explicit)
    BY <2>4 DEF Chunk
  <2>7. \A r \in Recipients :
          (chunk <= ChunkOf[r] /\ ChunkOf[r] <= chunk)
            => messages[r].status \notin {"NONE", "DONE"}
    BY <2>6 DEF FailedRow
  <2>8. \A r \in Recipients :
          (chunk <= ChunkOf[r] /\ ChunkOf[r] <= chunk)
            => att[<<r, ~messages[r].fb>>] = "none"
    <3>1. FailedRow(explicit).fb = (attempt = "direct")
      BY DEF FailedRow
    <3>2. \A r \in Recipients :
            ChunkOf[r] = chunk => att[<<r, attempt # "direct">>] = "none"
      BY <2>3, Zenon DEF IInv, WaitInv
    <3>3. (~(attempt = "direct")) = (attempt # "direct")
      OBVIOUS
    <3> QED
      BY <2>6, <3>1, <3>2, <3>3, Zenon
  <2> QED
    BY <1>1, <2>2, <2>3, <2>4, <2>5, <2>7, <2>8, RecordStep
<1>8. ASSUME NEW k \in Keys, ProviderSettlesLimbo(k) \/ ProviderResolves(k)
      PROVE  IInv'
  <2>1. /\ \A j \in Keys : att[j] = "none" => att'[j] = "none"
        /\ \A j \in Keys : att[j] \in Final => att'[j] = att[j]
    BY <1>8 DEF ProviderSettlesLimbo, ProviderResolves, Final, IInv, TypeOK
  <2>2. UNCHANGED <<dispatchVars, rows, camp, acked, reconcileVars, age>>
    BY <1>8 DEF ProviderSettlesLimbo, ProviderResolves
  <2> QED
    BY <1>1, <2>1, <2>2, ProviderStep
<1>9. ASSUME NEW batch \in SUBSET Keys, ReceiveReport(batch) PROVE IInv'
  BY <1>1, <1>9, ReportStep
<1>10. CASE QuerySent
  BY <1>1, <1>10, QueryStep
<1>11. CASE ApplyAnswers
  BY <1>1, <1>11, ApplyStep
<1>12. CASE QueryFails \/ TimePasses \/ UNCHANGED vars
  <2>1. /\ pc' = pc /\ chunk' = chunk /\ attempt' = attempt /\ reply' = reply
        /\ rows' = rows /\ att' = att /\ acked' = acked /\ asked' = asked
    BY <1>12 DEF QueryFails, TimePasses, vars, dispatchVars, reconcileVars
  <2>2. WaitInv'
    BY <2>1 DEF IInv, WaitInv, Untouched
  <2> QED
    BY <1>1, <2>1, <2>2
    DEF IInv, IdleInv, DoneInv, CrashInv, KeyInv, ShownInv, AskedInv,
        AckedIsRecorded, Untouched
<1>13. CASE Crash
  BY <1>1, <1>13, CrashStep
<1> QED
  BY <1>2, <1>3, <1>4, <1>5, <1>6, <1>7, <1>8, <1>9, <1>10, <1>11, <1>12,
     <1>13 DEF Next, Dispatch

(***************************************************************************)
(* The theorems.                                                           *)
(***************************************************************************)
THEOREM Invariance == Spec => []IInv
BY InvInit, InvStep, PTL DEF Spec

LEMMA InvNoDoubleSend == IInv => NoDoubleSend
<1> SUFFICES ASSUME IInv, NEW r \in Recipients
             PROVE  att[<<r, FALSE>>] = "none" \/ att[<<r, TRUE>>] = "none"
  BY DEF NoDoubleSend
<1>1. CASE pc = "idle"
  BY <1>1 DEF IInv, IdleInv, Untouched
<1>2. CASE rows[r].status # "NONE"
  BY <1>2 DEF IInv, KeyInv, TypeOK, Row
<1>3. CASE pc = "wait" /\ rows[r].status = "NONE"
  <2>1. ChunkOf[r] > chunk \/ ChunkOf[r] = chunk
    <3>1. ChunkOf[r] >= chunk
      BY <1>3, Zenon DEF IInv, WaitInv
    <3> QED
      BY <3>1, CampaignAssumption DEF IInv, TypeOK
  <2>2. CASE ChunkOf[r] > chunk
    BY <1>3, <2>2 DEF IInv, WaitInv, Untouched
  <2>3. CASE ChunkOf[r] = chunk
    <3>1. att[<<r, attempt # "direct">>] = "none"
      BY <1>3, <2>3, Zenon DEF IInv, WaitInv
    <3>2. (attempt # "direct") = TRUE \/ (attempt # "direct") = FALSE
      BY Zenon
    <3> QED
      BY <3>1, <3>2, Zenon
  <2> QED
    BY <2>1, <2>2, <2>3
<1>4. CASE pc = "crashed"
  BY <1>4 DEF IInv, CrashInv
<1>5. CASE pc = "done"
  BY <1>2, <1>5 DEF IInv, DoneInv
<1> QED
  BY <1>1, <1>2, <1>3, <1>4, <1>5 DEF IInv, TypeOK

\* Nobody is sent a message twice, however requests are refused, repeated,
\* replaced by direct messages, lost or cut off by a crash.
THEOREM NothingIsSentTwice == Spec => []NoDoubleSend
BY Invariance, InvNoDoubleSend, PTL

\* A report answered with 200 is settled in its row, or its row was lost
\* with the dispatch that would have written it.
THEOREM AckedReportsAreRecorded == Spec => []AckedIsRecorded
<1>1. IInv => AckedIsRecorded
  BY DEF IInv
<1> QED
  BY <1>1, Invariance, PTL

(***************************************************************************)
(* The campaign implements Delivery.                                       *)
(***************************************************************************)
\* What Truth says, once no recipient has two touched keys.
LEMMA TruthIs ==
  ASSUME TypeOK, NoDoubleSend, NEW r \in Recipients, NEW fb \in BOOLEAN
  PROVE  /\ att[<<r, fb>>] = "ok" => Truth(r) = "delivered"
         /\ att[<<r, fb>>] = "undelivered" => Truth(r) = "undelivered"
         /\ att[<<r, fb>>] = "accepted" => Truth(r) = "sent"
         /\ att[<<r, fb>>] = "limbo" => Truth(r) = "unsent"
<1> DEFINE states == {att[<<r, FALSE>>], att[<<r, TRUE>>]}
<1>1. {att[<<r, b>>] : b \in BOOLEAN} = states
  OBVIOUS
<1>2. att[<<r, FALSE>>] = "none" \/ att[<<r, TRUE>>] = "none"
  BY DEF NoDoubleSend
<1>3. att[<<r, fb>>] \in states
  OBVIOUS
<1> QED
  BY <1>1, <1>2, <1>3 DEF Truth

LEMMA TruthUntouched ==
  ASSUME NEW r \in Recipients, Untouched(r) PROVE Truth(r) = "unsent"
<1>1. {att[<<r, b>>] : b \in BOOLEAN} = {"none"}
  BY DEF Untouched
<1> QED
  BY <1>1 DEF Truth

\* Truth depends on the keys of its recipient alone.
LEMMA TruthKept ==
  ASSUME NEW r \in Recipients,
         \A fb \in BOOLEAN : att'[<<r, fb>>] = att[<<r, fb>>]
  PROVE  Truth(r)' = Truth(r)
BY DEF Truth

LEMMA TruthType ==
  \A r \in Recipients :
    Truth(r) \in {"delivered", "undelivered", "sent", "unsent"}
BY DEF Truth

LEMMA ViewType ==
  \A r \in Recipients :
    View(r) \in {"none", "waiting", "failed", "delivered", "undelivered"}
BY DEF View

\* A step that changes no key, and rows only as the dispatch, the webhook
\* and the reconciliation do, is an observation.
LEMMA ViewStep ==
  ASSUME IInv, IInv', att' = att,
         \A r \in Recipients : rows[r].status = "DONE" => rows'[r] = rows[r],
         \A r \in Recipients :
           rows[r].status = "NONE" => rows'[r].status # "DONE",
         \A r \in Recipients :
           rows[r].status # "NONE" => rows'[r].status # "NONE"
  PROVE  Promise!Observe
<1>1. \A r \in Recipients : Truth(r)' = Truth(r)
  BY TruthKept
<1>2. \A r \in Recipients :
        View(r)' \in {"none", "waiting", "failed", "delivered", "undelivered"}
  BY DEF View
<1>3. ASSUME NEW r \in Recipients, rows[r].status = "DONE"
      PROVE  View(r) \in Promise!Results /\ View(r)' = View(r)
  BY <1>3 DEF View, Promise!Results
<1>4. ASSUME NEW r \in Recipients, rows[r].status = "NONE"
      PROVE  View(r) = "none" /\ View(r)' \in {"none", "waiting", "failed"}
  BY <1>4 DEF View
<1>5. ASSUME NEW r \in Recipients, rows[r].status \notin {"NONE", "DONE"},
             rows'[r].status # "DONE"
      PROVE  View(r) \in {"waiting", "failed"} /\ View(r)' \in {"waiting", "failed"}
  BY <1>5 DEF View
<1>6. ASSUME NEW r \in Recipients, rows[r].status \notin {"NONE", "DONE"},
             rows'[r].status = "DONE"
      PROVE  /\ View(r) \in {"waiting", "failed"}
             /\ View(r)' = Truth(r) /\ View(r)' \in Promise!Results
  <2>1. View(r) \in {"waiting", "failed"}
    BY <1>6 DEF View
  <2>2. rows'[r].fb \in BOOLEAN /\ rows'[r].code \in Final
        /\ att[<<r, rows'[r].fb>>] = rows'[r].code
    BY <1>6 DEF IInv, TypeOK, Row, ShownInv
  <2>3. Truth(r) = IF rows'[r].code = "ok" THEN "delivered" ELSE "undelivered"
    BY <2>2, TruthIs, InvNoDoubleSend DEF IInv, Final
  <2> QED
    BY <1>6, <2>1, <2>3 DEF View, Promise!Results
<1>7. \A r \in Recipients : View(r)' \in
        (IF View(r) \in Promise!Results THEN {View(r)}
         ELSE IF View(r) = "none" THEN {"none", "waiting", "failed"}
         ELSE {"waiting", "failed"} \cup ({Truth(r)} \cap Promise!Results))
  BY <1>3, <1>4, <1>5, <1>6 DEF Promise!Results
<1> QED
  BY <1>1, <1>2, <1>7 DEF Promise!Observe, Promise!NextViews, Promise!Results

\* The steps of the provider: a set of recipients is accepted, or one of
\* them gets its result.
LEMMA TruthStep ==
  ASSUME rows' = rows, NEW R \in SUBSET Recipients,
         \A r \in R : Truth(r) = "unsent" /\ Truth(r)' = "sent",
         \A r \in Recipients \ R : Truth(r)' = Truth(r)
  PROVE  Promise!Accept
<1>1. \A r \in Recipients : View(r)' = View(r)
  BY DEF View
<1> QED
  BY <1>1 DEF Promise!Accept

LEMMA AnswerAccepts ==
  ASSUME IInv, IInv', NEW answer \in Replies, ProviderAnswers(answer)
  PROVE  Promise!Accept
<1> DEFINE R == {r \in Chunk(chunk) : answer.kind = "accept" /\ r \in answer.ok}
<1>1. \A r \in Chunk(chunk) : Untouched(r)
  BY DEF ProviderAnswers, NoReply, IInv, WaitInv, Chunk
<1>2. ASSUME NEW r \in Recipients, r \in R
      PROVE  Truth(r) = "unsent" /\ Truth(r)' = "sent"
  <2>1. Truth(r) = "unsent"
    BY <1>1, <1>2, TruthUntouched
  <2>2. PICK fb \in BOOLEAN : fb = (attempt = "direct")
    OBVIOUS
  <2>3. <<r, fb>> \in Keys /\ <<r, fb>> \in RequestKeys
    BY <1>2, <2>2, Zenon DEF RequestKeys, Keys
  <2>4. att'[<<r, fb>>] = "accepted"
    BY <1>2, <2>3 DEF ProviderAnswers
  <2>5. Truth(r)' = "sent"
    <3>1. TypeOK' /\ NoDoubleSend'
      BY InvNoDoubleSend, PTL DEF IInv
    <3>2. att'[<<r, FALSE>>] = "none" \/ att'[<<r, TRUE>>] = "none"
      BY <3>1 DEF NoDoubleSend
    <3>3. {att'[<<r, b>>] : b \in BOOLEAN} = {att'[<<r, FALSE>>], att'[<<r, TRUE>>]}
      OBVIOUS
    <3> QED
      BY <2>4, <3>2, <3>3 DEF Truth
  <2> QED
    BY <2>1, <2>5
<1>3. ASSUME NEW r \in Recipients, r \notin R
      PROVE  Truth(r)' = Truth(r)
  <2>1. CASE r \notin Chunk(chunk)
    <3>1. \A fb \in BOOLEAN : att'[<<r, fb>>] = att[<<r, fb>>]
      BY <2>1 DEF ProviderAnswers, RequestKeys, Keys
    <3> QED
      BY <3>1, TruthKept
  <2>2. CASE r \in Chunk(chunk)
    <3>1. \A fb \in BOOLEAN : att'[<<r, fb>>] \in {"none", "limbo"}
      BY <1>1, <1>3, <2>2 DEF ProviderAnswers, Untouched, Keys
    <3>2. Truth(r)' = "unsent"
      BY <3>1 DEF Truth
    <3> QED
      BY <1>1, <2>2, <3>2, TruthUntouched
  <2> QED
    BY <2>1, <2>2
<1>4. rows' = rows /\ R \in SUBSET Recipients
  BY DEF ProviderAnswers, Chunk
<1> QED
  BY <1>2, <1>3, <1>4, TruthStep

\* A step at one key leaves the other recipients' truth alone.
LEMMA OneKey ==
  ASSUME NEW k \in Keys, NEW s, TypeOK, att' = [att EXCEPT ![k] = s]
  PROVE  /\ k[1] \in Recipients /\ k[2] \in BOOLEAN /\ k = <<k[1], k[2]>>
         /\ att'[<<k[1], k[2]>>] = s
         /\ \A r \in Recipients : r # k[1] => Truth(r)' = Truth(r)
<1>1. k[1] \in Recipients /\ k[2] \in BOOLEAN /\ k = <<k[1], k[2]>>
  BY DEF Keys
<1>2. ASSUME NEW r \in Recipients, r # k[1] PROVE Truth(r)' = Truth(r)
  <2>1. \A fb \in BOOLEAN : att'[<<r, fb>>] = att[<<r, fb>>]
    BY <1>1, <1>2 DEF TypeOK, Keys
  <2> QED
    BY <2>1, TruthKept
<1> QED
  BY <1>1, <1>2 DEF TypeOK

LEMMA LimboAccepts ==
  ASSUME IInv, IInv', NEW k \in Keys, ProviderSettlesLimbo(k)
  PROVE  Promise!Accept
<1>1. PICK s \in {"accepted", "none"} : att' = [att EXCEPT ![k] = s]
  BY DEF ProviderSettlesLimbo
<1>2. TypeOK /\ NoDoubleSend /\ TypeOK' /\ NoDoubleSend'
  BY InvNoDoubleSend, PTL DEF IInv
<1>3. /\ k[1] \in Recipients /\ k[2] \in BOOLEAN /\ k = <<k[1], k[2]>>
      /\ att'[<<k[1], k[2]>>] = s
      /\ \A r \in Recipients : r # k[1] => Truth(r)' = Truth(r)
  BY <1>1, <1>2, OneKey
<1>4. Truth(k[1]) = "unsent"
  BY <1>2, <1>3, TruthIs DEF ProviderSettlesLimbo
<1>5. rows' = rows
  BY DEF ProviderSettlesLimbo
<1>6. CASE s = "accepted"
  <2>1. att'[<<k[1], FALSE>>] = "none" \/ att'[<<k[1], TRUE>>] = "none"
    BY <1>2, <1>3 DEF NoDoubleSend
  <2>2. {att'[<<k[1], b>>] : b \in BOOLEAN}
          = {att'[<<k[1], FALSE>>], att'[<<k[1], TRUE>>]}
    OBVIOUS
  <2>3. Truth(k[1])' = "sent"
    BY <1>3, <1>6, <2>1, <2>2 DEF Truth
  <2>4. /\ {k[1]} \in SUBSET Recipients
        /\ \A r \in {k[1]} : Truth(r) = "unsent" /\ Truth(r)' = "sent"
        /\ \A r \in Recipients \ {k[1]} : Truth(r)' = Truth(r)
    BY <1>3, <1>4, <2>3
  <2> QED
    BY <1>5, <2>4, TruthStep
<1>7. CASE s = "none"
  <2>1. att[<<k[1], k[2]>>] = "limbo"
    BY <1>3 DEF ProviderSettlesLimbo
  <2>2. att[<<k[1], ~k[2]>>] = "none"
    BY <1>2, <1>3, <2>1 DEF NoDoubleSend
  <2>3. ASSUME NEW fb \in BOOLEAN PROVE att'[<<k[1], fb>>] = "none"
    <3>1. CASE fb = k[2]
      BY <1>3, <1>7, <3>1
    <3>2. CASE fb # k[2]
      <4>1. <<k[1], fb>> # k /\ <<k[1], fb>> \in Keys
        BY <1>3, <3>2 DEF Keys
      <4>2. att[<<k[1], fb>>] = "none"
        BY <1>3, <2>2, <3>2
      <4> QED
        BY <1>1, <1>2, <4>1, <4>2 DEF TypeOK
    <3> QED
      BY <3>1, <3>2
  <2>4. Truth(k[1])' = "unsent"
    BY <2>3 DEF Truth
  <2>5. /\ {} \in SUBSET Recipients
        /\ \A r \in {} : Truth(r) = "unsent" /\ Truth(r)' = "sent"
        /\ \A r \in Recipients \ {} : Truth(r)' = Truth(r)
    BY <1>3, <1>4, <2>4
  <2> QED
    BY <1>5, <2>5, TruthStep
<1> QED
  BY <1>6, <1>7

LEMMA ResolveResolves ==
  ASSUME IInv, IInv', NEW k \in Keys, ProviderResolves(k)
  PROVE  Promise!Resolve(k[1])
<1>1. PICK s \in Final : att' = [att EXCEPT ![k] = s]
  BY DEF ProviderResolves
<1>2. TypeOK /\ NoDoubleSend /\ TypeOK' /\ NoDoubleSend'
  BY InvNoDoubleSend, PTL DEF IInv
<1>3. /\ k[1] \in Recipients /\ k[2] \in BOOLEAN /\ k = <<k[1], k[2]>>
      /\ att'[<<k[1], k[2]>>] = s
      /\ \A r \in Recipients : r # k[1] => Truth(r)' = Truth(r)
  BY <1>1, <1>2, OneKey
<1>4. Truth(k[1]) = "sent"
  BY <1>2, <1>3, TruthIs DEF ProviderResolves
<1>5. Truth(k[1])' \in Promise!Results
  <2>1. att'[<<k[1], FALSE>>] = "none" \/ att'[<<k[1], TRUE>>] = "none"
    BY <1>2, <1>3 DEF NoDoubleSend
  <2>2. {att'[<<k[1], b>>] : b \in BOOLEAN}
          = {att'[<<k[1], FALSE>>], att'[<<k[1], TRUE>>]}
    OBVIOUS
  <2> QED
    BY <1>1, <1>3, <2>1, <2>2 DEF Truth, Final, Promise!Results
<1>6. \A r \in Recipients : View(r)' = View(r)
  BY DEF ProviderResolves, View
<1> QED
  BY <1>3, <1>4, <1>5, <1>6 DEF Promise!Resolve

\* A crash may leave a request in limbo, which accepts nothing yet.
LEMMA CrashAccepts ==
  ASSUME IInv, Crash PROVE Promise!Accept
<1>1. ASSUME NEW r \in Recipients PROVE Truth(r)' = Truth(r)
  <2>1. CASE pc = "wait" /\ reply = NoReply /\ r \in Chunk(chunk)
    <3>1. Untouched(r)
      BY <2>1 DEF NoReply, IInv, WaitInv, Chunk
    <3>2. \A fb \in BOOLEAN : att'[<<r, fb>>] \in {"none", "limbo"}
      BY <3>1 DEF Crash, Untouched, Keys
    <3>3. Truth(r)' = "unsent"
      BY <3>2 DEF Truth
    <3> QED
      BY <3>1, <3>3, TruthUntouched
  <2>2. CASE ~(pc = "wait" /\ reply = NoReply /\ r \in Chunk(chunk))
    <3>1. \A fb \in BOOLEAN : att'[<<r, fb>>] = att[<<r, fb>>]
      BY <2>2 DEF Crash, RequestKeys, Keys
    <3> QED
      BY <3>1, TruthKept
  <2> QED
    BY <2>1, <2>2
<1>2. /\ {} \in SUBSET Recipients
      /\ \A r \in {} : Truth(r) = "unsent" /\ Truth(r)' = "sent"
      /\ \A r \in Recipients \ {} : Truth(r)' = Truth(r)
      /\ rows' = rows
  BY <1>1 DEF Crash
<1> QED
  BY <1>2, TruthStep

\* Every step of the campaign is a step of Delivery or a stutter.
LEMMA RefinementStep ==
  IInv /\ IInv' /\ [Next]_vars => [Promise!Next]_(Promise!vars)
<1> SUFFICES ASSUME IInv, IInv', [Next]_vars
             PROVE  Promise!Accept
                      \/ (\E r \in Recipients : Promise!Resolve(r))
                      \/ Promise!Observe
  BY DEF Promise!Next
<1> DEFINE Chunked(messages) ==
      \A r \in Recipients :
        \/ messages[r] = rows[r]
        \/ /\ rows[r].status = "NONE"
           /\ messages[r].status \in {"PENDING", "REG", "FAILED"}
<1>1. ASSUME NEW messages, NEW lost, NEW last,
             Advance(messages, lost, last), Chunked(messages)
      PROVE  Promise!Observe
  <2>1. rows' = messages /\ att' = att
    BY <1>1 DEF Advance, MoreChunks
  <2> QED
    BY <1>1, <2>1, ViewStep
<1>2. ASSUME NEW explicit \in BOOLEAN
      PROVE  FailedRow(explicit).status \in {"PENDING", "REG", "FAILED"}
  BY DEF FailedRow
<1>3. \A r \in Recipients :
        RowFromResponse(r).status \in {"PENDING", "REG", "FAILED"}
  BY DEF RowFromResponse
<1>4. ASSUME pc = "wait", NEW r \in Recipients, ChunkOf[r] >= chunk
      PROVE  rows[r].status = "NONE"
  BY <1>4, Zenon DEF IInv, WaitInv
<1>5. ASSUME pc = "wait", NEW r \in Chunk(chunk)
      PROVE  r \in Recipients /\ rows[r].status = "NONE"
  BY <1>4, <1>5, CampaignAssumption DEF Chunk, IInv, TypeOK
<1>6. CASE RecordAccepted
  <2> DEFINE messages == [r \in Recipients |->
               IF r \in Chunk(chunk) THEN RowFromResponse(r) ELSE rows[r]]
  <2>1. Chunked(messages)
    BY <1>3, <1>5, <1>6 DEF RecordAccepted
  <2> QED
    BY <1>1, <1>6, <2>1 DEF RecordAccepted
<1>7. CASE StopOnAuthError
  <2> DEFINE rest == {r \in Recipients : ChunkOf[r] >= chunk}
             messages == [r \in Recipients |->
               IF r \in rest THEN FailedRow(TRUE) ELSE rows[r]]
  <2>1. Chunked(messages)
    BY <1>2, <1>4, <1>7 DEF StopOnAuthError
  <2>2. Advance(messages, failed \cup rest, NChunks)
    BY <1>7 DEF StopOnAuthError
  <2> QED
    BY <1>1, <2>1, <2>2
<1>8. CASE RecordFailure
  <2>1. PICK explicit \in BOOLEAN : RecordFailed(explicit)
    BY <1>8 DEF RecordFailure
  <2> DEFINE messages == [r \in Recipients |->
               IF r \in Chunk(chunk) THEN FailedRow(explicit) ELSE rows[r]]
  <2>2. Chunked(messages)
    BY <1>2, <1>5, <1>8 DEF RecordFailure
  <2>3. Advance(messages, failed \cup Chunk(chunk), chunk)
    BY <2>1 DEF RecordFailed
  <2> QED
    BY <1>1, <2>2, <2>3
<1>9. ASSUME NEW answer \in Replies, ProviderAnswers(answer)
      PROVE  Promise!Accept
  BY <1>9, AnswerAccepts
<1>10. ASSUME NEW k \in Keys, ProviderSettlesLimbo(k) PROVE Promise!Accept
  BY <1>10, LimboAccepts
<1>11. ASSUME NEW k \in Keys, ProviderResolves(k)
       PROVE  \E r \in Recipients : Promise!Resolve(r)
  <2>1. k[1] \in Recipients
    BY DEF Keys
  <2> QED
    BY <1>11, <2>1, ResolveResolves
<1>12. ASSUME NEW batch \in SUBSET Keys, ReceiveReport(batch)
       PROVE  Promise!Observe
  <2>1. TypeOK'
    BY DEF IInv
  <2> QED
    BY <1>12, <2>1, ReportStep, ViewStep
<1>13. CASE ApplyAnswers
  <2>1. TypeOK'
    BY DEF IInv
  <2> QED
    BY <1>13, <2>1, ApplyStep, ViewStep
<1>14. CASE CreateCampaign \/ RepeatRequest \/ SendDirect \/ QuerySent
              \/ QueryFails \/ TimePasses \/ UNCHANGED vars
  <2>1. rows' = rows /\ att' = att
    BY <1>14 DEF CreateCampaign, RepeatRequest, SendDirect, Resend, QuerySent,
                 QueryFails, TimePasses, vars
  <2> QED
    BY <2>1, ViewStep
<1>15. CASE Crash
  BY <1>15, CrashAccepts
<1> QED
  BY <1>6, <1>7, <1>8, <1>9, <1>10, <1>11, <1>12, <1>13, <1>14, <1>15
  DEF Next, Dispatch

LEMMA RefinementInit == Init => Promise!Init
<1> SUFFICES ASSUME Init PROVE Promise!Init
  OBVIOUS
<1>1. \A r \in Recipients : Untouched(r) /\ View(r) = "none"
  BY DEF Init, Untouched, Keys, NoRow, View
<1> QED
  BY <1>1, TruthUntouched DEF Promise!Init

\* Late, repeated and stale reports and answers never make the campaign
\* show a result that is not the provider's, or change one it shows.
THEOREM DeliveryIsImplemented == Spec => ImplementsDelivery
<1>1. Init => Promise!Init
  BY RefinementInit
<1>2. IInv /\ IInv' /\ [Next]_vars => [Promise!Next]_(Promise!vars)
  BY RefinementStep
<1> QED
  BY <1>1, <1>2, Invariance, PTL DEF Spec, ImplementsDelivery, Promise!Spec

(***************************************************************************)
(* What the campaign's record says.  CountInv adds to IInv what the        *)
(* aggregation of the rows relies on: which rows wait for a result, which  *)
(* recipients the dispatch has counted as failed, and that the counters    *)
(* the dispatch overwrites at its end are those it loaded at its start,    *)
(* or were written by an aggregation since.                                *)
(***************************************************************************)
Taken == {"accepted"} \cup Final

\* The campaign exists once the dispatch runs, no row is canceled, and what
\* failed does not carry the code of an accepted item.
StateInv ==
  /\ pc = "idle" => camp.state = "NONE" /\ reply = NoReply
  /\ pc # "idle" => camp.state \in ReportDrivenStates
  /\ pc \in {"idle", "wait"} => age <= NChunks
  /\ \A r \in Recipients :
       /\ rows[r].status # "CANCELED"
       /\ rows[r].status = "FAILED" => rows[r].code # "ok"

DeliveredInv ==
  camp.state = "COMPLETED" =>
    \A r \in Recipients : rows[r].status = "DONE" /\ rows[r].code = "ok"

\* While the dispatch runs: the provider has what a row waits for, and the
\* dispatch knows which rows failed.
OpenInv ==
  pc = "wait" =>
    /\ \A r \in Recipients :
         /\ rows[r].status \in OpenStatuses => att[<<r, rows[r].fb>>] \in Taken
         /\ rows[r].status = "FAILED" => r \in failed
    /\ reply.kind = "accept" =>
         /\ mode.reserved => reply.ok = Chunk(chunk)
         /\ \A r \in reply.ok : att[<<r, attempt = "direct">>] \in Taken
    /\ \A r \in DOMAIN asked :
         /\ asked[r].answer = "noresult" => rows[r].status \in {"FAILED", "DONE"}
         /\ asked[r].answer = "reg" => att[<<r, rows[r].fb>>] \in Taken

\* While the dispatch runs, the counters are those of the last aggregation.
WaitCount ==
  pc = "wait" =>
    /\ camp.completed = 0
    /\ camp.ok = Cardinality(OkRows(rows))
    /\ FailRows(rows) = {} => camp.fail = 0

DoneCount == pc = "done" => camp.completed \in {0, 1}

CountInv ==
  /\ StateInv /\ DeliveredInv /\ OpenInv
  /\ WaitCount /\ DoneCount /\ CountersSettle

\* What an aggregation of the rows says.
LEMMA AggregateIs ==
  ASSUME NEW m \in [Recipients -> Row], NEW c \in Campaigns, NEW d \in Campaigns,
         c.state \in ReportDrivenStates,
         \A r \in Recipients :
           m[r].status # "CANCELED" /\ (m[r].status = "FAILED" => m[r].code # "ok"),
         NEW k, k = Refreshed(c, d, m)
  PROVE  /\ k.ok = Cardinality(OkRows(m)) /\ k.fail = Cardinality(FailRows(m))
         /\ k.pending = Cardinality(PendingRows(m))
         /\ k.state \in ReportDrivenStates
         /\ (OpenRows(m) = {} /\ \A r \in Recipients : m[r].status # "NONE") =>
              /\ k.pending = 0
              /\ k.state = SettledState(OkRows(m), FailRows(m))
              /\ k.completed = IF c.completed = 0 THEN d.completed + 1 ELSE c.completed
         /\ (\E r \in Recipients : m[r].status = "NONE") =>
              k.state = c.state /\ k.completed = c.completed
         /\ k.completed = c.completed \/ (c.completed = 0 /\ k.completed = d.completed + 1)
         /\ (k.state = "COMPLETED" /\ c.state # "COMPLETED") =>
              \A r \in Recipients : m[r].status = "DONE" /\ m[r].code = "ok"
<1> DEFINE settles == ResultsAreIn(m) /\ c.state \in ReportDrivenStates
           state == SettledState(OkRows(m), FailRows(m))
<1>1. /\ k.ok = Cardinality(OkRows(m)) /\ k.fail = Cardinality(FailRows(m))
      /\ k.pending = Cardinality(PendingRows(m))
      /\ k.state = IF settles THEN state ELSE c.state
      /\ k.completed = IF settles /\ c.completed = 0 THEN d.completed + 1 ELSE c.completed
  BY DEF Refreshed
<1>2. settles <=> ResultsAreIn(m)
  OBVIOUS
<1>3. ASSUME OpenRows(m) = {}, \A r \in Recipients : m[r].status # "NONE"
      PROVE  ResultsAreIn(m) /\ PendingRows(m) = {}
  <2>1. \A r \in Recipients : m[r].status \in {"FAILED", "DONE"}
    BY <1>3 DEF OpenRows, Row, Statuses
  <2>2. Recorded(m) = Recipients
    BY <1>3 DEF Recorded
  <2>3. ASSUME NEW r \in Recipients PROVE r \in OkRows(m) \cup FailRows(m)
    <3>1. r \in DOMAIN m /\ m[r].status \in {"FAILED", "DONE"}
      BY <2>1
    <3>2. m[r].status = "FAILED" => m[r].code # "ok"
      OBVIOUS
    <3> QED
      BY <3>1, <3>2 DEF OkRows, FailRows
  <2>4. PendingRows(m) = {}
    BY <2>2, <2>3 DEF PendingRows
  <2> QED
    BY <2>2, <2>4 DEF ResultsAreIn
<1>4. ASSUME NEW r \in Recipients, m[r].status = "NONE" PROVE ~ResultsAreIn(m)
  <2>1. r \notin Recorded(m)
    BY <1>4 DEF Recorded
  <2> QED
    BY <2>1 DEF ResultsAreIn
<1>5. ASSUME ResultsAreIn(m), state = "COMPLETED", NEW r \in Recipients
      PROVE  m[r].status = "DONE" /\ m[r].code = "ok"
  <2>1. FailRows(m) = {} /\ r \in Recorded(m) /\ r \notin PendingRows(m)
    BY <1>5 DEF ResultsAreIn, SettledState
  <2>2. r \in OkRows(m)
    BY <2>1 DEF PendingRows
  <2> QED
    BY <2>2 DEF OkRows
<1>6. state \in ReportDrivenStates
  BY DEF SettledState, ReportDrivenStates, CampaignStates
<1> HIDE DEF state, settles
<1>7. k.state \in ReportDrivenStates
  BY <1>1, <1>6
<1>8. (OpenRows(m) = {} /\ \A r \in Recipients : m[r].status # "NONE") =>
         /\ k.pending = 0 /\ k.state = state
         /\ k.completed = IF c.completed = 0 THEN d.completed + 1 ELSE c.completed
  BY <1>1, <1>2, <1>3, FS_EmptySet
<1>9. (\E r \in Recipients : m[r].status = "NONE") =>
        k.state = c.state /\ k.completed = c.completed
  BY <1>1, <1>2, <1>4
<1>10. k.completed = c.completed \/ (c.completed = 0 /\ k.completed = d.completed + 1)
  BY <1>1
<1>11. (k.state = "COMPLETED" /\ c.state # "COMPLETED") =>
         \A r \in Recipients : m[r].status = "DONE" /\ m[r].code = "ok"
  BY <1>1, <1>2, <1>5
<1> QED
  BY <1>1, <1>7, <1>8, <1>9, <1>10, <1>11 DEF state

\* The rows that count as delivered, failed or open depend on status and
\* code alone.
LEMMA SameCounts ==
  ASSUME NEW m \in [Recipients -> Row], NEW n \in [Recipients -> Row],
         \A r \in Recipients :
           \/ n[r].status = m[r].status /\ n[r].code = m[r].code
           \/ /\ n[r].status = "FAILED" /\ m[r].status = "FAILED"
              /\ n[r].code # "ok" /\ m[r].code # "ok"
           \/ n[r].status \in OpenStatuses /\ m[r].status \in OpenStatuses
  PROVE  /\ OkRows(n) = OkRows(m) /\ FailRows(n) = FailRows(m)
         /\ OpenRows(n) = OpenRows(m)
<1>1. DOMAIN m = Recipients /\ DOMAIN n = Recipients
  OBVIOUS
<1>2. OkRows(n) = OkRows(m)
  BY <1>1 DEF OkRows, OpenStatuses
<1>3. FailRows(n) = FailRows(m)
  BY <1>1 DEF FailRows, OpenStatuses
<1>4. OpenRows(n) = OpenRows(m)
  BY <1>1 DEF OpenRows, OpenStatuses
<1> QED
  BY <1>2, <1>3, <1>4

\* An answer that is not counted changes nothing that is.
LEMMA UncountedAnswer ==
  ASSUME NEW row \in Row, NEW fb \in BOOLEAN, NEW answer \in Final \cup {"reg", "noresult"},
         row.status # "CANCELED",
         NEW new, new = AfterAnswer(row, fb, answer), ~CountedChange(row, new)
  PROVE  \/ new.status = row.status /\ new.code = row.code
         \/ /\ new.status = "FAILED" /\ row.status = "FAILED"
            /\ new.code # "ok" /\ row.code # "ok"
         \/ new.status \in OpenStatuses /\ row.status \in OpenStatuses
<1>1. CASE answer = "noresult"
  <2>1. CASE ClosedByNoResult(row, fb)
    <3>1. new.status = "FAILED" /\ new.code = "noresult" /\ row.code = "null"
      BY <1>1, <2>1 DEF AfterAnswer, ClosedByNoResult, Row
    <3> QED
      BY <3>1 DEF CountedChange
  <2>2. CASE ~ClosedByNoResult(row, fb)
    BY <1>1, <2>2 DEF AfterAnswer
  <2> QED
    BY <2>1, <2>2
<1>2. CASE answer # "noresult" /\ ~Unsettled(row, fb)
  BY <1>2 DEF AfterAnswer
<1>3. CASE answer \in Final /\ Unsettled(row, fb)
  <2>1. new.status = "DONE" /\ row.status # "DONE"
    BY <1>3 DEF AfterAnswer, Unsettled, Row, Final
  <2> QED
    BY <2>1 DEF CountedChange
<1>4. CASE answer = "reg" /\ Unsettled(row, fb) /\ row.status = "FB_PENDING"
  BY <1>4 DEF AfterAnswer
<1>5. CASE answer = "reg" /\ Unsettled(row, fb) /\ row.status # "FB_PENDING"
  <2>1. new = [row EXCEPT !.status = "REG"]
    BY <1>5 DEF AfterAnswer
  <2>2. new.status = "REG" /\ new.code = row.code
    BY <2>1 DEF Row
  <2>3. row.status \in Statuses /\ row.status # "NONE" /\ row.status # "DONE"
    BY <1>5 DEF Unsettled, Row
  <2>4. row.status # "FAILED"
    BY <2>2 DEF CountedChange
  <2> QED
    BY <2>2, <2>3, <2>4 DEF Statuses, OpenStatuses
<1> QED
  BY <1>1, <1>2, <1>3, <1>4, <1>5

\* At the start nothing is recorded and nothing is counted.
LEMMA CountInit == Init => CountInv
<1> SUFFICES ASSUME Init PROVE CountInv
  OBVIOUS
<1>1. NChunks \in Nat
  BY CampaignAssumption
<1>2. /\ pc = "idle" /\ camp.state = "NONE" /\ age = 0 /\ reply = NoReply
      /\ \A r \in Recipients : rows[r].status = "NONE"
  BY DEF Init, NoRow
<1> QED
  BY <1>1, <1>2 DEF CountInv, StateInv, DeliveredInv, OpenInv, WaitCount,
                    DoneCount, CountersSettle

\* A step that changes neither the rows nor the campaign's record.
LEMMA SameRowsStep ==
  ASSUME CountInv, rows' = rows, camp' = camp,
         pc' = pc \/ (pc = "wait" /\ pc' = "crashed"),
         pc' \in {"idle", "wait"} => age' <= NChunks,
         pc = "idle" => reply' = reply,
         OpenInv'
  PROVE  CountInv'
<1>1. StateInv'
  BY DEF CountInv, StateInv
<1>2. DeliveredInv' /\ WaitCount' /\ DoneCount' /\ CountersSettle'
  <2>1. /\ OkRows(rows)' = OkRows(rows) /\ FailRows(rows)' = FailRows(rows)
        /\ OpenRows(rows)' = OpenRows(rows)
    OBVIOUS
  <2> QED
    BY <2>1 DEF CountInv, DeliveredInv, WaitCount, DoneCount, CountersSettle
<1> QED
  BY <1>1, <1>2 DEF CountInv

\* The provider moves no key away from what a row waits for.
LEMMA ProviderKeepsTaken ==
  ASSUME CountInv, IInv, rows' = rows, asked' = asked, failed' = failed,
         reply' = reply, attempt' = attempt, pc' = pc, mode' = mode,
         chunk' = chunk,
         \A k \in Keys : att[k] \in Taken => att'[k] \in Taken
  PROVE  OpenInv'
<1> SUFFICES ASSUME pc = "wait" PROVE OpenInv'
  BY DEF OpenInv
<1>1. \A r \in Recipients : <<r, rows[r].fb>> \in Keys
  BY DEF IInv, TypeOK, Row, Keys
<1>2. DOMAIN asked \subseteq Recipients
  BY DEF IInv, TypeOK, AnswersFor
<1>3. \A r \in Recipients :
        /\ rows[r].status \in OpenStatuses => att'[<<r, rows[r].fb>>] \in Taken
        /\ rows[r].status = "FAILED" => r \in failed
  BY <1>1 DEF CountInv, OpenInv
<1>4. \A r \in DOMAIN asked :
        /\ asked[r].answer = "noresult" => rows[r].status \in {"FAILED", "DONE"}
        /\ asked[r].answer = "reg" => att'[<<r, rows[r].fb>>] \in Taken
  BY <1>1, <1>2 DEF CountInv, OpenInv
<1>5. ASSUME reply.kind = "accept", NEW r \in reply.ok
      PROVE  att'[<<r, attempt = "direct">>] \in Taken
  <2>1. r \in Recipients
    BY <1>5 DEF IInv, TypeOK, Replies, NoReply, Rejections
  <2>2. <<r, attempt = "direct">> \in Keys
    BY <2>1, Zenon DEF Keys
  <2> QED
    BY <1>5, <2>2, Zenon DEF CountInv, OpenInv
<1>6. reply.kind = "accept" /\ mode.reserved => reply.ok = Chunk(chunk)
  BY DEF CountInv, OpenInv
<1>7. Chunk(chunk)' = Chunk(chunk)
  BY DEF Chunk
<1>8. (attempt' = "direct") = (attempt = "direct")
  OBVIOUS
<1>9. reply'.kind = "accept" =>
        /\ mode'.reserved => reply'.ok = Chunk(chunk)'
        /\ \A r \in reply'.ok : att'[<<r, attempt' = "direct">>] \in Taken
  BY <1>5, <1>6, <1>7, <1>8, Zenon
<1> QED
  BY <1>3, <1>4, <1>9, Zenon DEF OpenInv

\* The chunk whose request is out has no rows yet, so no row waits for a key
\* the provider's answer touches.
LEMMA AnswerKeepsOpen ==
  ASSUME CountInv, IInv, NEW answer \in Replies, ProviderAnswers(answer)
  PROVE  OpenInv'
<1>1. /\ pc = "wait" /\ reply' = answer
      /\ UNCHANGED <<pc, chunk, attempt, rows, asked, failed, mode>>
  BY DEF ProviderAnswers
<1>2. /\ chunk \in Nat
      /\ \A r \in Recipients : ChunkOf[r] \in Nat /\ rows[r].fb \in BOOLEAN
  BY CampaignAssumption DEF IInv, TypeOK, Row
<1>3. \A r \in Recipients : rows[r].status # "NONE" => ChunkOf[r] # chunk
  <2>1. \A r \in Recipients : rows[r].status = "NONE" <=> ChunkOf[r] >= chunk
    BY <1>1, Zenon DEF IInv, WaitInv
  <2> QED
    BY <1>2, <2>1
<1>4. ASSUME NEW r \in Recipients, rows[r].status # "NONE"
      PROVE  att'[<<r, rows[r].fb>>] = att[<<r, rows[r].fb>>]
  BY <1>2, <1>3, <1>4 DEF ProviderAnswers, RequestKeys, Chunk, Keys
<1>5. \A r \in Recipients :
        /\ rows[r].status \in OpenStatuses => att'[<<r, rows[r].fb>>] \in Taken
        /\ rows[r].status = "FAILED" => r \in failed
  BY <1>1, <1>4 DEF CountInv, OpenInv, OpenStatuses
<1>6. ASSUME NEW r \in DOMAIN asked
      PROVE  /\ asked[r].answer = "noresult" => rows[r].status \in {"FAILED", "DONE"}
             /\ asked[r].answer = "reg" => att'[<<r, rows[r].fb>>] \in Taken
  <2>1. r \in Recipients /\ rows[r].status # "NONE"
    BY DEF IInv, TypeOK, AnswersFor, AskedInv
  <2> QED
    BY <1>1, <1>4, <2>1 DEF CountInv, OpenInv
<1>7. ASSUME answer.kind = "accept", NEW r \in answer.ok
      PROVE  att'[<<r, attempt = "direct">>] \in Taken
  <2>1. r \in Chunk(chunk) /\ r \in Recipients
    BY <1>7 DEF ProviderAnswers, Chunk
  <2>2. <<r, attempt = "direct">> \in Keys /\ <<r, attempt = "direct">> \in RequestKeys
    BY <2>1, Zenon DEF Keys, RequestKeys
  <2>3. <<r, attempt = "direct">>[1] = r
    OBVIOUS
  <2>4. att'[<<r, attempt = "direct">>] = "accepted"
    BY <1>7, <2>2, <2>3, Zenon DEF ProviderAnswers
  <2> QED
    BY <2>4, Zenon DEF Taken
<1>8. answer.kind = "accept" /\ mode.reserved => answer.ok = Chunk(chunk)
  BY DEF ProviderAnswers
<1>9. /\ Chunk(chunk)' = Chunk(chunk) /\ (attempt' = "direct") = (attempt = "direct")
      /\ mode' = mode
  BY <1>1 DEF Chunk
<1>10. reply'.kind = "accept" =>
        /\ mode'.reserved => reply'.ok = Chunk(chunk)'
        /\ \A r \in reply'.ok : att'[<<r, attempt' = "direct">>] \in Taken
  BY <1>1, <1>7, <1>8, <1>9, Zenon
<1> QED
  BY <1>1, <1>5, <1>6, <1>10, Zenon DEF OpenInv

\* While the dispatch runs, the provider has not forgotten anything yet: a
\* row it knows nothing of is one the dispatch counted as failed.
LEMMA QueryKeepsOpen ==
  ASSUME CountInv, IInv, QuerySent PROVE OpenInv'
<1> SUFFICES ASSUME pc = "wait" PROVE OpenInv'
  BY DEF OpenInv, QuerySent, dispatchVars
<1>1. /\ UNCHANGED <<pc, mode, chunk, attempt, reply, failed, rows, att>>
      /\ asked' = [r \in Queried(PassToRun) |->
                    [fb |-> rows[r].fb,
                     answer |-> ProviderState(<<r, rows[r].fb>>)]]
  BY DEF QuerySent, dispatchVars
<1>2. age # RetentionOver
  BY CampaignAssumption DEF CountInv, StateInv, RetentionOver
<1>3. ASSUME NEW r \in DOMAIN asked'
      PROVE  /\ asked'[r].answer = "noresult" => rows[r].status \in {"FAILED", "DONE"}
             /\ asked'[r].answer = "reg" => att[<<r, rows[r].fb>>] \in Taken
  <2>1. /\ r \in Recipients
        /\ rows[r].status \in OpenStatuses \/ rows[r].status = "FAILED"
        /\ asked'[r].answer = ProviderState(<<r, rows[r].fb>>)
    BY <1>1, <1>3 DEF Queried
  <2>2. rows[r].status \in OpenStatuses => att[<<r, rows[r].fb>>] \in Taken
    BY <2>1 DEF CountInv, OpenInv
  <2>3. ProviderState(<<r, rows[r].fb>>) = "noresult" =>
          att[<<r, rows[r].fb>>] \notin Taken
    BY <1>2 DEF ProviderState, Taken, Final
  <2>4. ProviderState(<<r, rows[r].fb>>) = "reg" =>
          att[<<r, rows[r].fb>>] \in Taken
    <3>1. att[<<r, rows[r].fb>>] \in AttemptStates
      BY <2>1 DEF IInv, TypeOK, Row, Keys
    <3> QED
      BY <1>2, <3>1 DEF ProviderState, Taken, AttemptStates
  <2> QED
    BY <2>1, <2>2, <2>3, <2>4
<1>4. Chunk(chunk)' = Chunk(chunk)
  BY <1>1 DEF Chunk
<1> QED
  BY <1>1, <1>3, <1>4, Zenon DEF CountInv, OpenInv

\* The steps that change neither the rows nor the campaign's record.
LEMMA CountUnchanged ==
  ASSUME CountInv, IInv,
         \/ \E answer \in Replies : ProviderAnswers(answer)
         \/ \E k \in Keys : ProviderSettlesLimbo(k) \/ ProviderResolves(k)
         \/ RepeatRequest \/ SendDirect \/ QuerySent \/ QueryFails
         \/ TimePasses \/ Crash \/ UNCHANGED vars
  PROVE  CountInv'
<1>1. ASSUME NEW answer \in Replies, ProviderAnswers(answer) PROVE CountInv'
  <2>1. UNCHANGED <<rows, camp, pc, age>> /\ pc = "wait"
    BY <1>1 DEF ProviderAnswers
  <2> QED
    BY <1>1, <2>1, AnswerKeepsOpen, SameRowsStep DEF CountInv, StateInv
<1>2. ASSUME NEW k \in Keys, ProviderSettlesLimbo(k) \/ ProviderResolves(k)
      PROVE  CountInv'
  <2>1. UNCHANGED <<pc, mode, chunk, attempt, reply, failed, rows, camp, asked, age>>
    BY <1>2 DEF ProviderSettlesLimbo, ProviderResolves, dispatchVars, reconcileVars
  <2>2. \A j \in Keys : att[j] \in Taken => att'[j] \in Taken
    BY <1>2 DEF ProviderSettlesLimbo, ProviderResolves, Taken, Final, IInv, TypeOK
  <2>3. OpenInv'
    BY <2>1, <2>2, ProviderKeepsTaken
  <2> QED
    BY <2>1, <2>3, SameRowsStep DEF CountInv, StateInv
<1>3. CASE RepeatRequest \/ SendDirect
  <2>1. /\ UNCHANGED <<pc, mode, chunk, failed, rows, camp, att, asked, age>>
        /\ reply' = NoReply /\ pc = "wait"
    BY <1>3 DEF RepeatRequest, SendDirect, Resend
  <2>2. reply'.kind # "accept"
    BY <2>1 DEF NoReply
  <2>3. OpenInv'
    BY <2>1, <2>2 DEF CountInv, OpenInv
  <2> QED
    BY <2>1, <2>3, SameRowsStep DEF CountInv, StateInv
<1>4. CASE QuerySent
  <2>1. UNCHANGED <<pc, rows, camp, age, reply>>
    BY <1>4 DEF QuerySent, dispatchVars
  <2> QED
    BY <1>4, <2>1, QueryKeepsOpen, SameRowsStep DEF CountInv, StateInv
<1>5. CASE QueryFails \/ TimePasses \/ UNCHANGED vars
  <2>1. UNCHANGED <<pc, mode, chunk, attempt, reply, failed, rows, camp, att, asked>>
    BY <1>5 DEF QueryFails, TimePasses, vars, dispatchVars, reconcileVars
  <2>2. pc \in {"idle", "wait"} => age' <= NChunks
    <3>1. CASE UNCHANGED age
      BY <3>1 DEF CountInv, StateInv
    <3>2. CASE TimePasses
      <4>1. /\ NChunks \in Nat /\ chunk \in 1..NChunks /\ age \in Nat
        BY CampaignAssumption DEF IInv, TypeOK
      <4>2. pc \in {"idle", "wait"} => OldestLimit <= NChunks /\ OldestLimit \in Int
        BY <4>1 DEF OldestLimit
      <4>3. age < OldestLimit /\ age' \in {NChunks, age + 1}
        BY <3>2 DEF TimePasses
      <4> QED
        BY <4>1, <4>2, <4>3
    <3> QED
      BY <1>5, <3>1, <3>2 DEF QueryFails, vars
  <2>3. \A k \in Keys : att[k] \in Taken => att'[k] \in Taken
    BY <2>1
  <2>4. OpenInv'
    BY <2>1, <2>3, ProviderKeepsTaken
  <2> QED
    BY <2>1, <2>2, <2>4, SameRowsStep
<1>6. CASE Crash
  <2>1. /\ UNCHANGED <<rows, camp, age>> /\ pc' # "wait"
        /\ pc' = pc \/ (pc = "wait" /\ pc' = "crashed")
        /\ reply' = NoReply
    BY <1>6 DEF Crash
  <2>2. OpenInv'
    BY <2>1 DEF OpenInv
  <2> QED
    BY <2>1, <2>2, SameRowsStep DEF CountInv, StateInv
<1> QED
  BY <1>1, <1>2, <1>3, <1>4, <1>5, <1>6

\* When the campaign is created nothing is recorded, and no query is out.
LEMMA CreateStep ==
  ASSUME CountInv, IInv, IInv', CreateCampaign PROVE CountInv'
<1>1. /\ pc = "idle" /\ pc' = "wait" /\ camp' = CreatedCampaign
      /\ UNCHANGED <<mode, chunk, attempt, reply, failed, rows, att, asked, age>>
  BY DEF CreateCampaign
<1>2. \A r \in Recipients : rows[r].status = "NONE"
  BY <1>1 DEF IInv, IdleInv
<1>3. age <= NChunks /\ reply.kind # "accept"
  BY <1>1 DEF CountInv, StateInv, NoReply
<1>4. DOMAIN rows = Recipients /\ DOMAIN asked \subseteq Recipients
  BY DEF IInv, TypeOK, AnswersFor
<1>5. \A r \in DOMAIN asked : FALSE
  BY <1>2, <1>4 DEF IInv, AskedInv
<1>6. camp'.state \in {"RESERVED", "DISPATCHING"} /\ camp'.ok = 0
        /\ camp'.fail = 0 /\ camp'.completed = 0
  BY <1>1 DEF CreatedCampaign
<1>7. StateInv'
  BY <1>1, <1>2, <1>3, <1>6 DEF StateInv, ReportDrivenStates, CampaignStates
<1>8. DeliveredInv' /\ DoneCount' /\ CountersSettle'
  BY <1>1, <1>6 DEF DeliveredInv, DoneCount, CountersSettle
<1>9. OpenInv'
  BY <1>1, <1>2, <1>3, <1>5 DEF OpenInv, OpenStatuses
<1>10. OkRows(rows') = {}
  BY <1>1, <1>2, <1>4 DEF OkRows
<1>11. WaitCount'
  BY <1>6, <1>10, FS_EmptySet DEF WaitCount
<1> QED
  BY <1>7, <1>8, <1>9, <1>11 DEF CountInv

\* While a request is out, its chunk has no rows.
LEMMA SomeRowIsMissing ==
  ASSUME IInv, pc = "wait"
  PROVE  \E r \in Recipients : r \in Chunk(chunk) /\ rows[r].status = "NONE"
<1>1. PICK r \in Recipients : ChunkOf[r] = chunk
  BY CampaignAssumption DEF IInv, TypeOK
<1>2. ChunkOf[r] >= chunk
  BY <1>1, CampaignAssumption DEF IInv, TypeOK
<1>3. rows[r].status = "NONE"
  BY <1>2, Zenon DEF IInv, WaitInv
<1> QED
  BY <1>1, <1>3 DEF Chunk

\* A step outside the dispatch that keeps what is settled, and aggregates
\* the rows it changed.
LEMMA RecountStep ==
  ASSUME CountInv, IInv, IInv', OpenInv', pc # "idle",
         UNCHANGED <<pc, reply, age>>,
         \A r \in Recipients :
           /\ (rows[r].status = "NONE") <=> (rows'[r].status = "NONE")
           /\ rows[r].status = "DONE" => rows'[r] = rows[r]
           /\ rows'[r].status # "CANCELED"
           /\ rows'[r].status = "FAILED" => rows'[r].code # "ok",
         \/ camp' = Refreshed(camp, camp, rows')
         \/ /\ camp' = [Refreshed(camp, camp, rows') EXCEPT !.state = "DISPATCHING"]
            /\ Refreshed(camp, camp, rows').pending # 0
  PROVE  CountInv'
<1> DEFINE fresh == Refreshed(camp, camp, rows')
<1>1. /\ rows' \in [Recipients -> Row] /\ camp \in Campaigns
      /\ camp.state \in ReportDrivenStates
  BY DEF IInv, TypeOK, CountInv, StateInv
<1>2. fresh \in Campaigns
  BY <1>1, RefreshedType, CampaignAssumption
<1>3. camp'.ok = fresh.ok /\ camp'.fail = fresh.fail
        /\ camp'.pending = fresh.pending /\ camp'.completed = fresh.completed
        /\ (camp'.state = fresh.state
              \/ (camp'.state = "DISPATCHING" /\ fresh.pending # 0))
  <2> HIDE DEF fresh
  <2>1. CASE camp' = fresh
    BY <2>1
  <2>2. CASE camp' = [fresh EXCEPT !.state = "DISPATCHING"] /\ fresh.pending # 0
    BY <1>2, <2>2 DEF Campaigns
  <2> QED
    BY <2>1, <2>2 DEF fresh
<1> DEFINE m == rows'
<1>4. /\ fresh.ok = Cardinality(OkRows(m)) /\ fresh.fail = Cardinality(FailRows(m))
      /\ fresh.state \in ReportDrivenStates
      /\ (OpenRows(m) = {} /\ \A r \in Recipients : m[r].status # "NONE") =>
           /\ fresh.pending = 0
           /\ fresh.state = SettledState(OkRows(m), FailRows(m))
           /\ fresh.completed = IF camp.completed = 0 THEN camp.completed + 1
                                ELSE camp.completed
      /\ (\E r \in Recipients : m[r].status = "NONE") =>
           fresh.state = camp.state /\ fresh.completed = camp.completed
      /\ fresh.completed = camp.completed
           \/ (camp.completed = 0 /\ fresh.completed = camp.completed + 1)
      /\ (fresh.state = "COMPLETED" /\ camp.state # "COMPLETED") =>
           \A r \in Recipients : m[r].status = "DONE" /\ m[r].code = "ok"
  <2> HIDE DEF m, fresh
  <2>1. m \in [Recipients -> Row] /\ fresh = Refreshed(camp, camp, m)
        /\ \A r \in Recipients :
             m[r].status # "CANCELED" /\ (m[r].status = "FAILED" => m[r].code # "ok")
    BY <1>1 DEF m, fresh
  <2> QED
    BY <1>1, <2>1, AggregateIs
<1> HIDE DEF fresh
<1>5. StateInv'
  BY <1>3, <1>4 DEF CountInv, StateInv, ReportDrivenStates, CampaignStates
<1>6. DeliveredInv'
  <2>1. CASE camp.state = "COMPLETED"
    BY <2>1 DEF CountInv, DeliveredInv
  <2>2. CASE camp.state # "COMPLETED"
    BY <1>3, <1>4, <2>2 DEF DeliveredInv
  <2> QED
    BY <2>1, <2>2
<1>7. WaitCount'
  <2> SUFFICES ASSUME pc = "wait" PROVE WaitCount'
    BY DEF WaitCount
  <2>1. \E r \in Recipients : m[r].status = "NONE"
    BY SomeRowIsMissing
  <2>2. camp.completed = 0
    BY DEF CountInv, WaitCount
  <2>3. camp'.completed = 0 /\ camp'.ok = Cardinality(OkRows(m))
          /\ camp'.fail = Cardinality(FailRows(m))
    BY <1>3, <1>4, <2>1, <2>2
  <2> QED
    BY <2>3, FS_EmptySet DEF WaitCount
<1>8. DoneCount'
  BY <1>3, <1>4 DEF CountInv, DoneCount
<1>9. CountersSettle'
  <2> SUFFICES ASSUME pc = "done", OpenRows(m) = {}
               PROVE  /\ camp'.ok = Cardinality(OkRows(m))
                      /\ camp'.fail = Cardinality(FailRows(m))
                      /\ camp'.pending = 0 /\ camp'.completed = 1
                      /\ camp'.state = SettledState(OkRows(m), FailRows(m))
    BY DEF CountersSettle
  <2>1. \A r \in Recipients : m[r].status # "NONE"
    BY DEF IInv, DoneInv
  <2>2. camp.completed \in {0, 1}
    BY DEF CountInv, DoneCount
  <2>3. fresh.completed = 1
    BY <1>4, <2>1, <2>2
  <2> QED
    BY <1>3, <1>4, <2>1, <2>3
<1> QED
  BY <1>5, <1>6, <1>7, <1>8, <1>9 DEF CountInv

\* A report that changes a row settles it, and a row stays under its key.
LEMMA ReportedRow ==
  ASSUME IInv, IInv', NEW batch \in SUBSET Keys, ReceiveReport(batch),
         NEW r \in Recipients
  PROVE  rows'[r] = rows[r] \/ rows'[r].status = "DONE"
<1> DEFINE ready == {k \in batch : ~IsUnrecorded(k)}
<1>1. \A fb \in BOOLEAN :
        \/ AfterReport(rows[r], fb, att[<<r, fb>>]) = rows[r]
        \/ AfterReport(rows[r], fb, att[<<r, fb>>]).status = "DONE"
  BY DEF AfterReport
<1> HIDE DEF ready
<1>2. \/ rows'[r] = AfterReport(rows[r], TRUE, att[<<r, TRUE>>])
      \/ rows'[r] = AfterReport(rows[r], FALSE, att[<<r, FALSE>>])
      \/ rows'[r] = rows[r]
  BY DEF ReceiveReport, ready
<1> QED
  BY <1>1, <1>2

\* The report webhook leaves the campaign's record the record of its rows.
LEMMA ReportCounts ==
  ASSUME CountInv, IInv, IInv', NEW batch \in SUBSET Keys, ReceiveReport(batch)
  PROVE  CountInv'
<1>1. /\ UNCHANGED <<pc, mode, chunk, attempt, reply, failed, att, asked, age>>
      /\ camp' = IF rows' = rows THEN camp ELSE Refreshed(camp, camp, rows')
  BY DEF ReceiveReport, dispatchVars, reconcileVars
<1>2. \A r \in Recipients :
        /\ (rows[r].status = "NONE") <=> (rows'[r].status = "NONE")
        /\ rows[r].status = "DONE" => rows'[r] = rows[r]
        /\ rows'[r] = rows[r] \/ rows'[r].status = "DONE"
  BY ReportStep, ReportedRow DEF IInv
<1>3. /\ rows \in [Recipients -> Row] /\ rows' \in [Recipients -> Row]
      /\ DOMAIN asked \subseteq Recipients
  BY DEF IInv, TypeOK, AnswersFor
<1>4. \A r \in Recipients :
        /\ rows'[r].status # "CANCELED"
        /\ rows'[r].status = "FAILED" => rows'[r].code # "ok"
  BY <1>2 DEF CountInv, StateInv
<1>5. Chunk(chunk)' = Chunk(chunk)
  BY <1>1 DEF Chunk
<1>6. OpenInv'
  <2> SUFFICES ASSUME pc = "wait" PROVE OpenInv'
    BY <1>1 DEF OpenInv
  <2>1. \A r \in Recipients :
          /\ rows'[r].status \in OpenStatuses => att[<<r, rows'[r].fb>>] \in Taken
          /\ rows'[r].status = "FAILED" => r \in failed
    BY <1>2 DEF CountInv, OpenInv, OpenStatuses
  <2>2. \A r \in DOMAIN asked :
          /\ asked[r].answer = "noresult" => rows'[r].status \in {"FAILED", "DONE"}
          /\ asked[r].answer = "reg" => att[<<r, rows'[r].fb>>] \in Taken
    <3>1. \A r \in DOMAIN asked : asked[r].fb = rows[r].fb /\ asked[r].fb = rows'[r].fb
      BY <1>1 DEF IInv, AskedInv
    <3> QED
      BY <1>2, <1>3, <3>1 DEF CountInv, OpenInv
  <2>3. (attempt' = "direct") = (attempt = "direct")
    BY <1>1
  <2> QED
    BY <1>1, <1>5, <2>1, <2>2, <2>3, Zenon DEF CountInv, OpenInv
<1>7. CASE rows' = rows
  <2>1. camp' = camp
    BY <1>1, <1>7
  <2> QED
    BY <1>1, <1>6, <1>7, <2>1, SameRowsStep DEF CountInv, StateInv
<1>8. CASE rows' # rows
  <2>1. pc # "idle"
    <3>1. PICK r \in Recipients : rows'[r] # rows[r]
      BY <1>3, <1>8
    <3>2. rows[r].status # "NONE"
      <4>1. rows'[r].status = "DONE"
        BY <1>2, <3>1
      <4> QED
        BY <1>2, <4>1
    <3> QED
      BY <3>2 DEF IInv, IdleInv
  <2>2. camp' = Refreshed(camp, camp, rows')
    BY <1>1, <1>8
  <2> QED
    BY <1>1, <1>2, <1>4, <1>6, <2>1, <2>2, RecountStep
<1> QED
  BY <1>7, <1>8

\* What an answer does to the row it is for.
LEMMA AnsweredRow ==
  ASSUME IInv, ApplyAnswers, NEW r \in Recipients
  PROVE  \/ r \notin DOMAIN asked /\ rows'[r] = rows[r]
         \/ /\ r \in DOMAIN asked /\ rows[r].status # "NONE"
            /\ asked[r].answer \in Final \cup {"reg", "noresult"}
            /\ rows'[r] = AfterAnswer(rows[r], rows[r].fb, asked[r].answer)
<1>1. CASE r \notin DOMAIN asked
  BY <1>1 DEF ApplyAnswers, AnsweredRows
<1>2. CASE r \in DOMAIN asked
  <2>1. asked[r].answer \in Final \cup {"reg", "noresult"}
    BY <1>2 DEF IInv, TypeOK, AnswersFor
  <2>2. rows[r].status # "NONE" /\ asked[r].fb = rows[r].fb
    BY <1>2 DEF IInv, AskedInv
  <2>3. rows'[r] = AfterAnswer(rows[r], asked[r].fb, asked[r].answer)
    BY <1>2 DEF ApplyAnswers, AnsweredRows
  <2> QED
    BY <1>2, <2>1, <2>2, <2>3
<1> QED
  BY <1>1, <1>2

\* While the dispatch runs, an answer reopens a row only when the provider
\* has its message, and fails none that was waiting.
LEMMA AnsweredRowOpen ==
  ASSUME CountInv, IInv, ApplyAnswers, pc = "wait", NEW r \in Recipients
  PROVE  /\ rows'[r].status \in OpenStatuses => att[<<r, rows[r].fb>>] \in Taken
         /\ rows'[r].status = "FAILED" => r \in failed
<1>1. /\ rows[r].status \in OpenStatuses => att[<<r, rows[r].fb>>] \in Taken
      /\ rows[r].status = "FAILED" => r \in failed
  BY DEF CountInv, OpenInv
<1>2. CASE rows'[r] = rows[r]
  BY <1>1, <1>2
<1>3. CASE rows'[r] # rows[r]
  <2>1. /\ r \in DOMAIN asked /\ rows[r].status # "NONE"
        /\ asked[r].answer \in Final \cup {"reg", "noresult"}
        /\ rows'[r] = AfterAnswer(rows[r], rows[r].fb, asked[r].answer)
    BY <1>3, AnsweredRow
  <2>2. rows[r] \in Row
    BY DEF IInv, TypeOK
  <2>3. CASE asked[r].answer = "noresult"
    <3>1. rows[r].status \in {"FAILED", "DONE"}
      BY <2>1, <2>3 DEF CountInv, OpenInv
    <3>2. rows'[r].status = "FAILED" /\ rows[r].status # "DONE"
      BY <1>3, <2>1, <2>2, <2>3 DEF AfterAnswer, ClosedByNoResult, Row, OpenStatuses
    <3> QED
      BY <1>1, <3>1, <3>2 DEF OpenStatuses
  <2>4. CASE asked[r].answer = "reg"
    <3>1. att[<<r, rows[r].fb>>] \in Taken
      BY <2>1, <2>4 DEF CountInv, OpenInv
    <3>2. rows'[r].status = "REG"
      BY <1>3, <2>1, <2>2, <2>4 DEF AfterAnswer, Row
    <3> QED
      BY <3>1, <3>2
  <2>5. CASE asked[r].answer \in Final
    <3>1. rows'[r].status = "DONE"
      BY <1>3, <2>1, <2>2, <2>5 DEF AfterAnswer, Row, Final
    <3> QED
      BY <3>1 DEF OpenStatuses
  <2> QED
    BY <2>1, <2>3, <2>4, <2>5
<1> QED
  BY <1>2, <1>3

\* The reconciliation leaves the campaign's record the record of its rows,
\* the answers it does not count included.
LEMMA AnswersCount ==
  ASSUME CountInv, IInv, IInv', ApplyAnswers PROVE CountInv'
<1>1. /\ UNCHANGED <<pc, mode, chunk, attempt, reply, failed, att, age>>
      /\ asked' = NoAnswers /\ rows' = AnsweredRows
      /\ camp' = AfterAnswers(camp, rows, AnsweredRows)
  BY DEF ApplyAnswers, dispatchVars
<1>2. \A r \in Recipients :
        /\ (rows[r].status = "NONE") <=> (rows'[r].status = "NONE")
        /\ rows[r].status = "DONE" => rows'[r] = rows[r]
  BY ApplyStep DEF IInv
<1>3. /\ rows \in [Recipients -> Row] /\ rows' \in [Recipients -> Row]
      /\ camp \in Campaigns
  BY DEF IInv, TypeOK
<1>4. ASSUME NEW r \in Recipients
      PROVE  RowKept(rows[r], rows'[r]) /\ rows'[r].fb = rows[r].fb
  <2>1. CASE rows'[r] = rows[r]
    BY <2>1 DEF RowKept
  <2>2. CASE rows'[r] # rows[r]
    <3>1. /\ rows'[r] = AfterAnswer(rows[r], rows[r].fb, asked[r].answer)
          /\ asked[r].answer \in Final \cup {"reg", "noresult"}
          /\ rows[r].status # "NONE"
      BY <2>2, AnsweredRow
    <3>2. rows[r] \in Row /\ rows[r].fb \in BOOLEAN
      BY <1>3 DEF Row
    <3>3. AfterAnswer(rows[r], rows[r].fb, asked[r].answer).fb = rows[r].fb
      BY <3>1, <3>2, AnswerSettles
    <3> QED
      BY <3>1, <3>2, <3>3, AfterAnswerKeeps
  <2> QED
    BY <2>1, <2>2
<1>5. \A r \in Recipients :
        /\ rows'[r].status # "CANCELED"
        /\ rows'[r].status = "FAILED" => rows'[r].code # "ok"
  BY <1>4 DEF CountInv, StateInv, RowKept
<1>6. OpenInv'
  <2> SUFFICES ASSUME pc = "wait" PROVE OpenInv'
    BY <1>1 DEF OpenInv
  <2>1. \A r \in Recipients :
          /\ rows'[r].status \in OpenStatuses => att[<<r, rows'[r].fb>>] \in Taken
          /\ rows'[r].status = "FAILED" => r \in failed
    BY <1>4, AnsweredRowOpen
  <2>2. Chunk(chunk)' = Chunk(chunk) /\ (attempt' = "direct") = (attempt = "direct")
    BY <1>1 DEF Chunk
  <2>3. \A r \in DOMAIN asked' : FALSE
    BY <1>1 DEF NoAnswers
  <2> QED
    BY <1>1, <2>1, <2>2, <2>3, Zenon DEF CountInv, OpenInv
<1>7. CASE \E r \in Recipients : CountedChange(rows[r], rows'[r])
  <2>1. PICK r \in Recipients : CountedChange(rows[r], rows'[r])
    BY <1>7
  <2>2. pc # "idle"
    <3>1. rows'[r] # rows[r]
      BY <2>1 DEF CountedChange
    <3>2. rows[r].status # "NONE"
      BY <3>1, AnsweredRow
    <3> QED
      BY <3>2 DEF IInv, IdleInv
  <2> DEFINE fresh == Refreshed(camp, camp, rows')
  <2>3. \/ camp' = fresh
        \/ camp' = [fresh EXCEPT !.state = "DISPATCHING"] /\ fresh.pending > 0
    BY <1>1, <1>3, <1>7 DEF AfterAnswers
  <2>4. fresh.pending > 0 => fresh.pending # 0
    BY <1>3, RefreshedType, CampaignAssumption DEF Campaigns
  <2> QED
    BY <1>1, <1>2, <1>5, <1>6, <2>2, <2>3, <2>4, RecountStep
<1>8. CASE ~\E r \in Recipients : CountedChange(rows[r], rows'[r])
  <2>1. camp' = camp
    BY <1>1, <1>3, <1>8 DEF AfterAnswers
  <2>2. ASSUME NEW r \in Recipients
        PROVE  \/ rows'[r].status = rows[r].status /\ rows'[r].code = rows[r].code
               \/ /\ rows'[r].status = "FAILED" /\ rows[r].status = "FAILED"
                  /\ rows'[r].code # "ok" /\ rows[r].code # "ok"
               \/ rows'[r].status \in OpenStatuses /\ rows[r].status \in OpenStatuses
    <3>1. CASE rows'[r] = rows[r]
      BY <3>1
    <3>2. CASE rows'[r] # rows[r]
      <4>1. /\ rows'[r] = AfterAnswer(rows[r], rows[r].fb, asked[r].answer)
            /\ asked[r].answer \in Final \cup {"reg", "noresult"}
        BY <3>2, AnsweredRow
      <4>2. rows[r] \in Row /\ rows[r].fb \in BOOLEAN /\ rows[r].status # "CANCELED"
        BY <1>3 DEF Row, CountInv, StateInv
      <4> QED
        BY <1>8, <4>1, <4>2, UncountedAnswer
    <3> QED
      BY <3>1, <3>2
  <2>3. /\ OkRows(rows') = OkRows(rows) /\ FailRows(rows') = FailRows(rows)
        /\ OpenRows(rows') = OpenRows(rows)
    <3> DEFINE m == rows
               n == rows'
    <3>1. m \in [Recipients -> Row] /\ n \in [Recipients -> Row]
      BY <1>3
    <3>2. \A r \in Recipients :
            \/ n[r].status = m[r].status /\ n[r].code = m[r].code
            \/ /\ n[r].status = "FAILED" /\ m[r].status = "FAILED"
               /\ n[r].code # "ok" /\ m[r].code # "ok"
            \/ n[r].status \in OpenStatuses /\ m[r].status \in OpenStatuses
      BY <2>2
    <3>3. /\ OkRows(n) = OkRows(m) /\ FailRows(n) = FailRows(m)
          /\ OpenRows(n) = OpenRows(m)
      <4> HIDE DEF m, n
      <4> QED
        BY <3>1, <3>2, SameCounts
    <3> QED
      BY <3>3
  <2>4. StateInv'
    BY <1>1, <1>5, <2>1 DEF CountInv, StateInv
  <2>5. DeliveredInv'
    BY <1>2, <2>1 DEF CountInv, DeliveredInv
  <2>6. WaitCount' /\ DoneCount' /\ CountersSettle'
    BY <1>1, <2>1, <2>3 DEF CountInv, WaitCount, DoneCount, CountersSettle
  <2> QED
    BY <1>6, <2>4, <2>5, <2>6 DEF CountInv
<1> QED
  BY <1>7, <1>8

\* A flush, attribute by attribute.
LEMMA FlushedIs ==
  ASSUME NEW db \in Campaigns, NEW loaded, NEW held,
         NEW k, k = Flushed(db, loaded, held)
  PROVE  /\ k.state = (IF held.state = loaded.state THEN db.state ELSE held.state)
         /\ k.ok = (IF held.ok = loaded.ok THEN db.ok ELSE held.ok)
         /\ k.fail = (IF held.fail = loaded.fail THEN db.fail ELSE held.fail)
         /\ k.pending = (IF held.pending = loaded.pending THEN db.pending ELSE held.pending)
         /\ k.completed =
              (IF held.completed = loaded.completed THEN db.completed ELSE held.completed)
BY DEF Flushed, Campaigns

\* The verdict of a dispatch that failed n of total recipients, as it is
\* stored.
LEMMA StoredVerdict ==
  ASSUME TypeOK, NEW n \in Nat, n <= Cardinality(Recipients),
         NEW v, v = FinalVerdict(n),
         NEW s, s = Flushed(camp, CreatedCampaign, v),
         camp.completed = 0, camp.state \in ReportDrivenStates \ {"COMPLETED"}
  PROVE  /\ v \in Campaigns /\ s \in Campaigns
         /\ v.ok = 0 /\ v.fail = n /\ v.pending = Cardinality(Recipients) - n
         /\ v.completed = (IF n = Cardinality(Recipients) THEN 1 ELSE 0)
         /\ v.state \in {"RESERVED", "DISPATCHED", "PARTIAL_FAILED",
                         "RESERVE_FAILED", "FAILED"}
         /\ n = Cardinality(Recipients) => v.state \in {"RESERVE_FAILED", "FAILED"}
         /\ s.ok = camp.ok
         /\ s.fail = (IF n = 0 THEN camp.fail ELSE n)
         /\ n # 0 => s.pending = Cardinality(Recipients) - n
         /\ s.completed = v.completed
         /\ s.state \in ReportDrivenStates \ {"COMPLETED"}
         /\ v.state # "RESERVED" => s.state = v.state
<1> DEFINE total == Cardinality(Recipients)
<1>1. total \in Nat /\ total # 0
  <2>1. 1 \in 1..NChunks
    BY CampaignAssumption
  <2>2. PICK r \in Recipients : ChunkOf[r] = 1
    BY <2>1, CampaignAssumption
  <2> QED
    BY <2>2, CampaignAssumption, FS_CardinalityType, FS_EmptySet
<1> HIDE DEF total
<1>2. /\ v.ok = 0 /\ v.fail = n /\ v.pending = total - n
      /\ v.completed = (IF n = total THEN 1 ELSE 0)
      /\ v.state \in {"RESERVED", "DISPATCHED", "PARTIAL_FAILED",
                      "RESERVE_FAILED", "FAILED"}
      /\ n = total => v.state \in {"RESERVE_FAILED", "FAILED"}
      /\ v \in [state : {"RESERVED", "DISPATCHED", "PARTIAL_FAILED",
                         "RESERVE_FAILED", "FAILED"},
                ok : {0}, fail : {n}, pending : {total - n}, completed : {0, 1}]
  BY <1>1 DEF FinalVerdict, total
<1>3. total - n \in Nat
  BY <1>1 DEF total
<1>4. v \in Campaigns
  BY <1>2, <1>3 DEF Campaigns, CampaignStates
<1>5. /\ CreatedCampaign.ok = 0 /\ CreatedCampaign.fail = 0
      /\ CreatedCampaign.pending = total /\ CreatedCampaign.completed = 0
      /\ CreatedCampaign.state \in {"RESERVED", "DISPATCHING"}
      /\ CreatedCampaign \in Campaigns
  BY <1>1 DEF CreatedCampaign, Campaigns, CampaignStates, total
<1>6. s \in Campaigns
  BY <1>4, <1>5, FlushedType DEF TypeOK
<1>7. /\ s.state = (IF v.state = CreatedCampaign.state THEN camp.state ELSE v.state)
      /\ s.ok = (IF v.ok = CreatedCampaign.ok THEN camp.ok ELSE v.ok)
      /\ s.fail = (IF v.fail = CreatedCampaign.fail THEN camp.fail ELSE v.fail)
      /\ s.pending = (IF v.pending = CreatedCampaign.pending THEN camp.pending
                                                             ELSE v.pending)
      /\ s.completed = (IF v.completed = CreatedCampaign.completed
                        THEN camp.completed ELSE v.completed)
  BY FlushedIs DEF TypeOK
<1>8. /\ s.ok = camp.ok
      /\ s.fail = (IF n = 0 THEN camp.fail ELSE n)
      /\ n # 0 => s.pending = total - n
  BY <1>1, <1>2, <1>5, <1>7
<1>9. s.completed = v.completed
  BY <1>2, <1>5, <1>7
<1>10. /\ s.state \in ReportDrivenStates \ {"COMPLETED"}
       /\ v.state # "RESERVED" => s.state = v.state
  BY <1>2, <1>5, <1>7 DEF ReportDrivenStates, CampaignStates
<1> QED
  BY <1>2, <1>4, <1>6, <1>8, <1>9, <1>10 DEF total

\* What the campaign's record says when the dispatch has ended.
LEMMA FinalizedIs ==
  ASSUME TypeOK, camp.completed = 0, camp.state \in ReportDrivenStates \ {"COMPLETED"},
         NEW m \in [Recipients -> Row], NEW lost \in SUBSET Recipients,
         camp.ok = Cardinality(OkRows(m)), FailRows(m) = {} => camp.fail = 0,
         \A r \in Recipients :
           /\ m[r].status \notin {"NONE", "CANCELED"}
           /\ m[r].status = "FAILED" => m[r].code # "ok" /\ r \in lost,
         NEW k, k = Finalized(m, Cardinality(lost))
  PROVE  /\ k.state \in ReportDrivenStates /\ k.completed \in {0, 1}
         /\ k.state = "COMPLETED" =>
              \A r \in Recipients : m[r].status = "DONE" /\ m[r].code = "ok"
         /\ OpenRows(m) = {} =>
              /\ k.ok = Cardinality(OkRows(m)) /\ k.fail = Cardinality(FailRows(m))
              /\ k.pending = 0 /\ k.completed = 1
              /\ k.state \in {SettledState(OkRows(m), FailRows(m))}
                   \cup (IF OkRows(m) = {} THEN {"RESERVE_FAILED"} ELSE {})
<1> DEFINE total == Cardinality(Recipients)
           n == Cardinality(lost)
           v == FinalVerdict(n)
           s == Flushed(camp, CreatedCampaign, v)
           f == Refreshed(v, s, m)
           X == SettledState(OkRows(m), FailRows(m))
<1>1. total \in Nat /\ n \in Nat /\ n <= total
  BY CampaignAssumption, RecipientsCount, FS_Subset
<1>2. total # 0
  <2>1. PICK r \in Recipients : ChunkOf[r] = 1
    BY CampaignAssumption
  <2> QED
    BY <2>1, CampaignAssumption, FS_EmptySet
<1>3. /\ v \in Campaigns /\ s \in Campaigns
      /\ v.ok = 0 /\ v.fail = n /\ v.pending = total - n
      /\ v.completed = (IF n = total THEN 1 ELSE 0)
      /\ v.state \in {"RESERVED", "DISPATCHED", "PARTIAL_FAILED",
                      "RESERVE_FAILED", "FAILED"}
      /\ n = total => v.state \in {"RESERVE_FAILED", "FAILED"}
      /\ s.ok = camp.ok
      /\ s.fail = (IF n = 0 THEN camp.fail ELSE n)
      /\ n # 0 => s.pending = total - n
      /\ s.completed = v.completed
      /\ s.state \in ReportDrivenStates \ {"COMPLETED"}
      /\ v.state # "RESERVED" => s.state = v.state
  <2> HIDE DEF n, v, s
  <2>1. v = FinalVerdict(n) /\ s = Flushed(camp, CreatedCampaign, v)
    BY DEF v, s
  <2> QED
    BY <1>1, <2>1, StoredVerdict
<1>4. DOMAIN m = Recipients
  OBVIOUS
<1>5. ASSUME \A r \in Recipients : m[r].status # "DONE"
      PROVE  /\ k = s /\ OkRows(m) = {} /\ FailRows(m) \subseteq lost
             /\ OpenRows(m) = {} => FailRows(m) = Recipients /\ lost = Recipients
  <2>1. k = s
    BY <1>5 DEF Finalized
  <2>2. OkRows(m) = {} /\ FailRows(m) \subseteq lost
    BY <1>4, <1>5 DEF OkRows, FailRows
  <2>3. ASSUME OpenRows(m) = {}, NEW r \in Recipients
        PROVE  r \in FailRows(m) /\ r \in lost
    <3>1. m[r].status \in Statuses /\ m[r].status \notin OpenStatuses
      BY <1>4, <2>3 DEF OpenRows, Row
    <3>2. m[r].status = "FAILED" /\ m[r].code # "ok" /\ r \in lost
      BY <1>5, <3>1 DEF Statuses
    <3> QED
      BY <1>4, <3>2 DEF FailRows
  <2> QED
    BY <2>1, <2>2, <2>3
<1> HIDE DEF v, s
<1>6. CASE \A r \in Recipients : m[r].status # "DONE"
  <2>1. k.state \in ReportDrivenStates \ {"COMPLETED"} /\ k.completed \in {0, 1}
    BY <1>3, <1>5, <1>6
  <2>2. ASSUME OpenRows(m) = {}
        PROVE  /\ k.ok = Cardinality(OkRows(m)) /\ k.fail = Cardinality(FailRows(m))
               /\ k.pending = 0 /\ k.completed = 1
               /\ k.state \in {"FAILED", "RESERVE_FAILED"}
               /\ OkRows(m) = {} /\ FailRows(m) # {}
    <3>1. n = total /\ FailRows(m) = Recipients /\ k = s /\ OkRows(m) = {}
      BY <1>5, <1>6, <2>2
    <3>2. FailRows(m) # {}
      BY <1>2, <3>1, FS_EmptySet
    <3> HIDE DEF n, total
    <3>3. k.ok = Cardinality(OkRows(m)) /\ k.fail = n /\ k.pending = 0
            /\ k.completed = 1 /\ k.state \in {"FAILED", "RESERVE_FAILED"}
      BY <1>1, <1>2, <1>3, <3>1
    <3>4. n = Cardinality(FailRows(m))
      BY <3>1 DEF total
    <3> QED
      BY <3>1, <3>2, <3>3, <3>4
  <2>3. OpenRows(m) = {} => X = "FAILED" /\ OkRows(m) = {}
    BY <2>2 DEF SettledState
  <2> QED
    BY <2>1, <2>2, <2>3
<1>7. CASE \E r \in Recipients : m[r].status = "DONE"
  <2>1. k = Flushed(s, v, f)
    BY <1>7 DEF Finalized, v, s
  <2>2. /\ f.ok = Cardinality(OkRows(m)) /\ f.fail = Cardinality(FailRows(m))
        /\ OpenRows(m) = {} =>
             /\ f.pending = 0 /\ f.state = X
             /\ f.completed = (IF v.completed = 0 THEN s.completed + 1 ELSE v.completed)
        /\ f.completed = v.completed \/ (v.completed = 0 /\ f.completed = s.completed + 1)
        /\ f.state \in ReportDrivenStates
        /\ f.state = "COMPLETED" =>
             \A r \in Recipients : m[r].status = "DONE" /\ m[r].code = "ok"
    <3>1. v.state \in ReportDrivenStates /\ v.state # "COMPLETED"
      BY <1>3 DEF ReportDrivenStates, CampaignStates
    <3>2. /\ \A r \in Recipients :
               m[r].status # "CANCELED" /\ (m[r].status = "FAILED" => m[r].code # "ok")
          /\ \A r \in Recipients : m[r].status # "NONE"
      OBVIOUS
    <3> HIDE DEF f
    <3>3. f = Refreshed(v, s, m)
      BY DEF f
    <3> QED
      BY <1>3, <3>1, <3>2, <3>3, AggregateIs
  <2> HIDE DEF f, X, n, total
  <2>3. /\ k.state = (IF f.state = v.state THEN s.state ELSE f.state)
        /\ k.ok = (IF f.ok = v.ok THEN s.ok ELSE f.ok)
        /\ k.fail = (IF f.fail = v.fail THEN s.fail ELSE f.fail)
        /\ k.pending = (IF f.pending = v.pending THEN s.pending ELSE f.pending)
        /\ k.completed = (IF f.completed = v.completed THEN s.completed ELSE f.completed)
    BY <1>3, <2>1, FlushedIs
  <2>4. k.state \in ReportDrivenStates /\ k.completed \in {0, 1}
    BY <1>3, <2>2, <2>3
  <2>5. k.state = "COMPLETED" => f.state = "COMPLETED"
    BY <1>3, <2>2, <2>3
  <2>6. ASSUME OpenRows(m) = {}
        PROVE  /\ k.ok = Cardinality(OkRows(m)) /\ k.fail = Cardinality(FailRows(m))
               /\ k.pending = 0 /\ k.completed = 1 /\ k.state = X
    <3>1. k.ok = Cardinality(OkRows(m))
      BY <1>3, <2>2, <2>3
    <3>2. k.fail = Cardinality(FailRows(m))
      <4>1. CASE f.fail = v.fail /\ n = 0
        <5>1. Cardinality(FailRows(m)) = 0
          BY <1>3, <2>2, <4>1
        <5>2. FailRows(m) = {}
          <6>1. IsFiniteSet(FailRows(m))
            BY <1>4, CampaignAssumption, FS_Subset DEF FailRows
          <6> QED
            BY <5>1, <6>1, FS_EmptySet
        <5> QED
          BY <1>3, <2>3, <4>1, <5>1, <5>2
      <4>2. CASE f.fail # v.fail \/ n # 0
        BY <1>3, <2>2, <2>3, <4>2
      <4> QED
        BY <4>1, <4>2
    <3>3. k.pending = 0
      BY <1>1, <1>2, <1>3, <2>2, <2>3, <2>6
    <3>4. k.completed = 1
      BY <1>3, <2>2, <2>3, <2>6
    <3>5. k.state = X
      <4>1. X \in {"COMPLETED", "FAILED", "PARTIAL_FAILED"}
        BY DEF SettledState, X
      <4> QED
        BY <1>3, <2>2, <2>3, <2>6, <4>1
    <3> QED
      BY <3>1, <3>2, <3>3, <3>4, <3>5
  <2> QED
    BY <2>2, <2>4, <2>5, <2>6 DEF X
<1> QED
  BY <1>6, <1>7

\* The dispatch records the chunks from the current one up to last: rows the
\* provider has, and rows it counts as failed.
LEMMA CountAdvance ==
  ASSUME CountInv, IInv, IInv', pc = "wait",
         NEW m \in [Recipients -> Row], NEW lost \in SUBSET Recipients, NEW last,
         Advance(m, lost, last), failed \subseteq lost,
         \A r \in Recipients : rows[r].status # "NONE" => m[r] = rows[r],
         \A r \in Recipients : rows[r].status = "NONE" =>
           \/ m[r] = rows[r]
           \/ /\ m[r].status \in {"PENDING", "REG"}
              /\ att[<<r, m[r].fb>>] \in Taken
           \/ m[r].status = "FAILED" /\ m[r].code # "ok" /\ r \in lost
  PROVE  CountInv'
<1>1. /\ rows' = m /\ failed' = lost /\ reply' = NoReply
      /\ UNCHANGED <<mode, att, asked, age>>
  BY DEF Advance, MoreChunks
<1>2. rows \in [Recipients -> Row] /\ DOMAIN asked \subseteq Recipients
  BY DEF IInv, TypeOK, AnswersFor
<1>3. /\ camp.completed = 0 /\ camp.ok = Cardinality(OkRows(rows))
      /\ FailRows(rows) = {} => camp.fail = 0
      /\ camp.state \in ReportDrivenStates /\ age <= NChunks
  BY DEF CountInv, WaitCount, StateInv
<1>4. camp.state # "COMPLETED"
  <2>1. PICK r \in Recipients : rows[r].status = "NONE"
    BY SomeRowIsMissing
  <2> QED
    BY <2>1 DEF CountInv, DeliveredInv
<1>5. OkRows(m) = OkRows(rows) /\ FailRows(rows) \subseteq FailRows(m)
  <2>1. DOMAIN m = Recipients /\ DOMAIN rows = Recipients
    BY <1>2
  <2>2. \A r \in Recipients : rows[r].status = "NONE" => m[r].status # "DONE"
    OBVIOUS
  <2> QED
    BY <2>1, <2>2 DEF OkRows, FailRows
<1>6. ASSUME NEW r \in Recipients
      PROVE  /\ m[r].status # "CANCELED"
             /\ m[r].status = "FAILED" => m[r].code # "ok" /\ r \in lost
             /\ m[r].status \in OpenStatuses => att[<<r, m[r].fb>>] \in Taken
  <2>1. CASE m[r] = rows[r]
    BY <2>1 DEF CountInv, StateInv, OpenInv
  <2>2. CASE m[r] # rows[r]
    BY <2>2 DEF OpenStatuses
  <2> QED
    BY <2>1, <2>2
<1>7. CASE MoreChunks(last)
  <2>1. pc' = "wait" /\ camp' = camp
    BY <1>7 DEF Advance
  <2>2. StateInv'
    BY <1>1, <1>3, <1>6, <2>1 DEF StateInv
  <2>3. OpenInv'
    <3>1. \A r \in DOMAIN asked : m[r] = rows[r]
      BY <1>2 DEF IInv, AskedInv
    <3>2. \A r \in DOMAIN asked :
            /\ asked[r].answer = "noresult" => m[r].status \in {"FAILED", "DONE"}
            /\ asked[r].answer = "reg" => att[<<r, m[r].fb>>] \in Taken
      BY <3>1 DEF CountInv, OpenInv
    <3>3. reply'.kind # "accept"
      BY <1>1 DEF NoReply
    <3> QED
      BY <1>1, <1>6, <3>2, <3>3 DEF OpenInv
  <2>4. DeliveredInv' /\ DoneCount' /\ CountersSettle'
    BY <1>4, <2>1 DEF DeliveredInv, DoneCount, CountersSettle
  <2>5. WaitCount'
    BY <1>1, <1>3, <1>5, <2>1 DEF WaitCount
  <2> QED
    BY <2>2, <2>3, <2>4, <2>5 DEF CountInv
<1>8. CASE ~MoreChunks(last)
  <2>1. pc' = "done" /\ camp' = Finalized(m, Cardinality(lost))
    BY <1>8 DEF Advance
  <2>2. \A r \in Recipients : m[r].status # "NONE"
    BY <1>1, <2>1 DEF IInv, DoneInv
  <2>3. /\ camp'.state \in ReportDrivenStates /\ camp'.completed \in {0, 1}
        /\ camp'.state = "COMPLETED" =>
             \A r \in Recipients : m[r].status = "DONE" /\ m[r].code = "ok"
        /\ OpenRows(m) = {} =>
             /\ camp'.ok = Cardinality(OkRows(m)) /\ camp'.fail = Cardinality(FailRows(m))
             /\ camp'.pending = 0 /\ camp'.completed = 1
             /\ camp'.state \in {SettledState(OkRows(m), FailRows(m))}
                  \cup (IF OkRows(m) = {} THEN {"RESERVE_FAILED"} ELSE {})
    <3>1. camp.state \in ReportDrivenStates \ {"COMPLETED"} /\ TypeOK
      BY <1>3, <1>4 DEF IInv
    <3>2. camp.ok = Cardinality(OkRows(m))
      BY <1>3, <1>5
    <3>3. FailRows(m) = {} => camp.fail = 0
      BY <1>3, <1>5
    <3>4. \A r \in Recipients :
            /\ m[r].status \notin {"NONE", "CANCELED"}
            /\ m[r].status = "FAILED" => m[r].code # "ok" /\ r \in lost
      BY <1>6, <2>2
    <3> QED
      BY <1>3, <2>1, <3>1, <3>2, <3>3, <3>4, FinalizedIs
  <2>4. StateInv'
    BY <1>1, <1>6, <2>1, <2>3 DEF StateInv
  <2>5. DeliveredInv' /\ DoneCount' /\ CountersSettle'
    BY <1>1, <2>1, <2>3 DEF DeliveredInv, DoneCount, CountersSettle
  <2>6. OpenInv' /\ WaitCount'
    BY <2>1 DEF OpenInv, WaitCount
  <2> QED
    BY <2>4, <2>5, <2>6 DEF CountInv
<1> QED
  BY <1>7, <1>8

\* The rows of the current chunk that the provider did not accept, or that
\* the dispatch gave up, are counted as failed.
LEMMA RecordCounts ==
  ASSUME CountInv, IInv, IInv',
         RecordAccepted \/ StopOnAuthError \/ RecordFailure
  PROVE  CountInv'
<1>1. pc = "wait" /\ failed \in SUBSET Recipients /\ rows \in [Recipients -> Row]
  BY DEF RecordAccepted, StopOnAuthError, RecordFailure, IInv, TypeOK
<1>2. chunk \in Nat /\ \A r \in Recipients : ChunkOf[r] \in Nat
  BY CampaignAssumption DEF IInv, TypeOK
<1>3. \A r \in Recipients : rows[r].status = "NONE" <=> ChunkOf[r] >= chunk
  BY <1>1, Zenon DEF IInv, WaitInv
<1>4. \A r \in Chunk(chunk) : r \in Recipients /\ rows[r].status = "NONE"
  BY <1>2, <1>3 DEF Chunk
<1>5. \A explicit \in BOOLEAN :
        FailedRow(explicit).status = "FAILED" /\ FailedRow(explicit).code # "ok"
  BY DEF FailedRow
<1>6. CASE RecordAccepted
  <2> DEFINE m == [r \in Recipients |->
               IF r \in Chunk(chunk) THEN RowFromResponse(r) ELSE rows[r]]
             lost == failed \cup (Chunk(chunk) \ reply.ok)
  <2>1. Advance(m, lost, chunk) /\ reply.kind = "accept"
    BY <1>6 DEF RecordAccepted
  <2>2. m \in [Recipients -> Row]
    BY <1>1, RowsFromDispatch
  <2>3. lost \in SUBSET Recipients /\ failed \subseteq lost
    BY <1>1 DEF Chunk
  <2>4. mode.reserved => reply.ok = Chunk(chunk)
    BY <1>1, <2>1 DEF CountInv, OpenInv
  <2>5. \A r \in reply.ok : att[<<r, attempt = "direct">>] \in Taken
    BY <1>1, <2>1, Zenon DEF CountInv, OpenInv
  <2>6. ASSUME NEW r \in Chunk(chunk), r \in reply.ok
        PROVE  m[r].status \in {"PENDING", "REG"} /\ att[<<r, m[r].fb>>] \in Taken
    <3>1. m[r] = RowFromResponse(r)
      BY <1>4, <2>6
    <3>2. m[r].status \in {"PENDING", "REG"}
      BY <2>6, <3>1 DEF RowFromResponse
    <3>3. RowFromResponse(r).fb = (attempt = "direct")
      BY DEF RowFromResponse
    <3>4. att[<<r, m[r].fb>>] \in Taken
      BY <2>5, <2>6, <3>1, <3>3, Zenon
    <3> QED
      BY <3>2, <3>4
  <2>7. ASSUME NEW r \in Chunk(chunk), r \notin reply.ok
        PROVE  m[r].status = "FAILED" /\ m[r].code # "ok" /\ r \in lost
    <3>1. m[r] = RowFromResponse(r) /\ ~mode.reserved
      BY <1>4, <2>4, <2>7
    <3> QED
      BY <2>7, <3>1 DEF RowFromResponse
  <2>8. \A r \in Recipients : r \notin Chunk(chunk) => m[r] = rows[r]
    OBVIOUS
  <2> HIDE DEF m, lost
  <2> QED
    BY <1>1, <1>4, <2>1, <2>2, <2>3, <2>6, <2>7, <2>8, CountAdvance
<1>7. CASE StopOnAuthError
  <2> DEFINE rest == {r \in Recipients : ChunkOf[r] >= chunk}
             m == [r \in Recipients |-> IF r \in rest THEN FailedRow(TRUE) ELSE rows[r]]
             lost == failed \cup rest
  <2>1. Advance(m, lost, NChunks)
    BY <1>7 DEF StopOnAuthError
  <2>2. m \in [Recipients -> Row]
    BY <1>1, RowsFromDispatch
  <2>3. lost \in SUBSET Recipients /\ failed \subseteq lost
    BY <1>1
  <2>4. \A r \in rest : m[r].status = "FAILED" /\ m[r].code # "ok" /\ r \in lost
                        /\ rows[r].status = "NONE"
    <3>1. \A r \in rest : r \in Recipients /\ rows[r].status = "NONE"
      BY <1>3
    <3>2. \A r \in rest : m[r] = FailedRow(TRUE) /\ r \in lost
      OBVIOUS
    <3> HIDE DEF m, rest, lost
    <3> QED
      BY <1>5, <3>1, <3>2
  <2>5. \A r \in Recipients : r \notin rest => m[r] = rows[r]
    OBVIOUS
  <2> HIDE DEF m, lost, rest
  <2> QED
    BY <1>1, <2>1, <2>2, <2>3, <2>4, <2>5, CountAdvance
<1>8. CASE RecordFailure
  <2>1. PICK explicit \in BOOLEAN : RecordFailed(explicit)
    BY <1>8 DEF RecordFailure
  <2> DEFINE m == [r \in Recipients |->
               IF r \in Chunk(chunk) THEN FailedRow(explicit) ELSE rows[r]]
             lost == failed \cup Chunk(chunk)
  <2>2. Advance(m, lost, chunk)
    BY <2>1 DEF RecordFailed
  <2>3. m \in [Recipients -> Row]
    BY <1>1, RowsFromDispatch
  <2>4. lost \in SUBSET Recipients /\ failed \subseteq lost
    BY <1>1 DEF Chunk
  <2>5. \A r \in Chunk(chunk) : m[r] = FailedRow(explicit) /\ r \in lost
    BY <1>4
  <2>6. \A r \in Recipients : r \notin Chunk(chunk) => m[r] = rows[r]
    OBVIOUS
  <2> HIDE DEF m, lost
  <2>7. \A r \in Chunk(chunk) :
          m[r].status = "FAILED" /\ m[r].code # "ok" /\ r \in lost
    BY <1>5, <2>5
  <2> QED
    BY <1>1, <1>4, <2>2, <2>3, <2>4, <2>6, <2>7, CountAdvance
<1> QED
  BY <1>6, <1>7, <1>8

\* Every step keeps CountInv.
LEMMA CountStep == CountInv /\ IInv /\ IInv' /\ [Next]_vars => CountInv'
<1> SUFFICES ASSUME CountInv, IInv, IInv', [Next]_vars PROVE CountInv'
  OBVIOUS
<1>1. CASE CreateCampaign
  BY <1>1, CreateStep
<1>2. CASE RecordAccepted \/ StopOnAuthError \/ RecordFailure
  BY <1>2, RecordCounts
<1>3. ASSUME NEW batch \in SUBSET Keys, ReceiveReport(batch) PROVE CountInv'
  BY <1>3, ReportCounts
<1>4. CASE ApplyAnswers
  BY <1>4, AnswersCount
<1>5. CASE \/ \E answer \in Replies : ProviderAnswers(answer)
           \/ \E k \in Keys : ProviderSettlesLimbo(k) \/ ProviderResolves(k)
           \/ RepeatRequest \/ SendDirect \/ QuerySent \/ QueryFails
           \/ TimePasses \/ Crash \/ UNCHANGED vars
  BY <1>5, CountUnchanged
<1> QED
  BY <1>1, <1>2, <1>3, <1>4, <1>5 DEF Next, Dispatch

\* The campaign's record is at every time what CountInv says of it.
THEOREM CountInvariance == Spec => []CountInv
<1>1. Init => CountInv
  BY CountInit
<1>2. IInv /\ IInv' /\ CountInv /\ [Next]_vars => CountInv'
  BY CountStep
<1> QED
  BY <1>1, <1>2, Invariance, PTL DEF Spec

\* A campaign is shown as COMPLETED only when the provider delivered its
\* message to every recipient.
THEOREM CompletedCampaignsAreDelivered == Spec => []CompletedMeansDelivered
<1>1. CountInv /\ IInv => CompletedMeansDelivered
  <2> SUFFICES ASSUME CountInv, IInv, camp.state = "COMPLETED", NEW r \in Recipients
               PROVE  \E fb \in BOOLEAN : att[<<r, fb>>] = "ok"
    BY DEF CompletedMeansDelivered
  <2>1. rows[r].status = "DONE" /\ rows[r].code = "ok"
    BY DEF CountInv, DeliveredInv
  <2>2. rows[r].fb \in BOOLEAN /\ att[<<r, rows[r].fb>>] = "ok"
    BY <2>1 DEF IInv, ShownInv, TypeOK, Row
  <2> QED
    BY <2>2
<1> QED
  BY <1>1, CountInvariance, Invariance, PTL

\* Once the dispatch is over and no row waits, the stored counters, the state
\* and the one completion stamp are those of the rows.
THEOREM StoredCountersSettle == Spec => []CountersSettle
<1>1. CountInv => CountersSettle
  BY DEF CountInv
<1> QED
  BY <1>1, CountInvariance, PTL
=============================================================================
