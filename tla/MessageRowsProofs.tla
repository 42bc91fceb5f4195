------------------------- MODULE MessageRowsProofs -------------------------
(***************************************************************************)
(* Lemmas about the rules of MessageRows, for any finite set of            *)
(* recipients: what they return, and which changes they never make.        *)
(***************************************************************************)
EXTENDS MessageRows, FiniteSetTheorems, TLAPS

\* A part of a finite set of recipients has a natural number of elements.
LEMMA PartCount ==
  ASSUME NEW People, IsFiniteSet(People), NEW S \in SUBSET People
  PROVE  IsFiniteSet(S) /\ Cardinality(S) \in Nat /\ Cardinality(S) <= Cardinality(People)
BY FS_Subset, FS_CardinalityType

\* The aggregation of a campaign's rows is a campaign record again.
LEMMA RefreshedType ==
  ASSUME NEW People, IsFiniteSet(People),
         NEW c \in Campaigns, NEW db \in Campaigns,
         NEW messages \in [People -> Row]
  PROVE  Refreshed(c, db, messages) \in Campaigns
<1>1. /\ Cardinality(OkRows(messages)) \in Nat
      /\ Cardinality(FailRows(messages)) \in Nat
      /\ Cardinality(PendingRows(messages)) \in Nat
  BY PartCount DEF OkRows, FailRows, PendingRows, Recorded
<1>2. SettledState(OkRows(messages), FailRows(messages)) \in CampaignStates
  BY DEF SettledState, CampaignStates
<1>3. c.state \in CampaignStates /\ c.completed \in Nat
        /\ db.completed + 1 \in Nat
  BY DEF Campaigns
<1> QED
  BY <1>1, <1>2, <1>3 DEF Refreshed, Campaigns

\* A flush of a campaign record is a campaign record.
LEMMA FlushedType ==
  ASSUME NEW db \in Campaigns, NEW loaded \in Campaigns,
         NEW held \in Campaigns
  PROVE  Flushed(db, loaded, held) \in Campaigns
BY DEF Flushed, Campaigns

\* The aggregation cancels no reservation, and neither does what follows the
\* answers to a query.
LEMMA RefreshedCancelsNothing ==
  ASSUME NEW c, NEW db, NEW messages,
         Refreshed(c, db, messages).state = "RESERVE_CANCELED"
  PROVE  c.state = "RESERVE_CANCELED"
BY DEF Refreshed, SettledState, ReportDrivenStates

\* The state that a flush leaves is the stored one or the object's.
LEMMA FlushedState ==
  ASSUME NEW db \in Campaigns, NEW loaded, NEW held
  PROVE  Flushed(db, loaded, held).state =
           IF held.state = loaded.state THEN db.state ELSE held.state
BY DEF Flushed, Campaigns

\* A report leaves a row a row.
LEMMA AfterReportRow ==
  ASSUME NEW row \in Row, NEW fb \in BOOLEAN, NEW code \in ResultCodes
  PROVE  AfterReport(row, fb, code) \in Row
BY DEF AfterReport, Row, Statuses, OpenStatuses, Codes

\* So does an answer to a query.
LEMMA AfterAnswerRow ==
  ASSUME NEW row \in Row, NEW fb \in BOOLEAN,
         NEW answer \in ResultCodes \cup {"reg", "noresult"}
  PROVE  AfterAnswer(row, fb, answer) \in Row
BY DEF AfterAnswer, Row, Statuses, OpenStatuses, Codes, ResultCodes

\* Neither makes a row, removes one or cancels one, and a row fails only
\* because a query found no result.
RowKept(row, new) ==
  /\ new.status = "NONE" <=> row.status = "NONE"
  /\ new.status = "CANCELED" => row.status = "CANCELED"
  /\ new.status = "FAILED" => new = row \/ new.code = "noresult"

\* A report keeps a row in this sense.
LEMMA AfterReportKeeps ==
  ASSUME NEW row \in Row, NEW fb \in BOOLEAN, NEW code
  PROVE  RowKept(row, AfterReport(row, fb, code))
BY DEF AfterReport, Unsettled, RowKept, Row

\* So does an answer to a query.
LEMMA AfterAnswerKeeps ==
  ASSUME NEW row \in Row, NEW fb \in BOOLEAN, NEW answer
  PROVE  RowKept(row, AfterAnswer(row, fb, answer))
<1>1. CASE answer = "noresult"
  BY <1>1 DEF AfterAnswer, ClosedByNoResult, OpenStatuses, RowKept, Row
<1>2. CASE answer # "noresult" /\ ~Unsettled(row, fb)
  BY <1>2 DEF AfterAnswer, RowKept
<1>3. CASE answer # "noresult" /\ Unsettled(row, fb)
  <2>1. row.status # "NONE"
    BY <1>3 DEF Unsettled
  <2>2. CASE answer # "reg"
    BY <1>3, <2>1, <2>2 DEF AfterAnswer, RowKept, Row
  <2>3. CASE answer = "reg" /\ row.status = "FB_PENDING"
    BY <1>3, <2>1, <2>3 DEF AfterAnswer, RowKept, Row
  <2>4. CASE answer = "reg" /\ row.status # "FB_PENDING"
    BY <1>3, <2>1, <2>4 DEF AfterAnswer, RowKept, Row
  <2> QED
    BY <2>2, <2>3, <2>4
<1> QED
  BY <1>1, <1>2, <1>3
=============================================================================
