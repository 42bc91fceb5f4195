-------------------------- MODULE NotifyOutboxProofs --------------------------
(***************************************************************************)
(* What the outbox promises for every number of messages, runs and tries:  *)
(* one run posts a message at a time, a delivered message is not posted    *)
(* again, and n8n sees a message twice only after an answer was lost.      *)
(*                                                                         *)
(* None of the three is inductive.  IInv adds what the lock means: a row   *)
(* that some run posts is SENDING and its lock is fresh; and what was sent *)
(* without being recorded is remembered as unheard.                        *)
(***************************************************************************)
EXTENDS NotifyOutbox, TLAPS

\* A posted row is locked, and not old enough to be taken over.
PostedIsLocked ==
  \A q \in Runners :
    Posting(q) => /\ row[run[q].mo].status = "SENDING"
                  /\ ~row[run[q].mo].stale

\* A message n8n took, in a row that does not say so, is unheard.
HeardIsDelivered ==
  \A m \in Mos :
    copies[m] # 0 /\ row[m].status # "DELIVERED" => unheard[m]

IInv ==
  /\ TypeOK
  /\ OnePoster
  /\ PostedIsLocked
  /\ HeardIsDelivered
  /\ RepeatsNeedALostAnswer

(***************************************************************************)
(* Types.                                                                  *)
(***************************************************************************)
\* A run that posts has a message, a rest of its batch and a try.
LEMMA PostingRun ==
  ASSUME TypeOK, NEW q \in Runners, Posting(q)
  PROVE  /\ run[q] \in [mo : Mos, left : SUBSET Mos, tries : 1..Tries]
         /\ run[q].mo \in Mos
         /\ run[q].left \in SUBSET Mos
BY DEF TypeOK, Posting, Runs

\* The idle run posts no message.
LEMMA IdleRun ==
  ASSUME TypeOK, NEW q \in Runners
  PROVE  Posting(q) <=> run[q].mo # NoMo
<1>1. CASE Posting(q)
  BY <1>1, PostingRun, NotifyAssumption
<1>2. CASE ~Posting(q)
  BY <1>2 DEF Posting, Idle
<1> QED
  BY <1>1, <1>2

\* What no run posts can be told from the set of posted messages.
LEMMA PostedMessages ==
  ASSUME TypeOK, NEW m \in Posted
  PROVE  \E q \in Runners : Posting(q) /\ run[q].mo = m
BY IdleRun DEF Posted

\* The counters of MayBeTaken stay counters.
LEMMA TakenType ==
  ASSUME TypeOK, NEW M \in SUBSET Mos, MayBeTaken(M)
  PROVE  /\ copies' \in [Mos -> 0..2]
         /\ unheard' \in [Mos -> BOOLEAN]
<1>1. PICK taken \in SUBSET M :
        /\ copies' = [m \in Mos |-> IF m \notin taken THEN copies[m]
                                    ELSE IF copies[m] = 0 THEN 1 ELSE 2]
        /\ unheard' = [m \in Mos |-> unheard[m] \/ m \in taken]
  BY DEF MayBeTaken
<1>2. copies' \in [Mos -> 0..2]
  BY <1>1 DEF TypeOK
<1>3. unheard' \in [Mos -> BOOLEAN]
  <2>1. \A m \in Mos : (unheard[m] \/ m \in taken) \in BOOLEAN
    OBVIOUS
  <2> QED
    BY <1>1, <2>1
<1> QED
  BY <1>2, <1>3

\* What MayBeTaken does to one message.
LEMMA TakenOne ==
  ASSUME TypeOK, NEW M \in SUBSET Mos, MayBeTaken(M), NEW m \in Mos
  PROVE  /\ m \notin M => copies'[m] = copies[m]
         /\ copies'[m] # copies[m] => unheard'[m]
         /\ unheard[m] => unheard'[m]
<1>1. PICK taken \in SUBSET M :
        /\ copies' = [n \in Mos |-> IF n \notin taken THEN copies[n]
                                    ELSE IF copies[n] = 0 THEN 1 ELSE 2]
        /\ unheard' = [n \in Mos |-> unheard[n] \/ n \in taken]
  BY DEF MayBeTaken
<1>2. copies'[m] = IF m \notin taken THEN copies[m]
                   ELSE IF copies[m] = 0 THEN 1 ELSE 2
  BY <1>1
<1>3. unheard'[m] = (unheard[m] \/ m \in taken)
  BY <1>1
<1> QED
  BY <1>1, <1>2, <1>3

(***************************************************************************)
(* Going on with a batch: what it needs and what it gives.                 *)
(***************************************************************************)
\* The stored rows are rows, and the other runs hold theirs locked.
FitFor(q, rows) ==
  /\ rows \in [Mos -> Rows]
  /\ \A p \in Runners \ {q} :
       Posting(p) => /\ rows[run[p].mo].status = "SENDING"
                     /\ ~rows[run[p].mo].stale

LEMMA GoOnKeeps ==
  ASSUME TypeOK, OnePoster, NEW q \in Runners, NEW rows, FitFor(q, rows),
         NEW left \in SUBSET Mos, GoOn(q, rows, left)
  PROVE  /\ row' \in [Mos -> Rows]
         /\ run' \in [Runners -> Runs]
         /\ OnePoster'
         /\ PostedIsLocked'
         /\ \A m \in Mos :
              (row'[m].status = "DELIVERED") = (rows[m].status = "DELIVERED")
<1> DEFINE claimable == {m \in left : MayClaim(rows[m].status)}
<1>1. CASE claimable = {}
  <2>1. row' = rows /\ run' = [run EXCEPT ![q] = Idle]
    BY <1>1 DEF GoOn
  <2>2. run' \in [Runners -> Runs] /\ Idle \in Runs
    BY <2>1 DEF TypeOK, Runs
  <2>3. \A p \in Runners :
          Posting(p)' => p # q /\ Posting(p) /\ run'[p] = run[p]
    BY <2>1 DEF TypeOK, Posting
  <2>4. OnePoster'
    BY <2>3 DEF OnePoster
  <2>5. PostedIsLocked'
    BY <2>1, <2>3 DEF PostedIsLocked, FitFor
  <2> QED
    BY <2>1, <2>2, <2>4, <2>5 DEF FitFor
<1>2. CASE claimable # {}
  <2> DEFINE posts(m) == [mo |-> m, left |-> left \ {m}, tries |-> 1]
  <2>1. PICK m \in claimable : /\ row' = Claimed(m, rows)
                               /\ run' = [run EXCEPT ![q] = posts(m)]
    BY <1>2 DEF GoOn
  <2>2. m \in Mos /\ rows[m].status \in {"PENDING", "FAILED"}
    BY <2>1 DEF MayClaim, Waiting
  <2>3. posts(m) \in Runs /\ run' \in [Runners -> Runs]
    BY <2>1, <2>2, NotifyAssumption DEF TypeOK, Runs
  <2>4. /\ row' \in [Mos -> Rows]
        /\ row'[m].status = "SENDING" /\ ~row'[m].stale
        /\ \A n \in Mos \ {m} : row'[n] = rows[n]
    BY <2>1, <2>2 DEF Claimed, FitFor, Rows
  <2>5. run'[q] = posts(m) /\ run'[q].mo = m
    BY <2>1 DEF TypeOK
  <2>6. \A p \in Runners \ {q} : run'[p] = run[p]
    BY <2>1 DEF TypeOK
  <2>7. \A p \in Runners \ {q} : Posting(p) => run[p].mo \in Mos \ {m}
    BY <2>2, PostingRun DEF FitFor
  <2>8. OnePoster'
    <3> SUFFICES ASSUME NEW p \in Runners, NEW r \in Runners,
                        Posting(p)', Posting(r)', p # r
                 PROVE  run'[p].mo # run'[r].mo
      BY DEF OnePoster
    <3>1. CASE p = q
      BY <3>1, <2>5, <2>6, <2>7 DEF Posting
    <3>2. CASE r = q
      BY <3>2, <2>5, <2>6, <2>7 DEF Posting
    <3>3. CASE p # q /\ r # q
      BY <3>3, <2>6 DEF Posting, OnePoster
    <3> QED
      BY <3>1, <3>2, <3>3
  <2>9. PostedIsLocked'
    <3> SUFFICES ASSUME NEW p \in Runners, Posting(p)'
                 PROVE  /\ row'[run'[p].mo].status = "SENDING"
                        /\ ~row'[run'[p].mo].stale
      BY DEF PostedIsLocked
    <3>1. CASE p = q
      BY <3>1, <2>4, <2>5
    <3>2. CASE p # q
      BY <3>2, <2>4, <2>6, <2>7 DEF Posting, FitFor
    <3> QED
      BY <3>1, <3>2
  <2>10. \A n \in Mos :
           (row'[n].status = "DELIVERED") = (rows[n].status = "DELIVERED")
    BY <2>2, <2>4
  <2> QED
    BY <2>3, <2>4, <2>8, <2>9, <2>10
<1> QED
  BY <1>1, <1>2

\* Whatever run q does to the row it posts, the other runs keep theirs.
LEMMA FinishedFits ==
  ASSUME TypeOK, OnePoster, PostedIsLocked, NEW q \in Runners, Posting(q)
  PROVE  /\ FitFor(q, AfterSuccess(run[q].mo))
         /\ FitFor(q, AfterFailure(run[q].mo))
<1> DEFINE m == run[q].mo
<1>1. m \in Mos /\ row[m] \in Rows
  BY PostingRun DEF TypeOK
<1>2. \A p \in Runners \ {q} : Posting(p) => run[p].mo \in Mos \ {m}
  BY PostingRun DEF OnePoster
<1>3. /\ AfterSuccess(m) \in [Mos -> Rows]
      /\ AfterFailure(m) \in [Mos -> Rows]
  BY <1>1 DEF TypeOK, AfterSuccess, AfterFailure, Rows, Waiting
<1>4. \A n \in Mos \ {m} :
        AfterSuccess(m)[n] = row[n] /\ AfterFailure(m)[n] = row[n]
  BY <1>1 DEF TypeOK, AfterSuccess, AfterFailure
<1> QED
  BY <1>2, <1>3, <1>4 DEF FitFor, PostedIsLocked

\* Recovering stale locks takes no row from a run that posts.
LEMMA RecoveredFits ==
  ASSUME TypeOK, PostedIsLocked, NEW q \in Runners
  PROVE  FitFor(q, Recovered)
<1>1. Recovered \in [Mos -> Rows]
  BY DEF TypeOK, Recovered, Rows, Waiting
<1>2. \A n \in Mos : ~row[n].stale => Recovered[n] = row[n]
  BY DEF Recovered
<1> QED
  BY <1>1, <1>2, PostingRun DEF FitFor, PostedIsLocked

(***************************************************************************)
(* Every step keeps the invariant, and what is delivered.                  *)
(***************************************************************************)
\* Delivered messages stay so and get no further copy.
StepKeepsDelivered ==
  \A m \in Mos :
    row[m].status = "DELIVERED"
      => row'[m].status = "DELIVERED" /\ copies'[m] = copies[m]

LEMMA ReceiveKeeps ==
  ASSUME IInv, NEW batch \in SUBSET Mos, NEW answerArrives \in BOOLEAN,
         ReceiveMo(batch, answerArrives)
  PROVE  IInv' /\ StepKeepsDelivered
<1> USE DEF ReceiveMo
<1>1. row' \in [Mos -> Rows] /\ provider' \in [Mos -> {"queued", "done"}]
  BY DEF IInv, TypeOK, Rows, Waiting
<1>2. TypeOK'
  BY <1>1 DEF IInv, TypeOK
<1>3. \A m \in Mos : /\ row[m].status # "NONE" => row'[m] = row[m]
                     /\ row[m].status = "NONE"
                          => row'[m].status \in {"NONE", "PENDING"}
  BY DEF IInv, TypeOK
<1>4. OnePoster' /\ RepeatsNeedALostAnswer'
  BY DEF IInv, OnePoster, RepeatsNeedALostAnswer, Posting
<1>5. PostedIsLocked'
  BY <1>3, PostingRun DEF IInv, PostedIsLocked, Posting
<1>6. HeardIsDelivered'
  BY <1>3 DEF IInv, HeardIsDelivered
<1>7. StepKeepsDelivered
  BY <1>3 DEF StepKeepsDelivered
<1> QED
  BY <1>2, <1>4, <1>5, <1>6, <1>7 DEF IInv

LEMMA StartKeeps ==
  ASSUME IInv, NEW q \in Runners, Start(q)
  PROVE  IInv' /\ StepKeepsDelivered
<1>1. FitFor(q, Recovered)
  BY RecoveredFits DEF IInv
<1>2. Due(Recovered) \in SUBSET Mos
  BY DEF Due
<1>3. /\ row' \in [Mos -> Rows] /\ run' \in [Runners -> Runs]
      /\ OnePoster' /\ PostedIsLocked'
      /\ \A m \in Mos : (row'[m].status = "DELIVERED")
                          = (Recovered[m].status = "DELIVERED")
  BY <1>1, <1>2, GoOnKeeps DEF IInv, Start
<1>4. \A m \in Mos : (row'[m].status = "DELIVERED")
                       = (row[m].status = "DELIVERED")
  BY <1>3 DEF Recovered
<1>5. UNCHANGED <<provider, copies, unheard>>
  BY DEF Start
<1>6. TypeOK'
  BY <1>3, <1>5 DEF IInv, TypeOK
<1>7. HeardIsDelivered' /\ RepeatsNeedALostAnswer'
  BY <1>4, <1>5 DEF IInv, HeardIsDelivered, RepeatsNeedALostAnswer
<1> QED
  BY <1>3, <1>4, <1>5, <1>6, <1>7 DEF IInv, StepKeepsDelivered

LEMMA DeliverKeeps ==
  ASSUME IInv, NEW q \in Runners, Deliver(q)
  PROVE  IInv' /\ StepKeepsDelivered
<1> DEFINE m == run[q].mo
<1>1. Posting(q) /\ Takes(m) /\ GoOn(q, AfterSuccess(m), run[q].left)
        /\ UNCHANGED <<provider, unheard>>
  BY DEF Deliver
<1>2. m \in Mos /\ run[q].left \in SUBSET Mos /\ row[m].status = "SENDING"
  BY <1>1, PostingRun DEF IInv, PostedIsLocked
<1>3. FitFor(q, AfterSuccess(m))
  BY <1>1, FinishedFits DEF IInv
<1>4. /\ row' \in [Mos -> Rows] /\ run' \in [Runners -> Runs]
      /\ OnePoster' /\ PostedIsLocked'
      /\ \A n \in Mos : (row'[n].status = "DELIVERED")
                          = (AfterSuccess(m)[n].status = "DELIVERED")
  BY <1>1, <1>2, <1>3, GoOnKeeps DEF IInv
<1>5. /\ row'[m].status = "DELIVERED"
      /\ \A n \in Mos \ {m} : (row'[n].status = "DELIVERED")
                                = (row[n].status = "DELIVERED")
  <2>1. AfterSuccess(m)[m].status = "DELIVERED"
    BY <1>2 DEF IInv, TypeOK, AfterSuccess, Rows
  <2>2. \A n \in Mos \ {m} : AfterSuccess(m)[n] = row[n]
    BY <1>2 DEF IInv, TypeOK, AfterSuccess
  <2> QED
    BY <1>2, <1>4, <2>1, <2>2
<1>6. /\ copies' \in [Mos -> 0..2]
      /\ copies[m] = 0 => copies'[m] = 1
      /\ \A n \in Mos \ {m} : copies'[n] = copies[n]
  BY <1>1, <1>2 DEF IInv, TypeOK, Takes
<1>7. copies[m] # 0 => unheard[m]
  BY <1>2 DEF IInv, HeardIsDelivered
<1>8. TypeOK'
  BY <1>1, <1>4, <1>6 DEF IInv, TypeOK
<1>9. HeardIsDelivered'
  BY <1>1, <1>5, <1>6 DEF IInv, HeardIsDelivered
<1>10. RepeatsNeedALostAnswer'
  BY <1>1, <1>6, <1>7 DEF IInv, RepeatsNeedALostAnswer
<1>11. StepKeepsDelivered
  BY <1>2, <1>5, <1>6 DEF StepKeepsDelivered
<1> QED
  BY <1>4, <1>8, <1>9, <1>10, <1>11 DEF IInv

LEMMA RetryKeeps ==
  ASSUME IInv, NEW q \in Runners, Retry(q)
  PROVE  IInv' /\ StepKeepsDelivered
<1> DEFINE m == run[q].mo
<1>1. Posting(q) /\ MayBeTaken({m}) /\ UNCHANGED <<provider, row>>
  BY DEF Retry
<1>2. m \in Mos /\ row[m].status = "SENDING"
  BY <1>1, PostingRun DEF IInv, PostedIsLocked
<1>3. run' = [run EXCEPT ![q].tries = run[q].tries + 1]
  BY DEF Retry
<1>4. /\ run[q] \in [mo : Mos, left : SUBSET Mos, tries : 1..Tries]
      /\ run[q].tries < Tries
  BY <1>1, PostingRun DEF IInv, Retry
<1>5. /\ run' \in [Runners -> Runs]
      /\ \A p \in Runners : run'[p].mo = run[p].mo
  <2>1. run'[q] = [run[q] EXCEPT !.tries = run[q].tries + 1]
          /\ \A p \in Runners \ {q} : run'[p] = run[p]
    BY <1>3 DEF IInv, TypeOK
  <2>2. run'[q] \in [mo : Mos, left : SUBSET Mos, tries : 1..Tries]
          /\ run'[q].mo = run[q].mo
    BY <1>4, <2>1, NotifyAssumption
  <2>3. DOMAIN run' = Runners /\ run' = [p \in Runners |-> run'[p]]
    BY <1>3 DEF IInv, TypeOK
  <2> QED
    BY <2>1, <2>2, <2>3 DEF IInv, TypeOK, Runs
<1>6. copies' \in [Mos -> 0..2] /\ unheard' \in [Mos -> BOOLEAN]
  BY <1>1, <1>2, TakenType DEF IInv
<1>7. TypeOK'
  BY <1>1, <1>5, <1>6 DEF IInv, TypeOK
<1>8. \A p \in Runners : Posting(p)' => Posting(p)
  BY <1>1, <1>3 DEF IInv, TypeOK, Posting
<1>9. OnePoster' /\ PostedIsLocked'
  BY <1>1, <1>5, <1>8 DEF IInv, OnePoster, PostedIsLocked
<1>10. HeardIsDelivered' /\ RepeatsNeedALostAnswer'
  BY <1>1, <1>2, TakenOne
     DEF IInv, HeardIsDelivered, RepeatsNeedALostAnswer
<1>11. StepKeepsDelivered
  BY <1>1, <1>2, TakenOne DEF IInv, StepKeepsDelivered
<1> QED
  BY <1>7, <1>9, <1>10, <1>11 DEF IInv

LEMMA GiveUpKeeps ==
  ASSUME IInv, NEW q \in Runners, GiveUp(q)
  PROVE  IInv' /\ StepKeepsDelivered
<1> DEFINE m == run[q].mo
<1>1. Posting(q) /\ GoOn(q, AfterFailure(m), run[q].left)
        /\ UNCHANGED provider
  BY DEF GiveUp
<1>2. m \in Mos /\ run[q].left \in SUBSET Mos /\ row[m].status = "SENDING"
  BY <1>1, PostingRun DEF IInv, PostedIsLocked
<1>3. PICK M \in SUBSET {m} : MayBeTaken(M)
  BY DEF GiveUp
<1>4. FitFor(q, AfterFailure(m))
  BY <1>1, FinishedFits DEF IInv
<1>5. /\ row' \in [Mos -> Rows] /\ run' \in [Runners -> Runs]
      /\ OnePoster' /\ PostedIsLocked'
      /\ \A n \in Mos : (row'[n].status = "DELIVERED")
                          = (AfterFailure(m)[n].status = "DELIVERED")
  BY <1>1, <1>2, <1>4, GoOnKeeps DEF IInv
<1>6. /\ AfterFailure(m)[m].status = "FAILED"
      /\ \A n \in Mos \ {m} : AfterFailure(m)[n] = row[n]
  BY <1>2 DEF IInv, TypeOK, AfterFailure, Rows
<1>7. \A n \in Mos : (row'[n].status = "DELIVERED")
                       = (row[n].status = "DELIVERED")
  BY <1>2, <1>5, <1>6
<1>8. copies' \in [Mos -> 0..2] /\ unheard' \in [Mos -> BOOLEAN]
  BY <1>2, <1>3, TakenType DEF IInv
<1>9. TypeOK'
  BY <1>1, <1>5, <1>8 DEF IInv, TypeOK
<1>10. HeardIsDelivered' /\ RepeatsNeedALostAnswer'
  BY <1>2, <1>3, <1>7, TakenOne
     DEF IInv, HeardIsDelivered, RepeatsNeedALostAnswer
<1>11. StepKeepsDelivered
  BY <1>2, <1>3, <1>7, TakenOne DEF IInv, StepKeepsDelivered
<1> QED
  BY <1>5, <1>9, <1>10, <1>11 DEF IInv

\* A run that aborts or is killed leaves its row as it is.
LEMMA EndKeeps ==
  ASSUME IInv, NEW M \in SUBSET Posted, MayBeTaken(M),
         run' \in [Runners -> Runs],
         \A q \in Runners : run'[q] \in {run[q], Idle},
         UNCHANGED <<provider, row>>
  PROVE  IInv' /\ StepKeepsDelivered
<1>1. \A m \in M : m \in Mos /\ row[m].status = "SENDING"
  BY PostedMessages, PostingRun DEF IInv, PostedIsLocked
<1>2. copies' \in [Mos -> 0..2] /\ unheard' \in [Mos -> BOOLEAN]
  BY <1>1, TakenType DEF IInv
<1>3. TypeOK'
  BY <1>2 DEF IInv, TypeOK
<1>4. \A q \in Runners : Posting(q)' => Posting(q) /\ run'[q] = run[q]
  BY DEF Posting
<1>5. OnePoster' /\ PostedIsLocked'
  BY <1>4 DEF IInv, OnePoster, PostedIsLocked
<1>6. HeardIsDelivered' /\ RepeatsNeedALostAnswer'
  BY <1>1, TakenOne DEF IInv, HeardIsDelivered, RepeatsNeedALostAnswer
<1>7. StepKeepsDelivered
  BY <1>1, TakenOne DEF IInv, StepKeepsDelivered
<1> QED
  BY <1>3, <1>5, <1>6, <1>7 DEF IInv

LEMMA AbortKeeps ==
  ASSUME IInv, NEW q \in Runners, Abort(q)
  PROVE  IInv' /\ StepKeepsDelivered
<1>1. run[q].mo \in Posted
  BY PostingRun, IdleRun DEF IInv, Abort, Posted
<1>2. run' = [run EXCEPT ![q] = Idle] /\ Idle \in Runs
  BY DEF Abort, Runs
<1>3. /\ run' \in [Runners -> Runs]
      /\ \A p \in Runners : run'[p] \in {run[p], Idle}
  BY <1>2 DEF IInv, TypeOK
<1>4. {run[q].mo} \in SUBSET Posted /\ MayBeTaken({run[q].mo})
        /\ UNCHANGED <<provider, row>>
  BY <1>1 DEF Abort
<1> QED
  BY <1>3, <1>4, EndKeeps

LEMMA CrashKeeps ==
  ASSUME IInv, Crash
  PROVE  IInv' /\ StepKeepsDelivered
<1>1. run' = [q \in Runners |-> Idle] /\ Idle \in Runs
  BY DEF Crash, Runs
<1>2. /\ run' \in [Runners -> Runs]
      /\ \A p \in Runners : run'[p] \in {run[p], Idle}
  BY <1>1
<1>3. Posted \in SUBSET Posted /\ MayBeTaken(Posted)
        /\ UNCHANGED <<provider, row>>
  BY DEF Crash
<1> QED
  BY <1>2, <1>3, EndKeeps

\* Time changes what is due and which locks are stale, never a posted row.
LEMMA TimeKeeps ==
  ASSUME IInv, NEW m \in Mos, BackoffEnds(m) \/ LockAges(m)
  PROVE  IInv' /\ StepKeepsDelivered
<1>1. UNCHANGED <<provider, run, copies, unheard>>
  BY DEF BackoffEnds, LockAges
<1>2. row' \in [Mos -> Rows]
  <2>1. \A r \in Rows : /\ [r EXCEPT !.due = TRUE] \in Rows
                        /\ [r EXCEPT !.stale = TRUE] \in Rows
    BY DEF Rows
  <2>2. row \in [Mos -> Rows]
    BY DEF IInv, TypeOK
  <2>3. CASE BackoffEnds(m)
    BY <2>1, <2>2, <2>3 DEF BackoffEnds
  <2>4. CASE LockAges(m)
    BY <2>1, <2>2, <2>4 DEF LockAges
  <2> QED
    BY <2>3, <2>4
<1>3. \A n \in Mos : row'[n].status = row[n].status
  BY DEF IInv, TypeOK, BackoffEnds, LockAges, Rows
<1>4. \A q \in Runners :
        Posting(q) => row'[run[q].mo].stale = row[run[q].mo].stale
  <2> SUFFICES ASSUME NEW q \in Runners, Posting(q)
               PROVE  row'[run[q].mo].stale = row[run[q].mo].stale
    OBVIOUS
  <2>1. run[q].mo \in Mos /\ row[run[q].mo].status = "SENDING"
          /\ run[q].mo \in Posted
    BY PostingRun, IdleRun DEF IInv, PostedIsLocked, Posted
  <2>2. CASE BackoffEnds(m)
    BY <2>1, <2>2 DEF BackoffEnds, IInv, TypeOK
  <2>3. CASE LockAges(m)
    BY <2>1, <2>3 DEF LockAges, IInv, TypeOK
  <2> QED
    BY <2>2, <2>3
<1>5. TypeOK'
  BY <1>1, <1>2 DEF IInv, TypeOK
<1>6. OnePoster' /\ RepeatsNeedALostAnswer'
  BY <1>1 DEF IInv, OnePoster, RepeatsNeedALostAnswer, Posting
<1>7. PostedIsLocked'
  BY <1>1, <1>3, <1>4, PostingRun DEF IInv, PostedIsLocked, Posting
<1>8. HeardIsDelivered' /\ StepKeepsDelivered
  BY <1>1, <1>3 DEF IInv, HeardIsDelivered, StepKeepsDelivered
<1> QED
  BY <1>5, <1>6, <1>7, <1>8 DEF IInv

LEMMA NextKeeps ==
  ASSUME IInv, [Next]_vars
  PROVE  IInv' /\ StepKeepsDelivered
<1>1. CASE UNCHANGED vars
  BY <1>1 DEF vars, IInv, TypeOK, OnePoster, PostedIsLocked, Posting,
              HeardIsDelivered, RepeatsNeedALostAnswer, StepKeepsDelivered
<1>2. CASE \E batch \in SUBSET Mos, answerArrives \in BOOLEAN :
             ReceiveMo(batch, answerArrives)
  BY <1>2, ReceiveKeeps
<1>3. CASE \E q \in Runners :
             Start(q) \/ Deliver(q) \/ Retry(q) \/ GiveUp(q) \/ Abort(q)
  BY <1>3, StartKeeps, DeliverKeeps, RetryKeeps, GiveUpKeeps, AbortKeeps
<1>4. CASE \E m \in Mos : BackoffEnds(m) \/ LockAges(m)
  BY <1>4, TimeKeeps
<1>5. CASE Crash
  BY <1>5, CrashKeeps
<1> QED
  BY <1>1, <1>2, <1>3, <1>4, <1>5 DEF Next

LEMMA InitHolds == Init => IInv
<1> SUFFICES ASSUME Init PROVE IInv
  OBVIOUS
<1>1. \A q \in Runners : ~Posting(q)
  BY DEF Init, Posting
<1>2. TypeOK
  BY DEF Init, TypeOK, Rows, Runs, Waiting
<1>3. OnePoster /\ PostedIsLocked
  BY <1>1 DEF OnePoster, PostedIsLocked
<1>4. HeardIsDelivered /\ RepeatsNeedALostAnswer
  BY DEF Init, HeardIsDelivered, RepeatsNeedALostAnswer
<1> QED
  BY <1>2, <1>3, <1>4 DEF IInv

(***************************************************************************)
(* The theorems.                                                           *)
(***************************************************************************)
LEMMA Invariance == Spec => []IInv
<1>1. IInv /\ [Next]_vars => IInv'
  BY NextKeeps
<1> QED
  BY InitHolds, <1>1, PTL DEF Spec

\* Type correctness: in particular no run posts a message more than Tries
\* times without going through the outbox again.
THEOREM TypeCorrect == Spec => []TypeOK
<1>1. IInv => TypeOK
  BY DEF IInv
<1> QED
  BY Invariance, <1>1, PTL

\* process_n8n_outbox: one run posts a message at a time, whatever the
\* batches of the others hold.
THEOREM OnePosterAlways == Spec => []OnePoster
<1>1. IInv => OnePoster
  BY DEF IInv
<1> QED
  BY Invariance, <1>1, PTL

\* A second copy in n8n is always explained by an answer nobody recorded.
THEOREM RepeatsExplained == Spec => []RepeatsNeedALostAnswer
<1>1. IInv => RepeatsNeedALostAnswer
  BY DEF IInv
<1> QED
  BY Invariance, <1>1, PTL

\* A delivered notification stays delivered and is never posted again.
THEOREM DeliveredStays == Spec => DeliveredIsFinal
<1>1. IInv /\ [Next]_vars => [StepKeepsDelivered]_vars
  BY NextKeeps
<1>2. [StepKeepsDelivered]_vars =>
        [\A m \in Mos :
           row[m].status = "DELIVERED"
             => row'[m].status = "DELIVERED" /\ copies'[m] = copies[m]]_vars
  BY DEF StepKeepsDelivered
<1> QED
  BY Invariance, <1>1, <1>2, PTL DEF Spec, DeliveredIsFinal
=============================================================================
