-------------------------- MODULE TokenManagerProofs --------------------------
(***************************************************************************)
(* For every number of requests and tokens: a cached token is given up     *)
(* only for a reason, and a retry never meets the refused token again.     *)
(*                                                                         *)
(* The inductive invariant says what is known while the lock is held or    *)
(* waited for: the reason for a renewal stays a reason until the holder of *)
(* the lock ends it, and a token that a waiting request may still be given *)
(* is a later one than the token it was refused with.                      *)
(***************************************************************************)
EXTENDS TokenManager, TLAPS

\* There is a reason to give up the token issued last.
Reason == issued = 0 \/ issued \in dead \/ life # "fresh"

\* The cached token, if any, is the one issued last.
CacheInv == cache \in {NoToken, issued} /\ (cache = NoToken => Reason)

\* Renewals hold the lock, and have a reason.
LockInv ==
  \A r \in Requests :
    req[r].pc \in Renewing => lock = r /\ Reason

\* What one request holds when the cached token is c.
Holds(x, c) ==
  /\ x.token <= issued /\ x.first <= issued
  /\ x.seen \in {NoToken, issued}
  /\ x.pc \notin Renewing => x.seen = NoToken
  /\ x.first # NoToken =>
       /\ x.pc = "sent" => x.token > x.first
       /\ x.pc \in {"waiting"} \cup Renewing =>
            /\ c # NoToken => c > x.first
            /\ x.seen # NoToken => x.seen > x.first

HoldsInv == \A r \in Requests : Holds(req[r], cache)

IInv == TypeOK /\ CacheInv /\ LockInv /\ HoldsInv

\* What NoWastedToken says of a step.
StepHasReason == cache' # cache => Reason

(***************************************************************************)
(* What get_token does up to its first await.                              *)
(***************************************************************************)
\* Request r, first refused with token first, ends up as y when the cached
\* token is token: it is sent with it, or renews it and has the lock, or
\* waits for the lock.
Outcome(r, token, first, y) ==
  /\ req' = [req EXCEPT ![r] = y]
  /\ y \in RequestStates /\ y.first = first
  /\ \/ /\ y.pc = "sent" /\ y.token = token /\ y.seen = NoToken
        /\ token # NoToken /\ lock' = lock
     \/ /\ y.pc \in Renewing /\ y.token = NoToken /\ y.seen = token
        /\ lock = NoOne /\ lock' = r
        /\ token = NoToken \/ life # "fresh"
     \/ /\ y.pc = "waiting" /\ y.token = NoToken /\ y.seen = NoToken
        /\ lock' = lock

\* The records that Sent, Renews, Waits and Ends write are requests.
LEMMA WrittenRequests ==
  ASSUME NEW token \in Tokens, NEW first \in Tokens
  PROVE  /\ token # NoToken =>
              [NewRequest EXCEPT !.pc = "sent", !.token = token,
                                 !.first = first] \in RequestStates
         /\ \A pc \in {"waiting"} \cup Renewing \cup Ended :
              [NewRequest EXCEPT !.pc = pc, !.seen = token, !.first = first]
                \in RequestStates
         /\ [NewRequest EXCEPT !.pc = "waiting", !.first = first]
              \in RequestStates
         /\ \A pc \in Ended :
              [NewRequest EXCEPT !.pc = pc] \in RequestStates
<1> NoToken \in Tokens
  BY TokenAssumption DEF Tokens, NoToken
<1> QED
  BY DEF NewRequest, RequestStates

LEMMA SentOutcome ==
  ASSUME NEW r \in Requests, NEW token \in Tokens, NEW first \in Tokens,
         token # NoToken, req' = Sent(r, token, first), UNCHANGED lock
  PROVE  \E y : Outcome(r, token, first, y)
<1> DEFINE y == [NewRequest EXCEPT !.pc = "sent", !.token = token,
                                   !.first = first]
<1>1. y \in RequestStates
  BY WrittenRequests
<1>2. /\ y.first = first /\ y.pc = "sent"
      /\ y.token = token /\ y.seen = NoToken
  BY DEF NewRequest
<1>3. req' = [req EXCEPT ![r] = y]
  BY DEF Sent
<1> HIDE DEF y
<1>4. Outcome(r, token, first, y)
  BY <1>1, <1>2, <1>3 DEF Outcome
<1> QED
  BY <1>4

LEMMA EnterOutcome ==
  ASSUME NEW r \in Requests, NEW token \in Tokens, NEW first \in Tokens,
         NEW paused, lock = NoOne, Enter(r, token, paused, first)
  PROVE  \E y : Outcome(r, token, first, y)
<1>1. CASE ServesCached(token, paused)
  <2>1. token # NoToken /\ req' = Sent(r, token, first) /\ lock' = lock
    BY <1>1 DEF ServesCached, StillUsable, Enter
  <2> QED
    BY <2>1, SentOutcome
<1>2. CASE ~ServesCached(token, paused)
  <2> DEFINE pc == IF token = NoToken \/ refreshOld
                   THEN "login" ELSE "refresh"
             y == [NewRequest EXCEPT !.pc = pc, !.seen = token,
                                     !.first = first]
  <2>1. token = NoToken \/ life # "fresh"
    BY <1>2 DEF ServesCached
  <2>2. req' = [req EXCEPT ![r] = y] /\ lock' = r
    BY <1>2 DEF Enter, Renews
  <2>3. pc \in Renewing
    BY DEF Renewing
  <2> HIDE DEF pc
  <2>4. y \in RequestStates
    BY <2>3, WrittenRequests
  <2>5. /\ y.first = first /\ y.pc = pc
        /\ y.token = NoToken /\ y.seen = token
    BY DEF NewRequest
  <2> HIDE DEF y
  <2>6. Outcome(r, token, first, y)
    BY <2>1, <2>2, <2>3, <2>4, <2>5 DEF Outcome
  <2> QED
    BY <2>6
<1> QED
  BY <1>1, <1>2

LEMMA GetTokenOutcome ==
  ASSUME NEW r \in Requests, NEW token \in Tokens, NEW first \in Tokens,
         NEW paused, GetToken(r, token, paused, first)
  PROVE  \E y : Outcome(r, token, first, y)
<1>1. CASE ServesCached(token, paused)
  <2>1. token # NoToken /\ req' = Sent(r, token, first) /\ lock' = lock
    BY <1>1 DEF ServesCached, StillUsable, GetToken
  <2> QED
    BY <2>1, SentOutcome
<1>2. CASE /\ ~ServesCached(token, paused)
           /\ lock = NoOne /\ \A q \in Requests : req[q].pc # "waiting"
  <2>1. Enter(r, token, paused, first)
    BY <1>2 DEF GetToken
  <2> QED
    BY <1>2, <2>1, EnterOutcome
<1>3. CASE /\ ~ServesCached(token, paused)
           /\ ~(lock = NoOne /\ \A q \in Requests : req[q].pc # "waiting")
  <2> DEFINE y == [NewRequest EXCEPT !.pc = "waiting", !.first = first]
  <2>1. req' = [req EXCEPT ![r] = y] /\ lock' = lock
    BY <1>3 DEF GetToken, Waits
  <2>2. y \in RequestStates
    BY WrittenRequests
  <2>3. /\ y.first = first /\ y.pc = "waiting"
        /\ y.token = NoToken /\ y.seen = NoToken
    BY DEF NewRequest
  <2> HIDE DEF y
  <2>4. Outcome(r, token, first, y)
    BY <2>1, <2>2, <2>3 DEF Outcome
  <2> QED
    BY <2>4
<1> QED
  BY <1>1, <1>2, <1>3

(***************************************************************************)
(* Every step keeps the invariant and has its reason.                      *)
(***************************************************************************)
\* An outcome of get_token keeps the invariant, if the cache was emptied at
\* most, and for a reason.
LEMMA OutcomeKeeps ==
  ASSUME IInv, NEW r \in Requests, NEW first \in Tokens,
         NEW token \in {cache, NoToken}, NEW y, Outcome(r, token, first, y),
         cache' = token, pause' \in BOOLEAN,
         UNCHANGED <<issued, life, refreshOld, dead>>,
         token = NoToken => Reason, first <= issued,
         token # NoToken /\ first # NoToken => token > first
  PROVE  IInv'
<1>1. /\ req' = [req EXCEPT ![r] = y] /\ y \in RequestStates
      /\ req'[r] = y /\ \A q \in Requests \ {r} : req'[q] = req[q]
  BY DEF Outcome, IInv, TypeOK
<1>2. lock' \in Requests \cup {NoOne}
  BY DEF Outcome, IInv, TypeOK
<1>3. TypeOK'
  <2>1. cache' \in Tokens
    BY TokenAssumption DEF IInv, TypeOK, Tokens, NoToken
  <2>2. req' \in [Requests -> RequestStates]
    BY <1>1 DEF IInv, TypeOK
  <2> QED
    BY <1>2, <2>1, <2>2 DEF IInv, TypeOK
<1>4. Reason' = Reason
  BY DEF Reason
<1>5. CacheInv'
  BY <1>4 DEF IInv, CacheInv
<1>6. LockInv'
  <2> SUFFICES ASSUME NEW q \in Requests, req'[q].pc \in Renewing
               PROVE  lock' = q /\ Reason
    BY <1>4 DEF LockInv
  <2>1. CASE q = r
    <3>1. y.pc \in Renewing
      BY <1>1, <2>1
    <3>2. lock' = r /\ (token = NoToken \/ life # "fresh")
      BY <3>1 DEF Outcome, Renewing
    <3> QED
      BY <2>1, <3>2 DEF Reason
  <2>2. CASE q # r
    <3>1. req[q].pc \in Renewing
      BY <1>1, <2>2
    <3>2. lock = q /\ Reason
      BY <3>1 DEF IInv, LockInv
    <3>3. lock # NoOne
      BY <3>2, TokenAssumption
    <3> QED
      BY <3>2, <3>3 DEF Outcome
  <2> QED
    BY <2>1, <2>2
<1>7. HoldsInv'
  <2> SUFFICES ASSUME NEW q \in Requests
               PROVE  Holds(req[q], cache)'
    BY DEF HoldsInv
  <2>1. issued \in Nat /\ token \in {NoToken, issued} /\ first \in Nat
    BY TokenAssumption DEF IInv, TypeOK, CacheInv, Tokens
  <2>2. CASE q = r
    <3>1. y.first = first /\ y.token \in {NoToken, token}
            /\ y.seen \in {NoToken, token}
            /\ (y.pc \notin Renewing => y.seen = NoToken)
      BY DEF Outcome
    <3>2. y.token <= issued /\ y.seen \in {NoToken, issued}
      BY <2>1, <3>1 DEF NoToken
    <3>3. y.pc = "sent" => y.token = token /\ token # NoToken
      BY DEF Outcome, Renewing
    <3> QED
      BY <1>1, <2>2, <3>1, <3>2, <3>3 DEF Holds
  <2>3. CASE q # r
    <3>1. Holds(req[q], cache)
      BY DEF IInv, HoldsInv
    <3>2. req'[q] = req[q] /\ cache' \in {cache, NoToken}
      BY <1>1, <2>3
    <3> QED
      BY <3>1, <3>2 DEF Holds
  <2> QED
    BY <2>2, <2>3
<1> QED
  BY <1>3, <1>5, <1>6, <1>7 DEF IInv

LEMMA BeginKeeps ==
  ASSUME IInv, NEW r \in Requests, Begin(r)
  PROVE  IInv' /\ StepHasReason
<1>1. GetToken(r, cache, pause, NoToken)
        /\ UNCHANGED <<cache, pause, issued, life, refreshOld, dead>>
  BY DEF Begin
<1>2. cache \in Tokens /\ NoToken \in Tokens /\ issued \in Nat
  BY TokenAssumption DEF IInv, TypeOK, Tokens, NoToken
<1>3. PICK y : Outcome(r, cache, NoToken, y)
  BY <1>1, <1>2, GetTokenOutcome
<1>4. NoToken <= issued
  BY <1>2 DEF NoToken
<1>5. pause' \in BOOLEAN /\ (cache = NoToken => Reason)
  BY <1>1 DEF IInv, TypeOK, CacheInv
<1>6. IInv'
  BY <1>1, <1>2, <1>3, <1>4, <1>5, OutcomeKeeps
<1> QED
  BY <1>1, <1>6 DEF StepHasReason

LEMMA GetLockKeeps ==
  ASSUME IInv, NEW r \in Requests, GetLock(r)
  PROVE  IInv' /\ StepHasReason
<1> DEFINE first == req[r].first
<1>1. /\ lock = NoOne /\ Enter(r, cache, pause, first)
      /\ UNCHANGED <<cache, pause, issued, life, refreshOld, dead>>
      /\ req[r].pc = "waiting"
  BY DEF GetLock
<1>2. cache \in Tokens /\ req[r] \in RequestStates
  BY DEF IInv, TypeOK
<1>3. first \in Tokens
  BY <1>2 DEF RequestStates
<1>4. first <= issued /\ (cache # NoToken /\ first # NoToken => cache > first)
  BY <1>1 DEF IInv, HoldsInv, Holds
<1>5. pause' \in BOOLEAN /\ (cache = NoToken => Reason)
  BY <1>1 DEF IInv, TypeOK, CacheInv
<1> HIDE DEF first
<1>6. PICK y : Outcome(r, cache, first, y)
  BY <1>1, <1>2, <1>3, EnterOutcome
<1>7. IInv'
  BY <1>1, <1>3, <1>4, <1>5, <1>6, OutcomeKeeps
<1> QED
  BY <1>1, <1>7 DEF StepHasReason

\* A request that stops renewing or waiting, to be sent or to end.
LEMMA LeavingKeeps ==
  ASSUME IInv, NEW r \in Requests, NEW y \in RequestStates,
         req' = [req EXCEPT ![r] = y], y.pc \notin Renewing, Holds(y, cache),
         \/ lock' = lock
         \/ lock' = NoOne /\ req[r].pc \in Renewing,
         pause' \in BOOLEAN,
         UNCHANGED <<cache, issued, life, refreshOld, dead>>
  PROVE  IInv' /\ StepHasReason
<1>1. req'[r] = y /\ \A q \in Requests \ {r} : req'[q] = req[q]
  BY DEF IInv, TypeOK
<1>2. TypeOK'
  BY DEF IInv, TypeOK
<1>3. Reason' = Reason
  BY DEF Reason
<1>4. CacheInv'
  BY <1>3 DEF IInv, CacheInv
<1>5. LockInv'
  BY <1>1, <1>3 DEF IInv, LockInv
<1>6. HoldsInv'
  BY <1>1 DEF IInv, HoldsInv, Holds
<1> QED
  BY <1>2, <1>4, <1>5, <1>6 DEF IInv, StepHasReason

\* A request that ends holds nothing.
LEMMA EndsKeeps ==
  ASSUME IInv, NEW r \in Requests, NEW how \in Ended, req' = Ends(r, how),
         \/ lock' = lock
         \/ lock' = NoOne /\ req[r].pc \in Renewing,
         pause' \in BOOLEAN,
         UNCHANGED <<cache, issued, life, refreshOld, dead>>
  PROVE  IInv' /\ StepHasReason
<1> DEFINE y == [NewRequest EXCEPT !.pc = how]
<1>1. y \in RequestStates
  <2>1. NoToken \in Tokens
    BY TokenAssumption DEF Tokens, NoToken
  <2> QED
    BY <2>1, WrittenRequests
<1>2. /\ y.pc = how /\ y.token = NoToken /\ y.seen = NoToken
      /\ y.first = NoToken
  BY DEF NewRequest
<1>3. req' = [req EXCEPT ![r] = y]
  BY DEF Ends
<1> HIDE DEF y
<1>4. y.pc \notin Renewing
  BY <1>2 DEF Ended, Renewing
<1>5. Holds(y, cache)
  BY <1>2, TokenAssumption DEF Holds, NoToken, IInv, TypeOK, Tokens
<1> QED
  BY <1>1, <1>3, <1>4, <1>5, LeavingKeeps

\* The holder of the lock caches the next token and is sent with it.
LEMMA IssuedKeeps ==
  ASSUME IInv, NEW r \in Requests, req[r].pc \in Renewing, Issued(r),
         refreshOld' \in BOOLEAN
  PROVE  IInv' /\ StepHasReason
<1> DEFINE first == req[r].first
           y == [NewRequest EXCEPT !.pc = "sent", !.token = issued + 1,
                                   !.first = first]
<1>1. /\ issued < MaxTokens /\ issued' = issued + 1 /\ cache' = issued + 1
      /\ life' = "fresh" /\ pause' = FALSE /\ lock' = NoOne
      /\ req' = [req EXCEPT ![r] = y] /\ dead' = dead
  BY DEF Issued, Sent
<1>2. issued \in Nat /\ issued + 1 \in Tokens /\ issued + 1 # NoToken
        /\ first \in Tokens
  BY <1>1, TokenAssumption
     DEF IInv, TypeOK, Tokens, NoToken, RequestStates
<1>3. y \in RequestStates
  BY <1>2, WrittenRequests
<1>4. /\ y.pc = "sent" /\ y.token = issued + 1 /\ y.seen = NoToken
      /\ y.first = first
  BY DEF NewRequest
<1>5. first <= issued /\ first \in Nat
  BY <1>2 DEF IInv, HoldsInv, Holds, Tokens
<1> HIDE DEF first, y
<1>6. req'[r] = y /\ \A q \in Requests \ {r} : req'[q] = req[q]
  BY <1>1 DEF IInv, TypeOK
<1>7. \A q \in Requests \ {r} : req[q].pc \notin Renewing
  BY DEF IInv, LockInv
<1>8. TypeOK'
  BY <1>1, <1>2, <1>3 DEF IInv, TypeOK
<1>9. CacheInv'
  BY <1>1, <1>2 DEF CacheInv
<1>10. LockInv'
  BY <1>4, <1>6, <1>7 DEF LockInv, Renewing
<1>11. HoldsInv'
  <2> SUFFICES ASSUME NEW q \in Requests PROVE Holds(req[q], cache)'
    BY DEF HoldsInv
  <2>1. CASE q = r
    BY <1>1, <1>2, <1>4, <1>5, <1>6, <2>1 DEF Holds, Renewing
  <2>2. CASE q # r
    <3>1. Holds(req[q], cache) /\ req'[q] = req[q]
      BY <1>6, <2>2 DEF IInv, HoldsInv
    <3>2. req[q].pc \notin Renewing /\ req[q] \in RequestStates
      BY <1>7, <2>2 DEF IInv, TypeOK
    <3>3. req[q].token \in Nat /\ req[q].first \in Nat
      BY <3>2, TokenAssumption DEF RequestStates, Tokens, NoToken
    <3>4. req[q].seen = NoToken
      BY <3>1, <3>2 DEF Holds
    <3> QED
      BY <1>1, <1>2, <3>1, <3>2, <3>3, <3>4 DEF Holds, NoToken
  <2> QED
    BY <2>1, <2>2
<1>12. Reason
  BY DEF IInv, LockInv
<1> QED
  BY <1>8, <1>9, <1>10, <1>11, <1>12 DEF IInv, StepHasReason

LEMMA RenewalFailsKeeps ==
  ASSUME IInv, NEW r \in Requests, RenewalFails(r)
  PROVE  IInv' /\ StepHasReason
<1>1. /\ req[r].pc \in Renewing /\ lock' = NoOne
      /\ UNCHANGED <<cache, issued, life, refreshOld, dead>>
  BY DEF RenewalFails
<1>2. pause' \in BOOLEAN
  BY DEF RenewalFails, IInv, TypeOK
<1>3. CASE StillUsable(req[r].seen)
  <2> DEFINE first == req[r].first
             seen == req[r].seen
             y == [NewRequest EXCEPT !.pc = "sent", !.token = seen,
                                     !.first = first]
  <2>1. seen # NoToken /\ req' = [req EXCEPT ![r] = y]
    BY <1>3 DEF RenewalFails, Sent, StillUsable
  <2>2. seen \in Tokens /\ first \in Tokens
    BY <1>1 DEF IInv, TypeOK, RequestStates, Renewing
  <2>3. y \in RequestStates
    BY <2>1, <2>2, WrittenRequests
  <2>4. /\ y.pc = "sent" /\ y.token = seen /\ y.seen = NoToken
        /\ y.first = first
    BY DEF NewRequest
  <2>5. /\ first <= issued /\ seen = issued
        /\ first # NoToken => seen > first
    BY <1>1, <2>1 DEF IInv, HoldsInv, Holds
  <2> HIDE DEF first, seen, y
  <2>6. Holds(y, cache)
    BY <2>2, <2>4, <2>5 DEF Holds, Renewing, Tokens
  <2>7. y.pc \notin Renewing
    BY <2>4 DEF Renewing
  <2> QED
    BY <1>1, <1>2, <2>1, <2>3, <2>6, <2>7, LeavingKeeps
<1>4. CASE ~StillUsable(req[r].seen)
  <2>1. req' = Ends(r, "failed") /\ "failed" \in Ended
    BY <1>4 DEF RenewalFails, Ended
  <2> QED
    BY <1>1, <1>2, <2>1, EndsKeeps
<1> QED
  BY <1>3, <1>4

LEMMA RefreshRefusedKeeps ==
  ASSUME IInv, NEW r \in Requests, RefreshRefused(r)
  PROVE  IInv' /\ StepHasReason
<1> DEFINE y == [req[r] EXCEPT !.pc = "login"]
<1>1. /\ req[r].pc = "refresh" /\ req' = [req EXCEPT ![r] = y]
      /\ UNCHANGED <<cache, pause, lock, issued, life, refreshOld, dead>>
  BY DEF RefreshRefused
<1>2. req[r] \in RequestStates
  BY DEF IInv, TypeOK
<1>3. /\ y \in RequestStates /\ y.pc = "login" /\ y.token = req[r].token
      /\ y.seen = req[r].seen /\ y.first = req[r].first
  BY <1>1, <1>2 DEF RequestStates, Renewing
<1> HIDE DEF y
<1>4. req'[r] = y /\ \A q \in Requests \ {r} : req'[q] = req[q]
  BY <1>1 DEF IInv, TypeOK
<1>5. TypeOK'
  BY <1>1, <1>3 DEF IInv, TypeOK
<1>6. CacheInv' /\ Reason' = Reason
  BY <1>1 DEF IInv, CacheInv, Reason
<1>7. LockInv'
  BY <1>1, <1>4, <1>6 DEF IInv, LockInv, Renewing
<1>8. HoldsInv'
  BY <1>1, <1>3, <1>4 DEF IInv, HoldsInv, Holds, Renewing
<1> QED
  BY <1>1, <1>5, <1>6, <1>7, <1>8 DEF IInv, StepHasReason

LEMMA RefreshOkKeeps ==
  ASSUME IInv, NEW r \in Requests, RefreshOk(r)
  PROVE  IInv' /\ StepHasReason
<1>1. req[r].pc \in Renewing /\ refreshOld' = refreshOld
        /\ refreshOld' \in BOOLEAN
  BY DEF RefreshOk, Renewing, IInv, TypeOK
<1>2. CASE Issued(r)
  BY <1>1, <1>2, IssuedKeeps
<1>3. CASE /\ req' = Ends(r, "crashed") /\ lock' = NoOne
           /\ UNCHANGED <<cache, pause, issued, life, dead>>
  <2>1. "crashed" \in Ended /\ pause' \in BOOLEAN
    BY <1>3 DEF Ended, IInv, TypeOK
  <2> QED
    BY <1>1, <1>3, <2>1, EndsKeeps
<1> QED
  BY <1>2, <1>3 DEF RefreshOk

LEMMA LoginOkKeeps ==
  ASSUME IInv, NEW r \in Requests, LoginOk(r)
  PROVE  IInv' /\ StepHasReason
BY IssuedKeeps DEF LoginOk, Renewing

LEMMA RefusedKeeps ==
  ASSUME IInv, NEW r \in Requests, Refused(r)
  PROVE  IInv' /\ StepHasReason
<1> DEFINE token == req[r].token
<1>1. /\ req[r].pc = "sent" /\ token \in dead
      /\ UNCHANGED <<issued, life, refreshOld, dead>>
  BY DEF Refused
<1>2. req[r] \in RequestStates
  BY DEF IInv, TypeOK
<1>3. token \in Tokens /\ token # NoToken
  BY <1>1, <1>2 DEF RequestStates, Renewing, Ended
<1>4. token <= issued /\ cache \in {NoToken, issued}
  BY DEF IInv, HoldsInv, Holds, CacheInv
<1>5. CASE MayRetry(r)
  <2> DEFINE cached == IF Drops(token) THEN NoToken ELSE cache
             paused == pause /\ ~Drops(token)
  <2>1. cache' = cached /\ pause' = paused
          /\ GetToken(r, cached, paused, token)
    BY <1>5 DEF Refused
  <2>2. cached \in Tokens /\ cached \in {cache, NoToken}
    BY TokenAssumption DEF IInv, TypeOK, Tokens, NoToken
  <2>3. Drops(token) => Reason
    BY <1>1, <1>3, <1>4 DEF Drops, Reason
  <2>4. cached = NoToken => Reason
    BY <2>3 DEF IInv, CacheInv
  <2>5. cached # NoToken => cached > token
    BY <1>3, <1>4, TokenAssumption
       DEF Drops, IInv, TypeOK, Tokens, NoToken
  <2>6. pause' \in BOOLEAN
    BY <2>1
  <2>7. cache' # cache => Reason
    BY <2>1, <2>3
  <2> HIDE DEF cached, paused, token
  <2>8. PICK y : Outcome(r, cached, token, y)
    BY <1>3, <2>1, <2>2, GetTokenOutcome
  <2>9. IInv'
    BY <1>1, <1>3, <1>4, <2>1, <2>2, <2>4, <2>5, <2>6, <2>8, OutcomeKeeps
  <2> QED
    BY <2>7, <2>9 DEF StepHasReason
<1>6. CASE ~MayRetry(r)
  <2>1. req' = Ends(r, "failed") /\ UNCHANGED <<cache, pause, lock>>
    BY <1>6 DEF Refused
  <2>2. "failed" \in Ended /\ pause' \in BOOLEAN
    BY <2>1 DEF Ended, IInv, TypeOK
  <2> QED
    BY <1>1, <2>1, <2>2, EndsKeeps
<1> QED
  BY <1>5, <1>6

LEMMA AnsweredKeeps ==
  ASSUME IInv, NEW r \in Requests, Answered(r)
  PROVE  IInv' /\ StepHasReason
<1>1. "done" \in Ended /\ pause' \in BOOLEAN
  BY DEF Ended, Answered, IInv, TypeOK
<1> QED
  BY <1>1, EndsKeeps DEF Answered

\* Time and msghub only add reasons.
LEMMA WorldKeeps ==
  ASSUME IInv,
         \/ TokenAges \/ RefreshTokenAges \/ PauseEnds
         \/ \E token \in 1..issued : Revoke(token)
  PROVE  IInv' /\ StepHasReason
<1>1. UNCHANGED <<cache, lock, issued, req>>
  BY DEF TokenAges, RefreshTokenAges, PauseEnds, Revoke
<1>2. /\ pause' \in BOOLEAN /\ refreshOld' \in BOOLEAN
      /\ life' \in {"fresh", "aging", "ending"}
  BY DEF TokenAges, RefreshTokenAges, PauseEnds, Revoke, IInv, TypeOK
<1>3. dead' \subseteq Tokens \ {NoToken}
  <2>1. CASE dead' = dead
    BY <2>1 DEF IInv, TypeOK
  <2>2. CASE \E token \in 1..issued : Revoke(token)
    BY <2>2, TokenAssumption DEF Revoke, IInv, TypeOK, Tokens, NoToken
  <2> QED
    BY <2>1, <2>2 DEF TokenAges, RefreshTokenAges, PauseEnds
<1>4. Reason => Reason'
  BY DEF Reason, TokenAges, RefreshTokenAges, PauseEnds, Revoke
<1>5. TypeOK'
  BY <1>1, <1>2, <1>3 DEF IInv, TypeOK
<1>6. CacheInv' /\ LockInv' /\ HoldsInv'
  BY <1>1, <1>4 DEF IInv, CacheInv, LockInv, HoldsInv, Holds
<1> QED
  BY <1>1, <1>5, <1>6 DEF IInv, StepHasReason

LEMMA NextKeeps ==
  ASSUME IInv, [Next]_vars
  PROVE  IInv' /\ (StepHasReason \/ UNCHANGED vars)
<1>1. CASE UNCHANGED vars
  BY <1>1 DEF vars, IInv, TypeOK, CacheInv, LockInv, HoldsInv, Holds, Reason
<1>2. CASE \E r \in Requests :
             \/ Begin(r) \/ GetLock(r) \/ LoginOk(r) \/ RefreshOk(r)
             \/ RefreshRefused(r) \/ RenewalFails(r)
             \/ Refused(r) \/ Answered(r)
  BY <1>2, BeginKeeps, GetLockKeeps, LoginOkKeeps, RefreshOkKeeps,
     RefreshRefusedKeeps, RenewalFailsKeeps, RefusedKeeps, AnsweredKeeps
<1>3. CASE \/ TokenAges \/ RefreshTokenAges \/ PauseEnds
           \/ \E token \in 1..issued : Revoke(token)
  BY <1>3, WorldKeeps
<1> QED
  BY <1>1, <1>2, <1>3 DEF Next

LEMMA InitHolds == Init => IInv
<1> SUFFICES ASSUME Init PROVE IInv
  OBVIOUS
<1>1. NoToken \in Tokens
  BY TokenAssumption DEF Tokens, NoToken
<1>2. NewRequest \in RequestStates
  BY <1>1 DEF NewRequest, RequestStates
<1>3. TypeOK
  BY <1>1, <1>2 DEF Init, TypeOK, NoToken
<1>4. CacheInv
  BY DEF Init, CacheInv, Reason, NoToken
<1>5. LockInv /\ HoldsInv
  BY DEF Init, LockInv, HoldsInv, Holds, NewRequest, Renewing, NoToken
<1> QED
  BY <1>3, <1>4, <1>5 DEF IInv

(***************************************************************************)
(* The theorems.                                                           *)
(***************************************************************************)
LEMMA Invariance == Spec => []IInv
<1>1. IInv /\ [Next]_vars => IInv'
  BY NextKeeps
<1> QED
  BY InitHolds, <1>1, PTL DEF Spec

\* Type correctness: in particular a request is never sent without a token.
THEOREM TypeCorrect == Spec => []TypeOK
<1>1. IInv => TypeOK
  BY DEF IInv
<1> QED
  BY Invariance, <1>1, PTL

\* The retry of _call never uses the refused token again.
THEOREM RetryIsLater == Spec => []RetryUsesALaterToken
<1>1. IInv => RetryUsesALaterToken
  BY DEF IInv, HoldsInv, Holds, RetryUsesALaterToken
<1> QED
  BY Invariance, <1>1, PTL

\* However many requests ask, expire or are refused together: a token is
\* given up only when it was refused or was getting old.
THEOREM TokensAreNotWasted == Spec => NoWastedToken
<1>1. IInv /\ [Next]_vars => [StepHasReason]_vars
  BY NextKeeps
<1>2. [StepHasReason]_vars =>
        [cache' # cache =>
           issued = 0 \/ issued \in dead \/ life # "fresh"]_vars
  BY DEF StepHasReason, Reason
<1> QED
  BY Invariance, <1>1, <1>2, PTL DEF Spec, NoWastedToken
=============================================================================
