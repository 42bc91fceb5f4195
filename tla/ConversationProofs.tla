------------------------ MODULE ConversationProofs -------------------------
(***************************************************************************)
(* Proofs about a conversation: one answer to a customer (module           *)
(* ChatReply), the attachments of a customer's answers (MoMedia), the      *)
(* marker of what the team has read (Inbox), and the list of conversations *)
(* (Threads).                                                              *)
(***************************************************************************)
EXTENDS ChatReply, MoMedia, Inbox, Threads, MessageRowsProofs, WellFoundedInduction

(***************************************************************************)
(* The answer.  The invariant has four parts besides the types.            *)
(*   InOrder     there is one campaign at most, and one request awaited:   *)
(*               which campaign and row go with it                         *)
(*   Bounded     what was delivered and what may still be are together no  *)
(*               more than the requests a restart cut off and one; that    *)
(*               one is left while the answer is known not to be delivered *)
(*               (Spare), and only then a request goes out                 *)
(*   RowsTell    a row tells the state of its own key, for good            *)
(*   Untouched   before any restart: which keys the provider has not seen  *)
(***************************************************************************)
ReplyCall ==
  [key : Keys, stage : {"out", "taken", "replaceable", "refused", "unexplained"}]
ReplyCampaign == [camp : Campaigns, token : Posts \cup {OneWay}, row : Row]
ReplyAnswers ==
  {"none", "sent", "failed", "unknown", "busy", "lost",
   "earlierSent", "earlierUnknown", "earlierFailed"}

ReplyTypeOK ==
  /\ channel \in Channels
  /\ fresh \in BOOLEAN
  /\ pc \in [Posts -> {"new", "chat", "oneway", "direct", "done"}]
  /\ answer \in [Posts -> ReplyAnswers]
  /\ call \in [Callers -> ReplyCall \cup {NoCall}]
  /\ db \in [Ids -> ReplyCampaign]
  /\ att \in [Keys -> {"none", "accepted"} \cup ResultCodes]
  /\ limbo \in SUBSET Keys
  /\ received \in Nat /\ cut \in Nat /\ restarts \in Nat

\* The keys of the one campaign.
Key(token, fb) == [id |-> 1, token |-> token, fb |-> fb]

OneCampaign ==
  \A i \in Ids :
    /\ Exists(i) => i = 1
    /\ ~Exists(i) => db[i] = NoCampaign

OneCaller == \A c, d \in Calling : c = d

PostInOrder(r) ==
  /\ pc[r] \in {"new", "done"} <=> call[r] = NoCall
  /\ pc[r] = "chat" => AlreadySent = {} /\ call[r].key = Key(r, FALSE)
  /\ pc[r] \in {"oneway", "direct"} =>
       /\ Exists(1) /\ db[1].token = OneWay /\ db[1].row = NoRow
       /\ call[r].key = Key(OneWay, pc[r] = "direct")

SubstituteInOrder ==
  call[Substitute] # NoCall =>
    /\ Exists(1) /\ Chat(1)
    /\ db[1].row # NoRow /\ ~db[1].row.fb
    /\ call[Substitute].key = Key(db[1].token, TRUE)
    /\ att[KeyOf(1)] = "undelivered"

InOrder ==
  /\ OneCampaign
  /\ OneCaller
  /\ \A r \in Posts : PostInOrder(r)
  /\ SubstituteInOrder

\* The provider has not seen the key, and will not without a new request.
Unseen(k) == att[k] = "none" /\ k \notin limbo

FreshTokens ==
  \A r \in Posts :
    pc[r] = "new" \/ (pc[r] = "chat" /\ call[r].stage # "taken")
      => Unseen(Key(r, FALSE))

\* What may still be delivered.
OpenKeys == {k \in Keys : att[k] = "accepted" \/ (att[k] = "none" /\ k \in limbo)}

Spare ==
  \/ AlreadySent = {} /\ \A c \in Callers : call[c].stage # "taken"
  \/ \E c \in Callers : call[c].stage \in {"out", "replaceable", "refused", "unexplained"}
  \/ \E r \in Posts : /\ pc[r] = "chat" /\ call[r].stage = "taken"
                      /\ att[call[r].key] = "undelivered"
  \/ \E i \in AlreadySent : /\ Chat(i) /\ ~db[i].row.fb
                            /\ att[KeyOf(i)] = "undelivered"
                            /\ call[Substitute].stage # "taken"

Bounded ==
  received + Cardinality(OpenKeys) <= cut + (IF Spare THEN 0 ELSE 1)

RowTells(i) ==
  /\ db[i].row.status = "DONE" => att[KeyOf(i)] = db[i].row.code
  /\ db[i].row.code = "noresult" => Unseen(KeyOf(i))
  /\ db[i].row.code = "rejected" => cut > 0 \/ Unseen(KeyOf(i))

RowsTell == \A i \in Ids : RowTells(i)

NothingWasSent == AlreadySent = {} /\ Calling = {} => \A k \in Keys : Unseen(k)

OnlyTheRequest(r) ==
  call[r] # NoCall =>
    \A k \in Keys :
      /\ k # call[r].key \/ call[r].stage # "taken" => att[k] = "none"
      /\ k \notin limbo

NoSubstituteYet(i) ==
  Exists(i) /\ Chat(i) /\ ~db[i].row.fb /\ call[Substitute].stage # "taken"
    => Unseen(Key(db[i].token, TRUE))

FailureIsFinal(r) ==
  answer[r] = "failed" =>
    /\ \A k \in Keys : Unseen(k)
    /\ Calling = {}
    /\ AlreadySent # {} /\ \A i \in AlreadySent : ~Chat(i)

Untouched ==
  cut = 0 =>
    /\ NothingWasSent
    /\ \A r \in Posts : OnlyTheRequest(r)
    /\ \A i \in Ids : NoSubstituteYet(i)
    /\ \A r \in Posts : FailureIsFinal(r)

ReplyInv ==
  ReplyTypeOK /\ InOrder /\ FreshTokens /\ Bounded /\ RowsTell /\ Untouched

\* The keys of an answer are finitely many.
LEMMA KeysAreFinite == IsFiniteSet(Keys)
<1> DEFINE tokens == Posts \cup {OneWay}
           pairs == Ids \X tokens
           triples == pairs \X BOOLEAN
           f == [t \in triples |-> [id |-> t[1][1], token |-> t[1][2], fb |-> t[2]]]
<1>1. IsFiniteSet(Posts) /\ Cardinality(Posts) \in Nat
  BY ChatReplyAssumption, FS_CardinalityType
<1>2. IsFiniteSet(tokens)
  BY <1>1, FS_AddElement
<1>3. IsFiniteSet(Ids)
  BY <1>1, FS_Interval DEF Ids
<1>4. IsFiniteSet({TRUE} \cup {FALSE})
  BY FS_Singleton, FS_AddElement
<1>5. IsFiniteSet(BOOLEAN)
  <2>1. BOOLEAN = {TRUE} \cup {FALSE}
    OBVIOUS
  <2> QED
    BY <1>4, <2>1
<1>6. IsFiniteSet(pairs)
  BY <1>2, <1>3, FS_Product
<1>7. IsFiniteSet(triples)
  BY <1>5, <1>6, FS_Product
<1>8. f \in Surjection(triples, Keys)
  <2>1. f \in [triples -> Keys]
    BY DEF Keys
  <2>2. ASSUME NEW k \in Keys PROVE \E t \in triples : f[t] = k
    <3> DEFINE t == <<<<k.id, k.token>>, k.fb>>
    <3>1. t \in triples
      BY DEF Keys
    <3>2. f[t] = k
      BY <3>1 DEF Keys
    <3> QED
      BY <3>1, <3>2
  <2> QED
    BY <2>1, <2>2 DEF Surjection
<1> QED
  BY <1>7, <1>8, FS_Surjection

\* A campaign id exists once there is a post.
LEMMA FirstId == ASSUME NEW r \in Posts PROVE 1 \in Ids
<1>1. IsFiniteSet(Posts) /\ Cardinality(Posts) \in Nat
  BY ChatReplyAssumption, FS_CardinalityType
<1>2. Cardinality(Posts) # 0
  BY <1>1, FS_EmptySet
<1> QED
  BY <1>1, <1>2 DEF Ids

\* The keys that may still deliver, when one is added, kept or taken away.
LEMMA OpenKeysCount ==
  /\ IsFiniteSet(OpenKeys) /\ Cardinality(OpenKeys) \in Nat
  /\ OpenKeys' \subseteq OpenKeys
       => /\ Cardinality(OpenKeys') \in Nat
          /\ Cardinality(OpenKeys') <= Cardinality(OpenKeys)
  /\ \A k : OpenKeys' \subseteq OpenKeys \cup {k}
       => /\ Cardinality(OpenKeys') \in Nat
          /\ Cardinality(OpenKeys') <= Cardinality(OpenKeys) + 1
  /\ \A k \in OpenKeys : OpenKeys' \subseteq OpenKeys \ {k}
       => /\ Cardinality(OpenKeys') \in Nat
          /\ Cardinality(OpenKeys') + 1 <= Cardinality(OpenKeys)
<1> DEFINE before == OpenKeys
           after == OpenKeys'
<1>1. before \in SUBSET Keys
  BY DEF OpenKeys
<1>2. IsFiniteSet(before) /\ Cardinality(before) \in Nat
  BY <1>1, KeysAreFinite, FS_Subset, FS_CardinalityType
<1> HIDE DEF before, after
<1>3. ASSUME after \subseteq before
      PROVE  Cardinality(after) \in Nat /\ Cardinality(after) <= Cardinality(before)
  BY <1>2, <1>3, FS_Subset, FS_CardinalityType
<1>4. ASSUME NEW k, after \subseteq before \cup {k}
      PROVE  Cardinality(after) \in Nat /\ Cardinality(after) <= Cardinality(before) + 1
  <2> DEFINE more == before \cup {k}
  <2>1. IsFiniteSet(more) /\ Cardinality(more) \in Nat
        /\ Cardinality(more) <= Cardinality(before) + 1
    BY <1>2, FS_AddElement, FS_CardinalityType
  <2>2. after \subseteq more
    BY <1>4
  <2> HIDE DEF more
  <2>3. Cardinality(after) \in Nat /\ Cardinality(after) <= Cardinality(more)
    BY <2>1, <2>2, FS_Subset, FS_CardinalityType
  <2> QED
    BY <1>2, <2>1, <2>3
<1>5. ASSUME NEW k \in before, after \subseteq before \ {k}
      PROVE  Cardinality(after) \in Nat /\ Cardinality(after) + 1 <= Cardinality(before)
  <2> DEFINE fewer == before \ {k}
  <2>1. IsFiniteSet(fewer) /\ Cardinality(fewer) = Cardinality(before) - 1
    BY <1>2, <1>5, FS_RemoveElement
  <2>2. after \subseteq fewer
    BY <1>5
  <2> HIDE DEF fewer
  <2>3. Cardinality(after) \in Nat /\ Cardinality(after) <= Cardinality(fewer)
    BY <2>1, <2>2, FS_Subset, FS_CardinalityType
  <2> QED
    BY <1>2, <2>1, <2>3
<1> QED
  BY <1>2, <1>3, <1>4, <1>5 DEF before, after

\* The bound survives a step that adds no delivery and gives no new leave to
\* send, one that uses up the leave, and one that rules a delivery out.
LEMMA BoundKept ==
  ASSUME NEW d \in Nat, NEW e \in Nat, NEW u \in Nat,
         NEW s \in BOOLEAN, NEW t \in BOOLEAN,
         d <= u + (IF s THEN 0 ELSE 1),
         \/ e <= d /\ (t => s)
         \/ e <= d + 1 /\ s /\ ~t
         \/ e + 1 <= d
  PROVE  e <= u + (IF t THEN 0 ELSE 1)
<1>1. CASE s /\ t
  BY <1>1
<1>2. CASE s /\ ~t
  BY <1>2
<1>3. CASE ~s /\ t
  BY <1>3
<1>4. CASE ~s /\ ~t
  BY <1>4
<1> QED
  BY <1>1, <1>2, <1>3, <1>4

\* The same for a step of the program.  A request that is given up adds one
\* key k that may still be delivered.
LEMMA BoundedKept ==
  ASSUME ReplyTypeOK, Bounded, cut' = cut, received' = received,
         NEW k,
         \/ OpenKeys' \subseteq OpenKeys /\ (Spare' => Spare)
         \/ OpenKeys' \subseteq OpenKeys \cup {k} /\ Spare /\ ~Spare'
  PROVE  Bounded'
<1> DEFINE m == Cardinality(OpenKeys)
           n == Cardinality(OpenKeys')
           d == received + m
           e == received + n
           s == Spare
           t == Spare'
<1>1. received \in Nat /\ cut \in Nat
  BY DEF ReplyTypeOK
<1>2. m \in Nat /\ n \in Nat /\ ((n <= m /\ (t => s)) \/ (n <= m + 1 /\ s /\ ~t))
  BY OpenKeysCount
<1>3. d <= cut + (IF s THEN 0 ELSE 1)
  BY DEF Bounded
<1>4. s \in BOOLEAN /\ t \in BOOLEAN
  BY DEF Spare
<1> HIDE DEF m, n, s, t
<1>5. d \in Nat /\ e \in Nat
      /\ ((e <= d /\ (t => s)) \/ (e <= d + 1 /\ s /\ ~t))
  BY <1>1, <1>2
<1> HIDE DEF d, e
<1>6. e <= cut + (IF t THEN 0 ELSE 1)
  BY <1>1, <1>3, <1>4, <1>5, BoundKept
<1> QED
  BY <1>6 DEF Bounded, d, e, m, n, s, t

\* Nothing was sent: the only campaign there can be is not there.
LEMMA NothingSent ==
  ASSUME OneCampaign, AlreadySent = {}
  PROVE  /\ \A i \in Ids : db[i] = NoCampaign /\ ~Exists(i)
         /\ NextId = 1
<1>1. \A i \in Ids : db[i] = NoCampaign /\ ~Exists(i)
  BY DEF OneCampaign, AlreadySent
<1>2. {i \in Ids : Exists(i)} = {}
  BY <1>1
<1> QED
  BY <1>1, <1>2, FS_EmptySet DEF NextId

\* The request that a caller awaits is about the one campaign, and neither
\* about a recorded row nor about a post that did not start.
LEMMA RequestIsNew ==
  ASSUME ReplyTypeOK, InOrder, NEW c \in Callers, call[c] # NoCall
  PROVE  /\ call[c] \in ReplyCall /\ call[c].key \in Keys
         /\ call[c].key.id = 1 /\ 1 \in Ids
         /\ call[c].stage \in {"out", "taken", "replaceable", "refused", "unexplained"}
         /\ \A r \in Posts : pc[r] = "new" => call[c].key # Key(r, FALSE)
         /\ \A i \in Ids : db[i].row # NoRow => KeyOf(i) # call[c].key
         /\ \A d \in Callers : call[d] # NoCall <=> d = c
<1>1. call[c] \in ReplyCall
  BY DEF ReplyTypeOK
<1>2. call[c].key \in Keys
      /\ call[c].stage \in {"out", "taken", "replaceable", "refused", "unexplained"}
  BY <1>1 DEF ReplyCall
<1>3. \A d \in Callers : call[d] # NoCall <=> d = c
  BY DEF InOrder, OneCaller, Calling
<1>4. CASE c \in Posts
  <2>1. pc[c] \in {"chat", "oneway", "direct"}
    BY <1>4 DEF InOrder, PostInOrder, ReplyTypeOK
  <2>2. CASE pc[c] = "chat"
    <3>1. AlreadySent = {} /\ call[c].key = Key(c, FALSE)
      BY <1>4, <2>2 DEF InOrder, PostInOrder
    <3>2. \A i \in Ids : db[i] = NoCampaign
      BY <3>1, NothingSent DEF InOrder
    <3>3. \A i \in Ids : db[i].row = NoRow
      BY <3>2 DEF NoCampaign
    <3>4. 1 \in Ids
      BY <1>4, FirstId
    <3> QED
      BY <1>1, <1>2, <1>3, <2>2, <3>1, <3>3, <3>4 DEF Key
  <2>3. CASE pc[c] # "chat"
    <3>1. db[1].row = NoRow /\ call[c].key = Key(OneWay, pc[c] = "direct") /\ Exists(1)
      BY <1>4, <2>1, <2>3 DEF InOrder, PostInOrder
    <3>2. \A i \in Ids : db[i].row = NoRow
      BY <3>1 DEF InOrder, OneCampaign, NoCampaign
    <3>3. 1 \in Ids
      BY <1>4, FirstId
    <3> QED
      BY <1>1, <1>2, <1>3, <3>1, <3>2, <3>3, ChatReplyAssumption DEF Key
  <2> QED
    BY <2>2, <2>3
<1>5. CASE c \notin Posts
  <2>1. c = Substitute
    BY <1>5 DEF Callers
  <2>2. /\ Exists(1) /\ Chat(1) /\ ~db[1].row.fb
        /\ call[c].key = Key(db[1].token, TRUE)
    BY <2>1 DEF InOrder, SubstituteInOrder
  <2>3. \A i \in Ids : db[i].row # NoRow => i = 1
    BY DEF InOrder, OneCampaign, NoCampaign
  <2>4. 1 \in Ids
    BY <1>2, <2>2 DEF Key, Keys
  <2>5. ~KeyOf(1).fb /\ call[c].key.fb /\ call[c].key.id = 1
    BY <2>2 DEF KeyOf, Key
  <2>6. \A r \in Posts : ~Key(r, FALSE).fb
    BY DEF Key
  <2> QED
    BY <1>1, <1>2, <1>3, <2>3, <2>4, <2>5, <2>6
<1> QED
  BY <1>4, <1>5

\* No request is awaited when the database is free and there is no campaign,
\* or its row is recorded.
LEMMA NobodyCalls ==
  ASSUME ReplyTypeOK, InOrder, ~Locked, AlreadySent = {} \/ db[1].row # NoRow
  PROVE  /\ \A c \in Callers : call[c] = NoCall
         /\ Calling = {}
         /\ \A r \in Posts : pc[r] \in {"new", "done"}
<1>1. call[Substitute] = NoCall
  BY DEF Locked
<1>2. ASSUME NEW r \in Posts
      PROVE  call[r] = NoCall /\ pc[r] \in {"new", "done"}
  <2>1. pc[r] # "chat"
    BY DEF Locked
  <2>2. pc[r] \notin {"oneway", "direct"}
    <3>1. SUFFICES ASSUME pc[r] \in {"oneway", "direct"} PROVE FALSE
      OBVIOUS
    <3>2. Exists(1) /\ db[1].row = NoRow
      BY <3>1 DEF InOrder, PostInOrder
    <3>3. 1 \in AlreadySent
      BY <3>2, FirstId DEF AlreadySent
    <3> QED
      BY <3>2, <3>3
  <2>3. pc[r] \in {"new", "done"}
    BY <2>1, <2>2 DEF ReplyTypeOK
  <2> QED
    BY <2>3 DEF InOrder, PostInOrder
<1> QED
  BY <1>1, <1>2 DEF Callers, Calling

\* A key with "-fb" appended.
LEMMA ReplacedKey ==
  ASSUME NEW k \in Keys
  PROVE  [k EXCEPT !.fb = TRUE] = [id |-> k.id, token |-> k.token, fb |-> TRUE]
<1>1. k \in [id : Ids, token : Posts \cup {OneWay}, fb : BOOLEAN]
  BY DEF Keys
<1> DEFINE m == [k EXCEPT !.fb = TRUE]
<1>2. m \in Keys
  BY DEF Keys
<1>3. m.id = k.id
  BY <1>1
<1>4. m.token = k.token
  BY <1>1
<1>5. m.fb = TRUE
  BY <1>1
<1> HIDE DEF m
<1>6. m = [id |-> m.id, token |-> m.token, fb |-> m.fb]
  BY <1>2 DEF Keys
<1> QED
  BY <1>3, <1>4, <1>5, <1>6, Zenon DEF m

\* A post that is told the earlier result, or that the database is busy, and
\* the passing of time: nothing else changes.
LEMMA PostIsAnswered ==
  ASSUME ReplyInv, NEW r \in Posts, RepeatedRequest(r) \/ DatabaseIsLocked(r)
  PROVE  ReplyInv'
<1> USE DEF ReplyInv
<1>1. /\ pc[r] = "new"
      /\ pc' = [pc EXCEPT ![r] = "done"]
      /\ \E what \in ReplyAnswers \ {"failed"} : answer' = [answer EXCEPT ![r] = what]
  BY DEF RepeatedRequest, DatabaseIsLocked, Tell, ReplyResult, ReplyAnswers
<1>2. /\ channel' = channel /\ fresh' = fresh /\ call' = call /\ db' = db
      /\ att' = att /\ limbo' = limbo /\ received' = received
      /\ cut' = cut /\ restarts' = restarts
  BY DEF RepeatedRequest, DatabaseIsLocked, providerVars, restartVars
<1>3. ReplyTypeOK'
  BY <1>1, <1>2 DEF ReplyTypeOK
<1>4. \A q \in Posts : pc'[q] # "done" => pc'[q] = pc[q]
  BY <1>1 DEF ReplyTypeOK
<1>5. \A q \in Posts : pc[q] = pc'[q] \/ (pc[q] = "new" /\ pc'[q] = "done")
  BY <1>1 DEF ReplyTypeOK
<1>6. \A q \in Posts : answer'[q] = "failed" => answer[q] = "failed"
  BY <1>1 DEF ReplyTypeOK
<1>7. /\ AlreadySent' = AlreadySent /\ Calling' = Calling /\ OpenKeys' = OpenKeys
      /\ \A k : Unseen(k)' <=> Unseen(k)
      /\ \A i : (KeyOf(i)' = KeyOf(i)) /\ (Chat(i)' <=> Chat(i)) /\ (Exists(i)' <=> Exists(i))
  BY <1>2 DEF AlreadySent, Calling, OpenKeys, Unseen, KeyOf, Chat, Exists
<1>8. InOrder'
  <2>1. OneCampaign' /\ OneCaller' /\ SubstituteInOrder'
    BY <1>2, <1>7 DEF InOrder, OneCampaign, OneCaller, SubstituteInOrder
  <2>2. \A q \in Posts : PostInOrder(q)'
    BY <1>2, <1>5, <1>7 DEF InOrder, PostInOrder
  <2> QED
    BY <2>1, <2>2 DEF InOrder
<1>9. FreshTokens'
  BY <1>2, <1>4, <1>7 DEF FreshTokens
<1>10. Bounded'
  <2>1. Spare' => Spare
    BY <1>2, <1>4, <1>7 DEF Spare
  <2> QED
    BY <1>2, <1>7, <2>1, BoundedKept
<1>11. RowsTell'
  BY <1>2, <1>7 DEF RowsTell, RowTells
<1>12. Untouched'
  BY <1>2, <1>6, <1>7 DEF Untouched, NothingWasSent, OnlyTheRequest, NoSubstituteYet, FailureIsFinal
<1> QED
  BY <1>3, <1>8, <1>9, <1>10, <1>11, <1>12

\* The freshness of the reply id is no part of the invariant but its type.
LEMMA FreshnessIsFree ==
  ASSUME ReplyInv, FreshnessChanges \/ UNCHANGED replyVars
  PROVE  ReplyInv'
<1> USE DEF ReplyInv
<1>1. /\ channel' = channel /\ pc' = pc /\ answer' = answer /\ call' = call /\ db' = db
      /\ att' = att /\ limbo' = limbo /\ received' = received
      /\ cut' = cut /\ restarts' = restarts
      /\ fresh' \in {fresh, ~fresh}
  BY DEF FreshnessChanges, providerVars, restartVars, replyVars
<1>2. ReplyTypeOK'
  BY <1>1 DEF ReplyTypeOK
<1>3. InOrder'
  BY <1>1 DEF InOrder, OneCampaign, OneCaller, SubstituteInOrder, PostInOrder,
     Calling, AlreadySent, Exists, Chat, KeyOf, Key
<1>6. FreshTokens'
  BY <1>1 DEF FreshTokens, Unseen, Key
<1>4. Bounded'
  BY <1>1 DEF Bounded, Spare, OpenKeys, AlreadySent, Exists, Chat, KeyOf
<1>5. RowsTell' /\ Untouched'
  BY <1>1 DEF RowsTell, RowTells, Untouched, NothingWasSent, OnlyTheRequest, NoSubstituteYet,
     FailureIsFinal, Calling, AlreadySent, Exists, Chat, KeyOf, Unseen
<1> QED
  BY <1>2, <1>3, <1>4, <1>5, <1>6

\* The campaigns of this module.
LEMMA CreatedType ==
  ASSUME NEW state \in {"DISPATCHING", "DISPATCHED", "FAILED"},
         NEW token \in Posts \cup {OneWay}, NEW row \in Row
  PROVE  /\ Created(state, token, row) \in ReplyCampaign
         /\ Created(state, token, row).camp.state # "NONE"
         /\ Created(state, token, row).token = token
         /\ Created(state, token, row).row = row
BY DEF Created, ReplyCampaign, Campaigns, CampaignStates

\* The rest of the invariant when a request goes out, or is replaced: it is
\* the only one, and nothing that the provider has is changed.
LEMMA RequestStarts ==
  ASSUME ReplyInv, ReplyTypeOK', NEW r \in Posts, Spare,
         cut' = cut, received' = received, att' = att, limbo' = limbo,
         answer' = answer,
         \A c \in Callers : c # r => call'[c] = NoCall,
         call'[r] # NoCall, call'[r].stage = "out",
         \A q \in Posts : pc'[q] \in {"new", "chat"} => pc[q] = "new",
         cut = 0 => \A k \in Keys : Unseen(k),
         ~\E q \in Posts : cut = 0 /\ answer[q] = "failed",
         \A i \in Ids : db'[i] = db[i] \/ db'[i].row = NoRow
  PROVE  FreshTokens' /\ Bounded' /\ RowsTell' /\ Untouched'
<1> USE DEF ReplyInv
<1>1. \A k : Unseen(k)' <=> Unseen(k)
  BY DEF Unseen
<1>2. FreshTokens'
  <2>1. \A q \in Posts : pc[q] = "new" => Unseen(Key(q, FALSE))
    BY DEF FreshTokens
  <2>2. \A q \in Posts : Key(q, FALSE)' = Key(q, FALSE)
    BY DEF Key
  <2> QED
    BY <1>1, <2>1, <2>2 DEF FreshTokens
<1>3. Bounded'
  <2>1. OpenKeys' = OpenKeys
    BY DEF OpenKeys
  <2> QED
    BY <2>1, BoundedKept
<1>4. RowsTell'
  <2> SUFFICES ASSUME NEW i \in Ids PROVE RowTells(i)'
    BY DEF RowsTell
  <2>1. CASE db'[i] = db[i]
    <3>1. KeyOf(i)' = KeyOf(i)
      BY <2>1 DEF KeyOf
    <3> QED
      BY <1>1, <2>1, <3>1 DEF RowsTell, RowTells
  <2>2. CASE db'[i].row = NoRow
    BY <2>2 DEF RowTells, NoRow
  <2> QED
    BY <2>1, <2>2
<1>5. Untouched'
  <2> SUFFICES ASSUME cut = 0
               PROVE  /\ NothingWasSent'
                      /\ \A q \in Posts : OnlyTheRequest(q)'
                      /\ \A i \in Ids : NoSubstituteYet(i)'
                      /\ \A q \in Posts : FailureIsFinal(q)'
    BY DEF Untouched
  <2>1. \A k \in Keys : Unseen(k)
    OBVIOUS
  <2>2. NothingWasSent'
    BY <1>1, <2>1 DEF NothingWasSent
  <2>3. \A q \in Posts : OnlyTheRequest(q)'
    BY <2>1 DEF OnlyTheRequest, Unseen
  <2>4. \A q \in Posts : FailureIsFinal(q)'
    BY DEF FailureIsFinal
  <2>5. \A i \in Ids : Key(db'[i].token, TRUE) \in Keys
    BY FirstId DEF ReplyTypeOK, ReplyCampaign, Key, Keys
  <2>6. \A i \in Ids : NoSubstituteYet(i)'
    BY <1>1, <2>1, <2>5 DEF NoSubstituteYet, Key
  <2> QED
    BY <2>2, <2>3, <2>4, <2>6
<1> QED
  BY <1>2, <1>3, <1>4, <1>5

\* A chat request goes out: the post was new, nothing was sent.
LEMMA ChatGoesOut ==
  ASSUME ReplyInv, NEW r \in Posts, SendChat(r)
  PROVE  ReplyInv'
<1> USE DEF ReplyInv
<1> DEFINE request == Out(Key(r, FALSE))
<1>1. /\ pc[r] = "new" /\ AlreadySent = {} /\ ~Locked
      /\ pc' = [pc EXCEPT ![r] = "chat"]
      /\ answer' = answer
      /\ channel' = channel /\ fresh' = fresh /\ db' = db
      /\ att' = att /\ limbo' = limbo /\ received' = received
      /\ cut' = cut /\ restarts' = restarts
  BY DEF SendChat, providerVars, restartVars
<1>2. /\ \A c \in Callers : call[c] = NoCall
      /\ Calling = {}
      /\ \A q \in Posts : pc[q] \in {"new", "done"}
  BY <1>1, NobodyCalls
<1>3. call' = [call EXCEPT ![r] = request]
  BY <1>1, NothingSent DEF SendChat, InOrder, Key
<1>4. 1 \in Ids /\ r \in Callers /\ Substitute \in Callers /\ Substitute # r
  BY FirstId, ChatReplyAssumption DEF Callers
<1>5. Key(r, FALSE) \in Keys
  BY <1>4 DEF Key, Keys
<1>6. request \in ReplyCall /\ request # NoCall
      /\ request.key = Key(r, FALSE) /\ request.stage = "out"
  BY <1>5 DEF Out, ReplyCall, NoCall
<1> HIDE DEF request
<1>7. ReplyTypeOK'
  <2>1. pc' \in [Posts -> {"new", "chat", "oneway", "direct", "done"}]
    BY <1>1 DEF ReplyTypeOK
  <2>2. call' \in [Callers -> ReplyCall \cup {NoCall}]
    BY <1>3, <1>6 DEF ReplyTypeOK
  <2> QED
    BY <1>1, <2>1, <2>2 DEF ReplyTypeOK
<1>8. /\ \A c \in Callers : call'[c] = IF c = r THEN request ELSE NoCall
      /\ \A q \in Posts : pc'[q] = IF q = r THEN "chat" ELSE pc[q]
  BY <1>1, <1>2, <1>3, <1>4 DEF ReplyTypeOK
<1>9. /\ AlreadySent' = AlreadySent /\ OpenKeys' = OpenKeys
      /\ \A k : Unseen(k)' <=> Unseen(k)
      /\ \A i : (KeyOf(i)' = KeyOf(i)) /\ (Chat(i)' <=> Chat(i)) /\ (Exists(i)' <=> Exists(i))
  BY <1>1 DEF AlreadySent, OpenKeys, Unseen, KeyOf, Chat, Exists
<1>10. InOrder'
  <2>1. OneCampaign'
    BY <1>1, <1>9 DEF InOrder, OneCampaign
  <2>2. OneCaller'
    BY <1>8 DEF OneCaller, Calling
  <2>3. SubstituteInOrder'
    BY <1>4, <1>8 DEF SubstituteInOrder
  <2>4. ASSUME NEW q \in Posts PROVE PostInOrder(q)'
    <3>1. CASE q = r
      BY <1>1, <1>4, <1>6, <1>8, <1>9, <3>1 DEF PostInOrder, Key
    <3>2. CASE q # r
      BY <1>2, <1>8, <3>2 DEF PostInOrder, Callers
    <3> QED
      BY <3>1, <3>2
  <2> QED
    BY <2>1, <2>2, <2>3, <2>4 DEF InOrder
<1>11. Spare
  BY <1>1, <1>2 DEF Spare, NoCall
<1>12. cut = 0 => \A k \in Keys : Unseen(k)
  BY <1>1, <1>2 DEF Untouched, NothingWasSent
<1>13. ~\E q \in Posts : cut = 0 /\ answer[q] = "failed"
  BY <1>1 DEF Untouched, FailureIsFinal
<1>14. FreshTokens' /\ Bounded' /\ RowsTell' /\ Untouched'
  <2>1. \A q \in Posts : pc'[q] \in {"new", "chat"} => pc[q] = "new"
    BY <1>1, <1>2, <1>8
  <2>2. call'[r] # NoCall /\ call'[r].stage = "out"
    BY <1>4, <1>6, <1>8
  <2> HIDE DEF ReplyInv
  <2> QED
    BY <1>1, <1>7, <1>8, <1>11, <1>12, <1>13, <2>1, <2>2, RequestStarts
<1> QED
  BY <1>7, <1>10, <1>14

\* The one-way campaign is committed and its request goes out, when nothing
\* was sent: for a new post, or for one whose chat request was refused.
LEMMA OneWayGoesOut ==
  ASSUME ReplyInv, NEW r \in Posts, StartOneWay(r),
         AlreadySent = {}, pc[r] \in {"new", "chat"},
         \A c \in Callers : c # r => call[c] = NoCall,
         Spare, cut = 0 => \A k \in Keys : Unseen(k),
         UNCHANGED <<channel, fresh, providerVars, restartVars>>
  PROVE  ReplyInv'
<1> USE DEF ReplyInv
<1> DEFINE request == Out(Key(OneWay, FALSE))
           campaign == Created("DISPATCHING", OneWay, NoRow)
<1>1. /\ channel' = channel /\ fresh' = fresh /\ answer' = answer
      /\ att' = att /\ limbo' = limbo /\ received' = received
      /\ cut' = cut /\ restarts' = restarts
  BY DEF StartOneWay, providerVars, restartVars
<1>2. NextId = 1
  BY NothingSent DEF InOrder
<1>3. /\ db' = [db EXCEPT ![1] = campaign]
      /\ call' = [call EXCEPT ![r] = request]
      /\ pc' = [pc EXCEPT ![r] = "oneway"]
  BY <1>2 DEF StartOneWay, Key
<1>4. 1 \in Ids /\ r \in Callers /\ Substitute \in Callers /\ Substitute # r
  BY FirstId, ChatReplyAssumption DEF Callers
<1>5. Key(OneWay, FALSE) \in Keys
  BY <1>4 DEF Key, Keys
<1>6. request \in ReplyCall /\ request # NoCall
      /\ request.key = Key(OneWay, FALSE) /\ request.stage = "out"
  BY <1>5 DEF Out, ReplyCall, NoCall
<1>7. /\ campaign \in ReplyCampaign /\ campaign.camp.state # "NONE"
      /\ campaign.token = OneWay /\ campaign.row = NoRow
  <2>1. NoRow \in Row
    BY DEF NoRow, Row, Statuses, Codes
  <2> QED
    BY <2>1, CreatedType
<1> HIDE DEF request, campaign
<1>8. ReplyTypeOK'
  <2>1. pc' \in [Posts -> {"new", "chat", "oneway", "direct", "done"}]
    BY <1>3 DEF ReplyTypeOK
  <2>2. call' \in [Callers -> ReplyCall \cup {NoCall}]
    BY <1>3, <1>6 DEF ReplyTypeOK
  <2>3. db' \in [Ids -> ReplyCampaign]
    BY <1>3, <1>7 DEF ReplyTypeOK
  <2> QED
    BY <1>1, <2>1, <2>2, <2>3 DEF ReplyTypeOK
<1>9. /\ \A c \in Callers : call'[c] = IF c = r THEN request ELSE NoCall
      /\ \A q \in Posts : pc'[q] = IF q = r THEN "oneway" ELSE pc[q]
      /\ \A i \in Ids : db'[i] = IF i = 1 THEN campaign ELSE db[i]
  BY <1>3, <1>4 DEF ReplyTypeOK
<1>10. \A q \in Posts : q # r => pc[q] \in {"new", "done"} /\ call[q] = NoCall
  BY DEF InOrder, PostInOrder, Callers
<1>11. InOrder'
  <2>1. OneCampaign'
    BY <1>7, <1>9 DEF InOrder, OneCampaign, Exists
  <2>2. OneCaller'
    BY <1>9 DEF OneCaller, Calling
  <2>3. SubstituteInOrder'
    BY <1>4, <1>9 DEF SubstituteInOrder
  <2>4. ASSUME NEW q \in Posts PROVE PostInOrder(q)'
    <3>1. CASE q = r
      BY <1>4, <1>6, <1>7, <1>9, <3>1 DEF PostInOrder, Key, Exists
    <3>2. CASE q # r
      BY <1>9, <1>10, <3>2 DEF PostInOrder, Callers
    <3> QED
      BY <3>1, <3>2
  <2> QED
    BY <2>1, <2>2, <2>3, <2>4 DEF InOrder
<1>12. ~\E q \in Posts : cut = 0 /\ answer[q] = "failed"
  BY DEF Untouched, FailureIsFinal
<1>13. FreshTokens' /\ Bounded' /\ RowsTell' /\ Untouched'
  <2>1. \A q \in Posts : pc'[q] \in {"new", "chat"} => pc[q] = "new"
    BY <1>9, <1>10
  <2>2. call'[r] # NoCall /\ call'[r].stage = "out"
    BY <1>4, <1>6, <1>9
  <2>3. \A i \in Ids : db'[i] = db[i] \/ db'[i].row = NoRow
    BY <1>7, <1>9
  <2>4. \A c \in Callers : c # r => call'[c] = NoCall
    BY <1>9
  <2> HIDE DEF ReplyInv
  <2> QED
    BY <1>1, <1>8, <1>12, <2>1, <2>2, <2>3, <2>4, RequestStarts
<1> QED
  BY <1>8, <1>11, <1>13

\* A new answer that goes out one way.
LEMMA OneWayIsSent ==
  ASSUME ReplyInv, NEW r \in Posts, SendOneWay(r)
  PROVE  ReplyInv'
<1>1. /\ pc[r] = "new" /\ AlreadySent = {} /\ ~Locked /\ StartOneWay(r)
      /\ UNCHANGED <<channel, fresh, providerVars, restartVars>>
  BY DEF SendOneWay
<1>2. Calling = {} /\ \A c \in Callers : call[c] = NoCall
  BY <1>1, NobodyCalls DEF ReplyInv
<1>3. Spare
  BY <1>1, <1>2 DEF Spare, NoCall
<1>4. cut = 0 => \A k \in Keys : Unseen(k)
  BY <1>1, <1>2 DEF ReplyInv, Untouched, NothingWasSent
<1> QED
  BY <1>1, <1>2, <1>3, <1>4, OneWayGoesOut

\* A chat request that was refused, sent one way instead.
LEMMA ChatIsReplaced ==
  ASSUME ReplyInv, NEW r \in Posts, ReplaceChat(r)
  PROVE  ReplyInv'
<1>1. /\ pc[r] = "chat" /\ call[r].stage \in {"replaceable", "refused"} /\ StartOneWay(r)
      /\ UNCHANGED <<channel, fresh, providerVars, restartVars>>
  BY DEF ReplaceChat, ChatRejected
<1>2. r \in Callers /\ call[r] # NoCall /\ AlreadySent = {}
  BY <1>1 DEF Callers, ReplyInv, InOrder, PostInOrder
<1>3. \A c \in Callers : c # r => call[c] = NoCall
  BY <1>2, RequestIsNew DEF ReplyInv
<1>4. Spare
  BY <1>1, <1>2 DEF Spare
<1>5. cut = 0 => \A k \in Keys : Unseen(k)
  BY <1>1, <1>2 DEF ReplyInv, Untouched, OnlyTheRequest, Unseen
<1> QED
  BY <1>1, <1>2, <1>3, <1>4, <1>5, OneWayGoesOut

\* A one-way request that was refused outright goes out once more, direct.
LEMMA OneWayIsReplaced ==
  ASSUME ReplyInv, NEW r \in Posts, ReplaceOneWay(r)
  PROVE  ReplyInv'
<1> USE DEF ReplyInv
<1> DEFINE request == Out(Key(OneWay, TRUE))
<1>1. /\ pc[r] = "oneway" /\ call[r].stage = "replaceable"
      /\ pc' = [pc EXCEPT ![r] = "direct"]
      /\ call' = [call EXCEPT ![r] = Out([call[r].key EXCEPT !.fb = TRUE])]
      /\ channel' = channel /\ fresh' = fresh /\ answer' = answer /\ db' = db
      /\ att' = att /\ limbo' = limbo /\ received' = received
      /\ cut' = cut /\ restarts' = restarts
  BY DEF ReplaceOneWay, providerVars, restartVars
<1>2. r \in Callers /\ call[r] # NoCall /\ Substitute \in Callers /\ Substitute # r
  BY <1>1, ChatReplyAssumption DEF Callers, InOrder, PostInOrder
<1>3. /\ Exists(1) /\ db[1].token = OneWay /\ db[1].row = NoRow
      /\ call[r].key = Key(OneWay, FALSE)
  BY <1>1 DEF InOrder, PostInOrder
<1>4. 1 \in Ids /\ \A c \in Callers : c # r => call[c] = NoCall
  BY <1>2, RequestIsNew
<1>5. request \in ReplyCall /\ request # NoCall
      /\ request.key = Key(OneWay, TRUE) /\ request.stage = "out"
  BY <1>4 DEF Out, ReplyCall, NoCall, Key, Keys
<1>6. call' = [call EXCEPT ![r] = request]
  <2>1. call[r].key \in Keys
    BY <1>2, RequestIsNew
  <2>2. [call[r].key EXCEPT !.fb = TRUE] = Key(OneWay, TRUE)
    BY <1>3, <2>1, ReplacedKey DEF Key
  <2> QED
    BY <1>1, <2>2, Zenon
<1> HIDE DEF request
<1>7. ReplyTypeOK'
  <2>1. pc' \in [Posts -> {"new", "chat", "oneway", "direct", "done"}]
    BY <1>1 DEF ReplyTypeOK
  <2>2. call' \in [Callers -> ReplyCall \cup {NoCall}]
    BY <1>5, <1>6 DEF ReplyTypeOK
  <2> QED
    BY <1>1, <2>1, <2>2 DEF ReplyTypeOK
<1>8. /\ \A c \in Callers : call'[c] = IF c = r THEN request ELSE NoCall
      /\ \A q \in Posts : pc'[q] = IF q = r THEN "direct" ELSE pc[q]
  BY <1>1, <1>4, <1>6 DEF ReplyTypeOK
<1>9. \A q \in Posts : q # r => pc[q] \in {"new", "done"} /\ call[q] = NoCall
  BY <1>4 DEF InOrder, PostInOrder, Callers
<1>10. InOrder'
  <2>1. OneCampaign'
    BY <1>1 DEF InOrder, OneCampaign, Exists
  <2>2. OneCaller'
    BY <1>8 DEF OneCaller, Calling
  <2>3. SubstituteInOrder'
    BY <1>2, <1>8 DEF SubstituteInOrder
  <2>4. ASSUME NEW q \in Posts PROVE PostInOrder(q)'
    <3>1. CASE q = r
      <4>1. (pc'[q] = "direct") = TRUE /\ call'[q] = request /\ db' = db
        BY <1>1, <1>2, <1>8, <3>1
      <4>2. Key(OneWay, pc'[q] = "direct") = Key(OneWay, TRUE)
        BY <4>1
      <4> QED
        BY <1>3, <1>5, <4>1, <4>2 DEF PostInOrder, Key, Exists
    <3>2. CASE q # r
      BY <1>8, <1>9, <3>2 DEF PostInOrder, Callers
    <3> QED
      BY <3>1, <3>2
  <2> QED
    BY <2>1, <2>2, <2>3, <2>4 DEF InOrder
<1>11. Spare
  BY <1>1, <1>2 DEF Spare
<1>12. cut = 0 => \A k \in Keys : Unseen(k)
  BY <1>1, <1>2 DEF Untouched, OnlyTheRequest, Unseen
<1>13. ~\E q \in Posts : cut = 0 /\ answer[q] = "failed"
  BY <1>2 DEF Untouched, FailureIsFinal, Calling
<1>14. FreshTokens' /\ Bounded' /\ RowsTell' /\ Untouched'
  <2>1. \A q \in Posts : pc'[q] \in {"new", "chat"} => pc[q] = "new"
    BY <1>8, <1>9
  <2>2. call'[r] # NoCall /\ call'[r].stage = "out"
    BY <1>2, <1>5, <1>8
  <2>3. \A c \in Callers : c # r => call'[c] = NoCall
    BY <1>8
  <2> HIDE DEF ReplyInv
  <2> QED
    BY <1>1, <1>7, <1>11, <1>12, <1>13, <2>1, <2>2, <2>3, RequestStarts
<1> QED
  BY <1>7, <1>10, <1>14

\* Who has no request is no longer about to send.
LEMMA RequestHasEnded ==
  ASSUME ReplyTypeOK, ReplyTypeOK', InOrder, 1 \in Ids, Exists(1)',
         \A c \in Callers : call'[c] = NoCall
  PROVE  /\ Calling' = {} /\ AlreadySent' # {} /\ OneCaller' /\ SubstituteInOrder'
         /\ Spare' => \E i \in Ids : /\ Exists(i)' /\ Chat(i)' /\ ~db'[i].row.fb
                                     /\ att'[KeyOf(i)'] = "undelivered"
<1>1. Calling' = {} /\ OneCaller'
  BY DEF Calling, OneCaller
<1>2. 1 \in AlreadySent'
  BY DEF AlreadySent
<1>3. SubstituteInOrder'
  BY DEF SubstituteInOrder, Callers
<1>4. \A c \in Callers : call'[c].stage = "none"
  BY DEF NoCall
<1>5. Spare' => \E i \in Ids : /\ Exists(i)' /\ Chat(i)' /\ ~db'[i].row.fb
                               /\ att'[KeyOf(i)'] = "undelivered"
  BY <1>2, <1>4 DEF Spare, AlreadySent, Callers
<1> QED
  BY <1>1, <1>2, <1>3, <1>5

\* The result of a request is recorded as the row of the campaign, under the
\* key that the request went out with, and told.
LEMMA ResultIsRecorded ==
  ASSUME ReplyInv, NEW r \in Posts, pc[r] \in {"chat", "oneway", "direct"},
         NEW state \in {"DISPATCHED", "FAILED"}, NEW row \in Row,
         NEW what \in ReplyAnswers,
         Record(r, state, row, what),
         row.fb = call[r].key.fb,
         row.status # "DONE", row.code # "noresult",
         row.code = "rejected" => /\ call[r].stage \in {"replaceable", "refused"}
                                  /\ limbo' = limbo,
         what = "failed" => /\ pc[r] # "chat" /\ row.code = "rejected",
         row # NoRow,
         \/ limbo' = limbo
         \/ call[r].stage = "out" /\ limbo' = limbo \cup {call[r].key},
         channel' = channel, fresh' = fresh, att' = att, received' = received,
         cut' = cut, restarts' = restarts
  PROVE  ReplyInv'
<1> USE DEF ReplyInv
<1> DEFINE key == call[r].key
           campaign == Created(state, key.token, row)
<1>1. /\ r \in Callers /\ call[r] # NoCall
  BY DEF Callers, InOrder, PostInOrder
<1>2. /\ key \in Keys /\ key.id = 1 /\ 1 \in Ids
      /\ call[r].stage \in {"out", "taken", "replaceable", "refused", "unexplained"}
      /\ \A q \in Posts : pc[q] = "new" => key # Key(q, FALSE)
      /\ \A c \in Callers : call[c] # NoCall <=> c = r
  BY <1>1, RequestIsNew
<1>3. /\ db' = [db EXCEPT ![1] = campaign]
      /\ call' = [call EXCEPT ![r] = NoCall]
      /\ pc' = [pc EXCEPT ![r] = "done"]
      /\ answer' = [answer EXCEPT ![r] = what]
  BY <1>2 DEF Record, Tell
<1>4. key.token \in Posts \cup {OneWay} /\ key.fb \in BOOLEAN
      /\ key = [id |-> 1, token |-> key.token, fb |-> key.fb]
  BY <1>2 DEF Keys
<1>5. /\ campaign \in ReplyCampaign /\ campaign.camp.state # "NONE"
      /\ campaign.token = key.token /\ campaign.row = row
  BY <1>4, CreatedType
<1>6. pc[r] = "chat" => AlreadySent = {} /\ key = Key(r, FALSE)
  BY DEF InOrder, PostInOrder
<1>7. pc[r] # "chat" => key.token = OneWay
  <2>1. pc[r] # "chat" => key = Key(OneWay, pc[r] = "direct")
    BY DEF InOrder, PostInOrder
  <2> QED
    BY <2>1 DEF Key
<1> HIDE DEF key, campaign
<1>8. ReplyTypeOK'
  <2>1. pc' \in [Posts -> {"new", "chat", "oneway", "direct", "done"}]
    BY <1>3 DEF ReplyTypeOK
  <2>2. call' \in [Callers -> ReplyCall \cup {NoCall}]
    BY <1>3 DEF ReplyTypeOK
  <2>3. db' \in [Ids -> ReplyCampaign]
    BY <1>3, <1>5 DEF ReplyTypeOK
  <2>4. answer' \in [Posts -> ReplyAnswers]
    BY <1>3 DEF ReplyTypeOK
  <2>5. limbo' \in SUBSET Keys
    BY <1>2 DEF ReplyTypeOK, key
  <2> QED
    BY <2>1, <2>2, <2>3, <2>4, <2>5 DEF ReplyTypeOK
<1>9. /\ \A c \in Callers : call'[c] = NoCall
      /\ \A q \in Posts : pc'[q] = IF q = r THEN "done" ELSE pc[q]
      /\ \A q \in Posts : answer'[q] = IF q = r THEN what ELSE answer[q]
      /\ \A i \in Ids : db'[i] = IF i = 1 THEN campaign ELSE db[i]
  BY <1>1, <1>2, <1>3 DEF ReplyTypeOK
<1>10. \A q \in Posts : q # r => pc[q] \in {"new", "done"}
  BY <1>2 DEF InOrder, PostInOrder, Callers
<1>11. /\ Exists(1)' /\ KeyOf(1)' = key
       /\ Chat(1)' => pc[r] = "chat"
       /\ \A i \in Ids : Exists(i)' => i = 1
       /\ \A i \in Ids : i # 1 => db[i] = NoCampaign
  <2>1. Exists(1)' /\ db'[1].token = key.token /\ db'[1].row = row
    BY <1>2, <1>5, <1>9 DEF Exists
  <2>2. KeyOf(1)' = key
    BY <1>4, <2>1 DEF KeyOf, key
  <2>3. Chat(1)' => pc[r] = "chat"
    BY <1>7, <2>1 DEF Chat
  <2>4. \A i \in Ids : i # 1 => db[i] = NoCampaign /\ db'[i] = NoCampaign
    BY <1>9 DEF InOrder, OneCampaign
  <2>5. \A i \in Ids : Exists(i)' => i = 1
    BY <2>4 DEF Exists, NoCampaign
  <2> QED
    BY <2>1, <2>2, <2>3, <2>4, <2>5
<1>12. /\ Calling' = {} /\ AlreadySent' # {} /\ OneCaller' /\ SubstituteInOrder'
       /\ Spare' => \E i \in Ids : /\ Exists(i)' /\ Chat(i)' /\ ~db'[i].row.fb
                                   /\ att'[KeyOf(i)'] = "undelivered"
  BY <1>2, <1>8, <1>9, <1>11, RequestHasEnded
<1>13. InOrder'
  <2>1. OneCampaign'
    BY <1>9, <1>11 DEF InOrder, OneCampaign
  <2>2. ASSUME NEW q \in Posts PROVE PostInOrder(q)'
    BY <1>9, <1>10 DEF PostInOrder, Callers
  <2> QED
    BY <1>12, <2>1, <2>2 DEF InOrder
<1>14. FreshTokens'
  <2>1. \A q \in Posts : pc[q] = "new" => Unseen(Key(q, FALSE))
    BY DEF FreshTokens
  <2>2. ASSUME NEW q \in Posts, pc'[q] = "new" \/ (pc'[q] = "chat" /\ call'[q].stage # "taken")
        PROVE  pc[q] = "new"
    BY <1>9, <1>10, <2>2
  <2>3. ASSUME NEW q \in Posts, pc[q] = "new" PROVE Unseen(Key(q, FALSE))'
    <3>1. Key(q, FALSE)' = Key(q, FALSE) /\ Key(q, FALSE) # key
      BY <1>2, <2>3 DEF Key
    <3> QED
      BY <2>1, <2>3, <3>1 DEF Unseen, key
  <2> QED
    BY <2>2, <2>3 DEF FreshTokens
<1>15. Bounded'
  <2>1. Spare' => pc[r] = "chat" /\ att[key] = "undelivered"
    BY <1>11, <1>12
  <2>2. call[r].stage # "taken" => Spare
    BY <1>1, <1>2 DEF Spare
  <2>3. CASE limbo' = limbo
    <3>1. OpenKeys' = OpenKeys
      BY <2>3 DEF OpenKeys
    <3>2. Spare' => Spare
      BY <2>1, <2>2 DEF Spare, key
    <3> QED
      BY <3>1, <3>2, BoundedKept
  <2>4. CASE call[r].stage = "out" /\ limbo' = limbo \cup {key}
    <3>1. OpenKeys' \subseteq OpenKeys \cup {key}
      BY <2>4 DEF OpenKeys
    <3>2. Spare /\ ~Spare'
      <4>1. pc[r] = "chat" => att[key] = "none"
        BY <1>6, <2>4 DEF FreshTokens, Unseen
      <4> QED
        BY <2>1, <2>2, <2>4, <4>1
    <3> QED
      BY <3>1, <3>2, BoundedKept
  <2> QED
    BY <2>3, <2>4 DEF key
<1>16. cut = 0 => /\ \A k \in Keys : k # key \/ call[r].stage # "taken" => att[k] = "none"
                  /\ \A k \in Keys : k \notin limbo
  BY <1>1 DEF Untouched, OnlyTheRequest, key
<1>17. RowsTell'
  <2> SUFFICES ASSUME NEW i \in Ids PROVE RowTells(i)'
    BY DEF RowsTell
  <2>1. CASE i # 1
    <3>1. db'[i].row = NoRow
      BY <1>9, <1>11, <2>1 DEF NoCampaign
    <3> QED
      BY <3>1 DEF RowTells, NoRow
  <2>2. CASE i = 1
    <3>1. db'[i].row = row
      BY <1>5, <1>9, <2>2
    <3>2. ASSUME row.code = "rejected"
          PROVE  cut > 0 \/ (att[key] = "none" /\ key \notin limbo /\ limbo' = limbo)
      <4>1. cut = 0 \/ cut > 0
        BY DEF ReplyTypeOK
      <4> QED
        BY <1>2, <1>16, <3>2, <4>1
    <3> QED
      BY <1>11, <2>2, <3>1, <3>2 DEF RowTells, Unseen
  <2> QED
    BY <2>1, <2>2
<1>18. Untouched'
  <2> SUFFICES ASSUME cut = 0
               PROVE  /\ NothingWasSent'
                      /\ \A q \in Posts : OnlyTheRequest(q)'
                      /\ \A i \in Ids : NoSubstituteYet(i)'
                      /\ \A q \in Posts : FailureIsFinal(q)'
    BY DEF Untouched
  <2>1. NothingWasSent' /\ \A q \in Posts : OnlyTheRequest(q)'
    BY <1>9, <1>12 DEF NothingWasSent, OnlyTheRequest, Callers
  <2>2. ASSUME NEW i \in Ids PROVE NoSubstituteYet(i)'
    <3> SUFFICES ASSUME Exists(i)', Chat(i)'
                 PROVE  Unseen(Key(db[i].token, TRUE))'
      BY DEF NoSubstituteYet
    <3>1. i = 1 /\ pc[r] = "chat" /\ db'[i].token = r
      BY <1>2, <1>5, <1>6, <1>9, <1>11 DEF Key
    <3>2. Key(r, TRUE) \in Keys /\ Key(r, TRUE) # key
      BY <1>2, <1>6, <3>1 DEF Key, Keys
    <3>3. Key(db[i].token, TRUE)' = Key(r, TRUE)
      BY <3>1 DEF Key
    <3>4. Key(r, TRUE) \notin limbo' /\ att[Key(r, TRUE)] = "none"
      BY <1>16, <3>2 DEF key
    <3> QED
      BY <3>3, <3>4 DEF Unseen
  <2>3. ASSUME NEW q \in Posts PROVE FailureIsFinal(q)'
    <3> SUFFICES ASSUME answer'[q] = "failed"
                 PROVE  /\ \A k \in Keys : Unseen(k)'
                        /\ \A i \in AlreadySent' : ~Chat(i)'
      BY <1>12 DEF FailureIsFinal
    <3>1. q = r /\ what = "failed"
      BY <1>1, <1>9 DEF Untouched, FailureIsFinal, Calling
    <3>2. pc[r] # "chat" /\ call[r].stage # "taken" /\ limbo' = limbo
      BY <3>1
    <3> QED
      BY <1>11, <1>16, <3>2 DEF Unseen, AlreadySent
  <2> QED
    BY <2>1, <2>2, <2>3
<1> QED
  BY <1>8, <1>13, <1>14, <1>15, <1>17, <1>18

\* The three ways a request of a post ends for good.
LEMMA RequestOfAPostEnds ==
  ASSUME ReplyInv, NEW r \in Posts, Accepted(r) \/ Refused(r) \/ Uncertain(r)
  PROVE  ReplyInv'
<1>1. /\ pc[r] \in {"chat", "oneway", "direct"}
      /\ channel' = channel /\ fresh' = fresh /\ att' = att /\ received' = received
      /\ cut' = cut /\ restarts' = restarts
  BY DEF Accepted, Refused, Uncertain, providerVars, restartVars
<1>2. call[r].key.fb \in BOOLEAN
  <2>1. r \in Callers /\ call[r] # NoCall
    BY <1>1 DEF Callers, ReplyInv, InOrder, PostInOrder
  <2>2. call[r].key \in Keys
    BY <2>1, RequestIsNew DEF ReplyInv
  <2> QED
    BY <2>2 DEF Keys
<1>3. CASE Accepted(r)
  <2> DEFINE row == SentRow(call[r].key.fb)
  <2>1. /\ row \in Row /\ row.fb = call[r].key.fb /\ row.status # "DONE"
        /\ row.code # "noresult" /\ row.code # "rejected" /\ row # NoRow
    BY <1>2 DEF SentRow, Row, Statuses, OpenStatuses, Codes, ResultCodes, NoRow
  <2>2. Record(r, "DISPATCHED", row, "sent") /\ limbo' = limbo
    BY <1>3 DEF Accepted, providerVars
  <2> HIDE DEF row
  <2> QED
    BY <1>1, <2>1, <2>2, ResultIsRecorded DEF ReplyAnswers
<1>4. CASE Refused(r)
  <2> DEFINE code == IF call[r].stage = "unexplained" THEN "null" ELSE "rejected"
             row == FailedRow(code, call[r].key.fb)
  <2>1. /\ row \in Row /\ row.fb = call[r].key.fb /\ row.status # "DONE"
        /\ row.code = code /\ row.code # "noresult" /\ row # NoRow
    BY <1>2 DEF FailedRow, Row, Statuses, OpenStatuses, Codes, ResultCodes, NoRow
  <2>2. /\ Record(r, "FAILED", row, Verdict(code)) /\ limbo' = limbo
        /\ pc[r] # "chat"
        /\ code = "rejected" => call[r].stage \in {"replaceable", "refused"}
    BY <1>4 DEF Refused, providerVars
  <2>3. Verdict(code) \in ReplyAnswers /\ (Verdict(code) = "failed" => code = "rejected")
    BY DEF Verdict, ReplyAnswers
  <2> HIDE DEF row, code
  <2> QED
    BY <1>1, <2>1, <2>2, <2>3, ResultIsRecorded
<1>5. CASE Uncertain(r)
  <2> DEFINE row == FailedRow("null", call[r].key.fb)
  <2>1. /\ row \in Row /\ row.fb = call[r].key.fb /\ row.status # "DONE"
        /\ row.code # "noresult" /\ row.code # "rejected" /\ row # NoRow
    BY <1>2 DEF FailedRow, Row, Statuses, OpenStatuses, Codes, ResultCodes, NoRow
  <2>2. /\ Record(r, "FAILED", row, "unknown")
        /\ \/ limbo' = limbo
           \/ call[r].stage = "out" /\ limbo' = limbo \cup {call[r].key}
    BY <1>5 DEF Uncertain, Verdict
  <2> HIDE DEF row
  <2> QED
    BY <1>1, <2>1, <2>2, ResultIsRecorded DEF ReplyAnswers
<1> QED
  BY <1>3, <1>4, <1>5

\* The row of a campaign is changed, while nobody awaits an answer, or to
\* the row that the end of a substitute leaves.
LEMMA RowChanges ==
  ASSUME ReplyInv, NEW i \in Ids, Exists(i), NEW new \in ReplyCampaign,
         db' = [db EXCEPT ![i] = new],
         new.camp.state # "NONE", new.token = db[i].token,
         RowTells(i)',
         \A q \in Posts : call[q] = NoCall,
         call' = [c \in Callers |-> NoCall],
         \/ call[Substitute] = NoCall /\ limbo' = limbo /\ (db[i].row.fb => new.row.fb)
         \/ /\ call[Substitute] # NoCall /\ new.row.fb
            /\ \/ limbo' = limbo
               \/ call[Substitute].stage = "out" /\ limbo' = limbo \cup {call[Substitute].key},
         channel' = channel, fresh' = fresh, pc' = pc, answer' = answer, att' = att,
         received' = received, cut' = cut, restarts' = restarts
  PROVE  ReplyInv'
<1> USE DEF ReplyInv
<1> DEFINE key == call[Substitute].key
<1>1. /\ i = 1 /\ 1 \in Ids
      /\ \A j \in Ids : db'[j] = IF j = i THEN new ELSE db[j]
      /\ \A j \in Ids : (Exists(j)' <=> Exists(j)) /\ (Chat(j)' <=> Chat(j))
  <2>1. i = 1
    BY DEF InOrder, OneCampaign
  <2>2. \A j \in Ids : db'[j] = IF j = i THEN new ELSE db[j]
    BY DEF ReplyTypeOK
  <2> QED
    BY <2>1, <2>2 DEF Exists, Chat
<1>2. /\ \A c \in Callers : call'[c] = NoCall
      /\ \A q \in Posts : pc[q] \in {"new", "done"}
      /\ Substitute \in Callers
  BY DEF InOrder, PostInOrder, Callers
<1>3. call[Substitute] # NoCall =>
        /\ key \in Keys
        /\ \A q \in Posts : pc[q] = "new" => key # Key(q, FALSE)
  BY <1>2, RequestIsNew
<1>4. ReplyTypeOK'
  <2>1. call' \in [Callers -> ReplyCall \cup {NoCall}]
    OBVIOUS
  <2>2. db' \in [Ids -> ReplyCampaign]
    BY DEF ReplyTypeOK
  <2>3. limbo' \in SUBSET Keys
    BY <1>3 DEF ReplyTypeOK
  <2> QED
    BY <2>1, <2>2, <2>3 DEF ReplyTypeOK
<1>5. /\ Calling' = {} /\ AlreadySent' # {} /\ OneCaller' /\ SubstituteInOrder'
      /\ Spare' => \E j \in Ids : /\ Exists(j)' /\ Chat(j)' /\ ~db'[j].row.fb
                                  /\ att'[KeyOf(j)'] = "undelivered"
  <2>1. Exists(1)'
    BY <1>1
  <2> HIDE DEF ReplyInv
  <2> QED
    BY <1>1, <1>2, <1>4, <2>1, RequestHasEnded DEF ReplyInv
<1>6. AlreadySent' = AlreadySent
  BY <1>1 DEF AlreadySent
<1>7. InOrder'
  <2>1. OneCampaign'
    BY <1>1 DEF InOrder, OneCampaign
  <2>2. ASSUME NEW q \in Posts PROVE PostInOrder(q)'
    BY <1>2 DEF PostInOrder, Callers
  <2> QED
    BY <1>5, <2>1, <2>2 DEF InOrder
<1>8. FreshTokens'
  <2>1. ASSUME NEW q \in Posts, pc[q] = "new" PROVE Unseen(Key(q, FALSE))'
    <3>1. Key(q, FALSE)' = Key(q, FALSE) /\ Unseen(Key(q, FALSE))
      BY <2>1 DEF Key, FreshTokens
    <3> QED
      BY <1>3, <2>1, <3>1 DEF Unseen
  <2> QED
    BY <1>2, <2>1 DEF FreshTokens
<1>9. Bounded'
  <2>1. CASE call[Substitute] = NoCall
    <3>1. OpenKeys' = OpenKeys
      BY <2>1 DEF OpenKeys
    <3>2. ASSUME Spare' PROVE Spare
      <4>1. PICK j \in Ids : /\ Exists(j)' /\ Chat(j)' /\ ~db'[j].row.fb
                             /\ att'[KeyOf(j)'] = "undelivered"
        BY <1>5, <3>2
      <4>2. Exists(j) /\ Chat(j) /\ j = i
        BY <1>1, <4>1 DEF InOrder, OneCampaign
      <4>3. ~db[j].row.fb
        BY <1>1, <2>1, <4>1, <4>2
      <4>4. db[j].row.fb \in BOOLEAN /\ db'[j].row.fb \in BOOLEAN
        BY <1>4 DEF ReplyTypeOK, ReplyCampaign, Row
      <4>5. db[j].row.fb = db'[j].row.fb
        BY <4>1, <4>3, <4>4
      <4>6. db'[j].token = db[j].token
        BY <1>1, <4>2
      <4>7. KeyOf(j)' = KeyOf(j)
        BY <4>5, <4>6 DEF KeyOf
      <4> QED
        BY <2>1, <4>1, <4>2, <4>3, <4>7 DEF Spare, AlreadySent, NoCall
    <3> QED
      BY <3>1, <3>2, BoundedKept
  <2>2. CASE call[Substitute] # NoCall
    <3>1. ~Spare'
      BY <1>1, <1>5, <2>2 DEF InOrder, OneCampaign
    <3>2. CASE limbo' = limbo
      <4>1. OpenKeys' = OpenKeys
        BY <3>2 DEF OpenKeys
      <4> QED
        BY <3>1, <4>1, BoundedKept
    <3>3. CASE call[Substitute].stage = "out" /\ limbo' = limbo \cup {key}
      <4>1. OpenKeys' \subseteq OpenKeys \cup {key} /\ Spare
        BY <1>2, <3>3 DEF OpenKeys, Spare
      <4> QED
        BY <3>1, <4>1, BoundedKept
    <3> QED
      BY <2>2, <3>2, <3>3
  <2> QED
    BY <2>1, <2>2
<1>10. RowsTell'
  <2> SUFFICES ASSUME NEW j \in Ids, j # i PROVE RowTells(j)'
    BY DEF RowsTell
  <2>1. db'[j].row = NoRow
    BY <1>1 DEF InOrder, OneCampaign, NoCampaign
  <2> QED
    BY <2>1 DEF RowTells, NoRow
<1>11. Untouched'
  <2> SUFFICES ASSUME cut = 0
               PROVE  /\ NothingWasSent'
                      /\ \A q \in Posts : OnlyTheRequest(q)'
                      /\ \A j \in Ids : NoSubstituteYet(j)'
                      /\ \A q \in Posts : FailureIsFinal(q)'
    BY DEF Untouched
  <2>1. NothingWasSent' /\ \A q \in Posts : OnlyTheRequest(q)'
    BY <1>2, <1>5 DEF NothingWasSent, OnlyTheRequest, Callers
  <2>2. ASSUME NEW j \in Ids PROVE NoSubstituteYet(j)'
    <3> SUFFICES ASSUME Exists(j)', Chat(j)', ~db'[j].row.fb
                 PROVE  Unseen(Key(db[j].token, TRUE))'
      BY DEF NoSubstituteYet
    <3>1. j = i /\ call[Substitute] = NoCall /\ limbo' = limbo /\ ~db[j].row.fb
          /\ Exists(j) /\ Chat(j) /\ db'[j].token = db[j].token
      BY <1>1 DEF InOrder, OneCampaign
    <3>4. call[Substitute].stage # "taken"
      BY <3>1 DEF NoCall
    <3>2. Unseen(Key(db[j].token, TRUE))
      BY <3>1, <3>4 DEF Untouched, NoSubstituteYet
    <3>3. Key(db[j].token, TRUE)' = Key(db[j].token, TRUE)
      BY <3>1 DEF Key
    <3> QED
      BY <3>1, <3>2, <3>3 DEF Unseen
  <2>3. ASSUME NEW q \in Posts PROVE FailureIsFinal(q)'
    <3> SUFFICES ASSUME answer[q] = "failed"
                 PROVE  /\ \A k \in Keys : Unseen(k)'
                        /\ \A j \in AlreadySent' : ~Chat(j)'
      BY <1>5 DEF FailureIsFinal
    <3>1. /\ \A k \in Keys : Unseen(k)
          /\ Calling = {} /\ \A j \in AlreadySent : ~Chat(j)
      BY DEF Untouched, FailureIsFinal
    <3>2. limbo' = limbo
      BY <1>2, <3>1 DEF Calling
    <3> QED
      BY <1>1, <1>6, <3>1, <3>2 DEF Unseen, AlreadySent
  <2> QED
    BY <2>1, <2>2, <2>3
<1> QED
  BY <1>4, <1>7, <1>8, <1>9, <1>10, <1>11

\* A campaign that was counted anew is still a campaign, with its token.
LEMMA SettledType ==
  ASSUME ReplyTypeOK, NEW i \in Ids, Exists(i), NEW row \in Row
  PROVE  /\ Settled(i, row) \in ReplyCampaign
         /\ Settled(i, row).camp.state # "NONE"
         /\ Settled(i, row).token = db[i].token
         /\ Settled(i, row).row = row
<1> DEFINE old == db[i]
           camp == Refreshed(db[i].camp, db[i].camp, Rows(row))
           new == [db[i] EXCEPT !.row = row, !.camp = camp]
<1>1. old \in ReplyCampaign /\ old.camp \in Campaigns /\ old.camp.state # "NONE"
  BY DEF ReplyTypeOK, ReplyCampaign, Exists
<1>2. camp \in Campaigns
  <2>1. IsFiniteSet({"to"}) /\ Rows(row) \in [{"to"} -> Row]
    BY FS_Singleton DEF Rows
  <2> HIDE DEF camp
  <2> QED
    BY <1>1, <2>1, RefreshedType DEF camp
<1>3. camp.state # "NONE"
  BY <1>1 DEF Refreshed, SettledState
<1> HIDE DEF camp, old
<1>4. new = [old EXCEPT !.row = row, !.camp = camp]
  BY DEF old
<1> HIDE DEF new
<1>5. new \in ReplyCampaign /\ new.camp = camp /\ new.token = old.token /\ new.row = row
  BY <1>1, <1>2, <1>4 DEF ReplyCampaign
<1>6. Settled(i, row) = new
  BY DEF Settled, new, camp
<1> QED
  BY <1>3, <1>5, <1>6 DEF old

\* A result is applied, at a moment when nobody awaits an answer: the row
\* settles, or a substitute for it goes out.
LEMMA ResultIsApplied ==
  ASSUME ReplyInv, NEW i \in Ids, Exists(i), db[i].row # NoRow,
         NEW row \in Row, ApplyResult(i, row),
         row.status = "DONE" => att[[id |-> i, token |-> db[i].token, fb |-> row.fb]] = row.code,
         row.code = "noresult" => Unseen([id |-> i, token |-> db[i].token, fb |-> row.fb]),
         row.code = "rejected" =>
           cut > 0 \/ Unseen([id |-> i, token |-> db[i].token, fb |-> row.fb]),
         db[i].row.fb => row.fb
  PROVE  ReplyInv'
<1>1. /\ ~Locked
      /\ channel' = channel /\ fresh' = fresh /\ pc' = pc /\ answer' = answer
      /\ att' = att /\ limbo' = limbo /\ received' = received
      /\ cut' = cut /\ restarts' = restarts
  BY DEF ApplyResult, providerVars, restartVars
<1>2. i = 1
  BY DEF ReplyInv, InOrder, OneCampaign
<1>3. /\ \A c \in Callers : call[c] = NoCall
      /\ Calling = {}
      /\ \A q \in Posts : pc[q] \in {"new", "done"}
  BY <1>1, <1>2, NobodyCalls DEF ReplyInv
<1>4. Substitute \in Callers /\ \A q \in Posts : q \in Callers /\ q # Substitute
  BY ChatReplyAssumption DEF Callers
<1>5. ASSUME NEW final \in Row, db' = [db EXCEPT ![i] = Settled(i, final)], call' = call,
             final = row \/ (final.fb = FALSE /\ ~row.fb /\ final.status = "FAILED"
                             /\ final.code = "undelivered")
      PROVE  ReplyInv'
  <2> DEFINE new == Settled(i, final)
  <2>1. /\ new \in ReplyCampaign /\ new.camp.state # "NONE"
        /\ new.token = db[i].token /\ new.row = final
    BY SettledType DEF ReplyInv
  <2> HIDE DEF new
  <2>2. db'[i] = new
    BY <1>5 DEF new, ReplyInv, ReplyTypeOK
  <2>3. KeyOf(i)' = [id |-> i, token |-> db[i].token, fb |-> final.fb]
    BY <2>1, <2>2 DEF KeyOf
  <2>4. RowTells(i)'
    <3>1. CASE final = row
      <4>1. KeyOf(i)' = [id |-> i, token |-> db[i].token, fb |-> row.fb]
        BY <2>3, <3>1
      <4>2. db'[i].row = row
        BY <2>1, <2>2, <3>1
      <4> QED
        BY <1>1, <4>1, <4>2 DEF RowTells, Unseen
    <3>2. CASE final # row
      BY <1>5, <2>1, <2>2, <3>2 DEF RowTells
    <3> QED
      BY <3>1, <3>2
  <2>5. db[i].row.fb => final.fb
    BY <1>5
  <2>6. call' = [c \in Callers |-> NoCall]
    BY <1>3, <1>5 DEF ReplyInv, ReplyTypeOK
  <2>7. db' = [db EXCEPT ![i] = new]
    BY <1>5 DEF new
  <2> QED
    BY <1>1, <1>3, <1>4, <2>1, <2>4, <2>5, <2>6, <2>7, RowChanges
<1>6. CASE db' = [db EXCEPT ![i] = Settled(i, row)] /\ call' = call
  BY <1>5, <1>6
<1>7. CASE /\ NeedsSubstitute(i, row)
           /\ db' = [db EXCEPT ![i] = Settled(i, FailedRow(row.code, FALSE))]
           /\ call' = call
  <2> DEFINE final == FailedRow(row.code, FALSE)
  <2>1. final \in Row /\ final.fb = FALSE /\ final.status = "FAILED"
        /\ final.code = "undelivered"
    BY <1>7 DEF FailedRow, NeedsSubstitute, Row, Statuses, OpenStatuses, Codes, ResultCodes
  <2>2. ~row.fb
    BY <1>7 DEF NeedsSubstitute
  <2> HIDE DEF final
  <2>3. db' = [db EXCEPT ![i] = Settled(i, final)]
    BY <1>7 DEF final
  <2> QED
    BY <1>5, <1>7, <2>1, <2>2, <2>3
<1>8. CASE /\ NeedsSubstitute(i, row)
           /\ call' = [call EXCEPT ![Substitute] = Out([KeyOf(i) EXCEPT !.fb = TRUE])]
           /\ db' = db
  <2> USE DEF ReplyInv
  <2> DEFINE request == Out(Key(db[1].token, TRUE))
  <2>1. /\ Chat(1) /\ row.status = "DONE" /\ row.code = "undelivered" /\ ~row.fb
        /\ ~db[1].row.fb
    BY <1>2, <1>8 DEF NeedsSubstitute
  <2>2. /\ db[1] \in ReplyCampaign /\ row.fb = FALSE /\ db[1].row.fb = FALSE
    BY <1>2, <2>1 DEF ReplyTypeOK, ReplyCampaign, Row
  <2>3. KeyOf(1) \in Keys /\ KeyOf(1) = [id |-> i, token |-> db[i].token, fb |-> row.fb]
    BY <1>2, <2>2 DEF KeyOf, Keys, ReplyCampaign
  <2>4. att[KeyOf(1)] = "undelivered"
    BY <2>1, <2>3
  <2>5. [KeyOf(i) EXCEPT !.fb = TRUE] = Key(db[1].token, TRUE)
    BY <1>2, <2>3, ReplacedKey DEF Key
  <2>6. call' = [call EXCEPT ![Substitute] = request]
    BY <1>8, <2>5, Zenon
  <2>7. Key(db[1].token, TRUE) \in Keys
    BY <1>2, <2>2 DEF Key, Keys, ReplyCampaign
  <2>8. request \in ReplyCall /\ request # NoCall
        /\ request.key = Key(db[1].token, TRUE) /\ request.stage = "out"
    BY <2>7 DEF Out, ReplyCall, NoCall
  <2> HIDE DEF request
  <2>9. ReplyTypeOK'
    <3>1. call' \in [Callers -> ReplyCall \cup {NoCall}]
      BY <2>6, <2>8 DEF ReplyTypeOK
    <3> QED
      BY <1>1, <1>8, <3>1 DEF ReplyTypeOK
  <2>10. \A c \in Callers : call'[c] = IF c = Substitute THEN request ELSE NoCall
    BY <1>3, <1>4, <2>6 DEF ReplyTypeOK
  <2>11. \A q \in Posts : call'[q] = NoCall
    BY <1>4, <2>10
  <2>12. /\ AlreadySent' = AlreadySent /\ OpenKeys' = OpenKeys
         /\ \A k : Unseen(k)' <=> Unseen(k)
         /\ \A j : (KeyOf(j)' = KeyOf(j)) /\ (Chat(j)' <=> Chat(j)) /\ (Exists(j)' <=> Exists(j))
    BY <1>1, <1>8 DEF AlreadySent, OpenKeys, Unseen, KeyOf, Chat, Exists
  <2>13. InOrder'
    <3>1. OneCampaign'
      BY <1>8, <2>12 DEF InOrder, OneCampaign
    <3>2. OneCaller'
      BY <2>10 DEF OneCaller, Calling
    <3>3. SubstituteInOrder'
      <4>1. call'[Substitute].key = Key(db[1].token, TRUE)'
        BY <1>4, <1>8, <2>8, <2>10 DEF Key
      <4>2. att'[KeyOf(1)'] = "undelivered"
        BY <1>1, <2>4, <2>12
      <4>3. Exists(1)' /\ Chat(1)' /\ db'[1].row # NoRow /\ ~db'[1].row.fb
        BY <1>2, <1>8, <2>1, <2>12
      <4> QED
        BY <4>1, <4>2, <4>3 DEF SubstituteInOrder
    <3>4. ASSUME NEW q \in Posts PROVE PostInOrder(q)'
      BY <1>1, <1>3, <2>11 DEF PostInOrder
    <3> QED
      BY <3>1, <3>2, <3>3, <3>4 DEF InOrder
  <2>14. FreshTokens'
    <3>1. \A q \in Posts : Key(q, FALSE)' = Key(q, FALSE) /\ pc'[q] # "chat"
      BY <1>1, <1>3 DEF Key
    <3> QED
      BY <1>1, <2>12, <3>1 DEF FreshTokens
  <2>15. Bounded'
    <3>1. Spare
      <4>1. 1 \in AlreadySent /\ call[Substitute].stage # "taken"
        BY <1>2, <1>3, <1>4 DEF AlreadySent, NoCall
      <4> QED
        BY <2>1, <2>4, <4>1 DEF Spare
    <3> QED
      BY <1>1, <2>12, <3>1, BoundedKept
  <2>16. RowsTell'
    BY <1>1, <1>8, <2>12 DEF RowsTell, RowTells
  <2>17. Untouched'
    <3> SUFFICES ASSUME cut = 0
                 PROVE  /\ NothingWasSent'
                        /\ \A q \in Posts : OnlyTheRequest(q)'
                        /\ \A j \in Ids : NoSubstituteYet(j)'
                        /\ \A q \in Posts : FailureIsFinal(q)'
      BY <1>1 DEF Untouched
    <3>1. 1 \in AlreadySent /\ Chat(1)
      BY <1>2, <2>1 DEF AlreadySent
    <3>2. NothingWasSent' /\ \A q \in Posts : OnlyTheRequest(q)'
      BY <2>11, <2>12, <3>1 DEF NothingWasSent, OnlyTheRequest
    <3>3. \A q \in Posts : FailureIsFinal(q)'
      BY <1>1, <3>1 DEF Untouched, FailureIsFinal
    <3>4. ASSUME NEW j \in Ids PROVE NoSubstituteYet(j)'
      <4>1. call[Substitute].stage # "taken"
        BY <1>3, <1>4 DEF NoCall
      <4>2. Key(db[j].token, TRUE)' = Key(db[j].token, TRUE)
        BY <1>8 DEF Key
      <4> QED
        BY <1>8, <2>12, <4>1, <4>2 DEF Untouched, NoSubstituteYet
    <3> QED
      BY <3>2, <3>3, <3>4
  <2> QED
    BY <2>9, <2>13, <2>14, <2>15, <2>16, <2>17
<1> QED
  BY <1>6, <1>7, <1>8 DEF ApplyResult

\* So is one whose rows a query answered.
LEMMA AnsweredCampaign ==
  ASSUME NEW c \in Campaigns, c.state # "NONE", NEW old, NEW row \in Row
  PROVE  /\ AfterAnswers(c, Rows(old), Rows(row)) \in Campaigns
         /\ AfterAnswers(c, Rows(old), Rows(row)).state # "NONE"
<1> DEFINE counted == Refreshed(c, c, Rows(row))
           dispatching == [counted EXCEPT !.state = "DISPATCHING"]
<1>1. IsFiniteSet({"to"}) /\ Rows(row) \in [{"to"} -> Row]
  BY FS_Singleton DEF Rows
<1>2. counted \in Campaigns
  <2> HIDE DEF counted
  <2> QED
    BY <1>1, RefreshedType DEF counted
<1>3. counted.state # "NONE"
  BY DEF Refreshed, SettledState
<1>4. AfterAnswers(c, Rows(old), Rows(row)) \in {c, dispatching, counted}
  BY DEF AfterAnswers
<1> HIDE DEF counted
<1>5. dispatching \in Campaigns /\ dispatching.state = "DISPATCHING"
  BY <1>2 DEF Campaigns, CampaignStates
<1> HIDE DEF dispatching
<1> QED
  BY <1>2, <1>3, <1>4, <1>5

\* A report tells the state of the key that the row has, or is given.
LEMMA ReportIsApplied ==
  ASSUME ReplyInv, NEW k \in Keys, Report(k)
  PROVE  ReplyInv'
<1> DEFINE i == k.id
           row == AfterReport(db[i].row, k.fb, att[k])
<1>1. i \in Ids /\ k.fb \in BOOLEAN /\ k = [id |-> k.id, token |-> k.token, fb |-> k.fb]
  BY DEF Keys
<1>2. /\ att[k] \in ResultCodes /\ Exists(i) /\ db[i].row # NoRow
      /\ db[i].token = k.token /\ row # db[i].row /\ ApplyResult(i, row)
  BY DEF Report, Final, Matches, MatchesWithoutToken
<1>3. db[i].row \in Row /\ db[i].row.fb \in BOOLEAN
  BY <1>1 DEF ReplyInv, ReplyTypeOK, ReplyCampaign, Row
<1>4. row \in Row
  BY <1>1, <1>2, <1>3, AfterReportRow
<1>5. Unsettled(db[i].row, k.fb)
      /\ row = [status |-> "DONE", code |-> att[k], fb |-> db[i].row.fb \/ k.fb]
  BY <1>2 DEF AfterReport
<1>6. row.fb = k.fb /\ (db[i].row.fb => row.fb) /\ row.status = "DONE" /\ row.code = att[k]
  <2>1. db[i].row.fb => k.fb
    BY <1>5 DEF Unsettled, Superseded
  <2>2. (db[i].row.fb \/ k.fb) = k.fb
    BY <1>1, <1>3, <2>1
  <2>3. row.fb = (db[i].row.fb \/ k.fb) /\ row.status = "DONE" /\ row.code = att[k]
    BY <1>5
  <2>4. row.fb = k.fb
    BY <2>2, <2>3
  <2> QED
    BY <2>1, <2>3, <2>4
<1>7. [id |-> i, token |-> db[i].token, fb |-> row.fb] = k
  BY <1>1, <1>2, <1>6
<1>8. row.code # "noresult" /\ row.code # "rejected"
  BY <1>2, <1>6 DEF ResultCodes
<1> HIDE DEF i, row
<1> QED
  BY <1>1, <1>2, <1>4, <1>6, <1>7, <1>8, ResultIsApplied

\* What an answer about its own key makes of a row.
LEMMA AnsweredRow ==
  ASSUME ReplyInv, NEW i \in Ids, Exists(i), AskedAbout(db[i].row),
         KeyOf(i) \notin limbo, NEW row,
         row = AfterAnswer(db[i].row, KeyOf(i).fb, QueryAnswer(KeyOf(i))),
         row # db[i].row
  PROVE  /\ row \in Row /\ db[i].row # NoRow /\ row.fb = db[i].row.fb
         /\ row.status = "DONE" => att[KeyOf(i)] = row.code
         /\ row.code = "noresult" => Unseen(KeyOf(i))
         /\ row.code = "rejected" => cut > 0 \/ Unseen(KeyOf(i))
<1> USE DEF ReplyInv
<1> DEFINE k == KeyOf(i)
           old == db[i].row
           tells == QueryAnswer(k)
<1>1. /\ old \in Row /\ k \in Keys /\ k.fb = old.fb /\ old.fb \in BOOLEAN
      /\ old.status \in OpenStatuses \cup {"FAILED"}
  BY DEF ReplyTypeOK, ReplyCampaign, KeyOf, Keys, Row, AskedAbout
<1>2. /\ tells \in ResultCodes => att[k] = tells
      /\ tells = "reg" => att[k] = "accepted"
      /\ tells = "noresult" => att[k] = "none"
      /\ tells \in ResultCodes \cup {"reg", "noresult"}
  BY <1>1 DEF QueryAnswer, Final, ReplyTypeOK, ResultCodes
<1>3. RowTells(i)
  BY DEF RowsTell
<1>4. k \notin limbo /\ row = AfterAnswer(old, k.fb, tells) /\ row # old
  OBVIOUS
<1>5. /\ old.code = "noresult" => Unseen(k)
      /\ old.code = "rejected" => cut > 0 \/ Unseen(k)
  BY <1>3 DEF RowTells
<1>6. old # NoRow
  BY <1>1 DEF NoRow, OpenStatuses
<1> HIDE DEF k, old, tells
<1>7. row \in Row
  BY <1>1, <1>2, <1>4, AfterAnswerRow
<1>8. CASE tells = "noresult"
  <2>1. row = [old EXCEPT !.status = "FAILED", !.code = "noresult"]
    BY <1>4, <1>8 DEF AfterAnswer
  <2>2. row.status = "FAILED" /\ row.code = "noresult"
    BY <1>1, <2>1 DEF Row
  <2>3. row.fb = old.fb
    BY <1>1, <2>1 DEF Row
  <2>4. Unseen(k)
    BY <1>2, <1>4, <1>8 DEF Unseen
  <2> QED
    BY <1>6, <1>7, <2>2, <2>3, <2>4 DEF k, old
<1>9. CASE tells = "reg"
  <2>1. row = [old EXCEPT !.status = "REG"]
    BY <1>4, <1>9 DEF AfterAnswer
  <2>2. row.status = "REG" /\ row.code = old.code
    BY <1>1, <2>1 DEF Row
  <2>3. row.fb = old.fb
    BY <1>1, <2>1 DEF Row
  <2> QED
    BY <1>5, <1>6, <1>7, <2>2, <2>3 DEF k, old
<1>10. CASE tells \in ResultCodes
  <2>1. tells # "noresult" /\ tells # "reg" /\ tells # "rejected"
    BY <1>10 DEF ResultCodes
  <2>2. row = [old EXCEPT !.status = "DONE", !.code = tells]
    BY <1>4, <2>1 DEF AfterAnswer
  <2>3. row.status = "DONE" /\ row.code = tells
    BY <1>1, <2>2 DEF Row
  <2>4. row.fb = old.fb
    BY <1>1, <2>2 DEF Row
  <2> QED
    BY <1>2, <1>6, <1>7, <1>10, <2>1, <2>3, <2>4 DEF k, old
<1> QED
  BY <1>2, <1>8, <1>9, <1>10

\* The reconciliation asks about one row.
LEMMA QueryIsApplied ==
  ASSUME ReplyInv, NEW i \in Ids, Query(i)
  PROVE  ReplyInv'
<1> DEFINE k == KeyOf(i)
           row == AfterAnswer(db[i].row, k.fb, QueryAnswer(k))
<1>1. Exists(i) /\ AskedAbout(db[i].row) /\ k \notin limbo /\ row # db[i].row
  BY DEF Query
<1> HIDE DEF row
<1>2. /\ row \in Row /\ db[i].row # NoRow /\ row.fb = db[i].row.fb
      /\ row.status = "DONE" => att[k] = row.code
      /\ row.code = "noresult" => Unseen(k)
      /\ row.code = "rejected" => cut > 0 \/ Unseen(k)
  BY <1>1, AnsweredRow DEF row
<1>3. k = [id |-> i, token |-> db[i].token, fb |-> row.fb]
  BY <1>2 DEF KeyOf
<1>4. CASE ApplyResult(i, row)
  BY <1>1, <1>2, <1>3, <1>4, ResultIsApplied
<1>5. CASE /\ ~Locked
           /\ db' = [db EXCEPT ![i].row = row,
                       ![i].camp = AfterAnswers(db[i].camp, Rows(db[i].row), Rows(row))]
           /\ UNCHANGED <<channel, fresh, pc, answer, call, providerVars, restartVars>>
  <2> DEFINE old == db[i]
             camp == AfterAnswers(db[i].camp, Rows(db[i].row), Rows(row))
             new == [old EXCEPT !.row = row, !.camp = camp]
  <2>1. /\ channel' = channel /\ fresh' = fresh /\ pc' = pc /\ answer' = answer
        /\ att' = att /\ limbo' = limbo /\ received' = received /\ call' = call
        /\ cut' = cut /\ restarts' = restarts
    BY <1>5 DEF providerVars, restartVars
  <2>2. i = 1
    BY <1>1 DEF ReplyInv, InOrder, OneCampaign
  <2>3. /\ \A c \in Callers : call[c] = NoCall
        /\ \A q \in Posts : q \in Callers
        /\ Substitute \in Callers
    BY <1>2, <1>5, <2>2, NobodyCalls DEF ReplyInv, Callers
  <2>4. call' = [c \in Callers |-> NoCall]
    BY <2>1, <2>3 DEF ReplyInv, ReplyTypeOK
  <2>5. old \in ReplyCampaign /\ old.camp \in Campaigns /\ old.camp.state # "NONE"
    BY <1>1 DEF ReplyInv, ReplyTypeOK, ReplyCampaign, Exists
  <2>6. camp \in Campaigns /\ camp.state # "NONE"
    BY <1>2, <2>5, AnsweredCampaign
  <2> HIDE DEF camp
  <2>7. db' = [db EXCEPT ![i] = new]
    BY <1>5 DEF camp
  <2>8. new \in ReplyCampaign /\ new.camp = camp /\ new.token = old.token /\ new.row = row
    BY <1>2, <2>5, <2>6 DEF ReplyCampaign
  <2> HIDE DEF new
  <2>9. db'[i] = new
    BY <2>7 DEF ReplyInv, ReplyTypeOK
  <2>10. KeyOf(i)' = k /\ db'[i].row = row
    BY <1>3, <2>8, <2>9 DEF KeyOf
  <2>11. RowTells(i)'
    BY <1>2, <2>1, <2>10 DEF RowTells, Unseen
  <2> QED
    BY <1>1, <1>2, <2>1, <2>3, <2>4, <2>6, <2>7, <2>8, <2>11, RowChanges
<1> QED
  BY <1>4, <1>5 DEF Query, row

\* The end of a substitute: its row is settled under its own key.
LEMMA SubstituteIsClosed ==
  ASSUME ReplyInv, SubstituteAccepted \/ SubstituteRefused \/ SubstituteRaised
  PROVE  ReplyInv'
<1> DEFINE key == call[Substitute].key
<1>1. PICK status, code :
        /\ CloseSubstitute(status, code) /\ call[Substitute] # NoCall
        /\ \/ status = "FB_PENDING" /\ code = "undelivered"
           \/ status = "FAILED" /\ code = "undelivered"
           \/ status = "FAILED" /\ code = "rejected" /\ call[Substitute].stage = "refused"
  <2>1. CASE SubstituteAccepted
    BY <2>1 DEF SubstituteAccepted, NoCall
  <2>2. CASE SubstituteRefused
    BY <2>2 DEF SubstituteRefused, NoCall
  <2>3. CASE SubstituteRaised
    BY <2>3 DEF SubstituteRaised
  <2> QED
    BY <2>1, <2>2, <2>3
<1>2. Substitute \in Callers /\ \A q \in Posts : q \in Callers /\ q # Substitute
  BY ChatReplyAssumption DEF Callers
<1>3. key.id = 1 /\ 1 \in Ids /\ \A q \in Posts : call[q] = NoCall
  BY <1>1, <1>2, RequestIsNew DEF ReplyInv
<1>4. Exists(1) /\ Chat(1) /\ ~db[1].row.fb /\ key = Key(db[1].token, TRUE)
  BY <1>1 DEF ReplyInv, InOrder, SubstituteInOrder
<1> DEFINE row == [status |-> status, code |-> code, fb |-> TRUE]
           new == Settled(1, row)
<1>5. row \in Row /\ row.status = status /\ row.code = code /\ row.fb
  BY <1>1 DEF Row, Statuses, OpenStatuses, Codes, ResultCodes
<1> HIDE DEF row
<1>6. /\ db' = [db EXCEPT ![1] = new]
      /\ call' = [call EXCEPT ![Substitute] = NoCall]
      /\ limbo' = IF call[Substitute].stage = "out" THEN limbo \cup {key} ELSE limbo
      /\ channel' = channel /\ fresh' = fresh /\ pc' = pc /\ answer' = answer
      /\ att' = att /\ received' = received /\ cut' = cut /\ restarts' = restarts
  BY <1>1, <1>3 DEF CloseSubstitute, restartVars, row
<1>7. call' = [c \in Callers |-> NoCall]
  BY <1>3, <1>6 DEF ReplyInv, ReplyTypeOK, Callers
<1>8. new \in ReplyCampaign /\ new.camp.state # "NONE" /\ new.token = db[1].token
      /\ new.row = row
  BY <1>3, <1>4, <1>5, SettledType DEF ReplyInv
<1> HIDE DEF new
<1>9. db'[1] = new
  BY <1>3, <1>6 DEF ReplyInv, ReplyTypeOK
<1>10. KeyOf(1)' = key /\ db'[1].row = row
  <2>1. db'[1].token = db[1].token /\ db'[1].row = row
    BY <1>8, <1>9
  <2>2. row.fb = TRUE
    BY DEF row
  <2>3. KeyOf(1)' = [id |-> 1, token |-> db[1].token, fb |-> TRUE]
    BY <2>1, <2>2 DEF KeyOf
  <2> QED
    BY <1>4, <2>1, <2>3 DEF Key
<1>11. RowTells(1)'
  <2>1. code = "rejected" => cut > 0 \/ (Unseen(key) /\ limbo' = limbo)
    <3> SUFFICES ASSUME code = "rejected", cut = 0 PROVE Unseen(key) /\ limbo' = limbo
      BY DEF ReplyInv, ReplyTypeOK
    <3>1. call[Substitute].stage = "refused"
      BY <1>1
    <3>2. NoSubstituteYet(1)
      BY <1>3 DEF ReplyInv, Untouched
    <3> QED
      BY <1>4, <1>6, <3>1, <3>2 DEF NoSubstituteYet
  <2>2. row.status # "DONE" /\ row.code # "noresult" /\ row.code = code
    BY <1>1, <1>5
  <2> HIDE DEF key
  <2> QED
    BY <1>6, <1>10, <2>1, <2>2 DEF RowTells, Unseen
<1>12. \/ limbo' = limbo
       \/ call[Substitute].stage = "out" /\ limbo' = limbo \cup {call[Substitute].key}
  BY <1>6
<1>13. new.row.fb
  BY <1>5, <1>8
<1> HIDE DEF key
<1> QED
  BY <1>1, <1>3, <1>4, <1>6, <1>7, <1>8, <1>11, <1>12, <1>13, RowChanges

\* The provider refuses a request: nothing was taken, and there is leave to
\* send before and after.
LEMMA RequestIsRefused ==
  ASSUME ReplyInv, NEW c \in Callers,
         NEW how \in {"replaceable", "refused", "unexplained"}, ReplyIsRefused(c, how)
  PROVE  ReplyInv'
<1> USE DEF ReplyInv
<1>1. /\ call[c] # NoCall /\ call[c].stage = "out"
      /\ call' = [call EXCEPT ![c].stage = how]
      /\ channel' = channel /\ fresh' = fresh /\ pc' = pc /\ answer' = answer
      /\ db' = db /\ att' = att /\ limbo' = limbo /\ received' = received
      /\ cut' = cut /\ restarts' = restarts
  BY DEF ReplyIsRefused, providerVars, restartVars
<1>2. call[c] \in ReplyCall
  BY <1>1 DEF ReplyTypeOK
<1>3. /\ call'[c] \in ReplyCall /\ call'[c] # NoCall
      /\ call'[c].stage = how /\ call'[c].key = call[c].key
      /\ \A d \in Callers : d # c => call'[d] = call[d]
  <2> DEFINE request == [call[c] EXCEPT !.stage = how]
  <2>1. request \in ReplyCall /\ request.stage = how /\ request.key = call[c].key
    BY <1>2 DEF ReplyCall
  <2>2. call' = [call EXCEPT ![c] = request]
    BY <1>1
  <2> HIDE DEF request
  <2>3. call'[c] = request /\ \A d \in Callers : d # c => call'[d] = call[d]
    BY <2>2 DEF ReplyTypeOK
  <2> QED
    BY <2>1, <2>3 DEF NoCall
<1>4. ReplyTypeOK'
  <2>1. \A d \in Callers : call'[d] \in ReplyCall \cup {NoCall}
    BY <1>3 DEF ReplyTypeOK
  <2>2. call' \in [Callers -> ReplyCall \cup {NoCall}]
    BY <1>1, <2>1 DEF ReplyTypeOK
  <2> QED
    BY <1>1, <2>2 DEF ReplyTypeOK
<1>5. /\ \A d \in Callers : call'[d] # NoCall <=> call[d] # NoCall
      /\ \A d \in Callers : call[d] # NoCall => call'[d].key = call[d].key
      /\ \A d \in Callers : call'[d].stage # "taken" <=> call[d].stage # "taken"
      /\ Substitute \in Callers /\ \A q \in Posts : q \in Callers
  BY <1>1, <1>3 DEF Callers
<1>6. /\ AlreadySent' = AlreadySent /\ OpenKeys' = OpenKeys /\ Calling' = Calling
      /\ \A k : Unseen(k)' <=> Unseen(k)
      /\ \A i : (KeyOf(i)' = KeyOf(i)) /\ (Chat(i)' <=> Chat(i)) /\ (Exists(i)' <=> Exists(i))
  BY <1>1, <1>5 DEF AlreadySent, OpenKeys, Unseen, KeyOf, Chat, Exists, Calling
<1>7. InOrder'
  <2>1. OneCampaign' /\ OneCaller'
    BY <1>1, <1>6 DEF InOrder, OneCampaign, OneCaller
  <2>2. SubstituteInOrder'
    BY <1>1, <1>5, <1>6 DEF InOrder, SubstituteInOrder, Key
  <2>3. \A q \in Posts : PostInOrder(q)'
    BY <1>1, <1>5, <1>6 DEF InOrder, PostInOrder, Key
  <2> QED
    BY <2>1, <2>2, <2>3 DEF InOrder
<1>8. FreshTokens'
  BY <1>1, <1>5, <1>6 DEF FreshTokens, Key
<1>9. Bounded'
  <2>1. Spare
    BY <1>1 DEF Spare
  <2> QED
    BY <1>1, <1>6, <2>1, BoundedKept
<1>10. RowsTell'
  BY <1>1, <1>6 DEF RowsTell, RowTells
<1>11. Untouched'
  <2>1. cut = 0 => NothingWasSent' /\ \A q \in Posts : FailureIsFinal(q)'
    BY <1>1, <1>6 DEF Untouched, NothingWasSent, FailureIsFinal
  <2>2. cut = 0 => \A i \in Ids : NoSubstituteYet(i)'
    BY <1>1, <1>5, <1>6 DEF Untouched, NoSubstituteYet, Key
  <2>3. cut = 0 => \A q \in Posts : OnlyTheRequest(q)'
    BY <1>1, <1>5 DEF Untouched, OnlyTheRequest
  <2> QED
    BY <1>1, <2>1, <2>2, <2>3 DEF Untouched
<1> QED
  BY <1>4, <1>7, <1>8, <1>9, <1>10, <1>11

\* The leave to send is used up by the request that is taken.
LEMMA TakenUsesUpTheLeave ==
  ASSUME ReplyInv, ReplyTypeOK', InOrder',
         NEW c \in Callers, call[c] # NoCall, call[c].stage = "out",
         call'[c].stage = "taken", call'[c].key = call[c].key,
         \A d \in Callers : d # c => call'[d] = NoCall,
         pc' = pc, db' = db, att'[call[c].key] # "undelivered" \/ att' = att
  PROVE  ~Spare'
<1> USE DEF ReplyInv
<1>1. SUFFICES ASSUME Spare' PROVE FALSE
  OBVIOUS
<1>2. \A d \in Callers : d # c => call'[d].stage = "none"
  BY DEF NoCall
<1>3. AlreadySent' = AlreadySent
  BY DEF AlreadySent, Exists
<1>4. CASE \E q \in Posts : /\ pc'[q] = "chat" /\ call'[q].stage = "taken"
                            /\ att'[call'[q].key] = "undelivered"
  <2>1. c \in Posts /\ pc[c] = "chat" /\ att'[call[c].key] = "undelivered"
    BY <1>2, <1>4 DEF Callers
  <2>2. Unseen(call[c].key)
    BY <2>1 DEF InOrder, PostInOrder, FreshTokens
  <2> QED
    BY <2>1, <2>2 DEF Unseen
<1>5. CASE \E i \in AlreadySent' : /\ Chat(i)' /\ ~db'[i].row.fb
                                   /\ att'[KeyOf(i)'] = "undelivered"
                                   /\ call'[Substitute].stage # "taken"
  <2>1. PICK i \in AlreadySent' : Chat(i)' /\ call'[Substitute].stage # "taken"
    BY <1>5
  <2>2. i \in Ids /\ Exists(i) /\ Chat(i)
    BY <2>1 DEF AlreadySent, Exists, Chat
  <2>3. c \in Posts
    BY <2>1 DEF Callers
  <2>4. pc[c] \in {"chat", "oneway", "direct"}
    BY <2>3 DEF InOrder, PostInOrder, ReplyTypeOK
  <2>5. i = 1 /\ AlreadySent # {}
    BY <2>2 DEF InOrder, OneCampaign, AlreadySent
  <2>6. db[1].token = OneWay
    BY <2>3, <2>4, <2>5 DEF InOrder, PostInOrder
  <2> QED
    BY <2>2, <2>5, <2>6 DEF Chat
<1> QED
  BY <1>1, <1>2, <1>4, <1>5 DEF Spare

\* The provider takes a request: the key is accepted, or delivered once more.
LEMMA RequestIsTaken ==
  ASSUME ReplyInv, NEW c \in Callers, ProviderTakes(c)
  PROVE  ReplyInv'
<1> USE DEF ReplyInv
<1> DEFINE key == call[c].key
<1>1. /\ call[c] # NoCall /\ call[c].stage = "out" /\ key \notin limbo
      /\ call' = [call EXCEPT ![c].stage = "taken"]
      /\ channel' = channel /\ fresh' = fresh /\ pc' = pc /\ answer' = answer
      /\ db' = db /\ limbo' = limbo /\ cut' = cut /\ restarts' = restarts
      /\ \/ /\ att[key] = "none" /\ att' = [att EXCEPT ![key] = "accepted"]
            /\ received' = received
         \/ att[key] # "none" /\ att' = att /\ received' = received + 1
  BY DEF ProviderTakes, restartVars
<1>2. /\ call[c] \in ReplyCall /\ key \in Keys
      /\ \A q \in Posts : pc[q] = "new" => key # Key(q, FALSE)
      /\ \A i \in Ids : db[i].row # NoRow => KeyOf(i) # key
      /\ \A d \in Callers : call[d] # NoCall <=> d = c
  BY <1>1, RequestIsNew
<1>3. /\ call'[c] \in ReplyCall /\ call'[c] # NoCall
      /\ call'[c].stage = "taken" /\ call'[c].key = call[c].key
      /\ \A d \in Callers : d # c => call'[d] = NoCall
  <2> DEFINE request == [call[c] EXCEPT !.stage = "taken"]
  <2>1. request \in ReplyCall /\ request.stage = "taken" /\ request.key = call[c].key
    BY <1>2 DEF ReplyCall
  <2>2. call' = [call EXCEPT ![c] = request]
    BY <1>1
  <2> HIDE DEF request
  <2>3. call'[c] = request /\ \A d \in Callers : d # c => call'[d] = call[d]
    BY <2>2 DEF ReplyTypeOK
  <2> QED
    BY <1>2, <2>1, <2>3 DEF NoCall
<1>4. ReplyTypeOK'
  <2>1. \A d \in Callers : call'[d] \in ReplyCall \cup {NoCall}
    BY <1>3
  <2>2. call' \in [Callers -> ReplyCall \cup {NoCall}]
    BY <1>1, <2>1 DEF ReplyTypeOK
  <2>3. att' \in [Keys -> {"none", "accepted"} \cup ResultCodes] /\ received' \in Nat
    BY <1>1 DEF ReplyTypeOK
  <2> QED
    BY <1>1, <2>2, <2>3 DEF ReplyTypeOK
<1>5. /\ \A k \in Keys : k # key => att'[k] = att[k]
      /\ \A k \in Keys : k # key => (Unseen(k)' <=> Unseen(k))
      /\ att'[key] # "none"
      /\ att'[key] # "undelivered" \/ att' = att
      /\ \A k \in Keys : att'[k] = "none" => att[k] = "none"
  <2>1. \A k \in Keys : k # key => att'[k] = att[k]
    BY <1>1 DEF ReplyTypeOK
  <2>2. att'[key] # "none" /\ (att'[key] # "undelivered" \/ att' = att)
    BY <1>1, <1>2 DEF ReplyTypeOK
  <2> HIDE DEF key
  <2> QED
    BY <1>1, <2>1, <2>2 DEF Unseen
<1>6. /\ \A d \in Callers : call'[d] # NoCall <=> call[d] # NoCall
      /\ Substitute \in Callers /\ \A q \in Posts : q \in Callers
      /\ AlreadySent' = AlreadySent /\ Calling' = Calling
      /\ \A i : (KeyOf(i)' = KeyOf(i)) /\ (Chat(i)' <=> Chat(i)) /\ (Exists(i)' <=> Exists(i))
  <2>1. \A d \in Callers : call'[d] # NoCall <=> call[d] # NoCall
    BY <1>2, <1>3
  <2> QED
    BY <1>1, <2>1 DEF AlreadySent, KeyOf, Chat, Exists, Calling, Callers
<1>7. \A i \in Ids : KeyOf(i) \in Keys
  BY DEF ReplyTypeOK, ReplyCampaign, Row, KeyOf, Keys
<1> HIDE DEF key
<1>8. InOrder'
  <2>1. OneCampaign' /\ OneCaller'
    BY <1>1, <1>6 DEF InOrder, OneCampaign, OneCaller
  <2>2. SubstituteInOrder'
    <3> SUFFICES ASSUME call'[Substitute] # NoCall PROVE SubstituteInOrder'
      BY DEF SubstituteInOrder
    <3>1. c = Substitute
      BY <1>3, <1>6
    <3>2. /\ Exists(1) /\ Chat(1) /\ db[1].row # NoRow /\ ~db[1].row.fb
          /\ call[Substitute].key = Key(db[1].token, TRUE)
          /\ att[KeyOf(1)] = "undelivered"
      BY <1>1, <3>1 DEF InOrder, SubstituteInOrder
    <3>3. 1 \in Ids
      BY <1>1, RequestIsNew
    <3>4. att'[KeyOf(1)] = "undelivered"
      BY <1>2, <1>5, <1>7, <3>2, <3>3
    <3>5. call'[Substitute].key = Key(db[1].token, TRUE)'
      BY <1>1, <1>3, <3>1, <3>2 DEF Key
    <3> QED
      BY <1>1, <1>6, <3>2, <3>4, <3>5 DEF SubstituteInOrder
  <2>3. ASSUME NEW q \in Posts PROVE PostInOrder(q)'
    <3>1. call'[q].key = call[q].key \/ call[q] = NoCall
      BY <1>2, <1>3, <1>6
    <3> QED
      BY <1>1, <1>6, <3>1 DEF InOrder, PostInOrder, Key
  <2> QED
    BY <2>1, <2>2, <2>3 DEF InOrder
<1>9. FreshTokens'
  <2>1. ASSUME NEW q \in Posts, pc[q] = "new" PROVE Unseen(Key(q, FALSE))'
    <3>1. Key(q, FALSE)' = Key(q, FALSE) /\ Unseen(Key(q, FALSE)) /\ Key(q, FALSE) # key
      BY <1>2, <2>1 DEF Key, FreshTokens, key
    <3>2. Key(q, FALSE) \in Keys
      BY FirstId DEF Key, Keys
    <3> QED
      BY <1>5, <3>1, <3>2
  <2>2. ASSUME NEW q \in Posts, pc[q] = "chat" PROVE call'[q].stage = "taken"
    <3>1. call[q] # NoCall
      BY <2>2 DEF InOrder, PostInOrder
    <3> QED
      BY <1>2, <1>3, <1>6, <3>1
  <2> QED
    BY <1>1, <2>1, <2>2 DEF FreshTokens
<1>10. Bounded'
  <2>1. Spare
    BY <1>1 DEF Spare
  <2>2. ~Spare'
    BY <1>1, <1>3, <1>4, <1>5, <1>8, TakenUsesUpTheLeave DEF key
  <2> DEFINE m == Cardinality(OpenKeys)
             n == Cardinality(OpenKeys')
  <2>3. received + m <= cut /\ m \in Nat /\ received \in Nat /\ cut \in Nat
    BY <2>1, OpenKeysCount DEF Bounded, ReplyTypeOK
  <2>4. CASE att[key] = "none" /\ received' = received
    <3>1. OpenKeys' \subseteq OpenKeys \cup {key}
      BY <1>1, <1>5 DEF OpenKeys
    <3>2. n \in Nat /\ n <= m + 1
      BY <3>1, OpenKeysCount
    <3> HIDE DEF m, n
    <3>3. received' + n <= cut' + 1
      BY <1>1, <2>3, <2>4, <3>2
    <3> QED
      BY <2>2, <3>3 DEF Bounded, n
  <2>5. CASE att' = att /\ received' = received + 1
    <3>1. OpenKeys' = OpenKeys
      BY <1>1, <2>5 DEF OpenKeys
    <3>2. n = m
      BY <3>1
    <3> HIDE DEF m, n
    <3>3. received' + n <= cut' + 1
      BY <1>1, <2>3, <2>5, <3>2
    <3> QED
      BY <2>2, <3>3 DEF Bounded, n
  <2> QED
    BY <1>1, <2>4, <2>5 DEF key
<1>11. RowsTell'
  <2> SUFFICES ASSUME NEW i \in Ids PROVE RowTells(i)'
    BY DEF RowsTell
  <2>1. CASE db[i].row = NoRow
    BY <1>1, <2>1 DEF RowTells, NoRow
  <2>2. CASE db[i].row # NoRow
    <3>1. KeyOf(i) # key /\ KeyOf(i) \in Keys
      BY <1>2, <1>7, <2>2 DEF key
    <3>2. att'[KeyOf(i)] = att[KeyOf(i)] /\ (Unseen(KeyOf(i)) <=> att'[KeyOf(i)] = "none" /\ KeyOf(i) \notin limbo)
      BY <1>5, <3>1 DEF Unseen
    <3> QED
      BY <1>1, <1>6, <3>2 DEF RowsTell, RowTells, Unseen
  <2> QED
    BY <2>1, <2>2
<1>12. Untouched'
  <2> SUFFICES ASSUME cut = 0
               PROVE  /\ NothingWasSent'
                      /\ \A q \in Posts : OnlyTheRequest(q)'
                      /\ \A i \in Ids : NoSubstituteYet(i)'
                      /\ \A q \in Posts : FailureIsFinal(q)'
    BY <1>1 DEF Untouched
  <2>1. Calling # {}
    BY <1>1 DEF Calling
  <2>2. NothingWasSent' /\ \A q \in Posts : FailureIsFinal(q)'
    BY <1>1, <1>6, <2>1 DEF Untouched, NothingWasSent, FailureIsFinal
  <2>3. ASSUME NEW q \in Posts PROVE OnlyTheRequest(q)'
    <3> SUFFICES ASSUME call'[q] # NoCall, NEW k \in Keys
                 PROVE  /\ k # call'[q].key \/ call'[q].stage # "taken" => att'[k] = "none"
                        /\ k \notin limbo
      BY <1>1 DEF OnlyTheRequest
    <3>1. q = c
      BY <1>3, <1>6
    <3>2. att[k] = "none" /\ k \notin limbo
      BY <1>1, <3>1 DEF Untouched, OnlyTheRequest
    <3>3. k # key => att'[k] = "none"
      BY <1>5, <3>2
    <3> QED
      BY <1>3, <3>1, <3>2, <3>3 DEF key
  <2>4. ASSUME NEW i \in Ids PROVE NoSubstituteYet(i)'
    <3> SUFFICES ASSUME Exists(i), Chat(i), call'[Substitute].stage # "taken" PROVE FALSE
      BY <1>6 DEF NoSubstituteYet
    <3>1. c \in Posts
      BY <1>3 DEF Callers
    <3>2. pc[c] \in {"chat", "oneway", "direct"}
      BY <1>1, <3>1 DEF InOrder, PostInOrder, ReplyTypeOK
    <3>3. i = 1 /\ AlreadySent # {}
      BY DEF InOrder, OneCampaign, AlreadySent
    <3>4. db[1].token = OneWay
      BY <3>1, <3>2, <3>3 DEF InOrder, PostInOrder
    <3> QED
      BY <3>3, <3>4 DEF Chat
  <2> QED
    BY <2>2, <2>3, <2>4
<1> QED
  BY <1>4, <1>8, <1>9, <1>10, <1>11, <1>12

\* What a step of the provider leaves of the invariant when the program does
\* nothing: key k, which was not unseen, changes its state.
LEMMA ProviderMoves ==
  ASSUME ReplyInv, NEW k \in Keys, ~Unseen(k),
         NEW state \in {"none", "accepted"} \cup ResultCodes,
         att' = [att EXCEPT ![k] = state],
         att[k] = "none" => /\ k \in limbo
                            /\ state \in {"none", "accepted"},
         att[k] = "accepted" => state # "none",
         att[k] \in ResultCodes => state = att[k],
         limbo' = limbo \/ limbo' = limbo \ {k},
         received' \in Nat,
         channel' = channel, fresh' = fresh, pc' = pc, answer' = answer,
         call' = call, db' = db, cut' = cut, restarts' = restarts
  PROVE  ReplyTypeOK' /\ InOrder' /\ FreshTokens' /\ RowsTell' /\ Untouched'
<1> USE DEF ReplyInv
<1>1. /\ \A j \in Keys : j # k => att'[j] = att[j]
      /\ \A j \in Keys : Unseen(j) => Unseen(j)'
      /\ \A j \in Keys : att[j] \in ResultCodes => att'[j] = att[j]
      /\ att'[k] = state
  BY DEF ReplyTypeOK, Unseen, ResultCodes
<1>2. /\ AlreadySent' = AlreadySent /\ Calling' = Calling
      /\ \A i : (KeyOf(i)' = KeyOf(i)) /\ (Chat(i)' <=> Chat(i)) /\ (Exists(i)' <=> Exists(i))
  BY DEF AlreadySent, KeyOf, Chat, Exists, Calling
<1>3. \A i \in Ids : KeyOf(i) \in Keys
  BY DEF ReplyTypeOK, ReplyCampaign, Row, KeyOf, Keys
<1>4. ReplyTypeOK'
  BY DEF ReplyTypeOK
<1>5. InOrder'
  <2>1. OneCampaign' /\ OneCaller'
    BY <1>2 DEF InOrder, OneCampaign, OneCaller
  <2>2. \A q \in Posts : PostInOrder(q)'
    BY <1>2 DEF InOrder, PostInOrder, Key
  <2>3. SubstituteInOrder'
    <3> SUFFICES ASSUME call[Substitute] # NoCall PROVE SubstituteInOrder'
      BY DEF SubstituteInOrder
    <3>1. /\ Exists(1) /\ Chat(1) /\ db[1].row # NoRow /\ ~db[1].row.fb
          /\ call[Substitute].key = Key(db[1].token, TRUE)
          /\ att[KeyOf(1)] = "undelivered"
      BY DEF InOrder, SubstituteInOrder
    <3>2. 1 \in Ids
      BY RequestIsNew DEF Callers
    <3>3. att'[KeyOf(1)] = "undelivered"
      BY <1>1, <1>3, <3>1, <3>2 DEF ResultCodes
    <3> QED
      BY <1>2, <3>1, <3>3 DEF SubstituteInOrder, Key
  <2> QED
    BY <2>1, <2>2, <2>3 DEF InOrder
<1>6. FreshTokens'
  <2>1. \A q \in Posts : Key(q, FALSE) \in Keys /\ Key(q, FALSE)' = Key(q, FALSE)
    BY FirstId DEF Key, Keys
  <2> QED
    BY <1>1, <2>1 DEF FreshTokens
<1>7. RowsTell'
  <2> SUFFICES ASSUME NEW i \in Ids PROVE RowTells(i)'
    BY DEF RowsTell
  <2>1. RowTells(i) /\ KeyOf(i) \in Keys /\ db[i].row.code \in Codes
    BY <1>3 DEF RowsTell, ReplyTypeOK, ReplyCampaign, Row
  <2>2. db[i].row.status = "DONE" => att'[KeyOf(i)] = db[i].row.code
    <3> SUFFICES ASSUME db[i].row.status = "DONE" PROVE att'[KeyOf(i)] = db[i].row.code
      OBVIOUS
    <3>1. att[KeyOf(i)] = db[i].row.code
      BY <2>1 DEF RowTells
    <3>2. att[KeyOf(i)] \in ResultCodes
      BY <2>1, <3>1 DEF Codes, ResultCodes, ReplyTypeOK
    <3> QED
      BY <1>1, <2>1, <3>1, <3>2
  <2>3. Unseen(KeyOf(i)) => att'[KeyOf(i)] = "none" /\ KeyOf(i) \notin limbo'
    BY <1>1, <2>1 DEF Unseen
  <2> QED
    BY <1>2, <2>1, <2>2, <2>3 DEF RowTells, Unseen
<1>8. Untouched'
  <2> SUFFICES ASSUME cut = 0
               PROVE  /\ NothingWasSent'
                      /\ \A q \in Posts : OnlyTheRequest(q)'
                      /\ \A i \in Ids : NoSubstituteYet(i)'
                      /\ \A q \in Posts : FailureIsFinal(q)'
    BY DEF Untouched
  <2>1. NothingWasSent' /\ \A q \in Posts : FailureIsFinal(q)'
    BY <1>2 DEF Untouched, NothingWasSent, FailureIsFinal
  <2>2. ASSUME NEW q \in Posts PROVE OnlyTheRequest(q)'
    <3> SUFFICES ASSUME call[q] # NoCall, NEW j \in Keys
                 PROVE  /\ j # call[q].key \/ call[q].stage # "taken" => att'[j] = "none"
                        /\ j \notin limbo'
      BY DEF OnlyTheRequest
    <3>1. /\ j # call[q].key \/ call[q].stage # "taken" => att[j] = "none"
          /\ \A h \in Keys : h \notin limbo
      BY DEF Untouched, OnlyTheRequest
    <3>2. att[k] # "none"
      BY <3>1
    <3> QED
      BY <1>1, <3>1, <3>2
  <2>3. ASSUME NEW i \in Ids PROVE NoSubstituteYet(i)'
    <3>1. Exists(i) => /\ Key(db[i].token, TRUE) \in Keys
                       /\ Key(db[i].token, TRUE)' = Key(db[i].token, TRUE)
      BY DEF ReplyTypeOK, ReplyCampaign, InOrder, OneCampaign, Key, Keys
    <3> QED
      BY <1>1, <1>2, <3>1 DEF Untouched, NoSubstituteYet
  <2> QED
    BY <2>1, <2>2, <2>3
<1> QED
  BY <1>4, <1>5, <1>6, <1>7, <1>8

\* A request that was given up arrives after all, or never does.
LEMMA GivenUpRequestSettles ==
  ASSUME ReplyInv, NEW k \in Keys, LimboSettles(k)
  PROVE  ReplyInv'
<1>1. /\ k \in limbo /\ limbo' = limbo \ {k}
      /\ att' = att \/ (att[k] = "none" /\ att' = [att EXCEPT ![k] = "accepted"])
      /\ channel' = channel /\ fresh' = fresh /\ pc' = pc /\ answer' = answer
      /\ call' = call /\ db' = db /\ received' = received
      /\ cut' = cut /\ restarts' = restarts
  BY DEF LimboSettles, restartVars
<1>2. /\ att \in [Keys -> {"none", "accepted"} \cup ResultCodes] /\ received \in Nat
      /\ limbo \in SUBSET Keys
  BY DEF ReplyInv, ReplyTypeOK
<1>3. /\ \A j \in Keys : j # k => att'[j] = att[j]
      /\ att'[k] = att[k] \/ (att[k] = "none" /\ att'[k] = "accepted")
  BY <1>1, <1>2
<1>4. Bounded'
  <2>1. OpenKeys' \subseteq OpenKeys
    BY <1>1, <1>3 DEF OpenKeys
  <2>2. \A j : (att'[j] = "undelivered" /\ j \in Keys) => att[j] = "undelivered"
    BY <1>3
  <2>3. /\ AlreadySent' = AlreadySent
        /\ \A i : (KeyOf(i)' = KeyOf(i)) /\ (Chat(i)' <=> Chat(i))
    BY <1>1 DEF AlreadySent, KeyOf, Chat, Exists
  <2>4. \A i \in Ids : KeyOf(i) \in Keys
    BY DEF ReplyInv, ReplyTypeOK, ReplyCampaign, Row, KeyOf, Keys
  <2>5. \A r \in Posts : pc[r] = "chat" => call[r].key \in Keys
    BY RequestIsNew DEF ReplyInv, InOrder, PostInOrder, Callers
  <2>6. AlreadySent \subseteq Ids
    BY DEF AlreadySent
  <2>7. Spare' => Spare
    BY <1>1, <2>2, <2>3, <2>4, <2>5, <2>6 DEF Spare
  <2> QED
    BY <1>1, <2>1, <2>7, BoundedKept DEF ReplyInv
<1>5. att' = [att EXCEPT ![k] = att'[k]]
  BY <1>1, <1>2
<1>6. ~Unseen(k)
  BY <1>1 DEF Unseen
<1>7. /\ ReplyTypeOK' /\ InOrder' /\ FreshTokens' /\ RowsTell' /\ Untouched'
  <2> DEFINE state == att'[k]
  <2>1. state \in {"none", "accepted"} \cup ResultCodes
        /\ (att[k] = "none" => state \in {"none", "accepted"})
        /\ (att[k] = "accepted" => state # "none")
        /\ (att[k] \in ResultCodes => state = att[k])
    BY <1>2, <1>3 DEF ResultCodes
  <2>2. att' = [att EXCEPT ![k] = state]
    BY <1>5
  <2>3. received' \in Nat
    BY <1>1, <1>2
  <2> HIDE DEF state
  <2> QED
    BY <1>1, <1>6, <2>1, <2>2, <2>3, ProviderMoves
<1> QED
  BY <1>4, <1>7 DEF ReplyInv

\* A message arrives, fails, or may have arrived: a certain failure gives
\* leave to send again, and rules the delivery out.
LEMMA MessageResolves ==
  ASSUME ReplyInv, NEW k \in Keys, ReplyResolves(k)
  PROVE  ReplyInv'
<1>1. PICK result \in ResultCodes :
        /\ att' = [att EXCEPT ![k] = result]
        /\ received' \in (IF result = "ok" THEN {received + 1}
                          ELSE IF result = "undelivered" THEN {received}
                          ELSE {received, received + 1})
  BY DEF ReplyResolves
<1>2. /\ att[k] = "accepted" /\ limbo' = limbo
      /\ channel' = channel /\ fresh' = fresh /\ pc' = pc /\ answer' = answer
      /\ call' = call /\ db' = db /\ cut' = cut /\ restarts' = restarts
  BY DEF ReplyResolves, restartVars
<1>3. /\ att \in [Keys -> {"none", "accepted"} \cup ResultCodes] /\ received \in Nat
      /\ cut \in Nat
  BY DEF ReplyInv, ReplyTypeOK
<1>4. received' \in {received, received + 1} /\ received' \in Nat
      /\ (result = "undelivered" => received' = received)
  BY <1>1, <1>3
<1>5. /\ \A j \in Keys : j # k => att'[j] = att[j]
      /\ att'[k] = result
  BY <1>1, <1>3
<1>6. Bounded'
  <2> DEFINE m == Cardinality(OpenKeys)
             n == Cardinality(OpenKeys')
             d == received + m
             e == received' + n
             s == Spare
             t == Spare'
  <2>1. k \in OpenKeys /\ OpenKeys' \subseteq OpenKeys \ {k}
    BY <1>2, <1>5 DEF OpenKeys, ResultCodes
  <2>2. m \in Nat /\ n \in Nat /\ n + 1 <= m
    BY <2>1, OpenKeysCount
  <2>3. result # "undelivered" => (t => s)
    <3> SUFFICES ASSUME result # "undelivered", Spare' PROVE Spare
      OBVIOUS
    <3>1. \A j : (att'[j] = "undelivered" /\ j \in Keys) => att[j] = "undelivered"
      BY <1>5
    <3>2. /\ AlreadySent' = AlreadySent
          /\ \A i : (KeyOf(i)' = KeyOf(i)) /\ (Chat(i)' <=> Chat(i))
      BY <1>2 DEF AlreadySent, KeyOf, Chat, Exists
    <3>3. \A i \in Ids : KeyOf(i) \in Keys
      BY DEF ReplyInv, ReplyTypeOK, ReplyCampaign, Row, KeyOf, Keys
    <3>4. \A r \in Posts : pc[r] = "chat" => call[r].key \in Keys
      BY RequestIsNew DEF ReplyInv, InOrder, PostInOrder, Callers
    <3>5. AlreadySent \subseteq Ids
      BY DEF AlreadySent
    <3> QED
      BY <1>2, <3>1, <3>2, <3>3, <3>4, <3>5 DEF Spare
  <2>4. d <= cut + (IF s THEN 0 ELSE 1)
    BY DEF ReplyInv, Bounded
  <2>5. s \in BOOLEAN /\ t \in BOOLEAN
    BY DEF Spare
  <2> HIDE DEF m, n, s, t
  <2>6. d \in Nat /\ e \in Nat /\ e <= d /\ (result = "undelivered" => e + 1 <= d)
    <3> DEFINE r == received'
    <3>1. r <= received + 1 /\ r \in Nat
      BY <1>3, <1>4
    <3> HIDE DEF r
    <3>2. r + n \in Nat /\ r + n <= received + m /\ received + m \in Nat
      BY <1>3, <2>2, <3>1
    <3>3. ASSUME r = received PROVE r + n + 1 <= received + m
      BY <1>3, <2>2, <3>3
    <3>4. e = r + n /\ d = received + m
      BY DEF r
    <3>5. ASSUME result = "undelivered" PROVE r = received
      BY <1>4, <3>5 DEF r
    <3> HIDE DEF d, e
    <3> QED
      BY <3>2, <3>3, <3>4, <3>5
  <2> HIDE DEF d, e
  <2>7. e <= cut + (IF t THEN 0 ELSE 1)
    BY <1>3, <2>3, <2>4, <2>5, <2>6, BoundKept
  <2> QED
    BY <1>2, <2>7 DEF Bounded, d, e, m, n, s, t
<1>7. ~Unseen(k)
  BY <1>2 DEF Unseen
<1>8. ReplyTypeOK' /\ InOrder' /\ FreshTokens' /\ RowsTell' /\ Untouched'
  <2>1. att[k] # "none" /\ att[k] \notin ResultCodes /\ result # "none"
    BY <1>2 DEF ResultCodes
  <2> QED
    BY <1>1, <1>2, <1>4, <1>7, <2>1, ProviderMoves
<1> QED
  BY <1>6, <1>8 DEF ReplyInv

\* The process dies: the only request that was awaited is cut off.
LEMMA ProcessRestarts ==
  ASSUME ReplyInv, ReplyRestart
  PROVE  ReplyInv'
<1> USE DEF ReplyInv
<1>1. PICK c \in Callers : call[c] # NoCall
  BY DEF ReplyRestart, Calling
<1> DEFINE key == call[c].key
<1>2. /\ key \in Keys /\ \A d \in Callers : call[d] # NoCall <=> d = c
      /\ \A q \in Posts : pc[q] = "new" => key # Key(q, FALSE)
      /\ \A i \in Ids : db[i].row # NoRow => KeyOf(i) # key
  BY <1>1, RequestIsNew
<1>3. Calling = {c}
  BY <1>2 DEF Calling
<1>4. cut' = cut + 1
  BY <1>3, FS_Singleton DEF ReplyRestart
<1>5. limbo' = (IF call[c].stage = "out" THEN limbo \cup {key} ELSE limbo)
  <2>1. {call[d].key : d \in {e \in Calling : call[e].stage = "out"}} =
          IF call[c].stage = "out" THEN {key} ELSE {}
    BY <1>3
  <2>2. limbo' = limbo \cup {call[d].key : d \in {e \in Calling : call[e].stage = "out"}}
    BY DEF ReplyRestart
  <2> QED
    BY <2>1, <2>2
<1>6. /\ channel' = channel /\ fresh' = fresh /\ db' = db /\ att' = att
      /\ received' = received /\ restarts' = restarts + 1
      /\ call' = [d \in Callers |-> NoCall]
      /\ pc' = [r \in Posts |->
                  IF pc[r] \in {"chat", "oneway", "direct"} THEN "done" ELSE pc[r]]
      /\ answer' = [r \in Posts |->
                      IF pc[r] \in {"chat", "oneway", "direct"} THEN "lost" ELSE answer[r]]
  BY DEF ReplyRestart
<1> HIDE DEF key
<1>7. ReplyTypeOK'
  <2>1. pc' \in [Posts -> {"new", "chat", "oneway", "direct", "done"}]
    BY <1>6 DEF ReplyTypeOK
  <2>2. answer' \in [Posts -> ReplyAnswers]
    BY <1>6 DEF ReplyTypeOK, ReplyAnswers
  <2>3. call' \in [Callers -> ReplyCall \cup {NoCall}]
    BY <1>6
  <2>4. limbo' \in SUBSET Keys
    BY <1>2, <1>5 DEF ReplyTypeOK
  <2>5. cut' \in Nat /\ restarts' \in Nat
    BY <1>4, <1>6 DEF ReplyTypeOK
  <2> QED
    BY <1>6, <2>1, <2>2, <2>3, <2>4, <2>5 DEF ReplyTypeOK
<1>8. /\ \A d \in Callers : call'[d] = NoCall
      /\ \A q \in Posts : pc'[q] \in {"new", "done"}
      /\ \A q \in Posts : pc'[q] = "new" => pc[q] = "new"
  BY <1>6 DEF ReplyTypeOK
<1>9. /\ Calling' = {} /\ AlreadySent' = AlreadySent
      /\ \A i : (KeyOf(i)' = KeyOf(i)) /\ (Chat(i)' <=> Chat(i)) /\ (Exists(i)' <=> Exists(i))
  BY <1>6, <1>8 DEF AlreadySent, KeyOf, Chat, Exists, Calling
<1>10. InOrder'
  <2>1. OneCampaign' /\ OneCaller'
    BY <1>6, <1>9 DEF InOrder, OneCampaign, OneCaller
  <2>2. SubstituteInOrder'
    BY <1>8 DEF SubstituteInOrder, Callers
  <2>3. \A q \in Posts : PostInOrder(q)'
    BY <1>8 DEF PostInOrder, Callers
  <2> QED
    BY <2>1, <2>2, <2>3 DEF InOrder
<1>11. FreshTokens'
  <2>1. ASSUME NEW q \in Posts, pc'[q] = "new" PROVE Unseen(Key(q, FALSE))'
    <3>1. Key(q, FALSE)' = Key(q, FALSE) /\ Unseen(Key(q, FALSE)) /\ Key(q, FALSE) # key
      BY <1>2, <1>8, <2>1 DEF Key, FreshTokens
    <3> QED
      BY <1>5, <1>6, <3>1 DEF Unseen
  <2> QED
    BY <1>8, <2>1 DEF FreshTokens
<1>12. Bounded'
  <2> DEFINE m == Cardinality(OpenKeys)
             n == Cardinality(OpenKeys')
  <2>1. received \in Nat /\ cut \in Nat /\ m \in Nat
        /\ received + m <= cut + (IF Spare THEN 0 ELSE 1)
    BY OpenKeysCount DEF ReplyTypeOK, Bounded
  <2>2. CASE call[c].stage = "out"
    <3>1. OpenKeys' \subseteq OpenKeys \cup {key}
      BY <1>5, <1>6 DEF OpenKeys
    <3>2. n \in Nat /\ n <= m + 1
      BY <3>1, OpenKeysCount
    <3>3. Spare
      BY <2>2 DEF Spare
    <3> HIDE DEF m, n
    <3>4. received + m <= cut
      BY <2>1, <3>3
    <3>5. received' + n <= cut'
      BY <1>4, <1>6, <2>1, <3>2, <3>4
    <3>6. cut' <= cut' + (IF Spare' THEN 0 ELSE 1)
      BY <1>4, <2>1
    <3>7. received' + n <= cut' + (IF Spare' THEN 0 ELSE 1)
      BY <1>4, <1>6, <2>1, <3>2, <3>5, <3>6
    <3> QED
      BY <3>7 DEF Bounded, n
  <2>3. CASE call[c].stage # "out"
    <3>1. OpenKeys' = OpenKeys
      BY <1>5, <1>6, <2>3 DEF OpenKeys
    <3>2. n = m
      BY <3>1
    <3> HIDE DEF m, n
    <3>3. received' + n <= cut'
      BY <1>4, <1>6, <2>1, <3>2
    <3>4. received' + n <= cut' + (IF Spare' THEN 0 ELSE 1)
      BY <1>4, <1>6, <2>1, <3>2, <3>3
    <3> QED
      BY <3>4 DEF Bounded, n
  <2> QED
    BY <2>2, <2>3
<1>13. RowsTell'
  <2> SUFFICES ASSUME NEW i \in Ids PROVE RowTells(i)'
    BY DEF RowsTell
  <2>1. CASE db[i].row = NoRow
    BY <1>6, <2>1 DEF RowTells, NoRow
  <2>2. CASE db[i].row # NoRow
    <3>1. KeyOf(i) # key /\ RowTells(i)
      BY <1>2, <2>2 DEF RowsTell
    <3>2. cut' > 0
      BY <1>4 DEF ReplyTypeOK
    <3>3. Unseen(KeyOf(i)) => KeyOf(i) \notin limbo'
      BY <1>5, <3>1 DEF Unseen
    <3> QED
      BY <1>6, <1>9, <3>1, <3>2, <3>3 DEF RowTells, Unseen
  <2> QED
    BY <2>1, <2>2
<1>14. Untouched'
  <2>1. cut' # 0
    BY <1>4 DEF ReplyTypeOK
  <2> QED
    BY <2>1 DEF Untouched
<1> QED
  BY <1>7, <1>10, <1>11, <1>12, <1>13, <1>14

\* The invariant of an answer.
THEOREM ReplyInvariance == ReplySpec => []ReplyInv
<1>1. ReplyInit => ReplyInv
  <2> SUFFICES ASSUME ReplyInit PROVE ReplyInv
    OBVIOUS
  <2>1. /\ \A i \in Ids : db[i] = NoCampaign /\ ~Exists(i)
        /\ \A c \in Callers : call[c] = NoCall
        /\ AlreadySent = {} /\ Calling = {}
        /\ \A k \in Keys : Unseen(k)
    BY DEF ReplyInit, Exists, AlreadySent, Calling, Unseen, NoCampaign
  <2>2. ReplyTypeOK
    <3>1. NoRow \in Row
      BY DEF NoRow, Row, Statuses, Codes
    <3>2. NoCampaign \in ReplyCampaign
      BY <3>1 DEF NoCampaign, ReplyCampaign, Campaigns, CampaignStates
    <3> QED
      BY <3>2 DEF ReplyInit, ReplyTypeOK, ReplyAnswers
  <2>3. InOrder
    BY <2>1 DEF InOrder, OneCampaign, OneCaller, PostInOrder, SubstituteInOrder, ReplyInit, Callers
  <2>4. FreshTokens
    <3>1. \A r \in Posts : Key(r, FALSE) \in Keys
      BY FirstId DEF Key, Keys
    <3> QED
      BY <2>1, <3>1 DEF FreshTokens
  <2>5. Bounded
    <3>1. Spare
      BY <2>1 DEF Spare, NoCall
    <3>2. OpenKeys = {}
      BY <2>1 DEF OpenKeys, Unseen
    <3> QED
      BY <3>1, <3>2, FS_EmptySet DEF Bounded, ReplyInit
  <2>6. RowsTell
    BY <2>1 DEF RowsTell, RowTells, NoCampaign, NoRow
  <2>7. Untouched
    BY <2>1 DEF Untouched, NothingWasSent, OnlyTheRequest, NoSubstituteYet, FailureIsFinal,
       ReplyInit, Callers
  <2> QED
    BY <2>2, <2>3, <2>4, <2>5, <2>6, <2>7 DEF ReplyInv
<1>2. ReplyInv /\ [ReplyNext]_replyVars => ReplyInv'
  <2> SUFFICES ASSUME ReplyInv, [ReplyNext]_replyVars PROVE ReplyInv'
    OBVIOUS
  <2>1. ASSUME NEW r \in Posts, RepeatedRequest(r) \/ DatabaseIsLocked(r) PROVE ReplyInv'
    BY <2>1, PostIsAnswered
  <2>2. ASSUME NEW r \in Posts, SendChat(r) PROVE ReplyInv'
    BY <2>2, ChatGoesOut
  <2>3. ASSUME NEW r \in Posts, SendOneWay(r) PROVE ReplyInv'
    BY <2>3, OneWayIsSent
  <2>4. ASSUME NEW r \in Posts, Accepted(r) \/ Refused(r) \/ Uncertain(r) PROVE ReplyInv'
    BY <2>4, RequestOfAPostEnds
  <2>5. ASSUME NEW r \in Posts, ReplaceChat(r) PROVE ReplyInv'
    BY <2>5, ChatIsReplaced
  <2>6. ASSUME NEW r \in Posts, ReplaceOneWay(r) PROVE ReplyInv'
    BY <2>6, OneWayIsReplaced
  <2>7. CASE SubstituteAccepted \/ SubstituteRefused \/ SubstituteRaised
    BY <2>7, SubstituteIsClosed
  <2>8. ASSUME NEW k \in Keys, Report(k) PROVE ReplyInv'
    BY <2>8, ReportIsApplied
  <2>9. ASSUME NEW k \in Keys, LimboSettles(k) PROVE ReplyInv'
    BY <2>9, GivenUpRequestSettles
  <2>10. ASSUME NEW k \in Keys, ReplyResolves(k) PROVE ReplyInv'
    BY <2>10, MessageResolves
  <2>11. ASSUME NEW i \in Ids, Query(i) PROVE ReplyInv'
    BY <2>11, QueryIsApplied
  <2>12. ASSUME NEW c \in Callers, ProviderTakes(c) PROVE ReplyInv'
    BY <2>12, RequestIsTaken
  <2>13. ASSUME NEW c \in Callers, NEW how \in {"replaceable", "refused", "unexplained"},
                ReplyIsRefused(c, how)
         PROVE  ReplyInv'
    BY <2>13, RequestIsRefused
  <2>14. CASE FreshnessChanges \/ UNCHANGED replyVars
    BY <2>14, FreshnessIsFree
  <2>15. CASE ReplyRestart
    BY <2>15, ProcessRestarts
  <2> QED
    BY <2>1, <2>2, <2>3, <2>4, <2>5, <2>6, <2>7, <2>8, <2>9, <2>10, <2>11, <2>12, <2>13,
       <2>14, <2>15 DEF ReplyNext
<1> QED
  BY <1>1, <1>2, PTL DEF ReplySpec

\* The types of an answer's variables.
THEOREM ReplyTypeCorrect == ReplySpec => []ReplyTypeOK
<1>1. ReplyInv => ReplyTypeOK
  BY DEF ReplyInv
<1> QED
  BY <1>1, ReplyInvariance, PTL

\* The customer gets an answer at most once, but for the requests that a
\* restart cut off, whatever the posts, the channel and the restarts.
THEOREM AnswerDeliveredOnce == ReplySpec => []AtMostOneDelivery
<1>1. ReplyInv => AtMostOneDelivery
  <2> SUFFICES ASSUME ReplyInv PROVE AtMostOneDelivery
    OBVIOUS
  <2> DEFINE m == Cardinality(OpenKeys)
             s == Spare
  <2>1. received \in Nat /\ cut \in Nat /\ m \in Nat
        /\ received + m <= cut + (IF s THEN 0 ELSE 1)
    BY OpenKeysCount DEF ReplyInv, ReplyTypeOK, Bounded
  <2> HIDE DEF m, s
  <2>2. received <= 1 + cut
    BY <2>1
  <2> QED
    BY <2>2 DEF AtMostOneDelivery
<1> QED
  BY <1>1, ReplyInvariance, PTL

\* A row tells what became of the message under its own key.
THEOREM RowsAreTheirOwn == ReplySpec => []RowTellsItsOwnMessage
<1>1. ReplyInv => RowTellsItsOwnMessage
  BY DEF ReplyInv, RowsTell, RowTells, RowTellsItsOwnMessage, Unseen
<1> QED
  BY <1>1, ReplyInvariance, PTL

\* "The answer was not accepted" is true, and stays true.
THEOREM ToldFailureIsCertain == ReplySpec => []OwnFailureIsCertain
<1>1. ReplyInv => OwnFailureIsCertain
  <2> SUFFICES ASSUME ReplyInv, NEW r \in Posts, answer[r] = "failed", NEW k \in Keys
               PROVE  att[k] = "none" \/ cut > 0
    BY DEF OwnFailureIsCertain
  <2>1. cut = 0 \/ cut > 0
    BY DEF ReplyInv, ReplyTypeOK
  <2>2. cut = 0 => Unseen(k)
    BY DEF ReplyInv, Untouched, FailureIsFinal
  <2> QED
    BY <2>1, <2>2 DEF Unseen
<1> QED
  BY <1>1, ReplyInvariance, PTL

(***************************************************************************)
(* The attachments of answers (module MoMedia), for any number of rows and *)
(* webhook runs.  OneDownloadAtATime is not inductive: a lock is released  *)
(* by its age.  The invariant adds that a row that is downloaded is under  *)
(* its run's lock (RunsHold), that the lock is as old as the run, and that *)
(* what is left of the run's time covers a tick for every row it has left  *)
(* (OnTime); AttemptsTell counts the attempts.  The lemmas are about rows  *)
(* m, runs R and spent attempts sp, so that a step can be taken in parts:  *)
(* the end of a download, and the claim of the next row.                   *)
(***************************************************************************)
\* A run of fetch_pending is over before its own locks are old: it has at
\* most as many rows as a lock has ticks.  FETCH_BATCH is chosen so; the
\* rows of a webhook post are not counted by the code.
ShortRuns == FetchBatch <= LockTimeout /\ WebhookBatch <= LockTimeout

MediaRow ==
  [status : {"NONE", "PENDING", "FETCHING", "FETCHED", "FAILED"},
   attempts : Nat, due : BOOLEAN, lock : Nat]
MediaRun ==
  [row : MediaRows \cup {NoMedia}, held : Nat, todo : SUBSET MediaRows,
   age : Nat, waited : BOOLEAN]

\* A row under the lock of a run, and a run whose time is enough for a tick
\* of every row it has left.
Holds(row, run) ==
  row.status = "FETCHING" /\ row.attempts = run.held /\ row.lock = run.age
OnTime(run) ==
  run.age + Cardinality(run.todo) + (IF run.waited THEN 0 ELSE 1) <= LockTimeout

\* Rows m, runs R and what was spent.
Downloading(R, i) == \E r \in Runners : R[r].row = i
RunsHold(m, R) ==
  \A r \in Runners :
    R[r].row # NoMedia => Holds(m[R[r].row], R[r]) /\ OnTime(R[r])
RunsApart(R) ==
  \A r, s \in Runners : R[r].row = R[s].row /\ R[r].row # NoMedia => r = s
AttemptsTell(m, R, sp) ==
  \A i \in MediaRows :
    /\ m[i].attempts = sp[i] + (IF Downloading(R, i) THEN 1 ELSE 0)
    /\ m[i].attempts <= MaxAttempts[i]
    /\ m[i].status = "PENDING" => m[i].attempts < MaxAttempts[i]
    /\ m[i].status = "NONE" => m[i].attempts = 0
MediaTypes(m, R, sp) ==
  /\ m \in [MediaRows -> MediaRow]
  /\ R \in [Runners -> MediaRun]
  /\ sp \in [MediaRows -> Nat]
MediaFits(m, R, sp) ==
  MediaTypes(m, R, sp) /\ RunsHold(m, R) /\ RunsApart(R) /\ AttemptsTell(m, R, sp)

MediaInv == MediaFits(media, runner, spent)

LEMMA MediaNumbers ==
  /\ NRows \in Nat /\ MediaRows \subseteq Nat \ {NoMedia} /\ IsFiniteSet(MediaRows)
  /\ \A S \in SUBSET MediaRows : IsFiniteSet(S) /\ Cardinality(S) \in Nat
  /\ LockTimeout \in Nat \ {0} /\ MaxAttempts \in [MediaRows -> Nat \ {0}]
  /\ Loop \in Runners /\ IsFiniteSet(Runners) /\ Webhooks \subseteq Runners
<1>1. NRows \in Nat /\ MediaRows \subseteq Nat \ {NoMedia} /\ LockTimeout \in Nat \ {0}
      /\ MaxAttempts \in [MediaRows -> Nat \ {0}] /\ Loop \in Runners
      /\ Webhooks \subseteq Runners /\ IsFiniteSet(Webhooks)
  BY MoMediaAssumption DEF MediaRows, NoMedia, Runners
<1>2. IsFiniteSet(MediaRows)
  BY <1>1, FS_Interval DEF MediaRows
<1>3. IsFiniteSet(Runners)
  BY <1>1, FS_AddElement DEF Runners
<1>4. \A S \in SUBSET MediaRows : IsFiniteSet(S)
  BY <1>2, FS_Subset
<1>5. \A S \in SUBSET MediaRows : Cardinality(S) \in Nat
  BY <1>4, FS_CardinalityType
<1> QED
  BY <1>1, <1>2, <1>3, <1>4, <1>5

\* Counting the runs of a row is telling whether there is one.
LEMMA RunsOfARow ==
  ASSUME NEW R, RunsApart(R), NEW i \in MediaRows
  PROVE  Cardinality({r \in Runners : R[r].row = i})
           = IF Downloading(R, i) THEN 1 ELSE 0
<1> DEFINE S == {r \in Runners : R[r].row = i}
<1>1. CASE Downloading(R, i)
  <2>1. PICK r \in Runners : R[r].row = i
    BY <1>1 DEF Downloading
  <2>2. S = {r}
    BY <2>1, MediaNumbers DEF RunsApart
  <2> HIDE DEF S
  <2>3. Cardinality(S) = 1
    BY <2>2, FS_Singleton
  <2> QED
    BY <1>1, <2>3 DEF S
<1>2. CASE ~Downloading(R, i)
  <2>1. S = {}
    BY <1>2 DEF Downloading
  <2> QED
    BY <1>2, <2>1, FS_EmptySet
<1> QED
  BY <1>1, <1>2

\* A non-empty set of natural numbers has a least member.
LEMMA LeastMember ==
  ASSUME NEW S \in SUBSET Nat, S # {}
  PROVE  \E x \in S : \A y \in S : x <= y
<1> DEFINE Less == {ss \in Nat \X Nat : ss[1] < ss[2]}
<1>1. OpToRel(<, Nat) = Less
  BY DEF OpToRel
<1>2. IsWellFoundedOn(Less, Nat)
  BY NatLessThanWellFounded, <1>1
<1>3. PICK x \in S : \A y \in S : <<y, x>> \notin Less
  <2> HIDE DEF Less
  <2> QED
    BY <1>2, WFMin
<1>4. ASSUME NEW y \in S PROVE x <= y
  <2>1. <<y, x>> \in Nat \X Nat
    OBVIOUS
  <2>2. ~ (y < x)
    BY <1>3, <2>1
  <2> QED
    BY <2>2
<1> QED
  BY <1>4

LEMMA PickIsMember ==
  ASSUME NEW S \in SUBSET MediaRows, S # {}
  PROVE  Pick(S) \in S
BY LeastMember, MediaNumbers DEF Pick

\* A cycle has no more rows than FETCH_BATCH.
LEMMA CycleIsShort ==
  ASSUME NEW S \in SUBSET MediaRows, NEW n \in Nat
  PROVE  Cardinality(FirstOf(S, n)) <= n
<1> DEFINE T == FirstOf(S, n)
           Above == {k \in 0..NRows : NRows - k \in T}
<1>1. T \in SUBSET S /\ T \in SUBSET MediaRows
  BY DEF FirstOf
<1>2. CASE T = {}
  BY <1>2, FS_EmptySet
<1>3. CASE T # {}
  <2>1. PICK k \in Above : \A l \in Above : k <= l
    <3>1. PICK j \in T : TRUE
      BY <1>3
    <3>2. j \in 1..NRows /\ NRows \in Nat
      BY <1>1, MediaNumbers DEF MediaRows
    <3>3. NRows - j \in Above
      BY <3>2
    <3>4. Above \subseteq Nat
      OBVIOUS
    <3>5. Above # {}
      BY <3>3
    <3> HIDE DEF Above
    <3> QED
      BY <3>4, <3>5, LeastMember
  <2> DEFINE i == NRows - k
             Below == {j \in S : j <= i}
  <2>2. \A j \in T : j <= i
    <3> SUFFICES ASSUME NEW j \in T PROVE j <= NRows - k
      OBVIOUS
    <3>1. j \in 1..NRows /\ NRows \in Nat
      BY <1>1, MediaNumbers DEF MediaRows
    <3>2. NRows - j \in Above
      BY <3>1
    <3>3. k \in Nat
      BY <2>1
    <3> HIDE DEF Above, T
    <3>4. k <= NRows - j
      BY <2>1, <3>2
    <3> QED
      BY <3>1, <3>3, <3>4
  <2>3. i \in T
    BY <2>1
  <2>4. Cardinality(Below) <= n
    BY <2>3 DEF FirstOf
  <2>5. T \in SUBSET Below
    BY <1>1, <2>2
  <2>6. IsFiniteSet(Below) /\ Cardinality(Below) \in Nat /\ Cardinality(T) \in Nat
    <3>1. Below \in SUBSET MediaRows
      BY DEF Below
    <3> HIDE DEF Below, T
    <3> QED
      BY <1>1, <3>1, MediaNumbers
  <2> HIDE DEF Below, T
  <2>7. Cardinality(T) <= Cardinality(Below)
    BY <2>5, <2>6, FS_Subset
  <2>8. Cardinality(T) <= n
    BY <2>4, <2>6, <2>7
  <2> QED
    BY <2>8 DEF T
<1> QED
  BY <1>2, <1>3

\* What is left of a run's rows after one of them.
LEMMA OneRowLess ==
  ASSUME NEW todo \in SUBSET MediaRows, NEW i \in todo
  PROVE  Cardinality({j \in todo : j > i}) + 1 <= Cardinality(todo)
<1> DEFINE T == {j \in todo : j > i}
<1>1. T \in SUBSET (todo \ {i}) /\ T \in SUBSET MediaRows /\ todo \ {i} \in SUBSET MediaRows
  <2>1. i \in Nat /\ ~(i > i)
    BY MediaNumbers
  <2> QED
    BY <2>1
<1> HIDE DEF T
<1>2. /\ IsFiniteSet(todo) /\ IsFiniteSet(todo \ {i})
      /\ Cardinality(todo \ {i}) \in Nat
  BY <1>1, MediaNumbers
<1>4. Cardinality(todo \ {i}) = Cardinality(todo) - 1
  BY <1>2, FS_RemoveElement
<1>5. Cardinality(T) <= Cardinality(todo \ {i})
  BY <1>1, <1>2, FS_Subset
<1>3. Cardinality(T) \in Nat /\ Cardinality(todo) \in Nat
  BY <1>1, MediaNumbers
<1> QED
  BY <1>2, <1>3, <1>4, <1>5 DEF T


(***************************************************************************)
(* Rows, runs and what was spent, before and after a part of a step.       *)
(***************************************************************************)
\* What the steps write to a row.
LEMMA MediaRowChanges ==
  ASSUME NEW x \in MediaRow, NEW a \in Nat, NEW lock \in Nat, NEW due \in BOOLEAN,
         NEW st \in {"NONE", "PENDING", "FETCHING", "FETCHED", "FAILED"}
  PROVE  /\ [x EXCEPT !.status = st] \in MediaRow
         /\ [x EXCEPT !.lock = lock] \in MediaRow
         /\ [x EXCEPT !.due = due] \in MediaRow
         /\ [x EXCEPT !.status = st, !.lock = lock] \in MediaRow
         /\ [x EXCEPT !.status = st, !.attempts = a, !.lock = lock] \in MediaRow
         /\ [x EXCEPT !.status = st, !.lock = lock, !.attempts = a] \in MediaRow
         /\ [x EXCEPT !.status = st, !.due = due, !.lock = lock] \in MediaRow
<1>1. \A y \in MediaRow : [y EXCEPT !.status = st] \in MediaRow
  BY DEF MediaRow
<1>2. \A y \in MediaRow : [y EXCEPT !.lock = lock] \in MediaRow
  BY DEF MediaRow
<1>3. \A y \in MediaRow : [y EXCEPT !.due = due] \in MediaRow
  BY DEF MediaRow
<1>4. \A y \in MediaRow : [y EXCEPT !.attempts = a] \in MediaRow
  BY DEF MediaRow
<1>5. [x EXCEPT !.status = st, !.lock = lock] = [[x EXCEPT !.status = st] EXCEPT !.lock = lock]
  BY DEF MediaRow
<1>6. [x EXCEPT !.status = st, !.attempts = a, !.lock = lock]
        = [[[x EXCEPT !.status = st] EXCEPT !.attempts = a] EXCEPT !.lock = lock]
  BY DEF MediaRow
<1>7. [x EXCEPT !.status = st, !.lock = lock, !.attempts = a]
        = [[[x EXCEPT !.status = st] EXCEPT !.lock = lock] EXCEPT !.attempts = a]
  BY DEF MediaRow
<1>8. [x EXCEPT !.status = st, !.due = due, !.lock = lock]
        = [[[x EXCEPT !.status = st] EXCEPT !.due = due] EXCEPT !.lock = lock]
  BY DEF MediaRow
<1> QED
  BY <1>1, <1>2, <1>3, <1>4, <1>5, <1>6, <1>7, <1>8

\* The claim of a row by a run that had none.
LEMMA ClaimFits ==
  ASSUME NEW m, NEW R, NEW sp, MediaFits(m, R, sp), NEW r \in Runners,
         R[r].row = NoMedia, NEW i \in MediaRows, m[i].status = "PENDING",
         NEW todo \in SUBSET MediaRows, NEW age \in Nat,
         age + Cardinality(todo) + 1 <= LockTimeout
  PROVE  MediaFits(
           [m EXCEPT ![i] = [m[i] EXCEPT !.status = "FETCHING",
                               !.attempts = m[i].attempts + 1, !.lock = age]],
           [R EXCEPT ![r] = [row |-> i, held |-> m[i].attempts + 1, todo |-> todo,
                             age |-> age, waited |-> FALSE]],
           sp)
<1> DEFINE row == [m[i] EXCEPT !.status = "FETCHING",
                               !.attempts = m[i].attempts + 1, !.lock = age]
           run == [row |-> i, held |-> m[i].attempts + 1, todo |-> todo,
                   age |-> age, waited |-> FALSE]
           m2 == [m EXCEPT ![i] = row]
           R2 == [R EXCEPT ![r] = run]
<1>1. MediaTypes(m, R, sp) /\ i # NoMedia /\ m[i] \in MediaRow /\ sp[i] \in Nat
  BY MediaNumbers DEF MediaFits, MediaTypes
<1>2. /\ row \in MediaRow /\ row.status = "FETCHING" /\ row.attempts = m[i].attempts + 1
      /\ row.lock = age
  <2>1. m[i].attempts + 1 \in Nat
    BY <1>1 DEF MediaRow
  <2>2. row \in MediaRow
    BY <1>1, <2>1, MediaRowChanges
  <2>3. row.status = "FETCHING" /\ row.attempts = m[i].attempts + 1 /\ row.lock = age
    BY <1>1 DEF MediaRow
  <2> QED
    BY <2>2, <2>3
<1>3. /\ run \in MediaRun /\ run.row = i /\ run.held = m[i].attempts + 1 /\ run.todo = todo
      /\ run.age = age /\ run.waited = FALSE
  BY <1>1 DEF MediaRow, MediaRun
<1>4. Holds(row, run) /\ OnTime(run)
  BY <1>2, <1>3 DEF Holds, OnTime
<1> HIDE DEF row, run
<1>5. m2 \in [MediaRows -> MediaRow] /\ R2 \in [Runners -> MediaRun]
  BY <1>1, <1>2, <1>3 DEF MediaTypes
<1>6. \A j \in MediaRows : m2[j] = IF j = i THEN row ELSE m[j]
  BY <1>1 DEF MediaTypes
<1>7. \A s \in Runners : R2[s] = IF s = r THEN run ELSE R[s]
  BY <1>1 DEF MediaTypes
<1>8. \A s \in Runners : R[s].row # i
  BY <1>1 DEF MediaFits, RunsHold, Holds
<1>9. \A s \in Runners : R[s].row \in MediaRows \cup {NoMedia}
  BY <1>1 DEF MediaTypes, MediaRun
<1> HIDE DEF m2, R2
<1>10. RunsHold(m2, R2)
  BY <1>1, <1>3, <1>4, <1>6, <1>7, <1>8, <1>9 DEF RunsHold, MediaFits
<1>11. RunsApart(R2)
  BY <1>3, <1>7, <1>8 DEF RunsApart, MediaFits
<1>12. Downloading(R2, i) /\ ~Downloading(R, i)
  BY <1>3, <1>7, <1>8 DEF Downloading
<1>13. \A j \in MediaRows : j # i => (Downloading(R2, j) <=> Downloading(R, j))
  BY <1>1, <1>3, <1>7, MediaNumbers DEF Downloading
<1>14. AttemptsTell(m2, R2, sp)
  <2> SUFFICES ASSUME NEW j \in MediaRows
               PROVE  /\ m2[j].attempts = sp[j] + (IF Downloading(R2, j) THEN 1 ELSE 0)
                      /\ m2[j].attempts <= MaxAttempts[j]
                      /\ m2[j].status = "PENDING" => m2[j].attempts < MaxAttempts[j]
                      /\ m2[j].status = "NONE" => m2[j].attempts = 0
    BY DEF AttemptsTell
  <2>1. CASE j = i
    <3>1. m[i].attempts = sp[i] /\ m[i].attempts < MaxAttempts[i] /\ m[i].attempts \in Nat
      BY <1>1, <1>12 DEF MediaFits, AttemptsTell, MediaRow
    <3>2. MaxAttempts[i] \in Nat
      BY MediaNumbers
    <3> QED
      BY <1>2, <1>6, <1>12, <2>1, <3>1, <3>2
  <2>2. CASE j # i
    BY <1>6, <1>13, <2>2 DEF MediaFits, AttemptsTell
  <2> QED
    BY <2>1, <2>2
<1> QED
  BY <1>1, <1>5, <1>10, <1>11, <1>14 DEF MediaFits, MediaTypes, m2, R2, row, run

\* The end of a download: the run gives its row up, with the attempts that
\* were spent.
LEMMA EndFits ==
  ASSUME NEW m, NEW R, NEW sp, MediaFits(m, R, sp), NEW r \in Runners,
         R[r].row # NoMedia, NEW row \in MediaRow, NEW sp2 \in [MediaRows -> Nat],
         row.status \notin {"NONE", "FETCHING"},
         row.attempts = sp2[R[r].row], row.attempts <= m[R[r].row].attempts,
         row.status = "PENDING" => row.attempts < MaxAttempts[R[r].row],
         \A j \in MediaRows : j # R[r].row => sp2[j] = sp[j]
  PROVE  MediaFits([m EXCEPT ![R[r].row] = row], [R EXCEPT ![r] = Idle], sp2)
<1> DEFINE i == R[r].row
           m2 == [m EXCEPT ![i] = row]
           R2 == [R EXCEPT ![r] = Idle]
<1>1. MediaTypes(m, R, sp) /\ i \in MediaRows
  BY MediaNumbers DEF MediaFits, MediaTypes, MediaRun
<1>2. Idle \in MediaRun /\ Idle.row = NoMedia
  BY DEF Idle, MediaRun
<1>3. m2 \in [MediaRows -> MediaRow] /\ R2 \in [Runners -> MediaRun]
  BY <1>1, <1>2 DEF MediaTypes
<1>4. \A j \in MediaRows : m2[j] = IF j = i THEN row ELSE m[j]
  BY <1>1 DEF MediaTypes
<1>5. \A s \in Runners : R2[s] = IF s = r THEN Idle ELSE R[s]
  BY <1>1 DEF MediaTypes
<1>6. \A s \in Runners : s # r => R[s].row # i
  BY DEF MediaFits, RunsApart
<1>7. \A s \in Runners : R[s].row \in MediaRows \cup {NoMedia}
  BY <1>1 DEF MediaTypes, MediaRun
<1>8. /\ row.attempts = sp2[i] /\ row.attempts <= m[i].attempts
      /\ row.status = "PENDING" => row.attempts < MaxAttempts[i]
      /\ \A j \in MediaRows : j # i => sp2[j] = sp[j]
  OBVIOUS
<1> HIDE DEF i, m2, R2
<1>9. RunsHold(m2, R2)
  BY <1>2, <1>4, <1>5, <1>6, <1>7 DEF RunsHold, MediaFits
<1>10. RunsApart(R2)
  BY <1>2, <1>5 DEF RunsApart, MediaFits
<1>11. ~Downloading(R2, i)
  BY <1>1, <1>2, <1>5, <1>6, MediaNumbers DEF Downloading
<1>12. \A j \in MediaRows : j # i => (Downloading(R2, j) <=> Downloading(R, j))
  BY <1>2, <1>5, MediaNumbers DEF Downloading, i
<1>13. AttemptsTell(m2, R2, sp2)
  <2> SUFFICES ASSUME NEW j \in MediaRows
               PROVE  /\ m2[j].attempts = sp2[j] + (IF Downloading(R2, j) THEN 1 ELSE 0)
                      /\ m2[j].attempts <= MaxAttempts[j]
                      /\ m2[j].status = "PENDING" => m2[j].attempts < MaxAttempts[j]
                      /\ m2[j].status = "NONE" => m2[j].attempts = 0
    BY DEF AttemptsTell
  <2>1. CASE j = i
    <3>1. m[i].attempts <= MaxAttempts[i] /\ MaxAttempts[i] \in Nat /\ m[i].attempts \in Nat
      BY <1>1, MediaNumbers DEF MediaFits, AttemptsTell, MediaTypes, MediaRow
    <3>2. row.attempts \in Nat /\ sp2[i] \in Nat
      BY <1>1 DEF MediaRow
    <3> QED
      BY <1>4, <1>8, <1>11, <2>1, <3>1, <3>2
  <2>2. CASE j # i
    BY <1>4, <1>8, <1>12, <2>2 DEF MediaFits, AttemptsTell
  <2> QED
    BY <2>1, <2>2
<1> QED
  BY <1>3, <1>9, <1>10, <1>13 DEF MediaFits, MediaTypes, m2, R2, i

\* Rows that no run holds may wait, be given up or be stored.
LEMMA OtherRowsFit ==
  ASSUME NEW m, NEW R, NEW sp, MediaFits(m, R, sp),
         NEW m2 \in [MediaRows -> MediaRow],
         \A i \in MediaRows :
           \/ m2[i] = m[i]
           \/ /\ ~Downloading(R, i)
              /\ m2[i].attempts = m[i].attempts
              /\ m2[i].status # "NONE"
              /\ m2[i].status = "PENDING" => m[i].attempts < MaxAttempts[i]
  PROVE  MediaFits(m2, R, sp)
<1>1. MediaTypes(m2, R, sp)
  BY DEF MediaFits, MediaTypes
<1>2. \A r \in Runners : R[r].row # NoMedia => R[r].row \in MediaRows /\ m2[R[r].row] = m[R[r].row]
  BY DEF MediaFits, MediaTypes, MediaRun, Downloading
<1>3. RunsHold(m2, R)
  BY <1>2 DEF MediaFits, RunsHold
<1>4. AttemptsTell(m2, R, sp)
  <2> SUFFICES ASSUME NEW j \in MediaRows
               PROVE  /\ m2[j].attempts = sp[j] + (IF Downloading(R, j) THEN 1 ELSE 0)
                      /\ m2[j].attempts <= MaxAttempts[j]
                      /\ m2[j].status = "PENDING" => m2[j].attempts < MaxAttempts[j]
                      /\ m2[j].status = "NONE" => m2[j].attempts = 0
    BY DEF AttemptsTell
  <2> QED
    BY DEF MediaFits, AttemptsTell
<1> QED
  BY <1>1, <1>3, <1>4 DEF MediaFits

\* The run r, which holds no row of m, goes on with todo.
LEMMA ContinueFits ==
  ASSUME NEW m, NEW r \in Runners, MediaFits(m, [runner EXCEPT ![r] = Idle], spent'),
         runner \in [Runners -> MediaRun],
         NEW todo \in SUBSET MediaRows, NEW age \in Nat,
         age + Cardinality(todo) <= LockTimeout,
         Continue(r, m, todo, age)
  PROVE  MediaInv'
<1> DEFINE open == {i \in todo : Claimable(m[i])}
           i == Pick(open)
           rest == {j \in todo : j > i}
           R == [runner EXCEPT ![r] = Idle]
           sp == spent'
<1>1. CASE open = {}
  <2>1. media' = m /\ runner' = R
    BY <1>1 DEF Continue
  <2> QED
    BY <2>1 DEF MediaInv
<1>2. CASE open # {}
  <2>1. /\ media' = [m EXCEPT ![i] = [m[i] EXCEPT !.status = "FETCHING",
                                        !.attempts = m[i].attempts + 1, !.lock = age]]
        /\ runner' = [runner EXCEPT ![r] =
             [row |-> i, held |-> m[i].attempts + 1, todo |-> rest, age |-> age,
              waited |-> FALSE]]
    <3> DEFINE claimed == [m[i] EXCEPT !.status = "FETCHING",
                              !.attempts = m[i].attempts + 1, !.lock = age]
    <3>1. /\ media' = [m EXCEPT ![i] = claimed]
          /\ runner' = [runner EXCEPT ![r] =
               [row |-> i, held |-> claimed.attempts, todo |-> rest, age |-> age,
                waited |-> FALSE]]
      BY <1>2 DEF Continue
    <3>2. m[i] \in MediaRow
      <4>1. i \in MediaRows
        BY <1>2, PickIsMember
      <4> QED
        BY <4>1 DEF MediaFits, MediaTypes
    <3>3. claimed.attempts = m[i].attempts + 1
      BY <3>2 DEF MediaRow
    <3> QED
      BY <3>1, <3>3
  <2>2. i \in open
    BY <1>2, PickIsMember
  <2>3. i \in todo /\ i \in MediaRows /\ m[i].status = "PENDING"
    BY <2>2 DEF Claimable
  <2>4. rest \in SUBSET MediaRows /\ age + Cardinality(rest) + 1 <= LockTimeout
    <3>1. Cardinality(rest) + 1 <= Cardinality(todo)
      BY <2>3, OneRowLess
    <3>2. rest \in SUBSET MediaRows
      OBVIOUS
    <3> HIDE DEF rest
    <3>3. Cardinality(rest) \in Nat /\ Cardinality(todo) \in Nat /\ LockTimeout \in Nat
      BY <3>2, MediaNumbers
    <3> QED
      BY <3>1, <3>2, <3>3
  <2>5. R[r].row = NoMedia /\ MediaFits(m, R, sp)
    BY DEF Idle
  <2> DEFINE run == [row |-> i, held |-> m[i].attempts + 1, todo |-> rest, age |-> age,
                     waited |-> FALSE]
             row == [m[i] EXCEPT !.status = "FETCHING",
                                 !.attempts = m[i].attempts + 1, !.lock = age]
  <2>6. MediaFits([m EXCEPT ![i] = row], [R EXCEPT ![r] = run], sp)
    <3> HIDE DEF R, rest, i, sp
    <3> QED
      BY <2>3, <2>4, <2>5, ClaimFits
  <2>7. [R EXCEPT ![r] = run] = [runner EXCEPT ![r] = run]
    <3> HIDE DEF run
    <3> QED
      BY DEF R
  <2> QED
    BY <2>1, <2>6, <2>7 DEF MediaInv
<1> QED
  BY <1>1, <1>2

\* A run that is idle has no row.
LEMMA IdleRun ==
  ASSUME MediaInv, NEW r \in Runners, runner[r] = Idle
  PROVE  [runner EXCEPT ![r] = Idle] = runner /\ ~ (runner[r].row # NoMedia)
BY DEF MediaInv, MediaFits, MediaTypes, Idle

\* The locks of a run's own rows are not old, so what is released is nobody's.
LEMMA ReleasedRows ==
  ASSUME MediaInv
  PROVE  /\ Released \in [MediaRows -> MediaRow]
         /\ \A i \in MediaRows :
              \/ Released[i] = media[i]
              \/ /\ ~Downloading(runner, i)
                 /\ Released[i].attempts = media[i].attempts
                 /\ Released[i].status # "NONE"
                 /\ Released[i].status = "PENDING" => media[i].attempts < MaxAttempts[i]
<1>1. media \in [MediaRows -> MediaRow] /\ runner \in [Runners -> MediaRun]
  BY DEF MediaInv, MediaFits, MediaTypes
<1>2. \A i \in MediaRows : AfterStale(i) \in {"PENDING", "FAILED"}
  BY DEF AfterStale
<1>3. Released \in [MediaRows -> MediaRow]
  <2>1. \A i \in MediaRows :
          [media[i] EXCEPT !.status = AfterStale(i), !.due = TRUE, !.lock = 0] \in MediaRow
    BY <1>1, <1>2, MediaRowChanges
  <2> QED
    BY <1>1, <2>1 DEF Released
<1>4. ASSUME NEW i \in MediaRows, Released[i] # media[i]
      PROVE  /\ ~Downloading(runner, i)
             /\ Released[i].attempts = media[i].attempts
             /\ Released[i].status # "NONE"
             /\ Released[i].status = "PENDING" => media[i].attempts < MaxAttempts[i]
  <2>1. media[i].lock > LockTimeout
        /\ Released[i] = [media[i] EXCEPT !.status = AfterStale(i), !.due = TRUE, !.lock = 0]
    BY <1>4 DEF Released
  <2>2. Released[i].attempts = media[i].attempts /\ Released[i].status = AfterStale(i)
    BY <1>1, <2>1 DEF MediaRow
  <2>3. ASSUME NEW r \in Runners, runner[r].row = i PROVE FALSE
    <3>1. media[i].lock = runner[r].age /\ OnTime(runner[r])
      BY <2>3, MediaNumbers DEF MediaInv, MediaFits, RunsHold, Holds
    <3>2. runner[r].age \in Nat /\ Cardinality(runner[r].todo) \in Nat /\ LockTimeout \in Nat
      BY <1>1, MediaNumbers DEF MediaRun
    <3>3. runner[r].age <= LockTimeout
      BY <3>1, <3>2 DEF OnTime
    <3> QED
      BY <2>1, <3>1, <3>2, <3>3
  <2> QED
    BY <2>2, <2>3, <1>2 DEF Downloading, AfterStale
<1> QED
  BY <1>3, <1>4

LEMMA MediaInitHolds == ASSUME MediaInit PROVE MediaInv
<1>1. Idle \in MediaRun /\ Idle.row = NoMedia
  BY DEF Idle, MediaRun
<1>2. media \in [MediaRows -> MediaRow] /\ runner \in [Runners -> MediaRun]
      /\ spent \in [MediaRows -> Nat]
  BY <1>1 DEF MediaInit, MediaRow
<1>3. \A r \in Runners : runner[r].row = NoMedia
  BY <1>1 DEF MediaInit
<1>4. \A i \in MediaRows : ~Downloading(runner, i) /\ media[i].status = "NONE"
        /\ media[i].attempts = 0 /\ spent[i] = 0 /\ 0 < MaxAttempts[i]
  BY <1>3, MediaNumbers DEF MediaInit, Downloading
<1> QED
  BY <1>2, <1>3, <1>4, MediaNumbers
  DEF MediaInv, MediaFits, MediaTypes, RunsHold, RunsApart, AttemptsTell

LEMMA CycleStep ==
  ASSUME ShortRuns, MediaInv, NEW msghub, StartCycle(msghub)
  PROVE  MediaInv'
<1> DEFINE todo == FirstOf(Selected(Released, msghub), FetchBatch)
<1>1. Loop \in Runners /\ runner[Loop] = Idle /\ Continue(Loop, Released, todo, 0)
      /\ spent' = spent
  BY MediaNumbers DEF StartCycle
<1>2. todo \in SUBSET MediaRows /\ FetchBatch \in Nat /\ Cardinality(todo) <= FetchBatch
  <2>1. Selected(Released, msghub) \in SUBSET MediaRows /\ FetchBatch \in Nat
    BY MoMediaAssumption DEF Selected
  <2>2. todo \in SUBSET MediaRows
    BY <2>1 DEF FirstOf
  <2> QED
    BY <2>1, <2>2, CycleIsShort
<1> HIDE DEF todo
<1>3. 0 + Cardinality(todo) <= LockTimeout
  BY <1>2, MediaNumbers DEF ShortRuns
<1>4. MediaFits(Released, runner, spent)
  <2> DEFINE m2 == Released
  <2>1. /\ m2 \in [MediaRows -> MediaRow]
        /\ \A i \in MediaRows :
              \/ m2[i] = media[i]
              \/ /\ ~Downloading(runner, i)
                 /\ m2[i].attempts = media[i].attempts
                 /\ m2[i].status # "NONE"
                 /\ m2[i].status = "PENDING" => media[i].attempts < MaxAttempts[i]
    BY ReleasedRows
  <2> HIDE DEF m2
  <2>2. MediaFits(m2, runner, spent)
    BY <2>1, OtherRowsFit DEF MediaInv
  <2> QED
    BY <2>2 DEF m2
<1>5. runner \in [Runners -> MediaRun]
  BY DEF MediaInv, MediaFits, MediaTypes
<1>6. MediaFits(Released, [runner EXCEPT ![Loop] = Idle], spent')
  BY <1>1, <1>4, IdleRun
<1> QED
  BY <1>1, <1>2, <1>3, <1>5, <1>6, ContinueFits

\* The rows of a webhook post are new; they have no attempts.
LEMMA ReceiveStep ==
  ASSUME ShortRuns, MediaInv, NEW r \in Webhooks, NEW ids \in SUBSET MediaRows,
         NEW msghub, ReceiveFiles(r, ids, msghub)
  PROVE  MediaInv'
<1> DEFINE stored == [i \in MediaRows |->
             IF i \in ids THEN [media[i] EXCEPT !.status = "PENDING"] ELSE Released[i]]
           todo == Selected(stored, msghub) \cap ids
<1>1. /\ r \in Runners /\ runner[r] = Idle /\ Continue(r, stored, todo, 0) /\ spent' = spent
      /\ Cardinality(ids) <= WebhookBatch
      /\ \A i \in ids : media[i].status = "NONE"
  BY MediaNumbers DEF ReceiveFiles
<1>2. media \in [MediaRows -> MediaRow] /\ runner \in [Runners -> MediaRun]
  BY DEF MediaInv, MediaFits, MediaTypes
<1>3. /\ stored \in [MediaRows -> MediaRow]
      /\ \A i \in MediaRows :
            \/ stored[i] = media[i]
            \/ /\ ~Downloading(runner, i)
               /\ stored[i].attempts = media[i].attempts
               /\ stored[i].status # "NONE"
               /\ stored[i].status = "PENDING" => media[i].attempts < MaxAttempts[i]
  <2>1. \A i \in MediaRows : [media[i] EXCEPT !.status = "PENDING"] \in MediaRow
    <3> SUFFICES ASSUME NEW i \in MediaRows
                 PROVE  [media[i] EXCEPT !.status = "PENDING"] \in MediaRow
      OBVIOUS
    <3>1. media[i] \in MediaRow
      BY <1>2
    <3> QED
      BY <3>1 DEF MediaRow
  <2>2. stored \in [MediaRows -> MediaRow]
    BY <2>1, ReleasedRows
  <2>3. ASSUME NEW i \in ids
        PROVE  /\ ~Downloading(runner, i)
               /\ stored[i].attempts = media[i].attempts
               /\ stored[i].status = "PENDING"
               /\ media[i].attempts < MaxAttempts[i]
    <3>1. stored[i] = [media[i] EXCEPT !.status = "PENDING"] /\ media[i] \in MediaRow
      BY <1>2
    <3>2. stored[i].attempts = media[i].attempts /\ stored[i].status = "PENDING"
      BY <3>1 DEF MediaRow
    <3>3. media[i].attempts = 0 /\ 0 < MaxAttempts[i]
      BY <1>1, MediaNumbers DEF MediaInv, MediaFits, AttemptsTell
    <3>4. ~Downloading(runner, i)
      BY <1>1, MediaNumbers DEF MediaInv, MediaFits, RunsHold, Holds, Downloading
    <3> QED
      BY <3>2, <3>3, <3>4
  <2>4. \A i \in MediaRows \ ids : stored[i] = Released[i]
    OBVIOUS
  <2> HIDE DEF stored
  <2>5. ASSUME NEW i \in MediaRows, stored[i] # media[i]
        PROVE  /\ ~Downloading(runner, i)
               /\ stored[i].attempts = media[i].attempts
               /\ stored[i].status # "NONE"
               /\ stored[i].status = "PENDING" => media[i].attempts < MaxAttempts[i]
    <3>1. CASE i \in ids
      BY <2>3, <3>1
    <3>2. CASE i \notin ids
      BY <2>4, <2>5, <3>2, ReleasedRows
    <3> QED
      BY <3>1, <3>2
  <2> QED
    BY <2>2, <2>5
<1>4. todo \in SUBSET MediaRows /\ Cardinality(todo) <= WebhookBatch
  <2>1. todo \in SUBSET ids
    OBVIOUS
  <2> HIDE DEF todo
  <2>2. Cardinality(todo) <= Cardinality(ids) /\ Cardinality(ids) \in Nat
        /\ Cardinality(todo) \in Nat /\ WebhookBatch \in Nat
    BY <2>1, MediaNumbers, FS_Subset, MoMediaAssumption
  <2> QED
    BY <1>1, <2>1, <2>2
<1> HIDE DEF stored, todo
<1>5. 0 + Cardinality(todo) <= LockTimeout
  <2>1. Cardinality(todo) \in Nat /\ WebhookBatch \in Nat /\ LockTimeout \in Nat
    BY <1>4, MediaNumbers, MoMediaAssumption
  <2> QED
    BY <1>4, <2>1 DEF ShortRuns
<1>6. MediaFits(stored, runner, spent)
  BY <1>3, OtherRowsFit DEF MediaInv
<1>7. MediaFits(stored, [runner EXCEPT ![r] = Idle], spent')
  BY <1>1, <1>6, IdleRun
<1> QED
  BY <1>1, <1>2, <1>4, <1>5, <1>7, ContinueFits

LEMMA ReceiveAndDieStep ==
  ASSUME MediaInv, NEW ids \in SUBSET MediaRows, ReceiveFilesAndDie(ids)
  PROVE  MediaInv'
<1> DEFINE m2 == media'
<1>1. media \in [MediaRows -> MediaRow]
  BY DEF MediaInv, MediaFits, MediaTypes
<1>2. /\ m2 = [i \in MediaRows |->
              IF i \in ids THEN [media[i] EXCEPT !.status = "PENDING"] ELSE media[i]]
      /\ UNCHANGED <<runner, spent>>
      /\ \A r \in Runners : runner[r] = Idle
      /\ \A i \in ids : media[i].status = "NONE"
  BY DEF ReceiveFilesAndDie
<1> HIDE DEF m2
<1>3. \A i \in MediaRows : /\ [media[i] EXCEPT !.status = "PENDING"] \in MediaRow
                           /\ [media[i] EXCEPT !.status = "PENDING"].attempts = media[i].attempts
                           /\ [media[i] EXCEPT !.status = "PENDING"].status = "PENDING"
  <2> SUFFICES ASSUME NEW i \in MediaRows
               PROVE  /\ [media[i] EXCEPT !.status = "PENDING"] \in MediaRow
                      /\ [media[i] EXCEPT !.status = "PENDING"].attempts = media[i].attempts
                      /\ [media[i] EXCEPT !.status = "PENDING"].status = "PENDING"
    OBVIOUS
  <2>1. media[i] \in MediaRow
    BY <1>1
  <2> QED
    BY <2>1 DEF MediaRow
<1>4. m2 \in [MediaRows -> MediaRow]
  BY <1>1, <1>2, <1>3
<1>5. \A i \in MediaRows : ~Downloading(runner, i)
  BY <1>2, MediaNumbers DEF Downloading, Idle
<1>6. \A i \in ids : media[i].attempts < MaxAttempts[i]
  BY <1>2, MediaNumbers DEF MediaInv, MediaFits, AttemptsTell
<1>7. \A i \in MediaRows :
        \/ m2[i] = media[i]
        \/ /\ ~Downloading(runner, i)
           /\ m2[i].attempts = media[i].attempts
           /\ m2[i].status # "NONE"
           /\ m2[i].status = "PENDING" => media[i].attempts < MaxAttempts[i]
  BY <1>2, <1>3, <1>5, <1>6
<1>8. MediaFits(m2, runner, spent)
  BY <1>4, <1>7, OtherRowsFit DEF MediaInv
<1> QED
  BY <1>2, <1>8 DEF MediaInv, m2

\* What is known of a run that downloads.
LEMMA RunFacts ==
  ASSUME MediaInv, NEW r \in Runners, runner[r].row # NoMedia
  PROVE  /\ runner[r].row \in MediaRows /\ runner[r].todo \in SUBSET MediaRows
         /\ runner[r].age \in Nat
         /\ media[runner[r].row] \in MediaRow
         /\ media[runner[r].row].attempts = runner[r].held
         /\ runner[r].held = spent[runner[r].row] + 1
         /\ spent \in [MediaRows -> Nat]
         /\ runner[r].held <= MaxAttempts[runner[r].row]
         /\ runner[r].age + Cardinality(runner[r].todo) <= LockTimeout
<1> DEFINE i == runner[r].row
<1>1. i \in MediaRows /\ runner[r] \in MediaRun /\ media[i] \in MediaRow
      /\ spent \in [MediaRows -> Nat]
  BY DEF MediaInv, MediaFits, MediaTypes, MediaRun
<1>2. runner[r].todo \in SUBSET MediaRows /\ runner[r].age \in Nat
  BY <1>1 DEF MediaRun
<1>3. media[i].attempts = runner[r].held /\ OnTime(runner[r])
  BY DEF MediaInv, MediaFits, RunsHold, Holds
<1>4. Downloading(runner, i)
  BY DEF Downloading
<1>5. media[i].attempts = spent[i] + 1 /\ media[i].attempts <= MaxAttempts[i]
  BY <1>1, <1>4 DEF MediaInv, MediaFits, AttemptsTell
<1>6. runner[r].age + Cardinality(runner[r].todo) <= LockTimeout
  BY <1>2, <1>3, MediaNumbers DEF OnTime
<1> QED
  BY <1>1, <1>2, <1>3, <1>5, <1>6

\* A download ended with row, and was spent.
LEMMA EndedStep ==
  ASSUME MediaInv, NEW r \in Runners, runner[r].row # NoMedia,
         NEW row \in MediaRow, row.status \notin {"NONE", "FETCHING"},
         row.attempts = runner[r].held,
         row.status = "PENDING" => runner[r].held < MaxAttempts[runner[r].row],
         Ended(r, row), Spend(r)
  PROVE  MediaInv'
<1> DEFINE i == runner[r].row
           m2 == [media EXCEPT ![i] = row]
           sp2 == spent'
           R2 == [runner EXCEPT ![r] = Idle]
<1>1. /\ i \in MediaRows /\ spent \in [MediaRows -> Nat] /\ media[i].attempts = runner[r].held
      /\ runner[r].held = spent[i] + 1 /\ row.attempts = spent[i] + 1
      /\ runner[r].todo \in SUBSET MediaRows /\ runner[r].age \in Nat
      /\ runner[r].age + Cardinality(runner[r].todo) <= LockTimeout
  BY RunFacts
<1>2. sp2 = [spent EXCEPT ![i] = spent[i] + 1]
  BY DEF Spend
<1>3. Continue(r, m2, runner[r].todo, runner[r].age)
  BY DEF Ended
<1> HIDE DEF sp2
<1>4. sp2 \in [MediaRows -> Nat] /\ sp2[i] = spent[i] + 1
      /\ \A j \in MediaRows : j # i => sp2[j] = spent[j]
  BY <1>1, <1>2
<1>5. row.attempts <= media[i].attempts
  <2>1. media[i].attempts \in Nat
    BY <1>1
  <2> QED
    BY <1>1, <2>1
<1>6. MediaFits(m2, R2, sp2)
  BY <1>1, <1>4, <1>5, EndFits DEF MediaInv
<1>7. runner \in [Runners -> MediaRun]
  BY DEF MediaInv, MediaFits, MediaTypes
<1> HIDE DEF m2
<1> QED
  BY <1>1, <1>3, <1>6, <1>7, ContinueFits DEF sp2

LEMMA DownloadStep ==
  ASSUME MediaInv, NEW r \in Runners, Fetched(r) \/ Retry(r) \/ Fail(r)
  PROVE  MediaInv'
<1> DEFINE i == runner[r].row
           x == media[i]
<1>1. runner[r].row # NoMedia /\ Spend(r)
  BY DEF Fetched, Retry, Fail
<1>2. /\ i \in MediaRows /\ x \in MediaRow /\ x.attempts = runner[r].held
      /\ runner[r].held \in Nat /\ MaxAttempts[i] \in Nat
  BY <1>1, RunFacts, MediaNumbers DEF MediaRow
<1>3. CASE Fetched(r)
  <2> DEFINE row == [x EXCEPT !.status = "FETCHED", !.due = TRUE, !.lock = 0]
  <2>1. Ended(r, row)
    BY <1>3 DEF Fetched
  <2> HIDE DEF x
  <2>2. row \in MediaRow
    BY <1>2, MediaRowChanges
  <2>3. row.status = "FETCHED" /\ row.attempts = x.attempts
    BY <1>2 DEF MediaRow
  <2> HIDE DEF row
  <2> QED
    BY <1>1, <1>2, <2>1, <2>2, <2>3, EndedStep
<1>4. CASE Retry(r)
  <2> DEFINE last == LastAttempt(i, runner[r].held)
             st == IF last THEN "FAILED" ELSE "PENDING"
             due == IF last THEN x.due ELSE FALSE
             row == [x EXCEPT !.status = st, !.due = due, !.lock = 0]
  <2>1. Ended(r, row)
    BY <1>4 DEF Retry
  <2> HIDE DEF x
  <2>2. last <=> runner[r].held >= MaxAttempts[i]
    BY DEF LastAttempt
  <2>3. due \in BOOLEAN
    BY <1>2 DEF MediaRow
  <2>4. st \in {"PENDING", "FAILED"} /\ (st = "PENDING" => runner[r].held < MaxAttempts[i])
    BY <1>2, <2>2
  <2> HIDE DEF st, due, last
  <2>5. row \in MediaRow
    BY <1>2, <2>3, <2>4, MediaRowChanges
  <2>6. row.status = st /\ row.attempts = x.attempts
    BY <1>2 DEF MediaRow
  <2> HIDE DEF row
  <2> QED
    BY <1>1, <1>2, <2>1, <2>4, <2>5, <2>6, EndedStep
<1>5. CASE Fail(r)
  <2> DEFINE row == [x EXCEPT !.status = "FAILED", !.lock = 0]
  <2>1. Ended(r, row)
    BY <1>5 DEF Fail
  <2> HIDE DEF x
  <2>2. row \in MediaRow
    BY <1>2, MediaRowChanges
  <2>3. row.status = "FAILED" /\ row.attempts = x.attempts
    BY <1>2 DEF MediaRow
  <2> HIDE DEF row
  <2> QED
    BY <1>1, <1>2, <2>1, <2>2, <2>3, EndedStep
<1> QED
  BY <1>3, <1>4, <1>5

\* The attempt that msghub's authentication failed is given back.
LEMMA StopStep ==
  ASSUME MediaInv, NEW r \in Runners, Stop(r)
  PROVE  MediaInv'
<1> DEFINE i == runner[r].row
           x == media[i]
           a == GivenBack(runner[r].held)
           row == [x EXCEPT !.status = "PENDING", !.lock = 0, !.attempts = a]
<1>1. runner[r].row # NoMedia
  BY MoMediaAssumption, MediaNumbers DEF Stop
<1>2. media' = [media EXCEPT ![i] = row] /\ runner' = [runner EXCEPT ![r] = Idle]
      /\ spent' = spent
  BY DEF Stop
<1>3. /\ i \in MediaRows /\ x \in MediaRow /\ x.attempts = runner[r].held
      /\ runner[r].held = spent[i] + 1 /\ spent \in [MediaRows -> Nat]
      /\ runner[r].held <= MaxAttempts[i] /\ MaxAttempts[i] \in Nat
  BY <1>1, RunFacts, MediaNumbers
<1>4. a = spent[i] /\ a \in Nat /\ a < MaxAttempts[i] /\ a <= x.attempts
  <2>1. spent[i] \in Nat
    BY <1>3
  <2> HIDE DEF x
  <2> QED
    BY <1>3, <2>1 DEF GivenBack
<1> HIDE DEF x, a
<1>5. row \in MediaRow
  BY <1>3, <1>4, MediaRowChanges
<1>6. row.status = "PENDING" /\ row.attempts = a
  BY <1>3 DEF MediaRow
<1> HIDE DEF row
<1>7. MediaFits([media EXCEPT ![i] = row], [runner EXCEPT ![r] = Idle], spent)
  <2>1. a <= media[i].attempts
    BY <1>4 DEF x
  <2> QED
    BY <1>1, <1>3, <1>4, <1>5, <1>6, <2>1, EndFits DEF MediaInv
<1> QED
  BY <1>2, <1>7 DEF MediaInv

LEMMA BackoffStep ==
  ASSUME MediaInv, NEW i \in MediaRows, BackoffElapses(i)
  PROVE  MediaInv'
<1> DEFINE x == media[i]
           row == [x EXCEPT !.due = TRUE]
           m2 == [media EXCEPT ![i] = row]
<1>1. media' = m2 /\ UNCHANGED <<runner, spent>>
  BY DEF BackoffElapses
<1>2. media \in [MediaRows -> MediaRow] /\ x \in MediaRow
  BY DEF MediaInv, MediaFits, MediaTypes
<1>3. row \in MediaRow /\ row.attempts = x.attempts /\ row.status = x.status
      /\ row.lock = x.lock
  <2> HIDE DEF x
  <2>1. row \in MediaRow
    BY <1>2, MediaRowChanges
  <2> QED
    BY <1>2, <2>1 DEF MediaRow
<1> HIDE DEF row
<1>4. m2 \in [MediaRows -> MediaRow]
      /\ \A j \in MediaRows : /\ m2[j].attempts = media[j].attempts
                              /\ m2[j].status = media[j].status
                              /\ m2[j].lock = media[j].lock
  BY <1>2, <1>3
<1> HIDE DEF m2
<1>5. MediaTypes(m2, runner, spent)
  BY <1>4 DEF MediaInv, MediaFits, MediaTypes
<1>6. \A r \in Runners : runner[r].row # NoMedia => runner[r].row \in MediaRows
  BY DEF MediaInv, MediaFits, MediaTypes, MediaRun
<1>7. RunsHold(m2, runner)
  BY <1>4, <1>6 DEF MediaInv, MediaFits, RunsHold, Holds
<1>8. AttemptsTell(m2, runner, spent)
  BY <1>4 DEF MediaInv, MediaFits, AttemptsTell
<1> QED
  BY <1>1, <1>5, <1>7, <1>8 DEF MediaInv, MediaFits

\* A tick: no run waits for a second one before its row ends.
LEMMA TickStep ==
  ASSUME MediaInv, Tick
  PROVE  MediaInv'
<1> DEFINE m2 == media'
           R2 == runner'
           aged(x) == [x EXCEPT !.lock = Older(x.lock)]
           ticked(run) == [run EXCEPT !.age = Older(run.age), !.waited = TRUE]
<1>1. media \in [MediaRows -> MediaRow] /\ runner \in [Runners -> MediaRun]
      /\ spent \in [MediaRows -> Nat]
  BY DEF MediaInv, MediaFits, MediaTypes
<1>2. /\ m2 = [i \in MediaRows |->
              IF media[i].status = "FETCHING" THEN aged(media[i]) ELSE media[i]]
      /\ R2 = [r \in Runners |->
              IF runner[r].row # NoMedia THEN ticked(runner[r]) ELSE runner[r]]
      /\ spent' = spent
      /\ \A r \in Runners : ~runner[r].waited
  BY DEF Tick
<1>3. \A a \in Nat : Older(a) \in Nat /\ Older(a) <= a + 1
  BY MediaNumbers DEF Older
<1>4. ASSUME NEW x \in MediaRow
      PROVE  /\ aged(x) \in MediaRow /\ aged(x).attempts = x.attempts
             /\ aged(x).status = x.status /\ aged(x).lock = Older(x.lock)
  <2>1. Older(x.lock) \in Nat
    BY <1>3 DEF MediaRow
  <2> DEFINE l == Older(x.lock)
  <2> HIDE DEF l
  <2>2. [x EXCEPT !.lock = l] \in MediaRow
    BY <2>1, MediaRowChanges DEF l
  <2>3. [x EXCEPT !.lock = l].attempts = x.attempts /\ [x EXCEPT !.lock = l].status = x.status
        /\ [x EXCEPT !.lock = l].lock = l
    BY DEF MediaRow
  <2> QED
    BY <2>2, <2>3 DEF l
<1>5. ASSUME NEW run \in MediaRun
      PROVE  /\ ticked(run) \in MediaRun /\ ticked(run).row = run.row
             /\ ticked(run).held = run.held /\ ticked(run).todo = run.todo
             /\ ticked(run).age = Older(run.age) /\ ticked(run).waited = TRUE
  <2> DEFINE a == Older(run.age)
  <2>1. a \in Nat
    BY <1>3 DEF MediaRun
  <2> HIDE DEF a
  <2>2. [run EXCEPT !.age = a] \in MediaRun
    BY <2>1 DEF MediaRun
  <2>3. \A q \in MediaRun : [q EXCEPT !.waited = TRUE] \in MediaRun
    BY DEF MediaRun
  <2>4. [run EXCEPT !.age = a, !.waited = TRUE] = [[run EXCEPT !.age = a] EXCEPT !.waited = TRUE]
    BY DEF MediaRun
  <2>5. [run EXCEPT !.age = a, !.waited = TRUE] \in MediaRun
    BY <2>2, <2>3, <2>4
  <2>6. /\ [run EXCEPT !.age = a, !.waited = TRUE].row = run.row
        /\ [run EXCEPT !.age = a, !.waited = TRUE].held = run.held
        /\ [run EXCEPT !.age = a, !.waited = TRUE].todo = run.todo
        /\ [run EXCEPT !.age = a, !.waited = TRUE].age = a
        /\ [run EXCEPT !.age = a, !.waited = TRUE].waited = TRUE
    BY DEF MediaRun
  <2> QED
    BY <2>5, <2>6 DEF a
<1> HIDE DEF m2, R2, aged, ticked
<1>6. m2 \in [MediaRows -> MediaRow] /\ R2 \in [Runners -> MediaRun]
  BY <1>1, <1>2, <1>4, <1>5
<1>7. \A i \in MediaRows :
        /\ m2[i].attempts = media[i].attempts /\ m2[i].status = media[i].status
        /\ media[i].status = "FETCHING" => m2[i].lock = Older(media[i].lock)
  BY <1>1, <1>2, <1>4
<1>8. \A r \in Runners :
        /\ R2[r].row = runner[r].row
        /\ runner[r].row # NoMedia => R2[r] = ticked(runner[r])
  BY <1>1, <1>2, <1>5
<1>9. ASSUME NEW r \in Runners, R2[r].row # NoMedia
      PROVE  Holds(m2[R2[r].row], R2[r]) /\ OnTime(R2[r])
  <2> DEFINE run == runner[r]
             i == run.row
  <2>1. run \in MediaRun /\ i \in MediaRows /\ i # NoMedia /\ R2[r].row = i
        /\ R2[r] = ticked(run) /\ run.waited = FALSE
    BY <1>1, <1>2, <1>8, <1>9 DEF MediaRun
  <2>2. Holds(media[i], run) /\ OnTime(run)
    BY <2>1 DEF MediaInv, MediaFits, RunsHold
  <2>3. run.age \in Nat /\ Cardinality(run.todo) \in Nat
    BY <2>1, MediaNumbers DEF MediaRun
  <2>4. /\ R2[r].held = run.held /\ R2[r].todo = run.todo /\ R2[r].age = Older(run.age)
        /\ R2[r].waited = TRUE
    BY <1>5, <2>1
  <2>5. Holds(m2[i], R2[r])
    BY <1>7, <2>1, <2>2, <2>4 DEF Holds
  <2>6. OnTime(R2[r])
    <3>1. run.age + Cardinality(run.todo) + 1 <= LockTimeout
      BY <2>1, <2>2 DEF OnTime
    <3>2. Older(run.age) \in Nat /\ Older(run.age) <= run.age + 1
      BY <1>3, <2>3
    <3> DEFINE a == Older(run.age)
               c == Cardinality(run.todo)
    <3>3. a + c + 0 <= LockTimeout
      <4>1. a \in Nat /\ a <= run.age + 1 /\ c \in Nat /\ run.age + c + 1 <= LockTimeout
            /\ run.age \in Nat /\ LockTimeout \in Nat
        BY <2>3, <3>1, <3>2, MediaNumbers
      <4> HIDE DEF a, c, run
      <4> QED
        BY <4>1
    <3> QED
      BY <2>4, <3>3 DEF OnTime
  <2> QED
    BY <2>1, <2>5, <2>6
<1>10. RunsHold(m2, R2)
  BY <1>9 DEF RunsHold
<1>11. RunsApart(R2)
  BY <1>8 DEF MediaInv, MediaFits, RunsApart
<1>12. \A i : Downloading(R2, i) <=> Downloading(runner, i)
  BY <1>8 DEF Downloading
<1>13. AttemptsTell(m2, R2, spent)
  BY <1>7, <1>12 DEF MediaInv, MediaFits, AttemptsTell
<1> QED
  BY <1>1, <1>2, <1>6, <1>10, <1>11, <1>13 DEF MediaInv, MediaFits, MediaTypes, m2, R2

LEMMA MediaRestartStep ==
  ASSUME MediaInv, MediaRestart
  PROVE  MediaInv'
<1> DEFINE R2 == runner'
           sp2 == spent'
<1>1. /\ media \in [MediaRows -> MediaRow] /\ spent \in [MediaRows -> Nat]
      /\ RunsApart(runner)
  BY DEF MediaInv, MediaFits, MediaTypes
<1>2. /\ R2 = [r \in Runners |-> Idle] /\ media' = media
      /\ sp2 = [i \in MediaRows |->
                  spent[i] + Cardinality({r \in Runners : runner[r].row = i})]
  BY DEF MediaRestart
<1> HIDE DEF R2, sp2
<1>3. \A i \in MediaRows : sp2[i] = spent[i] + (IF Downloading(runner, i) THEN 1 ELSE 0)
  BY <1>1, <1>2, RunsOfARow
<1>4. sp2 = [i \in MediaRows |-> sp2[i]]
  BY <1>2
<1>5. \A i \in MediaRows : sp2[i] \in Nat /\ sp2[i] = media[i].attempts
  BY <1>1, <1>3 DEF MediaInv, MediaFits, AttemptsTell
<1>6. Idle \in MediaRun /\ Idle.row = NoMedia
  BY DEF Idle, MediaRun
<1>7. \A r \in Runners : R2[r].row = NoMedia
  BY <1>2, <1>6
<1>8. MediaTypes(media, R2, sp2)
  BY <1>1, <1>2, <1>4, <1>5, <1>6 DEF MediaTypes
<1>9. RunsHold(media, R2) /\ RunsApart(R2)
  BY <1>7 DEF RunsHold, RunsApart
<1>10. \A i \in MediaRows : ~Downloading(R2, i)
  BY <1>7, MediaNumbers DEF Downloading
<1>11. AttemptsTell(media, R2, sp2)
  <2> SUFFICES ASSUME NEW j \in MediaRows
               PROVE  /\ media[j].attempts = sp2[j] + (IF Downloading(R2, j) THEN 1 ELSE 0)
                      /\ media[j].attempts <= MaxAttempts[j]
                      /\ media[j].status = "PENDING" => media[j].attempts < MaxAttempts[j]
                      /\ media[j].status = "NONE" => media[j].attempts = 0
    BY DEF AttemptsTell
  <2>1. media[j].attempts = sp2[j] + 0
    BY <1>5
  <2> QED
    BY <1>10, <2>1 DEF MediaInv, MediaFits, AttemptsTell
<1> QED
  BY <1>2, <1>8, <1>9, <1>11 DEF MediaInv, MediaFits, R2, sp2

LEMMA MediaNextKeeps ==
  ASSUME ShortRuns, MediaInv, [MediaNext]_mediaVars
  PROVE  MediaInv'
<1>1. CASE UNCHANGED mediaVars
  BY <1>1 DEF MediaInv, mediaVars
<1>2. CASE \E msghub \in BOOLEAN :
             \/ StartCycle(msghub)
             \/ \E r \in Webhooks, ids \in SUBSET MediaRows : ReceiveFiles(r, ids, msghub)
  BY <1>2, CycleStep, ReceiveStep
<1>3. CASE \E ids \in SUBSET MediaRows : ReceiveFilesAndDie(ids)
  BY <1>3, ReceiveAndDieStep
<1>4. CASE \E r \in Runners : Fetched(r) \/ Retry(r) \/ Fail(r) \/ Stop(r)
  BY <1>4, DownloadStep, StopStep
<1>5. CASE \E i \in MediaRows : BackoffElapses(i)
  BY <1>5, BackoffStep
<1>6. CASE Tick
  BY <1>6, TickStep
<1>7. CASE MediaRestart
  BY <1>7, MediaRestartStep
<1> QED
  BY <1>1, <1>2, <1>3, <1>4, <1>5, <1>6, <1>7 DEF MediaNext

\* The invariant of attachments, whatever runs overlap.
THEOREM MediaInvariance ==
  ASSUME ShortRuns
  PROVE  MediaSpec => []MediaInv
BY MediaInitHolds, MediaNextKeeps, PTL DEF MediaSpec

\* fetch_pending: while a run has no more rows than its locks have ticks,
\* no attachment is downloaded by two runs at a time.
THEOREM NoFileTwiceAtATime ==
  ASSUME ShortRuns
  PROVE  MediaSpec => []OneDownloadAtATime
<1>1. MediaInv => OneDownloadAtATime
  BY DEF MediaInv, MediaFits, RunsApart, OneDownloadAtATime
<1> QED
  BY <1>1, MediaInvariance, PTL

\* _claim, _fetch_one and the release of stale locks: the attempts of an
\* attachment are those that were spent on it, whatever restarts cut off.
THEOREM AttemptsAreWhatWasSpent ==
  ASSUME ShortRuns
  PROVE  MediaSpec => []AttemptsAreSpent
<1>1. ASSUME MediaInv PROVE AttemptsAreSpent
  <2>1. \A i \in MediaRows : Cardinality({r \in Runners : runner[r].row = i})
                               = IF Downloading(runner, i) THEN 1 ELSE 0
    BY <1>1, RunsOfARow DEF MediaInv, MediaFits
  <2> QED
    BY <1>1, <2>1 DEF AttemptsAreSpent, MediaInv, MediaFits, AttemptsTell
<1> QED
  BY <1>1, MediaInvariance, PTL

(***************************************************************************)
(* The read marker (module Inbox), for any batches of answers, numbers,    *)
(* browsers and conversations.                                             *)
(***************************************************************************)
\* The callers and customers of the open conversations.
Ours == Range(ViewCaller)
Customers == Range(View)

\* Rows are only appended, and each refresh of a browser shows a longer or
\* the same table.
ScreensAreOfTheTable ==
  \A b \in Browsers :
    /\ screen[b] <= Len(mos)
    /\ fetch[b].underway => screen[b] <= fetch[b].upto /\ fetch[b].upto <= Len(mos)

\* What is reported as read has been shown.
ReportsAreShown ==
  \A r \in reads : r.id <= screen[r.by]

\* And so has been what a marker says.
MarksAreShown ==
  \A c \in Ours, p \in Customers :
    marks[c][p] = 0 \/ \E b \in Browsers : View[b] = p /\ marks[c][p] <= screen[b]

InboxTypeOK ==
  /\ mos \in Seq(Range(mos))
  /\ screen \in [Browsers -> Nat]
  /\ fetch \in [Browsers -> [wanted : BOOLEAN, underway : BOOLEAN, upto : Nat]]
  /\ reads \subseteq [by : Browsers, id : Nat]
  /\ marks \in [Ours -> [Customers -> Nat]]

InboxInv == InboxTypeOK /\ ScreensAreOfTheTable /\ ReportsAreShown /\ MarksAreShown

-----------------------------------------------------------------------------
\* A set of numbers that none exceeds has a greatest.
LEMMA GreatestMember ==
  ASSUME NEW n \in Nat, NEW S \in SUBSET (0..n), S # {}
  PROVE  Max(S) \in S /\ \A x \in S : Max(S) >= x
<1> DEFINE T == {k \in 0..n : n - k \in S}
<1>1. T \in SUBSET Nat /\ \A y \in S : n - y \in T
  OBVIOUS
<1>2. T # {}
  BY <1>1
<1>3. PICK k \in T : \A j \in T : k <= j
  <2> HIDE DEF T
  <2> QED
    BY <1>1, <1>2, LeastMember
<1>4. n - k \in S /\ \A y \in S : n - k >= y
  BY <1>1, <1>3
<1> QED
  BY <1>4 DEF Max

LEMMA LastOfIsBefore ==
  ASSUME NEW p, NEW n \in Nat
  PROVE  LastOf(p, n) \in 0..n
<1> DEFINE S == {0} \cup {i \in 1..n : mos[i].number = p}
<1>1. S \in SUBSET (0..n) /\ S # {}
  OBVIOUS
<1> HIDE DEF S
<1>2. Max(S) \in 0..n
  BY <1>1, GreatestMember
<1> QED
  BY <1>2 DEF LastOf, S

LEMMA NewRowsAreASequence ==
  ASSUME NEW batch \in Batches
  PROVE  NewRows(batch) \in Seq(Range(NewRows(batch)))
<1>1. batch \in Seq(Range(batch))
  BY InboxAssumption
<1>2. NewIn(batch) \subseteq 1..Len(batch) /\ Len(batch) \in Nat
  BY <1>1 DEF NewIn
<1>3. IsFiniteSet(1..Len(batch))
  BY <1>2, FS_Interval
<1>4. IsFiniteSet(NewIn(batch))
  BY <1>2, <1>3, FS_Subset
<1>5. Cardinality(NewIn(batch)) \in Nat
  BY <1>4, FS_CardinalityType
<1> DEFINE n == Cardinality(NewIn(batch))
           row(k) == MoRow[batch[Kth(NewIn(batch), k)]]
           rows == [k \in 1..n |-> row(k)]
<1>6. rows = NewRows(batch)
  BY DEF NewRows
<1>7. n \in Nat
  BY <1>5
<1> HIDE DEF n, row
<1>8. rows \in [1..n -> Range(rows)]
  BY DEF Range
<1> HIDE DEF rows
<1>9. rows \in Seq(Range(rows))
  BY <1>7, <1>8
<1> QED
  BY <1>6, <1>9

LEMMA Appended ==
  ASSUME NEW s, NEW t, s \in Seq(Range(s)), t \in Seq(Range(t))
  PROVE  /\ s \o t \in Seq(Range(s \o t))
         /\ Len(s) <= Len(s \o t)
<1> DEFINE S == Range(s) \cup Range(t)
<1>1. s \in Seq(S) /\ t \in Seq(S)
  OBVIOUS
<1> HIDE DEF S
<1>2. s \o t \in Seq(S)
  BY <1>1
<1>3. Len(s \o t) = Len(s) + Len(t) /\ Len(s) \in Nat /\ Len(t) \in Nat
  BY <1>1
<1> DEFINE u == s \o t
<1>4. u \in Seq(S)
  BY <1>2
<1> HIDE DEF u
<1>5. u \in Seq(Range(u))
  BY <1>4 DEF Range
<1> QED
  BY <1>3, <1>5 DEF u

LEMMA InboxInitHolds == Init => InboxInv
<1> SUFFICES ASSUME Init PROVE InboxInv
  OBVIOUS
<1>1. mos \in Seq(Range(mos)) /\ Len(mos) = 0
  BY DEF Init
<1>2. marks = [c \in Ours |-> [p \in Customers |-> 0]]
  BY DEF Init, Ours, Customers
<1>3. InboxTypeOK
  BY <1>1, <1>2 DEF Init, InboxTypeOK, NotFetching
<1>4. ScreensAreOfTheTable /\ ReportsAreShown
  BY <1>1 DEF Init, NotFetching, ScreensAreOfTheTable, ReportsAreShown
<1>5. MarksAreShown
  BY <1>2 DEF MarksAreShown
<1> QED
  BY <1>3, <1>4, <1>5 DEF InboxInv

\* receive_mo only appends.
LEMMA ReceiveMoKeeps ==
  ASSUME InboxInv, NEW batch \in Batches, ReceiveMo(batch)
  PROVE  InboxInv'
<1>1. mos' \in Seq(Range(mos')) /\ Len(mos) <= Len(mos')
  BY NewRowsAreASequence, Appended DEF ReceiveMo, InboxInv, InboxTypeOK
<1>2. Len(mos) \in Nat /\ Len(mos') \in Nat
  BY <1>1 DEF InboxInv, InboxTypeOK
<1>3. UNCHANGED <<screen, fetch, reads, marks>>
  BY DEF ReceiveMo
<1>4. InboxTypeOK'
  BY <1>1, <1>3 DEF InboxInv, InboxTypeOK
<1>5. ScreensAreOfTheTable'
  BY <1>1, <1>2, <1>3 DEF InboxInv, InboxTypeOK, ScreensAreOfTheTable
<1>6. ReportsAreShown' /\ MarksAreShown'
  BY <1>3 DEF InboxInv, ReportsAreShown, MarksAreShown
<1> QED
  BY <1>4, <1>5, <1>6 DEF InboxInv

\* A step that leaves the table, the screens, the reports and the markers
\* alone, and starts no refresh.
LEMMA OnlyWanted ==
  ASSUME InboxInv, UNCHANGED <<mos, screen, reads, marks>>,
         fetch' \in [Browsers -> [wanted : BOOLEAN, underway : BOOLEAN, upto : Nat]],
         \A b \in Browsers : fetch'[b].underway =>
                               fetch[b].underway /\ fetch'[b].upto = fetch[b].upto
  PROVE  InboxInv'
<1>1. InboxTypeOK'
  BY DEF InboxInv, InboxTypeOK
<1>2. ScreensAreOfTheTable'
  BY DEF InboxInv, ScreensAreOfTheTable
<1>3. ReportsAreShown' /\ MarksAreShown'
  BY DEF InboxInv, ReportsAreShown, MarksAreShown
<1> QED
  BY <1>1, <1>2, <1>3 DEF InboxInv

LEMMA Wanted ==
  ASSUME InboxTypeOK, NEW b \in Browsers, Want(b)
  PROVE  /\ fetch' \in [Browsers -> [wanted : BOOLEAN, underway : BOOLEAN, upto : Nat]]
         /\ \A c \in Browsers : /\ fetch'[c].underway = fetch[c].underway
                                /\ fetch'[c].upto = fetch[c].upto
<1>1. [fetch[b] EXCEPT !.wanted = TRUE] \in [wanted : BOOLEAN, underway : BOOLEAN, upto : Nat]
  BY DEF InboxTypeOK
<1>2. fetch' = [fetch EXCEPT ![b] = [fetch[b] EXCEPT !.wanted = TRUE]]
  BY DEF Want, InboxTypeOK
<1> QED
  BY <1>1, <1>2 DEF InboxTypeOK

LEMMA StartFetchKeeps ==
  ASSUME InboxInv, NEW b \in Browsers, StartFetch(b)
  PROVE  InboxInv'
<1>1. Len(mos) \in Nat
  BY DEF InboxInv, InboxTypeOK
<1>2. UNCHANGED <<mos, screen, reads, marks>>
  BY DEF StartFetch
<1> DEFINE started == [wanted |-> FALSE, underway |-> TRUE, upto |-> Len(mos)]
<1>3. started \in [wanted : BOOLEAN, underway : BOOLEAN, upto : Nat]
  BY <1>1
<1>4. fetch' = [fetch EXCEPT ![b] = started]
  BY DEF StartFetch
<1>5. started.upto = Len(mos)
  OBVIOUS
<1> HIDE DEF started
<1>6. InboxTypeOK'
  BY <1>2, <1>3, <1>4 DEF InboxInv, InboxTypeOK
<1>7. ScreensAreOfTheTable'
  BY <1>1, <1>2, <1>4, <1>5 DEF InboxInv, InboxTypeOK, ScreensAreOfTheTable
<1>8. ReportsAreShown' /\ MarksAreShown'
  BY <1>2 DEF InboxInv, ReportsAreShown, MarksAreShown
<1> QED
  BY <1>6, <1>7, <1>8 DEF InboxInv

\* ThreadView reports a message of the answer that it shows.
LEMMA RenderKeeps ==
  ASSUME InboxInv, NEW b \in Browsers, Render(b)
  PROVE  InboxInv'
<1> DEFINE shown == fetch[b].upto
           id == LastInbound(b)
           after == [NotFetching EXCEPT !.wanted = fetch[b].wanted]
<1>1. /\ shown \in Nat /\ Len(mos) \in Nat
      /\ screen[b] <= shown /\ shown <= Len(mos)
  BY DEF Render, InboxInv, InboxTypeOK, ScreensAreOfTheTable
<1>2. id \in 0..shown
  BY <1>1, LastOfIsBefore DEF LastInbound
<1>3. after \in [wanted : BOOLEAN, underway : BOOLEAN, upto : Nat] /\ ~after.underway
  BY DEF NotFetching, InboxInv, InboxTypeOK
<1>4. /\ screen' = [screen EXCEPT ![b] = shown]
      /\ fetch' = [fetch EXCEPT ![b] = after]
      /\ reads' \in {reads, reads \cup {[by |-> b, id |-> id]}}
      /\ UNCHANGED <<mos, marks>>
  BY DEF Render
<1> HIDE DEF shown, id, after
<1>5. \A c \in Browsers : screen[c] <= screen'[c]
  BY <1>1, <1>4 DEF InboxInv, InboxTypeOK
<1>6. InboxTypeOK'
  BY <1>1, <1>2, <1>3, <1>4 DEF InboxInv, InboxTypeOK
<1>7. ScreensAreOfTheTable'
  BY <1>1, <1>3, <1>4 DEF InboxInv, InboxTypeOK, ScreensAreOfTheTable
<1>8. ReportsAreShown'
  <2> SUFFICES ASSUME NEW r \in reads' PROVE r.id <= screen'[r.by]
    BY DEF ReportsAreShown
  <2>1. CASE r \in reads
    <3>1. r.by \in Browsers /\ r.id \in Nat /\ r.id <= screen[r.by]
      BY <2>1 DEF InboxInv, InboxTypeOK, ReportsAreShown
    <3>2. screen[r.by] \in Nat /\ screen'[r.by] \in Nat /\ screen[r.by] <= screen'[r.by]
      BY <1>5, <1>6, <3>1 DEF InboxInv, InboxTypeOK
    <3> QED
      BY <3>1, <3>2
  <2>2. CASE r = [by |-> b, id |-> id]
    BY <1>1, <1>2, <1>4, <2>2 DEF InboxInv, InboxTypeOK
  <2> QED
    BY <1>4, <2>1, <2>2
<1>9. MarksAreShown'
  <2> SUFFICES ASSUME NEW c \in Ours, NEW p \in Customers, marks[c][p] # 0
               PROVE  \E d \in Browsers : View[d] = p /\ marks[c][p] <= screen'[d]
    BY <1>4 DEF MarksAreShown
  <2>1. PICK d \in Browsers : View[d] = p /\ marks[c][p] <= screen[d]
    BY DEF InboxInv, MarksAreShown
  <2>2. marks[c][p] \in Nat /\ screen[d] \in Nat /\ screen'[d] \in Nat
    BY <1>6 DEF InboxInv, InboxTypeOK
  <2> QED
    BY <1>5, <2>1, <2>2
<1> QED
  BY <1>6, <1>7, <1>8, <1>9 DEF InboxInv

\* api_mark_read moves one marker, to a message that its browser has shown.
LEMMA MarkReadKeeps ==
  ASSUME InboxInv, NEW r \in reads, MarkRead(r)
  PROVE  InboxInv'
<1> DEFINE a == ViewCaller[r.by]
           q == View[r.by]
<1>1. r.by \in Browsers /\ r.id \in Nat /\ r.id <= screen[r.by]
  BY DEF InboxInv, InboxTypeOK, ReportsAreShown
<1>2. a \in Ours /\ q \in Customers
  BY <1>1, InboxAssumption DEF Ours, Customers, Range
<1>3. /\ marks' \in {marks, [marks EXCEPT ![a][q] = LaterOf(@, r.id)]}
      /\ reads' \subseteq reads
      /\ UNCHANGED <<mos, screen>>
      /\ Want(r.by)
  BY DEF MarkRead
<1>4. /\ fetch' \in [Browsers -> [wanted : BOOLEAN, underway : BOOLEAN, upto : Nat]]
      /\ \A c \in Browsers : /\ fetch'[c].underway = fetch[c].underway
                             /\ fetch'[c].upto = fetch[c].upto
  BY <1>1, <1>3, Wanted DEF InboxInv
<1>5. q = View[r.by]
  OBVIOUS
<1> HIDE DEF a, q
<1>6. marks \in [Ours -> [Customers -> Nat]] /\ LaterOf(marks[a][q], r.id) \in {marks[a][q], r.id}
  BY DEF InboxInv, InboxTypeOK, LaterOf
<1>7. /\ marks' \in [Ours -> [Customers -> Nat]]
      /\ \A c \in Ours, p \in Customers :
           marks'[c][p] = marks[c][p] \/ (p = q /\ marks'[c][p] = r.id)
  BY <1>1, <1>2, <1>3, <1>6
<1>8. InboxTypeOK'
  BY <1>3, <1>4, <1>7 DEF InboxInv, InboxTypeOK
<1>9. ScreensAreOfTheTable'
  BY <1>3, <1>4 DEF InboxInv, ScreensAreOfTheTable
<1>10. ReportsAreShown'
  BY <1>3 DEF InboxInv, ReportsAreShown
<1>11. MarksAreShown'
  BY <1>1, <1>3, <1>5, <1>7 DEF InboxInv, MarksAreShown
<1> QED
  BY <1>8, <1>9, <1>10, <1>11 DEF InboxInv

LEMMA InboxRestartKeeps == ASSUME InboxInv, Restart PROVE InboxInv'
<1>1. reads' = {} /\ UNCHANGED <<mos, marks, screen>> /\ fetch' = [b \in Browsers |-> NotFetching]
  BY DEF Restart
<1>2. NotFetching \in [wanted : BOOLEAN, underway : BOOLEAN, upto : Nat] /\ ~NotFetching.underway
  BY DEF NotFetching
<1>3. InboxTypeOK'
  BY <1>1, <1>2 DEF InboxInv, InboxTypeOK
<1>4. ScreensAreOfTheTable'
  BY <1>1, <1>2 DEF InboxInv, ScreensAreOfTheTable
<1>5. ReportsAreShown' /\ MarksAreShown'
  BY <1>1 DEF InboxInv, ReportsAreShown, MarksAreShown
<1> QED
  BY <1>3, <1>4, <1>5 DEF InboxInv

LEMMA InboxNextKeeps == InboxInv /\ [Next]_vars => InboxInv'
<1> SUFFICES ASSUME InboxInv, [Next]_vars PROVE InboxInv'
  OBVIOUS
<1>1. ASSUME UNCHANGED <<mos, screen, reads, marks, fetch>> PROVE InboxInv'
  BY <1>1, OnlyWanted DEF InboxInv, InboxTypeOK
<1>2. ASSUME NEW b \in Browsers, Want(b), UNCHANGED <<mos, screen, reads, marks>>
      PROVE  InboxInv'
  BY <1>2, OnlyWanted, Wanted DEF InboxInv
<1>3. CASE \E batch \in Batches : ReceiveMo(batch)
  BY <1>3, ReceiveMoKeeps
<1>4. CASE ThreadUpdated \/ \E e \in Events : WindowEnds(e) \/ PublishTrailing(e)
  BY <1>1, <1>4 DEF ThreadUpdated, WindowEnds, PublishTrailing
<1>5. ASSUME NEW b \in Browsers, BrowserStep(b) \/ Load(b) \/ Break(b)
      PROVE  InboxInv'
  <2>1. CASE Connect(b) \/ Break(b)
    BY <1>1, <2>1 DEF Connect, Break
  <2>2. CASE Opened(b) \/ Load(b)
    BY <1>2, <2>2 DEF Opened, CaughtUp, Load
  <2>3. CASE Deliver(b)
    BY <1>1, <1>2, <2>3 DEF Deliver
  <2>4. CASE StartFetch(b)
    BY <2>4, StartFetchKeeps
  <2>5. CASE Render(b)
    BY <2>5, RenderKeeps
  <2> QED
    BY <1>5, <2>1, <2>2, <2>3, <2>4, <2>5 DEF BrowserStep
<1>6. CASE \E r \in reads : MarkRead(r)
  BY <1>6, MarkReadKeeps
<1>7. CASE Restart
  BY <1>7, InboxRestartKeeps
<1>8. CASE UNCHANGED vars
  BY <1>1, <1>8 DEF vars
<1> QED
  BY <1>3, <1>4, <1>5, <1>6, <1>7, <1>8 DEF Next

\* The rows only grow, a browser shows a part of them from the first on, and
\* what is reported as read, or marked as read, a browser has shown.
THEOREM InboxInvariance == Spec => []InboxInv
BY InboxInitHolds, InboxNextKeeps, PTL DEF Spec

\* api_mark_read and thread_unread: the marker of a customer, the highest of
\* all callers', covers no answer that none of the open browsers has shown.
THEOREM MarkersCoverWhatWasShown == Spec => []ReadMeansShown
<1>1. ASSUME InboxInv PROVE ReadMeansShown
  <2> SUFFICES ASSUME NEW i \in MoIds, mos[i].number \in Customers,
                      i <= Marker(mos[i].number)
               PROVE  \E b \in Browsers : View[b] = mos[i].number /\ i <= screen[b]
    BY DEF ReadMeansShown, Customers
  <2> DEFINE p == mos[i].number
             S == {marks[c][p] : c \in Ours}
  <2>1. i \in Nat /\ i > 0
    BY <1>1 DEF InboxInv, InboxTypeOK, MoIds
  <2>2. \A c \in Ours : marks[c][p] \in 0..Len(mos) /\ Len(mos) \in Nat
    BY <1>1 DEF InboxInv, InboxTypeOK, ScreensAreOfTheTable, MarksAreShown
  <2>3. Ours # {}
    BY InboxAssumption DEF Ours, Customers, Range
  <2>4. S \in SUBSET (0..Len(mos)) /\ S # {} /\ Len(mos) \in Nat
    BY <2>2, <2>3
  <2>5. Max(S) \in S
    <3> HIDE DEF S
    <3> QED
      BY <2>4, GreatestMember
  <2>6. PICK c \in Ours : marks[c][p] = Marker(p)
    BY <2>5 DEF Marker, Ours
  <2>7. marks[c][p] \in Nat /\ i <= marks[c][p] /\ marks[c][p] # 0
    BY <2>1, <2>2, <2>6
  <2>8. PICK b \in Browsers : View[b] = p /\ marks[c][p] <= screen[b]
    BY <1>1, <2>7 DEF InboxInv, MarksAreShown
  <2>9. screen[b] \in Nat
    BY <1>1 DEF InboxInv, InboxTypeOK
  <2> QED
    BY <2>1, <2>7, <2>8, <2>9
<1> QED
  BY <1>1, InboxInvariance, PTL

(***************************************************************************)
(* The list of conversations (module Threads), for any rows of messages    *)
(* and answers.  The list compares texts within a shape and instants       *)
(* across shapes, the conversation sorts by instants: both end with the    *)
(* row of the greatest rank (LatestOf), if there is one.                   *)
(***************************************************************************)
ThreadsTypeOK ==
  /\ \A m \in Chats : mts[m] = [sent |-> mts[m].sent, result |-> mts[m].result,
                                at |-> mts[m].at, cost |-> mts[m].cost]
  /\ \A m \in Chats : mts[m].sent \in Times /\ mts[m].at \in Times \cup {NoTime}
  /\ moTable \in Seq(Answers)

LEMMA RanksOfTimes ==
  ASSUME NEW t \in Times
  PROVE  /\ Rank(t) \in Nat \ {0} /\ Text(t) \in Nat
         /\ Readable(t) => Rank(t) >= 2 /\ Rank(t) = 2 + t.at /\ t.at \in Nat
         /\ ~Readable(t) => Rank(t) = 1
BY ThreadsAssumption DEF Times, Rank, Text, Readable

\* Texts of one shape are in the order of time.
LEMMA TextsTell ==
  ASSUME NEW t \in Times, NEW u \in Times, ShapeOf(t) = ShapeOf(u), Rank(t) < Rank(u)
  PROVE  Text(t) < Text(u)
<1>1. t.shape = u.shape /\ (t.shape = "odd" => t = u)
  BY DEF ShapeOf, NoTime, Times
<1>2. t.shape # "odd"
  BY <1>1, RanksOfTimes
<1>3. Readable(t) /\ Readable(u)
  BY <1>1, <1>2 DEF Times, Readable
<1>4. t.at < u.at /\ t.at \in Nat /\ u.at \in Nat
  BY <1>3, RanksOfTimes
<1> QED
  BY <1>1, <1>4, ThreadsAssumption DEF Text

\* The rows of the tables have times.
LEMMA RowsHaveTimes ==
  ASSUME ThreadsTypeOK
  PROVE  \A r \in MtRows \cup MoRows : r.time \in Times
<1>1. \A m \in Chats : MtTime(m) \in Times
  BY DEF ThreadsTypeOK, MtTime
<1>2. \A i \in DOMAIN moTable : moTable[i].time \in Times
  BY ThreadsAssumption DEF ThreadsTypeOK
<1> QED
  BY <1>1, <1>2 DEF MtRows, MoRows

LEMMA RowsAreFinite ==
  ASSUME ThreadsTypeOK
  PROVE  IsFiniteSet(MtRows \cup MoRows)
<1> DEFINE mt(m) == [side |-> "OUT", id |-> m, phone |-> Phone[m], caller |-> Caller[m],
                     time |-> MtTime(m)]
           mo(i) == [side |-> "IN", id |-> i, phone |-> moTable[i].phone,
                     caller |-> moTable[i].caller, time |-> moTable[i].time]
           f == [m \in Chats |-> mt(m)]
           g == [i \in DOMAIN moTable |-> mo(i)]
<1>1. f \in Surjection(Chats, MtRows)
  BY DEF Surjection, MtRows
<1>2. g \in Surjection(DOMAIN moTable, MoRows)
  BY DEF Surjection, MoRows
<1>3. IsFiniteSet(Chats)
  BY ThreadsAssumption, FS_Interval DEF Chats
<1>4. Len(moTable) \in Nat /\ DOMAIN moTable = 1..Len(moTable)
  BY DEF ThreadsTypeOK
<1>5. IsFiniteSet(DOMAIN moTable)
  BY <1>4, FS_Interval
<1>6. IsFiniteSet(MtRows)
  BY <1>1, <1>3, FS_Surjection
<1>7. IsFiniteSet(MoRows)
  BY <1>2, <1>5, FS_Surjection
<1> QED
  BY <1>6, <1>7, FS_Union

\* Of finitely many rows one has the greatest rank.
LEMMA GreatestRank ==
  ASSUME NEW R, IsFiniteSet(R), R # {}, \A r \in R : Rank(r.time) \in Nat
  PROVE  \E r \in R : \A s \in R : Rank(s.time) <= Rank(r.time)
<1> DEFINE above(r) == {s \in R : Rank(s.time) > Rank(r.time)}
           counts == {Cardinality(above(r)) : r \in R}
<1>1. ASSUME NEW r \in R PROVE IsFiniteSet(above(r)) /\ Cardinality(above(r)) \in Nat
  <2>1. IsFiniteSet(above(r))
    BY FS_Subset, above(r) \subseteq R
  <2> QED
    BY <2>1, FS_CardinalityType
<1>2. counts \in SUBSET Nat /\ counts # {}
  BY <1>1
<1>3. PICK n \in counts : \A k \in counts : n <= k
  <2> HIDE DEF counts
  <2> QED
    BY <1>2, LeastMember
<1>4. PICK r \in R : Cardinality(above(r)) = n
  OBVIOUS
<1>5. ASSUME NEW s \in R, ~(Rank(s.time) <= Rank(r.time)) PROVE FALSE
  <2>1. s \in above(r)
    BY <1>5
  <2>2. above(s) \subseteq above(r) /\ s \notin above(s)
    BY <2>1
  <2>3. above(s) # above(r)
    BY <2>1, <2>2
  <2>4. IsFiniteSet(above(r)) /\ IsFiniteSet(above(s))
        /\ Cardinality(above(r)) \in Nat /\ Cardinality(above(s)) \in Nat
    BY <1>1, <1>5
  <2>5. Cardinality(above(s)) < Cardinality(above(r))
    <3> HIDE DEF above
    <3>1. Cardinality(above(s)) <= Cardinality(above(r))
          /\ (Cardinality(above(s)) = Cardinality(above(r)) => above(s) = above(r))
      BY <2>2, <2>4, FS_Subset
    <3> QED
      BY <3>1, <2>3, <2>4
  <2>6. Cardinality(above(s)) \in counts
    BY <1>5
  <2>7. n <= Cardinality(above(s))
    <3> HIDE DEF counts, above
    <3> QED
      BY <2>6, <1>3
  <2> HIDE DEF above
  <2> QED
    BY <2>4, <2>5, <2>7, <1>4
<1> QED
  BY <1>5

\* What both ways of reading end with.
LatestOf(p, last) ==
  /\ last \in ThreadOf(p)
  /\ \A s \in ThreadOf(p) \ {last} : Rank(s.time) < Rank(last.time)

LEMMA ThereIsALatest ==
  ASSUME ThreadsTypeOK, NEW p, Clear(p)
  PROVE  \E last : LatestOf(p, last)
<1>1. IsFiniteSet(ThreadOf(p))
  <2>1. ThreadOf(p) \subseteq MtRows \cup MoRows
    BY DEF ThreadOf
  <2> QED
    BY <2>1, RowsAreFinite, FS_Subset
<1>2. \A r \in ThreadOf(p) : Rank(r.time) \in Nat
  BY RowsHaveTimes, RanksOfTimes DEF ThreadOf
<1>3. ThreadOf(p) # {}
  BY DEF Clear
<1>4. PICK last \in ThreadOf(p) : \A s \in ThreadOf(p) : Rank(s.time) <= Rank(last.time)
  BY <1>1, <1>2, <1>3, GreatestRank
<1>5. \A s \in ThreadOf(p) \ {last} : Rank(s.time) < Rank(last.time)
  BY <1>2, <1>4 DEF Clear
<1> QED
  BY <1>4, <1>5 DEF LatestOf

LEMMA ThreadEndsWithLatest ==
  ASSUME ThreadsTypeOK, NEW p, NEW last, LatestOf(p, last)
  PROVE  LastOfThread(p) = last
<1>1. \A r \in ThreadOf(p) : r.time \in Times
  BY RowsHaveTimes DEF ThreadOf
<1>2. ASSUME NEW s \in ThreadOf(p) \ {last}
      PROVE  Precedes(s, last) /\ ~Precedes(last, s)
  <2>1. Rank(s.time) < Rank(last.time) /\ s.time \in Times /\ last.time \in Times
    BY <1>1 DEF LatestOf
  <2>2. Readable(last.time)
    BY <2>1, RanksOfTimes
  <2>3. last.time.at \in Nat /\ Rank(last.time) = 2 + last.time.at
    BY <2>1, <2>2, RanksOfTimes
  <2>4. CASE Readable(s.time)
    <3>1. s.time.at \in Nat /\ s.time.at < last.time.at
      BY <2>1, <2>3, <2>4, RanksOfTimes
    <3> QED
      BY <2>2, <2>3, <2>4, <3>1 DEF Precedes
  <2>5. CASE ~Readable(s.time)
    BY <2>2, <2>3, <2>5 DEF Precedes
  <2> QED
    BY <2>4, <2>5
<1>3. last \in ThreadOf(p)
  BY DEF LatestOf
<1>4. ASSUME NEW r \in ThreadOf(p), \A s \in ThreadOf(p) \ {r} : Precedes(s, r)
      PROVE  r = last
  BY <1>2, <1>3, <1>4
<1> QED
  BY <1>2, <1>3, <1>4 DEF LastOfThread

\* The greatest rank of the groups.
LEMMA BestRankIs ==
  ASSUME NEW rows, NEW n \in Nat, \A r \in rows : Rank(r.time) \in 0..n
  PROVE  /\ BestRank(rows) \in {0} \cup {Rank(r.time) : r \in rows}
         /\ \A r \in rows : Rank(r.time) <= BestRank(rows)
<1> DEFINE S == {0} \cup {Rank(r.time) : r \in rows}
<1>1. S \in SUBSET (0..n) /\ S # {}
  OBVIOUS
<1>2. \A r \in rows : Rank(r.time) \in S
  OBVIOUS
<1>3. BestRank(rows) = Max(S)
  BY DEF BestRank
<1>4. Max(S) \in S /\ \A x \in S : Max(S) >= x
  <2> HIDE DEF S
  <2> QED
    BY <1>1, GreatestMember
<1> QED
  BY <1>1, <1>2, <1>3, <1>4

LEMMA ListTellsLatest ==
  ASSUME ThreadsTypeOK, NEW p, Clear(p), NEW last, LatestOf(p, last)
  PROVE  Listed(p) = [dir |-> last.side, rank |-> Rank(last.time), caller |-> last.caller]
<1> DEFINE mt == {r \in Groups(MtRows) : r.phone = p}
           mo == {r \in Groups(MoRows) : r.phone = p}
           n == Rank(last.time)
<1>1. \A r \in ThreadOf(p) : r.time \in Times /\ Rank(r.time) \in Nat \ {0}
                              /\ Text(r.time) \in Nat
  BY RowsHaveTimes, RanksOfTimes DEF ThreadOf
<1>2. last \in ThreadOf(p) /\ n \in Nat \ {0}
      /\ \A s \in ThreadOf(p) \ {last} : Rank(s.time) < n
  BY <1>1 DEF LatestOf
<1>3. mt \subseteq ThreadOf(p) /\ mo \subseteq ThreadOf(p)
  BY DEF Groups, ThreadOf
<1>4. /\ \A r \in MtRows : r.side = "OUT"
      /\ \A r \in MoRows : r.side = "IN"
  BY DEF MtRows, MoRows
<1>5. (\A r \in mt : r.side = "OUT") /\ (\A r \in mo : r.side = "IN")
  BY <1>4 DEF Groups
<1>6. ASSUME NEW rows, rows \in {MtRows, MoRows}, last \in rows
      PROVE  last \in Groups(rows)
  <2>1. last.phone = p /\ last.caller # NoCaller
    BY <1>2 DEF ThreadOf, Clear
  <2>2. ASSUME NEW s \in rows, s.caller = last.caller, s.phone = last.phone,
               ShapeOf(s.time) = ShapeOf(last.time)
        PROVE  Text(s.time) <= Text(last.time)
    <3>1. s \in ThreadOf(p)
      BY <1>6, <2>1, <2>2 DEF ThreadOf
    <3>2. CASE s = last
      BY <3>1, <3>2, <1>1
    <3>3. CASE s # last
      <4>1. Rank(s.time) < Rank(last.time) /\ s.time \in Times /\ last.time \in Times
        BY <3>1, <3>3, <1>1, <1>2
      <4>2. Text(s.time) < Text(last.time)
        BY <4>1, <2>2, TextsTell
      <4> QED
        BY <4>2, <3>1, <1>1, <1>2
    <3> QED
      BY <3>2, <3>3
  <2> QED
    BY <1>6, <2>1, <2>2 DEF Groups
<1>7. (last.side = "OUT" /\ last \in mt) \/ (last.side = "IN" /\ last \in mo)
  <2>1. last.phone = p /\ (last \in MtRows \/ last \in MoRows)
    BY <1>2 DEF ThreadOf
  <2> QED
    BY <2>1, <1>4, <1>6
<1> HIDE DEF mt, mo, n
<1>8. ASSUME NEW rows \in SUBSET ThreadOf(p)
      PROVE  /\ BestRank(rows) \in 0..n
             /\ last \in rows => BestRank(rows) = n
             /\ last \notin rows => BestRank(rows) < n
  <2>1. \A r \in rows : Rank(r.time) \in 0..n
    BY <1>1, <1>2 DEF n
  <2>2. /\ BestRank(rows) \in {0} \cup {Rank(r.time) : r \in rows}
        /\ \A r \in rows : Rank(r.time) <= BestRank(rows)
    BY <2>1, <1>2, BestRankIs
  <2>3. BestRank(rows) \in 0..n
    BY <2>1, <2>2, <1>2
  <2>4. last \in rows => BestRank(rows) = n
    <3>1. last \in rows => n <= BestRank(rows)
      BY <2>2 DEF n
    <3> QED
      BY <3>1, <2>3, <1>2
  <2>5. ASSUME last \notin rows PROVE BestRank(rows) < n
    <3>1. \A r \in rows : Rank(r.time) < n
      BY <2>5, <1>2
    <3> QED
      BY <3>1, <2>2, <1>2
  <2> QED
    BY <2>3, <2>4, <2>5
<1>9. BestRank(mt) \in 0..n /\ BestRank(mo) \in 0..n
      /\ (last \in mt => BestRank(mt) = n) /\ (last \notin mt => BestRank(mt) < n)
      /\ (last \in mo => BestRank(mo) = n)
  BY <1>3, <1>8
<1>10. BestRank(mt \cup mo) = n
  <2>1. mt \cup mo \in SUBSET ThreadOf(p) /\ last \in mt \cup mo
    BY <1>3, <1>7
  <2> QED
    BY <2>1, <1>8
<1>11. {r \in mt \cup mo : Rank(r.time) = BestRank(mt \cup mo)} = {last}
  BY <1>10, <1>2, <1>3, <1>7, <1>1 DEF n
<1>12. (IF BestRank(mo) > BestRank(mt) THEN "IN" ELSE "OUT") = last.side
  BY <1>5, <1>7, <1>9, <1>2
<1> DEFINE latest == {r \in mt \cup mo : Rank(r.time) = BestRank(mt \cup mo)}
           inLatest == {r \in latest : r.side = "IN"}
<1>13. (CHOOSE r \in (IF inLatest # {} THEN inLatest ELSE latest) : TRUE) = last
  <2>1. latest = {last}
    BY <1>11
  <2> HIDE DEF latest
  <2>2. (IF inLatest # {} THEN inLatest ELSE latest) = {last}
    BY <2>1
  <2> HIDE DEF inLatest
  <2> QED
    BY <2>2
<1>14. Listed(p) = [dir |-> IF BestRank(mo) > BestRank(mt) THEN "IN" ELSE "OUT",
                    rank |-> BestRank(mt \cup mo),
                    caller |-> (CHOOSE r \in (IF inLatest # {} THEN inLatest ELSE latest) :
                                  TRUE).caller]
  BY Zenon DEF Listed, mt, mo
<1> HIDE DEF latest, inLatest
<1> QED
  BY <1>10, <1>12, <1>13, <1>14 DEF n

LEMMA PreviewIsOfLatest ==
  ASSUME ThreadsTypeOK, NEW p, NEW last, LatestOf(p, last), Listed(p).dir = last.side
  PROVE  Preview(p) = last
<1> DEFINE rows == {r \in (IF Listed(p).dir = "IN" THEN MoRows ELSE MtRows) : r.phone = p}
           first(r) == \A s \in rows \ {r} :
             ShapeOf(s.time) = ShapeOf(r.time) =>
               \/ Text(s.time) < Text(r.time)
               \/ Text(s.time) = Text(r.time) /\ r.id < s.id
           candidates == {r \in rows : first(r)}
           best(r) == \A s \in candidates \ {r} :
             \/ Rank(s.time) < Rank(r.time)
             \/ Rank(s.time) = Rank(r.time) /\ r.id < s.id
<1>1. Preview(p) = CHOOSE r \in candidates : best(r)
  BY Zenon DEF Preview
<1>2. \A r \in ThreadOf(p) : r.time \in Times /\ Rank(r.time) \in Nat
  BY RowsHaveTimes, RanksOfTimes DEF ThreadOf
<1>3. last \in rows
  BY DEF LatestOf, ThreadOf, MtRows, MoRows
<1>4. rows \subseteq ThreadOf(p)
  BY DEF ThreadOf
<1> HIDE DEF rows
<1>5. ASSUME NEW s \in rows \ {last}
      PROVE  /\ Rank(s.time) < Rank(last.time) /\ s.time \in Times /\ last.time \in Times
             /\ Rank(s.time) \in Nat /\ Rank(last.time) \in Nat
  BY <1>2, <1>3, <1>4 DEF LatestOf
<1>6. last \in candidates
  BY <1>3, <1>5, TextsTell
<1>7. candidates \subseteq rows
  OBVIOUS
<1> HIDE DEF candidates
<1>8. best(last)
  BY <1>5, <1>7
<1>9. ASSUME NEW r \in candidates, best(r) PROVE r = last
  BY <1>5, <1>6, <1>7, <1>9
<1> HIDE DEF best
<1> QED
  BY <1>1, <1>6, <1>8, <1>9

LEMMA ThreadsInitHolds == ThreadsInit => ThreadsTypeOK
<1> SUFFICES ASSUME ThreadsInit PROVE ThreadsTypeOK
  OBVIOUS
<1>1. PICK sent \in [Chats -> SentTimes] :
        mts = [m \in Chats |-> [sent |-> sent[m], result |-> "open", at |-> NoTime, cost |-> 0]]
  BY DEF ThreadsInit
<1>2. moTable \in Seq(Answers)
  BY DEF ThreadsInit
<1> QED
  BY <1>1, <1>2, ThreadsAssumption DEF ThreadsTypeOK

\* A row of a message after its result.
LEMMA ReportedRow ==
  ASSUME NEW q, NEW r, NEW t, NEW c,
         q = [sent |-> q.sent, result |-> q.result, at |-> q.at, cost |-> q.cost]
  PROVE  [q EXCEPT !.result = r, !.at = t, !.cost = c]
           = [sent |-> q.sent, result |-> r, at |-> t, cost |-> c]
<1>1. [q EXCEPT !.result = r]
        = [sent |-> q.sent, result |-> r, at |-> q.at, cost |-> q.cost]
  OBVIOUS
<1>2. [[sent |-> q.sent, result |-> r, at |-> q.at, cost |-> q.cost] EXCEPT !.at = t]
        = [sent |-> q.sent, result |-> r, at |-> t, cost |-> q.cost]
  OBVIOUS
<1>3. [[sent |-> q.sent, result |-> r, at |-> t, cost |-> q.cost] EXCEPT !.cost = c]
        = [sent |-> q.sent, result |-> r, at |-> t, cost |-> c]
  OBVIOUS
<1> QED
  BY <1>1, <1>2, <1>3

LEMMA ResultsKeep ==
  ASSUME ThreadsTypeOK, NEW some \in SUBSET Chats, NEW time \in ReportTimes,
         NEW results \in [some -> {"chat", "sms", "failed"}],
         ReceiveResults(results, time)
  PROVE  ThreadsTypeOK'
<1> DEFINE applied == [m \in Chats |->
             IF m \in some
             THEN [mts[m] EXCEPT !.result = results[m], !.at = time, !.cost = Cost(results[m])]
             ELSE mts[m]]
           cost == SessionCap(applied, some)
<1>1. DOMAIN results = some
  OBVIOUS
<1>2. mts' = [m \in Chats |-> [applied[m] EXCEPT !.cost = cost[m]]]
  BY <1>1 DEF ReceiveResults
<1>3. ASSUME NEW m \in Chats
      PROVE  /\ applied[m] = [sent |-> applied[m].sent, result |-> applied[m].result,
                              at |-> applied[m].at, cost |-> applied[m].cost]
             /\ applied[m].sent \in Times /\ applied[m].at \in Times \cup {NoTime}
  <2>1. CASE m \in some
    <3>1. applied[m] = [mts[m] EXCEPT !.result = results[m], !.at = time,
                                      !.cost = Cost(results[m])]
      BY <2>1
    <3>2. applied[m] = [sent |-> mts[m].sent, result |-> results[m], at |-> time,
                        cost |-> Cost(results[m])]
      <4>1. mts[m] = [sent |-> mts[m].sent, result |-> mts[m].result,
                      at |-> mts[m].at, cost |-> mts[m].cost]
        BY DEF ThreadsTypeOK
      <4> HIDE DEF applied
      <4> QED
        BY <3>1, <4>1, ReportedRow
    <3> HIDE DEF applied
    <3> QED
      BY <3>2, ThreadsAssumption DEF ThreadsTypeOK
  <2>2. CASE m \notin some
    BY <2>2 DEF ThreadsTypeOK
  <2> QED
    BY <2>1, <2>2
<1> HIDE DEF applied, cost
<1>4. ASSUME NEW m \in Chats
      PROVE  mts'[m] = [sent |-> applied[m].sent, result |-> applied[m].result,
                        at |-> applied[m].at, cost |-> cost[m]]
  <2>1. mts'[m] = [applied[m] EXCEPT !.cost = cost[m]]
    BY <1>2
  <2> QED
    BY <2>1, <1>3
<1>5. moTable' = moTable
  BY DEF ReceiveResults
<1>6. ASSUME NEW m \in Chats
      PROVE  /\ mts'[m] = [sent |-> mts'[m].sent, result |-> mts'[m].result,
                           at |-> mts'[m].at, cost |-> mts'[m].cost]
             /\ mts'[m].sent \in Times /\ mts'[m].at \in Times \cup {NoTime}
  <2> DEFINE q == mts'[m]
             k == [sent |-> applied[m].sent, result |-> applied[m].result,
                   at |-> applied[m].at, cost |-> cost[m]]
  <2>1. q = k
    BY <1>4
  <2> HIDE DEF q
  <2>2. /\ q = [sent |-> q.sent, result |-> q.result, at |-> q.at, cost |-> q.cost]
        /\ q.sent = applied[m].sent /\ q.at = applied[m].at
    BY <2>1
  <2> QED
    BY <1>3, <2>2 DEF q
<1>7. moTable' \in Seq(Answers)
  BY <1>5 DEF ThreadsTypeOK
<1> QED
  BY <1>6, <1>7, Zenon DEF ThreadsTypeOK, Chats

LEMMA ThreadsNextKeeps == ThreadsTypeOK /\ [ThreadsNext]_threadsVars => ThreadsTypeOK'
<1> SUFFICES ASSUME ThreadsTypeOK, [ThreadsNext]_threadsVars PROVE ThreadsTypeOK'
  OBVIOUS
<1>1. CASE \E some \in SUBSET Chats, time \in ReportTimes :
             \E results \in [some -> {"chat", "sms", "failed"}] :
               some # {} /\ ReceiveResults(results, time)
  BY <1>1, ResultsKeep
<1>2. CASE \E row \in Answers : Answer(row)
  BY <1>2 DEF ThreadsTypeOK, Answer
<1>3. CASE UNCHANGED threadsVars
  BY <1>3 DEF ThreadsTypeOK, threadsVars
<1> QED
  BY <1>1, <1>2, <1>3 DEF ThreadsNext

\* Whatever was sent, reported and answered, in whatever shapes of time: the
\* list shows of a conversation the direction, the text, the time and the
\* number of its last message (list_thread_page against get_thread).
THEOREM ListAndThreadAgree == ThreadsSpec => []ListTellsTheLastMessage
<1>1. ThreadsTypeOK => ListTellsTheLastMessage
  <2> SUFFICES ASSUME ThreadsTypeOK, NEW p, Clear(p)
               PROVE  LET last == LastOfThread(p)
                      IN /\ Preview(p) = last
                         /\ Listed(p) = [dir |-> last.side, rank |-> Rank(last.time),
                                         caller |-> last.caller]
    BY DEF ListTellsTheLastMessage
  <2>1. PICK last : LatestOf(p, last)
    BY ThereIsALatest
  <2>2. LastOfThread(p) = last
    BY <2>1, ThreadEndsWithLatest
  <2>3. Listed(p) = [dir |-> last.side, rank |-> Rank(last.time), caller |-> last.caller]
    BY <2>1, ListTellsLatest
  <2>4. Preview(p) = last
    BY <2>1, <2>3, PreviewIsOfLatest
  <2> QED
    BY <2>2, <2>3, <2>4
<1> QED
  BY <1>1, ThreadsInitHolds, ThreadsNextKeeps, PTL DEF ThreadsSpec

(***************************************************************************)
(* Charges (module Threads), for any messages, times and reports.  What a  *)
(* message costs goes by its session, which the loop over the sorted rows  *)
(* has from the row before; what the loop counts is the number of messages *)
(* of the session (SessionsTell), and the messages at which it begins anew *)
(* are the openers of sessions.                                            *)
(***************************************************************************)
\* R orders the finite set K.
Orders(R, K) ==
  /\ IsFiniteSet(K)
  /\ \A a \in K : <<a, a>> \notin R
  /\ \A a, b, c \in K : <<a, b>> \in R /\ <<b, c>> \in R => <<a, c>> \in R
  /\ \A a, b \in K : a # b => <<a, b>> \in R \/ <<b, a>> \in R

LEMMA FirstOfOrder ==
  ASSUME NEW K, NEW R, Orders(R, K), NEW S \in SUBSET K, S # {}
  PROVE  \E m \in S : \A n \in S \ {m} : <<m, n>> \in R
<1> DEFINE before(m) == {n \in S : <<n, m>> \in R}
           counts == {Cardinality(before(m)) : m \in S}
<1>0. IsFiniteSet(S)
  BY FS_Subset DEF Orders
<1>1. ASSUME NEW m \in S PROVE IsFiniteSet(before(m)) /\ Cardinality(before(m)) \in Nat
  <2>1. IsFiniteSet(before(m))
    BY <1>0, FS_Subset, before(m) \subseteq S
  <2> QED
    BY <2>1, FS_CardinalityType
<1>2. counts \in SUBSET Nat /\ counts # {}
  BY <1>1
<1>3. PICK k \in counts : \A j \in counts : k <= j
  <2> HIDE DEF counts
  <2> QED
    BY <1>2, LeastMember
<1>4. PICK m \in S : Cardinality(before(m)) = k
  OBVIOUS
<1>5. ASSUME NEW n \in S \ {m}, <<m, n>> \notin R PROVE FALSE
  <2>1. n \in S /\ <<n, m>> \in R
    BY <1>5 DEF Orders
  <2>2. before(n) \subseteq before(m) /\ n \in before(m) /\ n \notin before(n)
    BY <2>1 DEF Orders
  <2>3. before(n) # before(m)
    BY <2>2
  <2>4. IsFiniteSet(before(m)) /\ IsFiniteSet(before(n))
        /\ Cardinality(before(m)) \in Nat /\ Cardinality(before(n)) \in Nat
    BY <1>1, <2>1
  <2>5. Cardinality(before(n)) < Cardinality(before(m))
    <3> HIDE DEF before
    <3>1. Cardinality(before(n)) <= Cardinality(before(m))
          /\ (Cardinality(before(n)) = Cardinality(before(m)) => before(n) = before(m))
      BY <2>2, <2>4, FS_Subset
    <3> QED
      BY <3>1, <2>3, <2>4
  <2>6. Cardinality(before(n)) \in counts
    BY <2>1
  <2>7. k <= Cardinality(before(n))
    <3> HIDE DEF counts, before
    <3> QED
      BY <2>6, <1>3
  <2> HIDE DEF before
  <2> QED
    BY <2>4, <2>5, <2>7, <1>4
<1> QED
  BY <1>5

\* Rows whose times are instants, and sets of them.
Timed(rows, K) ==
  /\ K \subseteq Chats
  /\ \A m \in K : rows[m].sent.at \in Nat

LEMMA ChatsAreFinite == IsFiniteSet(Chats) /\ Chats \subseteq Nat
BY ThreadsAssumption, FS_Interval DEF Chats

LEMMA EarlierOrders ==
  ASSUME NEW rows, NEW K, Timed(rows, K)
  PROVE  /\ IsFiniteSet(K)
         /\ \A m \in K : ~ Earlier(rows, m, m)
         /\ \A m, n, k \in K : Earlier(rows, m, n) /\ Earlier(rows, n, k) => Earlier(rows, m, k)
         /\ \A m, n \in K : m # n => Earlier(rows, m, n) \/ Earlier(rows, n, m)
         /\ \A m, n \in K : Earlier(rows, m, n) => rows[m].sent.at <= rows[n].sent.at
<1>1. IsFiniteSet(K)
  BY ChatsAreFinite, FS_Subset DEF Timed
<1>2. \A m \in K : m \in Nat /\ rows[m].sent.at \in Nat
  BY ChatsAreFinite DEF Timed
<1> QED
  BY <1>1, <1>2 DEF Earlier

LEMMA FirstOfRows ==
  ASSUME NEW rows, NEW K, Timed(rows, K), NEW S \in SUBSET K, S # {}
  PROVE  \E m \in S : \A n \in S \ {m} : Earlier(rows, m, n)
<1> DEFINE R == {e \in K \X K : Earlier(rows, e[1], e[2])}
<1>1. \A m, n \in K : <<m, n>> \in R <=> Earlier(rows, m, n)
  OBVIOUS
<1> HIDE DEF R
<1>2. Orders(R, K)
  BY <1>1, EarlierOrders DEF Orders
<1>3. \E m \in S : \A n \in S \ {m} : <<m, n>> \in R
  BY <1>2, FirstOfOrder
<1> QED
  BY <1>1, <1>3

LEMMA LastOfRows ==
  ASSUME NEW rows, NEW K, Timed(rows, K), NEW S \in SUBSET K, S # {}
  PROVE  /\ LatestOfAll(rows, S) \in S
         /\ \A n \in S \ {LatestOfAll(rows, S)} : Earlier(rows, n, LatestOfAll(rows, S))
<1> DEFINE R == {e \in K \X K : Earlier(rows, e[2], e[1])}
<1>1. \A m, n \in K : <<m, n>> \in R <=> Earlier(rows, n, m)
  OBVIOUS
<1> HIDE DEF R
<1>2. Orders(R, K)
  BY <1>1, EarlierOrders DEF Orders
<1>3. \E m \in S : \A n \in S \ {m} : <<m, n>> \in R
  BY <1>2, FirstOfOrder
<1>4. \E m \in S : \A n \in S \ {m} : Earlier(rows, n, m)
  BY <1>1, <1>3
<1> QED
  BY <1>4 DEF LatestOfAll

\* There is only one.
LEMMA LastOfRowsIs ==
  ASSUME NEW rows, NEW K, Timed(rows, K), NEW S \in SUBSET K,
         NEW m \in S, \A n \in S \ {m} : Earlier(rows, n, m)
  PROVE  LatestOfAll(rows, S) = m
<1> DEFINE z == LatestOfAll(rows, S)
<1>1. z \in S /\ \A n \in S \ {z} : Earlier(rows, n, z)
  BY LastOfRows
<1> HIDE DEF z
<1>2. z # m => Earlier(rows, z, m) /\ Earlier(rows, m, z)
  BY <1>1
<1>3. z = m
  BY <1>1, <1>2, EarlierOrders
<1> QED
  BY <1>3 DEF z

\* One turn of the loop.
NextSession(rows, K, F, m) ==
  LET before == {n \in K : Earlier(rows, n, m)}
      last == F[LatestOfAll(rows, before)]
  IN IF before = {} \/ rows[m].sent.at >= last.start + Window
     THEN [start |-> rows[m].sent.at, units |-> 1]
     ELSE [start |-> last.start, units |-> last.units + 1]

SessionsOf(rows, K, F) == F = [m \in K |-> NextSession(rows, K, F, m)]

LEMMA NextSessionAgrees ==
  ASSUME NEW rows, NEW K, Timed(rows, K), NEW m \in K, NEW F, NEW G,
         \A n \in K : Earlier(rows, n, m) => F[n] = G[n]
  PROVE  NextSession(rows, K, F, m) = NextSession(rows, K, G, m)
<1> DEFINE before == {n \in K : Earlier(rows, n, m)}
           p == LatestOfAll(rows, before)
<1>1. before # {} => F[p] = G[p]
  <2>1. before \in SUBSET K
    OBVIOUS
  <2>2. before # {} => p \in before
    <3> HIDE DEF before
    <3> QED
      BY <2>1, LastOfRows
  <2> QED
    BY <2>2
<1> QED
  BY <1>1 DEF NextSession

LEMMA SessionsExist ==
  ASSUME NEW rows, NEW K, Timed(rows, K)
  PROVE  \E F : SessionsOf(rows, K, F)
<1> DEFINE upto(F, m) ==
             /\ F = [k \in K |-> F[k]]
             /\ \A n \in K : n = m \/ Earlier(rows, n, m) => F[n] = NextSession(rows, K, F, n)
           bad == {m \in K : ~ \E F : upto(F, m)}
<1>1. ASSUME NEW m \in K, \A n \in K : Earlier(rows, n, m) => n \notin bad
      PROVE  m \notin bad
  <2> DEFINE before == {n \in K : Earlier(rows, n, m)}
  <2>1. \E F : /\ F = [k \in K |-> F[k]]
               /\ \A n \in before : F[n] = NextSession(rows, K, F, n)
    <3>1. CASE before = {}
      <4> DEFINE F == [k \in K |-> 0]
      <4>1. F = [k \in K |-> F[k]]
        OBVIOUS
      <4> HIDE DEF F
      <4> QED
        BY <4>1, <3>1
    <3>2. CASE before # {}
      <4> DEFINE p == LatestOfAll(rows, before)
      <4>1. p \in before /\ \A n \in before \ {p} : Earlier(rows, n, p)
        <5>1. before \in SUBSET K
          OBVIOUS
        <5> HIDE DEF before
        <5> QED
          BY <3>2, <5>1, LastOfRows
      <4> HIDE DEF p
      <4>2. p \in K /\ p \notin bad
        BY <4>1, <1>1
      <4>3. PICK F : upto(F, p)
        BY <4>2
      <4> QED
        BY <4>1, <4>3
    <3> QED
      BY <3>1, <3>2
  <2>2. PICK F : /\ F = [k \in K |-> F[k]]
                 /\ \A n \in before : F[n] = NextSession(rows, K, F, n)
    BY <2>1
  <2> DEFINE G == [k \in K |-> IF k = m THEN NextSession(rows, K, F, m) ELSE F[k]]
  <2>3. ASSUME NEW n \in K, n = m \/ Earlier(rows, n, m)
        PROVE  /\ NextSession(rows, K, F, n) = NextSession(rows, K, G, n)
               /\ G[n] = NextSession(rows, K, F, n)
    <3>1. \A k \in K : Earlier(rows, k, n) => k # m
      BY <2>3, EarlierOrders
    <3>2. \A k \in K : Earlier(rows, k, n) => F[k] = G[k]
      BY <3>1
    <3>3. G[n] = NextSession(rows, K, F, n)
      BY <2>2, <2>3
    <3> HIDE DEF G
    <3> QED
      BY <3>2, <3>3, NextSessionAgrees
  <2>4. G = [k \in K |-> G[k]]
    OBVIOUS
  <2> HIDE DEF G
  <2>5. upto(G, m)
    BY <2>3, <2>4
  <2> QED
    BY <2>5
<1>2. bad = {}
  <2> SUFFICES ASSUME bad # {} PROVE FALSE
    OBVIOUS
  <2>1. PICK m \in bad : \A n \in bad \ {m} : Earlier(rows, m, n)
    <3>1. bad \in SUBSET K
      OBVIOUS
    <3> HIDE DEF bad
    <3> QED
      BY <3>1, FirstOfRows
  <2>2. m \in K
    OBVIOUS
  <2>3. ASSUME NEW n \in K, Earlier(rows, n, m), n \in bad PROVE FALSE
    <3> HIDE DEF bad
    <3> QED
      BY <2>1, <2>2, <2>3, EarlierOrders
  <2> QED
    BY <1>1, <2>1, <2>2, <2>3
<1>3. CASE K = {}
  <2> DEFINE F == [m \in K |-> 0]
  <2>1. F = [m \in K |-> NextSession(rows, K, F, m)]
    BY <1>3
  <2> HIDE DEF F
  <2> QED
    BY <2>1 DEF SessionsOf
<1>4. CASE K # {}
  <2> DEFINE z == LatestOfAll(rows, K)
  <2>1. z \in K /\ \A n \in K \ {z} : Earlier(rows, n, z)
    BY <1>4, LastOfRows
  <2> HIDE DEF z
  <2>2. PICK F : upto(F, z)
    BY <1>2, <2>1
  <2>3. \A n \in K : F[n] = NextSession(rows, K, F, n)
    BY <2>1, <2>2
  <2>4. F = [m \in K |-> F[m]]
    BY <2>2
  <2> QED
    BY <2>3, <2>4 DEF SessionsOf
<1> QED
  BY <1>3, <1>4

LEMMA SessionsAre ==
  ASSUME NEW rows, NEW K, Timed(rows, K)
  PROVE  SessionsOf(rows, K, Sessions(rows, K))
<1> DEFINE loop == CHOOSE F : SessionsOf(rows, K, F)
<1>1. SessionsOf(rows, K, loop)
  BY SessionsExist
<1>2. Sessions(rows, K) = loop
  BY DEF Sessions, SessionsOf, NextSession
<1> HIDE DEF loop
<1> QED
  BY <1>1, <1>2

\* The messages from o up to m.
FromTo(rows, K, o, m) ==
  {n \in K : (n = o \/ Earlier(rows, o, n)) /\ (n = m \/ Earlier(rows, n, m))}

\* What the loop has of m tells its session, which o opened.
SessionTells(rows, K, F, m, o) ==
  /\ F[o].units = 1
  /\ o = m \/ Earlier(rows, o, m)
  /\ F[m].start = rows[o].sent.at
  /\ rows[m].sent.at < rows[o].sent.at + Window
  /\ \A n \in K : F[n].units = 1 /\ Earlier(rows, o, n) => ~(n = m \/ Earlier(rows, n, m))
  /\ F[m].units = Cardinality(FromTo(rows, K, o, m)) /\ F[m].units \in Nat \ {0}

LEMMA SessionIsNext ==
  ASSUME NEW rows, NEW K, NEW F, SessionsOf(rows, K, F), NEW m \in K
  PROVE  F[m] = NextSession(rows, K, F, m)
BY DEF SessionsOf

LEMMA SessionsTell ==
  ASSUME NEW rows, NEW K, Timed(rows, K), NEW F, SessionsOf(rows, K, F)
  PROVE  \A m \in K : \E o \in K : SessionTells(rows, K, F, m, o)
<1> DEFINE bad == {m \in K : ~ \E o \in K : SessionTells(rows, K, F, m, o)}
<1> SUFFICES ASSUME bad # {} PROVE FALSE
  OBVIOUS
<1>1. PICK m \in bad : \A n \in bad \ {m} : Earlier(rows, m, n)
  <2>1. bad \in SUBSET K
    OBVIOUS
  <2> HIDE DEF bad
  <2> QED
    BY <2>1, FirstOfRows
<1>2. m \in K /\ ~ \E o \in K : SessionTells(rows, K, F, m, o)
  OBVIOUS
<1>3. ASSUME NEW n \in K, Earlier(rows, n, m)
      PROVE  \E o \in K : SessionTells(rows, K, F, n, o)
  <2>1. n \notin bad
    <3> HIDE DEF bad
    <3> QED
      BY <1>1, <1>2, <1>3, EarlierOrders
  <2> QED
    BY <2>1
<1> HIDE DEF bad
<1>4. /\ rows[m].sent.at \in Nat /\ Window \in Nat \ {0}
      /\ ~ Earlier(rows, m, m)
  BY <1>2, EarlierOrders, ThreadsAssumption DEF Timed
<1> DEFINE before == {n \in K : Earlier(rows, n, m)}
           p == LatestOfAll(rows, before)
<1>5. F[m] = IF before = {} \/ rows[m].sent.at >= F[p].start + Window
             THEN [start |-> rows[m].sent.at, units |-> 1]
             ELSE [start |-> F[p].start, units |-> F[p].units + 1]
  BY <1>2, SessionIsNext DEF NextSession
<1>6. CASE before = {} \/ rows[m].sent.at >= F[p].start + Window
  <2>1. F[m] = [start |-> rows[m].sent.at, units |-> 1]
    BY <1>5, <1>6
  <2>2. FromTo(rows, K, m, m) = {m}
    BY <1>2, EarlierOrders DEF FromTo
  <2>3. Cardinality({m}) = 1
    BY FS_Singleton
  <2>4. \A n \in K : Earlier(rows, m, n) => ~(n = m \/ Earlier(rows, n, m))
    BY <1>2, EarlierOrders
  <2>5. rows[m].sent.at < rows[m].sent.at + Window
    BY <1>4
  <2>6. F[m].start = rows[m].sent.at /\ F[m].units = 1
    BY <2>1
  <2>7. SessionTells(rows, K, F, m, m)
    BY <2>2, <2>3, <2>4, <2>5, <2>6 DEF SessionTells
  <2> QED
    BY <1>2, <2>7
<1>7. CASE ~(before = {} \/ rows[m].sent.at >= F[p].start + Window)
  <2>1. p \in before /\ \A n \in before \ {p} : Earlier(rows, n, p)
    <3>1. before \in SUBSET K /\ before # {}
      BY <1>7
    <3> HIDE DEF before
    <3> QED
      BY <3>1, LastOfRows
  <2>2. F[m] = [start |-> F[p].start, units |-> F[p].units + 1]
    BY <1>5, <1>7
  <2>3. ~(rows[m].sent.at >= F[p].start + Window)
    BY <1>7
  <2> HIDE DEF p
  <2>4. p \in K /\ Earlier(rows, p, m) /\ \A n \in K : Earlier(rows, n, m) => n = p \/ Earlier(rows, n, p)
    BY <2>1
  <2> HIDE DEF before
  <2>5. PICK o \in K : SessionTells(rows, K, F, p, o)
    BY <1>3, <2>4
  <2>6. /\ F[o].units = 1 /\ (o = p \/ Earlier(rows, o, p))
        /\ F[p].start = rows[o].sent.at
        /\ F[p].units = Cardinality(FromTo(rows, K, o, p)) /\ F[p].units \in Nat \ {0}
        /\ \A n \in K : F[n].units = 1 /\ Earlier(rows, o, n) => ~(n = p \/ Earlier(rows, n, p))
    BY <2>5 DEF SessionTells
  <2>7. Earlier(rows, o, m)
    BY <1>2, <2>4, <2>6, EarlierOrders
  <2>8. F[m].start = rows[o].sent.at /\ F[m].units = F[p].units + 1
    BY <2>2, <2>6
  <2>9. rows[m].sent.at < rows[o].sent.at + Window
    <3>1. rows[o].sent.at \in Nat
      BY DEF Timed
    <3> QED
      BY <1>4, <2>3, <2>6, <3>1
  <2>10. F[m].units \in Nat \ {0} /\ F[m].units # 1
    BY <2>6, <2>8
  <2>11. ASSUME NEW n \in K, F[n].units = 1, Earlier(rows, o, n), n = m \/ Earlier(rows, n, m)
         PROVE  FALSE
    <3>1. n # m
      BY <2>10, <2>11
    <3>2. n = p \/ Earlier(rows, n, p)
      BY <2>4, <2>11, <3>1
    <3> QED
      BY <2>6, <2>11, <3>2
  <2>12. F[m].units = Cardinality(FromTo(rows, K, o, m))
    <3> DEFINE S == FromTo(rows, K, o, p)
    <3>1. FromTo(rows, K, o, m) = S \cup {m}
      <4>1. ASSUME NEW n \in K
            PROVE  n = m \/ Earlier(rows, n, m) <=> n = m \/ n = p \/ Earlier(rows, n, p)
        BY <1>2, <2>4, EarlierOrders
      <4>2. m = o \/ Earlier(rows, o, m)
        BY <2>7
      <4> QED
        BY <1>2, <4>1, <4>2 DEF FromTo
    <3>2. m \notin S
      BY <1>2, <2>4, EarlierOrders DEF FromTo
    <3>3. IsFiniteSet(S)
      <4>1. IsFiniteSet(K) /\ S \subseteq K
        BY EarlierOrders DEF FromTo
      <4> QED
        BY <4>1, FS_Subset
    <3> HIDE DEF S
    <3>4. Cardinality(S \cup {m}) = Cardinality(S) + 1
      BY <3>2, <3>3, FS_AddElement
    <3> QED
      BY <2>6, <2>8, <3>1, <3>4 DEF S
  <2>13. SessionTells(rows, K, F, m, o)
    BY <2>6, <2>7, <2>8, <2>9, <2>10, <2>11, <2>12 DEF SessionTells
  <2> QED
    BY <1>2, <2>13
<1> QED
  BY <1>6, <1>7

\* The messages at which the loop begins anew are those that open a session.
Opens(rows, K, S) ==
  \A m \in K :
    m \in S <=> \A n \in S : Earlier(rows, n, m) => rows[m].sent.at >= rows[n].sent.at + Window

LEMMA LoopOpens ==
  ASSUME NEW rows, NEW K, Timed(rows, K), NEW F, SessionsOf(rows, K, F)
  PROVE  Opens(rows, K, {m \in K : F[m].units = 1})
<1> DEFINE O == {m \in K : F[m].units = 1}
<1>1. ASSUME NEW m \in O, NEW n \in O, Earlier(rows, n, m)
      PROVE  rows[m].sent.at >= rows[n].sent.at + Window
  <2> DEFINE before == {k \in K : Earlier(rows, k, m)}
             p == LatestOfAll(rows, before)
  <2>1. m \in K /\ n \in K /\ F[m].units = 1 /\ F[n].units = 1
    OBVIOUS
  <2>2. F[m] = IF before = {} \/ rows[m].sent.at >= F[p].start + Window
               THEN [start |-> rows[m].sent.at, units |-> 1]
               ELSE [start |-> F[p].start, units |-> F[p].units + 1]
    BY <2>1, SessionIsNext DEF NextSession
  <2>3. n \in before
    BY <1>1, <2>1
  <2>4. p \in before /\ \A k \in before \ {p} : Earlier(rows, k, p)
    <3>1. before \in SUBSET K /\ before # {}
      BY <2>3
    <3> HIDE DEF before
    <3> QED
      BY <3>1, LastOfRows
  <2>5. PICK o \in K : SessionTells(rows, K, F, p, o)
    BY <2>4, SessionsTell
  <2>6. /\ F[p].units \in Nat \ {0} /\ F[p].start = rows[o].sent.at
        /\ \A k \in K : F[k].units = 1 /\ Earlier(rows, o, k) => ~(k = p \/ Earlier(rows, k, p))
    BY <2>5 DEF SessionTells
  <2>7. rows[m].sent.at >= F[p].start + Window
    <3>1. F[p].units + 1 # 1
      BY <2>6
    <3> HIDE DEF p, before
    <3> QED
      BY <2>1, <2>2, <2>3, <3>1
  <2>8. n = p \/ Earlier(rows, n, p)
    BY <2>3, <2>4
  <2>9. ~ Earlier(rows, o, n)
    BY <2>1, <2>6, <2>8
  <2>10. rows[n].sent.at <= rows[o].sent.at
    <3>1. n = o \/ Earlier(rows, n, o)
      BY <2>1, <2>9, EarlierOrders
    <3>2. rows[n].sent.at \in Nat
      BY <2>1 DEF Timed
    <3> QED
      BY <2>1, <3>1, <3>2, EarlierOrders
  <2>11. rows[m].sent.at \in Nat /\ rows[n].sent.at \in Nat /\ rows[o].sent.at \in Nat
         /\ Window \in Nat
    BY <2>1, ThreadsAssumption DEF Timed
  <2> HIDE DEF p
  <2> QED
    BY <2>6, <2>7, <2>10, <2>11
<1>2. ASSUME NEW m \in K, m \notin O
      PROVE  \E n \in O : Earlier(rows, n, m) /\ ~(rows[m].sent.at >= rows[n].sent.at + Window)
  <2>1. PICK o \in K : SessionTells(rows, K, F, m, o)
    BY SessionsTell
  <2>2. /\ F[o].units = 1 /\ (o = m \/ Earlier(rows, o, m))
        /\ rows[m].sent.at < rows[o].sent.at + Window
    BY <2>1 DEF SessionTells
  <2>3. o # m /\ o \in O
    BY <1>2, <2>2
  <2>4. rows[m].sent.at \in Nat /\ rows[o].sent.at \in Nat /\ Window \in Nat
    BY ThreadsAssumption DEF Timed
  <2>5. ~(rows[m].sent.at >= rows[o].sent.at + Window)
    BY <2>2, <2>4
  <2> QED
    BY <2>2, <2>3, <2>5
<1> HIDE DEF O
<1>3. Opens(rows, K, O)
  BY <1>1, <1>2 DEF Opens
<1> QED
  BY <1>3 DEF O

\* There is only one such set.
LEMMA OpenersAgree ==
  ASSUME NEW rows, NEW K, Timed(rows, K), NEW S \in SUBSET K, Opens(rows, K, S),
         NEW T \in SUBSET K, Opens(rows, K, T)
  PROVE  S = T
<1> DEFINE bad == {m \in K : ~(m \in S <=> m \in T)}
<1>1. ASSUME bad # {} PROVE FALSE
  <2>1. PICK m \in bad : \A n \in bad \ {m} : Earlier(rows, m, n)
    <3>1. bad \in SUBSET K
      OBVIOUS
    <3> HIDE DEF bad
    <3> QED
      BY <1>1, <3>1, FirstOfRows
  <2>2. m \in K /\ ~(m \in S <=> m \in T)
    OBVIOUS
  <2>3. ASSUME NEW n \in K, Earlier(rows, n, m) PROVE n \in S <=> n \in T
    <3>1. n \notin bad
      <4> HIDE DEF bad
      <4> QED
        BY <2>1, <2>2, <2>3, EarlierOrders
    <3> QED
      BY <3>1
  <2>4. (\A n \in S : Earlier(rows, n, m) => rows[m].sent.at >= rows[n].sent.at + Window)
        <=> (\A n \in T : Earlier(rows, n, m) => rows[m].sent.at >= rows[n].sent.at + Window)
    BY <2>3
  <2>5. m \in S <=> m \in T
    BY <2>2, <2>4 DEF Opens
  <2> QED
    BY <2>2, <2>5
<1> QED
  BY <1>1

LEMMA KnownAreTimed ==
  ASSUME NEW rows, \A m \in Chats : rows[m].sent \in Times, NEW pair
  PROVE  Timed(rows, Known(rows, pair))
BY DEF Timed, Known, Times

LEMMA OpenersAre ==
  ASSUME NEW rows, NEW pair, NEW K, K = Known(rows, pair), Timed(rows, K),
         NEW F, SessionsOf(rows, K, F)
  PROVE  Openers(rows, pair) = {m \in K : F[m].units = 1}
<1> DEFINE O == {m \in K : F[m].units = 1}
           S == CHOOSE S \in SUBSET K : Opens(rows, K, S)
<1>1. Openers(rows, pair) = S
  BY DEF Openers, Opens
<1>2. O \in SUBSET K /\ Opens(rows, K, O)
  BY LoopOpens
<1> HIDE DEF O
<1>3. S \in SUBSET K /\ Opens(rows, K, S)
  BY <1>2
<1> HIDE DEF S
<1>4. S = O
  BY <1>2, <1>3, OpenersAgree
<1> QED
  BY <1>1, <1>4 DEF O

LEMMA SessionLength ==
  ASSUME NEW rows, NEW K, Timed(rows, K), NEW F, SessionsOf(rows, K, F),
         NEW m \in K, K = Known(rows, Pair(m))
  PROVE  Cardinality(SessionUpTo(rows, m)) = F[m].units
<1> DEFINE O == {n \in K : F[n].units = 1}
           upTo == {n \in K : n = m \/ Earlier(rows, n, m)}
           start == LatestOfAll(rows, O \cap upTo)
<1>1. Openers(rows, Pair(m)) = O
  BY OpenersAre
<1>2. SessionUpTo(rows, m) = {n \in upTo : n = start \/ Earlier(rows, start, n)}
  BY <1>1 DEF SessionUpTo
<1>3. PICK o \in K : SessionTells(rows, K, F, m, o)
  BY SessionsTell
<1>4. /\ F[o].units = 1 /\ (o = m \/ Earlier(rows, o, m))
      /\ \A n \in K : F[n].units = 1 /\ Earlier(rows, o, n) => ~(n = m \/ Earlier(rows, n, m))
      /\ F[m].units = Cardinality(FromTo(rows, K, o, m))
  BY <1>3 DEF SessionTells
<1>5. start = o
  <2> DEFINE S == O \cap upTo
  <2>1. S \in SUBSET K /\ o \in S
    BY <1>4
  <2>2. ASSUME NEW n \in S \ {o} PROVE Earlier(rows, n, o)
    <3>1. n \in K /\ n # o /\ ~ Earlier(rows, o, n)
      BY <1>4, <2>2
    <3> QED
      BY <3>1, EarlierOrders
  <2> HIDE DEF S
  <2>3. LatestOfAll(rows, S) = o
    BY <2>1, <2>2, LastOfRowsIs
  <2> QED
    BY <2>3 DEF S
<1> HIDE DEF start
<1>6. SessionUpTo(rows, m) = FromTo(rows, K, o, m)
  BY <1>2, <1>5 DEF FromTo
<1> QED
  BY <1>4, <1>6

\* What the loop says a message costs is what its session says.
LEMMA AllocatedIsCharged ==
  ASSUME NEW rows, \A n \in Chats : rows[n].sent \in Times,
         NEW m \in Chats, rows[m].result = "chat"
  PROVE  Allocated(rows, m) = Charge(rows, m)
<1> DEFINE K == Known(rows, Pair(m))
           F == Sessions(rows, K)
<1>1. m \in K <=> Readable(rows[m].sent)
  BY DEF Known
<1>2. CASE m \in K
  <2>1. Timed(rows, K)
    BY KnownAreTimed
  <2>2. SessionsOf(rows, K, F)
    BY <2>1, SessionsAre
  <2>3. Allocated(rows, m) = IF F[m].units > MaxUnits THEN 0 ELSE ChatPrice
    BY <1>2 DEF Allocated
  <2>4. PICK o \in K : SessionTells(rows, K, F, m, o)
    <3> HIDE DEF K, F
    <3> QED
      BY <1>2, <2>1, <2>2, SessionsTell
  <2>5. F[m].units \in Nat
    BY <2>4 DEF SessionTells
  <2>6. Cardinality(SessionUpTo(rows, m)) = F[m].units
    <3>1. K = Known(rows, Pair(m))
      OBVIOUS
    <3> HIDE DEF K, F
    <3> QED
      BY <1>2, <2>1, <2>2, <3>1, SessionLength
  <2>7. Readable(rows[m].sent)
    BY <1>1, <1>2
  <2> HIDE DEF K, F
  <2>8. Charge(rows, m) = IF F[m].units <= MaxUnits THEN ChatPrice ELSE 0
    BY <2>6, <2>7 DEF Charge
  <2> QED
    BY <2>3, <2>5, <2>8, ThreadsAssumption
<1>3. CASE m \notin K
  <2>1. Allocated(rows, m) = ChatPrice
    BY <1>3 DEF Allocated
  <2>2. ~ Readable(rows[m].sent)
    BY <1>1, <1>3
  <2>3. Charge(rows, m) = Cost(rows[m].result)
    BY <2>2 DEF Charge
  <2> QED
    BY <2>1, <2>3 DEF Cost
<1> QED
  BY <1>2, <1>3

\* A charge goes by the times and the delivered chats of the pair only.
LEMMA SameCharge ==
  ASSUME NEW rows, \A n \in Chats : rows[n].sent \in Times,
         NEW more, \A n \in Chats : more[n].sent = rows[n].sent,
         NEW m \in Chats, Known(more, Pair(m)) = Known(rows, Pair(m)),
         more[m].result = rows[m].result
  PROVE  Charge(more, m) = Charge(rows, m)
<1> DEFINE K == Known(rows, Pair(m))
           F == Sessions(rows, K)
<1>1. CASE m \in K
  <2>1. Timed(rows, K) /\ Timed(more, K)
    <3>1. Timed(rows, K)
      BY KnownAreTimed
    <3>2. \A n \in Chats : more[n].sent \in Times
      OBVIOUS
    <3>3. Timed(more, Known(more, Pair(m)))
      BY <3>2, KnownAreTimed
    <3> QED
      BY <3>1, <3>3
  <2>2. SessionsOf(rows, K, F)
    BY <2>1, SessionsAre
  <2>3. K = Known(rows, Pair(m)) /\ K = Known(more, Pair(m)) /\ K \subseteq Chats
    BY DEF Known
  <2>4. Readable(rows[m].sent) /\ Readable(more[m].sent)
    BY <1>1 DEF Known
  <2> HIDE DEF K, F
  <2>5. \A n, k \in K : Earlier(more, n, k) <=> Earlier(rows, n, k)
    BY <2>3 DEF Earlier
  <2>6. ASSUME NEW n \in K PROVE NextSession(more, K, F, n) = NextSession(rows, K, F, n)
    <3> DEFINE before == {k \in K : Earlier(rows, k, n)}
    <3>1. {k \in K : Earlier(more, k, n)} = before
      BY <2>5
    <3>2. before # {} => LatestOfAll(more, before) = LatestOfAll(rows, before)
      <4> DEFINE p == LatestOfAll(rows, before)
      <4>1. before \in SUBSET K
        OBVIOUS
      <4> HIDE DEF before
      <4>2. before # {} => p \in before /\ \A k \in before \ {p} : Earlier(rows, k, p)
        BY <2>1, <4>1, LastOfRows
      <4> HIDE DEF p
      <4>3. before # {} => p \in before /\ \A k \in before \ {p} : Earlier(more, k, p)
        BY <2>5, <4>1, <4>2
      <4>4. before # {} => LatestOfAll(more, before) = p
        BY <2>1, <4>1, <4>3, LastOfRowsIs
      <4> QED
        BY <4>4 DEF p
    <3>3. more[n].sent = rows[n].sent
      BY <2>3
    <3> HIDE DEF before
    <3> QED
      BY <3>1, <3>2, <3>3 DEF NextSession, before
  <2>7. SessionsOf(more, K, F)
    <3>1. \A n \in K : F[n] = NextSession(more, K, F, n)
      BY <2>2, <2>6, SessionIsNext
    <3>2. F = [n \in K |-> F[n]]
      BY <2>2 DEF SessionsOf
    <3> QED
      BY <3>1, <3>2 DEF SessionsOf
  <2>8. Cardinality(SessionUpTo(rows, m)) = F[m].units
    BY <1>1, <2>1, <2>2, <2>3, SessionLength
  <2>9. Cardinality(SessionUpTo(more, m)) = F[m].units
    BY <1>1, <2>1, <2>3, <2>7, SessionLength
  <2> QED
    BY <2>4, <2>8, <2>9 DEF Charge
<1>2. CASE m \notin K
  <2>1. ~(rows[m].result = "chat" /\ Readable(rows[m].sent))
    BY <1>2 DEF Known
  <2>2. more[m].sent = rows[m].sent
    OBVIOUS
  <2> HIDE DEF K
  <2> QED
    BY <2>1, <2>2 DEF Charge
<1> QED
  BY <1>1, <1>2

LEMMA ResultsCharge ==
  ASSUME ThreadsTypeOK, ChargesAreTheSessions,
         NEW some \in SUBSET Chats, NEW time \in ReportTimes,
         NEW results \in [some -> {"chat", "sms", "failed"}],
         ReceiveResults(results, time)
  PROVE  ChargesAreTheSessions'
<1> DEFINE applied == [m \in Chats |->
             IF m \in some
             THEN [mts[m] EXCEPT !.result = results[m], !.at = time, !.cost = Cost(results[m])]
             ELSE mts[m]]
           cost == SessionCap(applied, some)
           pairs == {Pair(m) : m \in {c \in some : applied[c].result = "chat"}}
<1>1. DOMAIN results = some
  OBVIOUS
<1>2. /\ mts' = [m \in Chats |-> [applied[m] EXCEPT !.cost = cost[m]]]
      /\ total' = [m \in Chats |->
           IF m \in some \/ cost[m] # applied[m].cost THEN cost[m] ELSE total[m]]
      /\ \A m \in some : mts[m].result = "open"
  BY <1>1 DEF ReceiveResults
<1>3. \A m \in Chats :
        cost[m] = IF Pair(m) \in pairs THEN Allocated(applied, m) ELSE applied[m].cost
  BY DEF SessionCap
<1>4. ASSUME NEW m \in some
      PROVE  /\ applied[m] = [sent |-> mts[m].sent, result |-> results[m], at |-> time,
                              cost |-> Cost(results[m])]
             /\ mts[m].result = "open"
  <2>1. applied[m] = [mts[m] EXCEPT !.result = results[m], !.at = time,
                                    !.cost = Cost(results[m])]
    OBVIOUS
  <2>2. mts[m] = [sent |-> mts[m].sent, result |-> mts[m].result,
                  at |-> mts[m].at, cost |-> mts[m].cost]
    BY DEF ThreadsTypeOK
  <2> HIDE DEF applied
  <2> QED
    BY <1>2, <2>1, <2>2, ReportedRow
<1>5. \A m \in Chats \ some : applied[m] = mts[m]
  OBVIOUS
<1>6. \A m \in Chats : pairs = pairs /\ (m \in some /\ applied[m].result = "chat" => Pair(m) \in pairs)
  OBVIOUS
<1> HIDE DEF applied, cost, pairs
<1>7. ASSUME NEW m \in Chats
      PROVE  /\ applied[m] = [sent |-> applied[m].sent, result |-> applied[m].result,
                              at |-> applied[m].at, cost |-> applied[m].cost]
             /\ applied[m].sent = mts[m].sent /\ applied[m].sent \in Times
  <2>1. CASE m \in some
    <3> DEFINE k == [sent |-> mts[m].sent, result |-> results[m], at |-> time,
                     cost |-> Cost(results[m])]
               q == applied[m]
    <3>1. q = k /\ mts[m].sent \in Times
      BY <1>4, <2>1 DEF ThreadsTypeOK
    <3> HIDE DEF q
    <3>2. q = [sent |-> q.sent, result |-> q.result, at |-> q.at, cost |-> q.cost]
          /\ q.sent = mts[m].sent
      BY <3>1
    <3> QED
      BY <3>1, <3>2 DEF q
  <2>2. CASE m \notin some
    BY <1>5, <2>2 DEF ThreadsTypeOK
  <2> QED
    BY <2>1, <2>2
<1>8. ASSUME NEW m \in Chats
      PROVE  /\ mts'[m].sent = applied[m].sent /\ mts'[m].result = applied[m].result
             /\ mts'[m].cost = cost[m]
  <2> DEFINE q == applied[m]
             r == mts'[m]
             k == [sent |-> q.sent, result |-> q.result, at |-> q.at, cost |-> cost[m]]
  <2>1. r = [q EXCEPT !.cost = cost[m]]
    BY <1>2
  <2>2. q = [sent |-> q.sent, result |-> q.result, at |-> q.at, cost |-> q.cost]
    BY <1>7
  <2> HIDE DEF q, r
  <2>3. r = k
    BY <2>1, <2>2
  <2>4. r.sent = q.sent /\ r.result = q.result /\ r.cost = cost[m]
    BY <2>3
  <2> QED
    BY <2>4 DEF q, r
\* A pair without a chat in the report keeps its delivered chats.
<1>9. ASSUME NEW m \in Chats, Pair(m) \notin pairs
      PROVE  Known(applied, Pair(m)) = Known(mts, Pair(m))
  <2>1. ASSUME NEW n \in Chats, Pair(n) = Pair(m)
        PROVE  (applied[n].result = "chat" /\ Readable(applied[n].sent))
               <=> (mts[n].result = "chat" /\ Readable(mts[n].sent))
    <3>1. CASE n \in some
      BY <1>4, <1>6, <1>9, <2>1, <3>1
    <3>2. CASE n \notin some
      BY <1>5, <3>2
    <3> QED
      BY <3>1, <3>2
  <2> QED
    BY <2>1 DEF Known
<1>10. ASSUME NEW m \in Chats PROVE Charge(mts', m) = Charge(applied, m)
  <2> DEFINE more == mts'
  <2>1. \A n \in Chats : more[n].sent = applied[n].sent /\ more[n].result = applied[n].result
    BY <1>8
  <2>2. \A n \in Chats : applied[n].sent \in Times
    BY <1>7
  <2> HIDE DEF more
  <2>3. Known(more, Pair(m)) = Known(applied, Pair(m))
    BY <2>1 DEF Known
  <2>4. Charge(more, m) = Charge(applied, m)
    BY <2>1, <2>2, <2>3, SameCharge
  <2> QED
    BY <2>4 DEF more
<1>11. ASSUME NEW m \in Chats PROVE cost[m] = Charge(applied, m)
  <2>0. mts[m].cost = Charge(mts, m)
    BY DEF ChargesAreTheSessions
  <2>1. CASE applied[m].result # "chat"
    <3>1. Charge(applied, m) = Cost(applied[m].result)
      BY <2>1 DEF Charge
    <3>2. cost[m] = applied[m].cost
      BY <1>3, <2>1 DEF Allocated
    <3>3. CASE m \in some
      <4> DEFINE q == applied[m]
                 c == Cost(results[m])
      <4>1. q = [sent |-> mts[m].sent, result |-> results[m], at |-> time, cost |-> c]
        BY <1>4, <3>3
      <4> HIDE DEF q, c
      <4>2. q.result = results[m] /\ q.cost = c
        BY <4>1
      <4> QED
        BY <3>1, <3>2, <4>2 DEF q, c
    <3>4. CASE m \notin some
      <4>1. applied[m] = mts[m]
        BY <1>5, <3>4
      <4>2. Charge(mts, m) = Cost(mts[m].result)
        BY <2>1, <4>1 DEF Charge
      <4> QED
        BY <2>0, <3>1, <3>2, <4>1, <4>2
    <3> QED
      BY <3>3, <3>4
  <2>2. CASE applied[m].result = "chat" /\ Pair(m) \in pairs
    <3>1. Allocated(applied, m) = Charge(applied, m)
      BY <1>7, <2>2, AllocatedIsCharged
    <3> QED
      BY <1>3, <2>2, <3>1
  <2>3. CASE applied[m].result = "chat" /\ Pair(m) \notin pairs
    <3>1. m \notin some
      BY <1>6, <2>3
    <3>2. applied[m] = mts[m]
      BY <1>5, <3>1
    <3>3. cost[m] = mts[m].cost
      BY <1>3, <2>3, <3>2
    <3>4. Charge(applied, m) = Charge(mts, m)
      <4>1. \A n \in Chats : mts[n].sent \in Times
        BY DEF ThreadsTypeOK
      <4>2. \A n \in Chats : applied[n].sent = mts[n].sent
        BY <1>7
      <4>3. Known(applied, Pair(m)) = Known(mts, Pair(m))
        BY <1>9, <2>3
      <4> QED
        BY <3>2, <4>1, <4>2, <4>3, SameCharge
    <3> QED
      BY <2>0, <3>3, <3>4
  <2> QED
    BY <2>1, <2>2, <2>3
<1>12. ASSUME NEW m \in Chats
       PROVE  mts'[m].cost = Charge(mts', m) /\ total'[m] = Charge(mts', m)
  <2>1. mts'[m].cost = cost[m] /\ cost[m] = Charge(mts', m)
    BY <1>8, <1>10, <1>11
  <2>2. total'[m] = cost[m]
    <3>1. CASE m \in some \/ cost[m] # applied[m].cost
      BY <1>2, <3>1
    <3>2. CASE ~(m \in some \/ cost[m] # applied[m].cost)
      <4>1. total'[m] = total[m] /\ applied[m] = mts[m]
        BY <1>2, <1>5, <3>2
      <4>2. total[m] = Charge(mts, m) /\ mts[m].cost = Charge(mts, m)
        BY DEF ChargesAreTheSessions
      <4> QED
        BY <3>2, <4>1, <4>2
    <3> QED
      BY <3>1, <3>2
  <2> QED
    BY <2>1, <2>2
<1> QED
  BY <1>12 DEF ChargesAreTheSessions, Chats

\* In whatever order the reports come, each campaign is charged for what its
\* message is in its session of a day (apply_chat_session_cap).
THEOREM ChargesAreOfTheSessions == ThreadsSpec => []ChargesAreTheSessions
<1>1. ThreadsInit => ThreadsTypeOK /\ ChargesAreTheSessions
  <2> SUFFICES ASSUME ThreadsInit PROVE ThreadsTypeOK /\ ChargesAreTheSessions
    OBVIOUS
  <2>1. \A m \in Chats : mts[m].result = "open" /\ mts[m].cost = 0 /\ total[m] = 0
    BY DEF ThreadsInit
  <2>2. \A m \in Chats : Charge(mts, m) = 0
    BY <2>1 DEF Charge, Cost
  <2> QED
    BY <2>1, <2>2, ThreadsInitHolds DEF ChargesAreTheSessions
<1>2. ThreadsTypeOK /\ ChargesAreTheSessions /\ [ThreadsNext]_threadsVars
        => ThreadsTypeOK' /\ ChargesAreTheSessions'
  <2> SUFFICES ASSUME ThreadsTypeOK, ChargesAreTheSessions, [ThreadsNext]_threadsVars
               PROVE  ChargesAreTheSessions'
    BY ThreadsNextKeeps
  <2>1. CASE \E some \in SUBSET Chats, time \in ReportTimes :
               \E results \in [some -> {"chat", "sms", "failed"}] :
                 some # {} /\ ReceiveResults(results, time)
    BY <2>1, ResultsCharge
  <2>2. ASSUME mts' = mts, total' = total PROVE ChargesAreTheSessions'
    BY <2>2 DEF ChargesAreTheSessions, Chats
  <2>3. CASE \E row \in Answers : Answer(row)
    BY <2>2, <2>3 DEF Answer
  <2>4. CASE UNCHANGED threadsVars
    BY <2>2, <2>4 DEF threadsVars
  <2> QED
    BY <2>1, <2>3, <2>4 DEF ThreadsNext
<1> QED
  BY <1>1, <1>2, PTL DEF ThreadsSpec
=============================================================================
