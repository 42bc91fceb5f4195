------------------------- MODULE AdministrationProofs -------------------------
(***************************************************************************)
(* Four parts of the administration that share no state, each for any      *)
(* size: sender numbers (Numbers), the notification centre (Notices), the  *)
(* set-up (SetUp), and contacts and groups (Directory).                    *)
(***************************************************************************)
EXTENDS Numbers, Notices, SetUp, Directory, WellFoundedInduction, FiniteSetTheorems, TLAPS

(***************************************************************************)
(* Numbers.  OneActiveDefault is not inductive: a request that commits     *)
(* writes by what it read before.  The invariant adds that what a request  *)
(* has read is still so, unless another request changed the table since    *)
(* (stale); a commit of a stale request is what overtaken records.         *)
(***************************************************************************)
NumberRow == [active : BOOLEAN, isDefault : BOOLEAN]
AdminRequest ==
  [verb : {"none", "toggle", "default", "delete"}, nid : Nat,
   active : BOOLEAN, isDefault : BOOLEAN, picked : BOOLEAN, fallback : Nat,
   stale : BOOLEAN]

NumbersTypeOK ==
  /\ DOMAIN callers \subseteq NumberIds
  /\ callers \in [DOMAIN callers -> NumberRow]
  /\ adminReq \in [NumberAdmins -> AdminRequest]
  /\ overtaken \in BOOLEAN

\* What the request of a has read is what the table holds, and the successor
\* it found is one still.
Seen(a) ==
  /\ adminReq[a].nid \in Registered
  /\ callers[adminReq[a].nid].active = adminReq[a].active
  /\ callers[adminReq[a].nid].isDefault = adminReq[a].isDefault
  /\ adminReq[a].verb = "default" => adminReq[a].active
  /\ adminReq[a].verb = "delete" => ~adminReq[a].active
  /\ adminReq[a].fallback # NoNumber =>
       /\ adminReq[a].active /\ adminReq[a].isDefault
       /\ adminReq[a].fallback \in Registered \ {adminReq[a].nid}
       /\ callers[adminReq[a].fallback].active

SeenIsCurrent ==
  \A a \in NumberAdmins :
    adminReq[a].verb # "none" /\ ~adminReq[a].stale => Seen(a)

\* The property, without the order of the list.
DefaultIsActive == \A n \in Registered : callers[n].isDefault => callers[n].active
DefaultIsOne ==
  \A m, n \in Registered : callers[m].isDefault /\ callers[n].isDefault => m = n

NumbersInv ==
  /\ NumbersTypeOK
  /\ SeenIsCurrent
  /\ overtaken \/ (DefaultIsActive /\ DefaultIsOne)

(***************************************************************************)
(* Lemmas.                                                                 *)
(***************************************************************************)
\* A non-empty set of ids has a smallest member.
LEMMA MinIsMember ==
  ASSUME NEW S \in SUBSET Nat, S # {}
  PROVE  Min(S) \in S
<1> DEFINE Less == {ss \in Nat \X Nat : ss[1] < ss[2]}
<1>1. OpToRel(<, Nat) = Less
  BY DEF OpToRel
<1>2. IsWellFoundedOn(Less, Nat)
  BY NatLessThanWellFounded, <1>1
<1>3. PICK x \in S : \A y \in S : <<y, x>> \notin Less
  <2> HIDE DEF Less
  <2> QED
    BY <1>2, WFMin
<1>4. \A y \in S : x <= y
  <2> SUFFICES ASSUME NEW y \in S PROVE x <= y
    OBVIOUS
  <2>1. <<y, x>> \in Nat \X Nat
    OBVIOUS
  <2>2. ~ (y < x)
    BY <1>3, <2>1
  <2> QED
    BY <2>2
<1> QED
  BY <1>4 DEF Min

\* An idle administrator has a request record that found nothing.
LEMMA IdleRequest == Idle \in AdminRequest /\ Idle.verb = "none" /\ Idle.fallback = NoNumber
BY DEF Idle, AdminRequest, NoNumber

\* When a request ends, what the others have read is still so or marked.
LEMMA OthersSeen ==
  ASSUME NumbersTypeOK, SeenIsCurrent,
         NEW a \in NumberAdmins, NEW changed \in BOOLEAN, Answered(a, changed),
         changed \/ callers' = callers
  PROVE  /\ adminReq' \in [NumberAdmins -> AdminRequest]
         /\ SeenIsCurrent'
<1>1. ASSUME NEW b \in NumberAdmins
      PROVE  adminReq'[b] = IF b = a THEN Idle
               ELSE [adminReq[b] EXCEPT !.stale = @ \/ (changed /\ adminReq[b] # Idle)]
  BY DEF Answered
<1>3. ASSUME NEW b \in NumberAdmins
      PROVE  adminReq'[b] \in AdminRequest
  <2>1. (adminReq[b].stale \/ (changed /\ adminReq[b] # Idle)) \in BOOLEAN
    OBVIOUS
  <2> QED
    BY <1>1, IdleRequest, <2>1 DEF NumbersTypeOK, AdminRequest
<1>4. ASSUME NEW b \in NumberAdmins, adminReq'[b].verb # "none", ~adminReq'[b].stale
      PROVE  Seen(b)'
  <2>1. b # a
    BY <1>1, <1>4, IdleRequest
  <2>2. adminReq[b] \in AdminRequest
    BY DEF NumbersTypeOK
  <2>3. adminReq'[b] = [adminReq[b] EXCEPT !.stale = @ \/ (changed /\ adminReq[b] # Idle)]
    BY <1>1, <2>1
  <2>4. adminReq[b].verb # "none" /\ adminReq[b] # Idle
    BY <1>4, <2>2, <2>3, IdleRequest DEF AdminRequest
  <2>5. ~adminReq[b].stale /\ ~changed
    BY <1>4, <2>2, <2>3, <2>4 DEF AdminRequest
  <2>6. Seen(b) /\ callers' = callers
    BY <2>4, <2>5 DEF SeenIsCurrent
  <2> QED
    BY <2>2, <2>3, <2>6 DEF Seen, AdminRequest, Registered
<1> QED
  BY <1>3, <1>4, <1>1 DEF SeenIsCurrent, Answered

(***************************************************************************)
(* The invariant, one action at a time.                                    *)
(***************************************************************************)
\* create_number: the new id is nobody's, and it is the default only if no
\* number is.
LEMMA CreateKeeps ==
  ASSUME NumbersInv, NEW a \in NumberAdmins, CreateNumber(a)
  PROVE  NumbersInv'
<1> DEFINE nid == Max(Registered \cup {NoNumber}) + 1
<1>1. /\ nid \in NumberIds
      /\ callers' = [n \in Registered \cup {nid} |->
           IF n = nid THEN [active |-> TRUE, isDefault |-> FALSE] ELSE callers[n]]
      /\ Answered(a, TRUE)
      /\ overtaken' = overtaken
  BY DEF CreateNumber
<1> HIDE DEF nid
<1>2. SeenIsCurrent' /\ adminReq' \in [NumberAdmins -> AdminRequest]
  BY <1>1, OthersSeen DEF NumbersInv
<1>3. NumbersTypeOK'
  BY <1>1, <1>2 DEF NumbersInv, NumbersTypeOK, NumberRow, Registered
<1>4. DefaultIsActive => DefaultIsActive'
  BY <1>1 DEF DefaultIsActive, Registered
<1>5. DefaultIsOne => DefaultIsOne'
  BY <1>1 DEF DefaultIsOne, Registered
<1> QED
  BY <1>1, <1>2, <1>3, <1>4, <1>5 DEF NumbersInv

\* The three requests load their row.
LEMMA ReadKeeps ==
  ASSUME NumbersInv, NEW a \in NumberAdmins,
         NEW verb \in {"toggle", "default", "delete"}, NEW nid \in Registered,
         ReadNumber(a, verb, nid)
  PROVE  NumbersInv'
<1> DEFINE q == [Idle EXCEPT !.verb = verb, !.nid = nid,
                   !.active = callers[nid].active,
                   !.isDefault = callers[nid].isDefault]
<1>1. /\ adminReq' = [adminReq EXCEPT ![a] = q]
      /\ Accepts(verb, callers[nid])
      /\ callers' = callers /\ overtaken' = overtaken
  BY DEF ReadNumber
<1>2. callers[nid].active \in BOOLEAN /\ callers[nid].isDefault \in BOOLEAN /\ nid \in Nat
  BY DEF NumbersInv, NumbersTypeOK, Registered, NumberRow, NumberIds
<1>3. /\ q.verb = verb /\ q.nid = nid /\ q.active = callers[nid].active
      /\ q.isDefault = callers[nid].isDefault /\ q.fallback = NoNumber
  BY IdleRequest DEF AdminRequest
<1>4. q \in AdminRequest
  BY <1>2, IdleRequest DEF AdminRequest
<1>5. /\ verb = "default" => callers[nid].active
      /\ verb = "delete" => ~callers[nid].active
  BY <1>1 DEF Accepts
<1> HIDE DEF q
<1>6. NumbersTypeOK'
  BY <1>1, <1>4 DEF NumbersInv, NumbersTypeOK
<1>7. ASSUME NEW b \in NumberAdmins, adminReq'[b].verb # "none", ~adminReq'[b].stale
      PROVE  Seen(b)'
  <2>1. CASE b = a
    <3>1. adminReq'[b] = q
      BY <1>1, <2>1 DEF NumbersInv, NumbersTypeOK
    <3> QED
      BY <3>1, <1>1, <1>3, <1>5 DEF Seen, Registered
  <2>2. CASE b # a
    <3>1. adminReq'[b] = adminReq[b]
      BY <1>1, <2>2 DEF NumbersInv, NumbersTypeOK
    <3> QED
      BY <3>1, <1>1, <1>7 DEF NumbersInv, SeenIsCurrent, Seen, Registered
  <2> QED
    BY <2>1, <2>2
<1> QED
  BY <1>1, <1>6, <1>7 DEF NumbersInv, SeenIsCurrent, DefaultIsActive, DefaultIsOne, Registered

\* Toggling off the default looks for its successor.
LEMMA PickKeeps ==
  ASSUME NumbersInv, NEW a \in NumberAdmins, PickFallback(a)
  PROVE  NumbersInv'
<1> DEFINE q == adminReq[a]
           found == IF q.active /\ q.isDefault /\ Successors(q.nid) # {}
                    THEN Min(Successors(q.nid)) ELSE NoNumber
           p == [q EXCEPT !.picked = TRUE, !.fallback = found]
<1>1. /\ adminReq' = [adminReq EXCEPT ![a] = p]
      /\ callers' = callers /\ overtaken' = overtaken
  BY DEF PickFallback
<1>2. q \in AdminRequest
  BY DEF NumbersInv, NumbersTypeOK
<1>3. Successors(q.nid) \in SUBSET Nat
  BY DEF NumbersInv, NumbersTypeOK, Successors, Approved, Registered, NumberIds
<1>4. /\ found \in Nat
      /\ found # NoNumber => q.active /\ q.isDefault /\ found \in Successors(q.nid)
  BY <1>3, MinIsMember DEF NoNumber
<1> HIDE DEF found
<1>5. p \in AdminRequest
  BY <1>2, <1>4 DEF AdminRequest
<1>6. /\ p.verb = q.verb /\ p.nid = q.nid /\ p.active = q.active
      /\ p.isDefault = q.isDefault /\ p.stale = q.stale /\ p.fallback = found
  BY <1>2 DEF AdminRequest
<1> HIDE DEF p, q
<1>7. NumbersTypeOK'
  BY <1>1, <1>5 DEF NumbersInv, NumbersTypeOK
<1>8. ASSUME NEW b \in NumberAdmins, adminReq'[b].verb # "none", ~adminReq'[b].stale
      PROVE  Seen(b)'
  <2>1. CASE b = a
    <3>1. adminReq'[b] = p
      BY <1>1, <2>1 DEF NumbersInv, NumbersTypeOK
    <3>2. Seen(a) /\ q = adminReq[a]
      BY <3>1, <1>6, <1>8 DEF NumbersInv, SeenIsCurrent, q
    <3> QED
      BY <3>1, <3>2, <1>1, <1>4, <1>6 DEF Seen, Registered, Successors, Approved
  <2>2. CASE b # a
    <3>1. adminReq'[b] = adminReq[b]
      BY <1>1, <2>2 DEF NumbersInv, NumbersTypeOK
    <3> QED
      BY <3>1, <1>1, <1>8 DEF NumbersInv, SeenIsCurrent, Seen, Registered
  <2> QED
    BY <2>1, <2>2
<1> QED
  BY <1>1, <1>7, <1>8 DEF NumbersInv, SeenIsCurrent, DefaultIsActive, DefaultIsOne, Registered

\* toggle_number: the default moves with the row it was read from.
LEMMA ToggleKeeps ==
  ASSUME NumbersInv, NEW a \in NumberAdmins, ToggleCommits(a)
  PROVE  NumbersInv'
<1> DEFINE q == adminReq[a]
           found == {q.nid} \cup ({q.fallback} \ {NoNumber}) \subseteq Registered
<1>1. /\ q.verb = "toggle"
      /\ ~found => callers' = callers
      /\ found => callers' = [n \in Registered |->
           [active |-> IF n = q.nid THEN ~q.active ELSE callers[n].active,
            isDefault |-> \/ n = q.fallback
                          \/ /\ callers[n].isDefault
                             /\ ~(n = q.nid /\ q.active /\ q.isDefault)]]
      /\ overtaken' = (overtaken \/ (found /\ q.stale))
      /\ Answered(a, found)
  BY DEF ToggleCommits
<1>2. q \in AdminRequest
  BY DEF NumbersInv, NumbersTypeOK
<1>3. found \in BOOLEAN
  OBVIOUS
<1>4. found => q.nid \in Registered /\ (q.fallback # NoNumber => q.fallback \in Registered)
  OBVIOUS
<1>5. NoNumber \notin Registered
  BY DEF NumbersInv, NumbersTypeOK, Registered, NumberIds, NoNumber
<1> HIDE DEF found
<1>6. SeenIsCurrent' /\ adminReq' \in [NumberAdmins -> AdminRequest]
  BY <1>1, <1>3, OthersSeen DEF NumbersInv
<1>7. CASE ~found
  BY <1>1, <1>6, <1>7 DEF NumbersInv, NumbersTypeOK, DefaultIsActive, DefaultIsOne, Registered
<1>8. CASE found
  <2>1. DOMAIN callers' = Registered
    BY <1>1, <1>8
  <2>2. ASSUME NEW n \in Registered
        PROVE  /\ callers'[n].active = IF n = q.nid THEN ~q.active ELSE callers[n].active
               /\ callers'[n].isDefault = ( \/ n = q.fallback
                                            \/ /\ callers[n].isDefault
                                               /\ ~(n = q.nid /\ q.active /\ q.isDefault) )
               /\ callers'[n] \in NumberRow
    <3> DEFINE on == IF n = q.nid THEN ~q.active ELSE callers[n].active
               def == ( \/ n = q.fallback
                        \/ /\ callers[n].isDefault
                           /\ ~(n = q.nid /\ q.active /\ q.isDefault) )
    <3>1. callers'[n] = [active |-> on, isDefault |-> def]
      BY <1>1, <1>8
    <3>2. on \in BOOLEAN /\ def \in BOOLEAN
      BY <1>2 DEF NumbersInv, NumbersTypeOK, Registered, NumberRow, AdminRequest
    <3> HIDE DEF on, def
    <3>3. callers'[n].active = on /\ callers'[n].isDefault = def /\ callers'[n] \in NumberRow
      BY <3>1, <3>2 DEF NumberRow
    <3> QED
      BY <3>3 DEF on, def
  <2>3. NumbersTypeOK'
    <3>1. callers' \in [DOMAIN callers' -> NumberRow]
      BY <1>1, <1>8, <2>1, <2>2
    <3>2. overtaken' \in BOOLEAN
      BY <1>1, <1>2, <1>3 DEF NumbersInv, NumbersTypeOK, AdminRequest
    <3> QED
      BY <3>1, <3>2, <1>6, <2>1 DEF NumbersInv, NumbersTypeOK, Registered
  <2>4. ASSUME ~overtaken'
        PROVE  DefaultIsActive' /\ DefaultIsOne'
    <3>1. ~overtaken /\ ~q.stale
      BY <1>1, <1>8, <2>4, <1>2 DEF NumbersInv, NumbersTypeOK, AdminRequest
    <3>2. DefaultIsActive /\ DefaultIsOne
      BY <3>1 DEF NumbersInv
    <3>3. Seen(a)
      BY <3>1, <1>1 DEF NumbersInv, SeenIsCurrent
    <3>4. ASSUME NEW n \in Registered, callers'[n].isDefault
          PROVE  /\ callers'[n].active
                 /\ n = q.fallback \/ (q.fallback = NoNumber /\ callers[n].isDefault)
      <4>1. CASE n = q.fallback
        <5>1. n # q.nid /\ callers[n].active
          BY <3>3, <4>1, <1>5 DEF Seen
        <5> QED
          BY <5>1, <4>1, <2>2
      <4>2. CASE n # q.fallback
        <5>1. callers[n].isDefault /\ ~(n = q.nid /\ q.active /\ q.isDefault)
          BY <2>2, <3>4, <4>2
        <5>2. callers[n].active
          BY <5>1, <3>2 DEF DefaultIsActive
        <5>3. n # q.nid
          BY <5>1, <5>2, <3>3 DEF Seen
        <5>4. q.fallback = NoNumber
          BY <5>1, <5>3, <3>2, <3>3 DEF Seen, DefaultIsOne
        <5> QED
          BY <5>1, <5>2, <5>3, <5>4, <2>2
      <4> QED
        BY <4>1, <4>2
    <3>5. DefaultIsActive'
      BY <2>1, <3>4 DEF DefaultIsActive, Registered
    <3>6. DefaultIsOne'
      <4> SUFFICES ASSUME NEW m \in Registered, NEW n \in Registered,
                          callers'[m].isDefault, callers'[n].isDefault
                   PROVE  m = n
        BY <2>1 DEF DefaultIsOne, Registered
      <4> QED
        BY <3>2, <3>4, <1>5 DEF DefaultIsOne
    <3> QED
      BY <3>5, <3>6
  <2> QED
    BY <1>6, <2>3, <2>4 DEF NumbersInv
<1> QED
  BY <1>7, <1>8

\* set_default_number: every other number loses the flag.
LEMMA DefaultKeeps ==
  ASSUME NumbersInv, NEW a \in NumberAdmins, DefaultCommits(a)
  PROVE  NumbersInv'
<1> DEFINE q == adminReq[a]
           found == q.nid \in Registered
<1>1. /\ q.verb = "default"
      /\ ~found => callers' = callers
      /\ found => callers' = [n \in Registered |-> [callers[n] EXCEPT !.isDefault = n = q.nid]]
      /\ overtaken' = (overtaken \/ (found /\ q.stale))
      /\ Answered(a, found)
  BY DEF DefaultCommits
<1>2. q \in AdminRequest /\ found \in BOOLEAN
  BY DEF NumbersInv, NumbersTypeOK
<1> HIDE DEF found
<1>3. SeenIsCurrent' /\ adminReq' \in [NumberAdmins -> AdminRequest]
  BY <1>1, <1>2, OthersSeen DEF NumbersInv
<1>4. CASE ~found
  BY <1>1, <1>3, <1>4 DEF NumbersInv, NumbersTypeOK, DefaultIsActive, DefaultIsOne, Registered
<1>5. CASE found
  <2>1. DOMAIN callers' = Registered
    BY <1>1, <1>5
  <2>2. ASSUME NEW n \in Registered
        PROVE  /\ callers'[n].active = callers[n].active
               /\ callers'[n].isDefault = (n = q.nid)
               /\ callers'[n] \in NumberRow
    <3>1. callers[n] \in NumberRow /\ (n = q.nid) \in BOOLEAN
      BY DEF NumbersInv, NumbersTypeOK, Registered
    <3>2. callers'[n] = [callers[n] EXCEPT !.isDefault = n = q.nid]
      BY <1>1, <1>5
    <3> QED
      BY <3>1, <3>2 DEF NumberRow
  <2>3. NumbersTypeOK'
    <3>1. callers' \in [DOMAIN callers' -> NumberRow]
      BY <1>1, <1>5, <2>1, <2>2
    <3>2. overtaken' \in BOOLEAN
      BY <1>1, <1>2 DEF NumbersInv, NumbersTypeOK, AdminRequest
    <3> QED
      BY <3>1, <3>2, <1>3, <2>1 DEF NumbersInv, NumbersTypeOK, Registered
  <2>4. ASSUME ~overtaken'
        PROVE  DefaultIsActive' /\ DefaultIsOne'
    <3>1. ~q.stale
      BY <1>1, <1>5, <2>4
    <3>2. q.nid \in Registered /\ callers[q.nid].active
      BY <3>1, <1>1 DEF NumbersInv, SeenIsCurrent, Seen
    <3> QED
      BY <2>1, <2>2, <3>2 DEF DefaultIsActive, DefaultIsOne, Registered
  <2> QED
    BY <1>3, <2>3, <2>4 DEF NumbersInv
<1> QED
  BY <1>4, <1>5

\* delete_number removes an inactive number.
LEMMA DeleteKeeps ==
  ASSUME NumbersInv, NEW a \in NumberAdmins, DeleteCommits(a)
  PROVE  NumbersInv'
<1> DEFINE q == adminReq[a]
           found == q.nid \in Registered
<1>1. /\ callers' = [n \in Registered \ {q.nid} |-> callers[n]]
      /\ overtaken' = (overtaken \/ (found /\ q.stale))
      /\ Answered(a, found)
  BY DEF DeleteCommits
<1>2. callers \in [Registered -> NumberRow] /\ found \in BOOLEAN
  BY DEF NumbersInv, NumbersTypeOK, Registered
<1>3. found \/ callers' = callers
  BY <1>1, <1>2
<1> HIDE DEF found
<1>4. SeenIsCurrent' /\ adminReq' \in [NumberAdmins -> AdminRequest]
  BY <1>1, <1>2, <1>3, OthersSeen DEF NumbersInv
<1>5. NumbersTypeOK'
  BY <1>1, <1>2, <1>4 DEF NumbersInv, NumbersTypeOK, Registered, AdminRequest
<1>6. overtaken' \/ (DefaultIsActive' /\ DefaultIsOne')
  BY <1>1, <1>2 DEF NumbersInv, NumbersTypeOK, DefaultIsActive, DefaultIsOne, Registered
<1> QED
  BY <1>4, <1>5, <1>6 DEF NumbersInv

(***************************************************************************)
(* The theorems.                                                           *)
(***************************************************************************)
\* No numbers and no requests.
LEMMA NumbersInitHolds == NumbersInit => NumbersInv
<1> SUFFICES ASSUME NumbersInit PROVE NumbersInv
  OBVIOUS
<1>1. callers = <<>> /\ DOMAIN callers = {} /\ overtaken = FALSE
  BY DEF NumbersInit
<1>2. adminReq = [a \in NumberAdmins |-> Idle]
  BY DEF NumbersInit
<1>3. NumbersTypeOK
  <2>1. callers \in [DOMAIN callers -> NumberRow]
    BY <1>1
  <2>2. adminReq \in [NumberAdmins -> AdminRequest]
    BY <1>2, IdleRequest
  <2> QED
    BY <1>1, <2>1, <2>2 DEF NumbersTypeOK
<1>4. SeenIsCurrent
  BY <1>2, IdleRequest DEF SeenIsCurrent
<1> QED
  BY <1>1, <1>3, <1>4 DEF NumbersInv, DefaultIsActive, DefaultIsOne, Registered

\* One step for each action of NumbersNext.
LEMMA NumbersNextKeeps == NumbersInv /\ [NumbersNext]_numbersVars => NumbersInv'
<1> SUFFICES ASSUME NumbersInv, [NumbersNext]_numbersVars PROVE NumbersInv'
  OBVIOUS
<1>1. CASE NumbersNext
  <2> PICK a \in NumberAdmins :
        \/ CreateNumber(a)
        \/ \E verb \in {"toggle", "default", "delete"}, nid \in Registered :
             ReadNumber(a, verb, nid)
        \/ PickFallback(a) \/ ToggleCommits(a) \/ DefaultCommits(a) \/ DeleteCommits(a)
    BY <1>1 DEF NumbersNext
  <2> QED
    BY CreateKeeps, ReadKeeps, PickKeeps, ToggleKeeps, DefaultKeeps, DeleteKeeps
<1>2. CASE UNCHANGED numbersVars
  BY <1>2 DEF NumbersInv, NumbersTypeOK, SeenIsCurrent, Seen, DefaultIsActive,
              DefaultIsOne, Registered, numbersVars
<1> QED
  BY <1>1, <1>2

\* What a request has read is still so, or marked as overtaken.
THEOREM NumbersInvariance == NumbersSpec => []NumbersInv
  BY NumbersInitHolds, NumbersNextKeeps, PTL DEF NumbersSpec

\* The table of numbers and the requests of administrators keep their types.
THEOREM NumbersTypeCorrect == NumbersSpec => []NumbersTypeOK
<1>1. NumbersInv => NumbersTypeOK
  BY DEF NumbersInv
<1> QED
  BY NumbersInvariance, <1>1, PTL

\* The default is one number, can be sent from and stands on top of the list
\* (numbers.py: toggle_number, set_default_number, delete_number), for any
\* number of administrators, as long as none wrote by what another changed.
THEOREM DefaultIsOneAndActive == NumbersSpec => []OneActiveDefault
<1>1. NumbersInv => OneActiveDefault
  <2> SUFFICES ASSUME NumbersInv, ~overtaken, NEW n \in Registered, callers[n].isDefault
               PROVE  OnTop(n)
    BY DEF OneActiveDefault
  <2>1. callers[n].active
    BY DEF NumbersInv, DefaultIsActive
  <2>2. ASSUME NEW o \in Registered, o # n PROVE ~callers[o].isDefault
    BY <2>2 DEF NumbersInv, DefaultIsOne
  <2> QED
    BY <2>1, <2>2 DEF OnTop, Approved
<1> QED
  BY NumbersInvariance, <1>1, PTL

(***************************************************************************)
(* Notices.  Two facts make DismissedStays inductive: the ids that a       *)
(* request loaded under _notif_lock are the stored ones, so it writes back *)
(* no older set; and the stored ids are among the dismissed, so that the   *)
(* limit cuts no dismissed notice that sorts among the last.               *)
(***************************************************************************)
NoticePost ==
  [step : {"none", "posted", "loaded"}, on : Sources \cup {<<"all", 0>>},
   ids : SUBSET Sources]

NoticesTypeOK ==
  /\ readIds \subseteq Sources
  /\ dismissed \subseteq Sources
  /\ tabs \in [NoticeTabs -> NoticePost]

LoadedIsStored ==
  \A t \in NoticeTabs :
    tabs[t].step = "loaded" => notifLock = t /\ tabs[t].ids = readIds

NoticesInv ==
  /\ NoticesTypeOK
  /\ LoadedIsStored
  /\ readIds \subseteq dismissed
  /\ Kept(dismissed) \subseteq readIds

\* A user has finitely many notices.
LEMMA SourcesAreFinite == IsFiniteSet(Sources)
<1>1. NCampaigns \in Int /\ NAudits \in Int
  BY NoticesAssumption
<1>2. IsFiniteSet(1..NCampaigns) /\ IsFiniteSet(1..NAudits)
  BY <1>1, FS_Interval
<1>3. IsFiniteSet({"campaign"}) /\ IsFiniteSet({"audit"})
  BY FS_Singleton
<1> QED
  BY <1>2, <1>3, FS_Product, FS_Union DEF Sources

\* Fewer stored ids cut no more.
LEMMA KeptOfLess ==
  ASSUME NEW S, NEW T, S \subseteq T, T \subseteq Sources, NEW n \in S, n \in Kept(T)
  PROVE  n \in Kept(S)
<1> DEFINE s == {m \in S : SortsBefore(n, m)}
           t == {m \in T : SortsBefore(n, m)}
<1>1. IsFiniteSet(t)
  BY SourcesAreFinite, FS_Subset
<1>2. s \subseteq t
  OBVIOUS
<1>3. IsFiniteSet(s) /\ Cardinality(s) <= Cardinality(t)
  <2> HIDE DEF s, t
  <2> QED
    BY <1>1, <1>2, FS_Subset
<1>4. Cardinality(s) \in Nat /\ Cardinality(t) \in Nat
  <2> HIDE DEF s, t
  <2> QED
    BY <1>1, <1>3, FS_CardinalityType
<1>5. Cardinality(t) < MaxReadIds
  BY DEF Kept
<1>6. MaxReadIds \in Nat
  BY NoticesAssumption
<1>7. Cardinality(s) < MaxReadIds
  <2> HIDE DEF s, t
  <2> QED
    BY <1>3, <1>4, <1>5, <1>6
<1> QED
  BY <1>7 DEF Kept

(***************************************************************************)
(* The invariant, one action at a time.                                    *)
(***************************************************************************)
\* A new notice changes no stored id.
LEMMA HappensKeeps ==
  ASSUME NoticesInv, NEW n \in Sources, Happens(n)
  PROVE  NoticesInv'
BY DEF Happens, NoticesInv, NoticesTypeOK, LoadedIsStored, Kept

\* A tab posts before any lock is taken.
LEMMA PostKeeps ==
  ASSUME NoticesInv, NEW t \in NoticeTabs, NEW n \in Unread \cup {<<"all", 0>>}, Post(t, n)
  PROVE  NoticesInv'
<1> DEFINE p == [NoPost EXCEPT !.step = "posted", !.on = n]
<1>1. tabs' = [tabs EXCEPT ![t] = p] /\ UNCHANGED <<readIds, notifLock, dismissed>>
  BY DEF Post
<1>2. n \in Sources \cup {<<"all", 0>>}
  BY DEF Unread, ListedNotices
<1>3. NoPost \in NoticePost
  BY DEF NoPost, NoticePost
<1>4. p \in NoticePost /\ p.step = "posted"
  BY <1>2, <1>3 DEF NoticePost
<1> HIDE DEF p
<1>5. NoticesTypeOK' /\ LoadedIsStored'
  BY <1>1, <1>4 DEF NoticesInv, NoticesTypeOK, LoadedIsStored
<1> QED
  BY <1>1, <1>5 DEF NoticesInv, Kept

\* The holder of _notif_lock loads what is stored.
LEMMA LoadKeeps ==
  ASSUME NoticesInv, NEW t \in NoticeTabs, LoadReadState(t)
  PROVE  NoticesInv'
<1>1. /\ notifLock = Unlocked /\ notifLock' = t
      /\ tabs' = [tabs EXCEPT ![t].step = "loaded", ![t].ids = readIds]
      /\ UNCHANGED <<readIds, dismissed>>
  BY DEF LoadReadState, TakesLock
<1>2. tabs[t] \in NoticePost /\ readIds \in SUBSET Sources
  BY DEF NoticesInv, NoticesTypeOK
<1>3. tabs'[t] \in NoticePost /\ tabs'[t].ids = readIds
  BY <1>1, <1>2 DEF NoticesInv, NoticesTypeOK, NoticePost
<1>4. \A u \in NoticeTabs \ {t} : tabs'[u] = tabs[u]
  BY <1>1 DEF NoticesInv, NoticesTypeOK
<1>5. NoticesTypeOK'
  BY <1>1, <1>3, <1>4 DEF NoticesInv, NoticesTypeOK
<1>6. \A u \in NoticeTabs \ {t} : tabs[u].step # "loaded"
  BY <1>1, NoticesAssumption DEF NoticesInv, LoadedIsStored
<1>7. LoadedIsStored'
  BY <1>1, <1>3, <1>4, <1>6 DEF LoadedIsStored
<1> QED
  BY <1>1, <1>5, <1>7 DEF NoticesInv, Kept

\* After either write nobody has loaded ids.
LEMMA Released ==
  ASSUME NoticesInv, NEW t \in NoticeTabs, tabs[t].step = "loaded",
         tabs' = [tabs EXCEPT ![t] = NoPost]
  PROVE  tabs' \in [NoticeTabs -> NoticePost] /\ LoadedIsStored'
<1>1. NoPost \in NoticePost /\ NoPost.step = "none"
  BY DEF NoPost, NoticePost
<1>2. \A u \in NoticeTabs \ {t} : tabs[u].step # "loaded"
  BY DEF NoticesInv, LoadedIsStored
<1> QED
  BY <1>1, <1>2 DEF NoticesInv, NoticesTypeOK, LoadedIsStored

\* mark_read writes back what it loaded, with one id more, and cuts the rest.
LEMMA MarkKeeps ==
  ASSUME NoticesInv, NEW t \in NoticeTabs, MarkRead(t)
  PROVE  NoticesInv'
<1> DEFINE on == tabs[t].on
<1>1. /\ on \in Sources
      /\ tabs[t].step = "loaded"
      /\ readIds' = IF on \in tabs[t].ids THEN readIds ELSE Kept(tabs[t].ids \cup {on})
      /\ dismissed' = dismissed \cup {on}
      /\ tabs' = [tabs EXCEPT ![t] = NoPost]
  BY DEF MarkRead
<1> HIDE DEF on
<1>2. tabs[t].ids = readIds
  BY <1>1 DEF NoticesInv, LoadedIsStored
<1>3. readIds \subseteq dismissed /\ dismissed \subseteq Sources
  BY DEF NoticesInv, NoticesTypeOK
<1>4. \A S : Kept(S) \subseteq S
  BY DEF Kept
<1>5. readIds' \subseteq dismissed' /\ dismissed' \subseteq Sources
  BY <1>1, <1>2, <1>3, <1>4
<1>6. ASSUME NEW n \in Kept(dismissed \cup {on})
      PROVE  n \in readIds'
  <2>1. CASE on \in readIds
    BY <1>1, <1>2, <1>3, <1>6, <2>1 DEF NoticesInv
  <2>2. CASE on \notin readIds
    <3>1. n \in readIds \cup {on}
      <4>1. CASE n \in dismissed
        <5>1. n \in Kept(dismissed)
          BY <1>1, <1>3, <1>6, <4>1, KeptOfLess
        <5> QED
          BY <5>1 DEF NoticesInv
      <4>2. CASE n \notin dismissed
        BY <1>4, <1>6, <4>2
      <4> QED
        BY <4>1, <4>2
    <3>2. n \in Kept(readIds \cup {on})
      BY <1>1, <1>3, <1>6, <3>1, KeptOfLess
    <3> QED
      BY <1>1, <1>2, <2>2, <3>2
  <2> QED
    BY <2>1, <2>2
<1>7. Kept(dismissed)' \subseteq readIds'
  BY <1>1, <1>6 DEF Kept
<1>8. tabs' \in [NoticeTabs -> NoticePost] /\ LoadedIsStored'
  BY <1>1, Released
<1> QED
  BY <1>5, <1>7, <1>8 DEF NoticesInv, NoticesTypeOK

\* mark_all_read sets the mark and keeps no ids.
LEMMA MarkAllKeeps ==
  ASSUME NoticesInv, NEW t \in NoticeTabs, MarkAllRead(t)
  PROVE  NoticesInv'
<1>1. /\ readIds' = {} /\ dismissed' = {}
      /\ tabs[t].step = "loaded"
      /\ tabs' = [tabs EXCEPT ![t] = NoPost]
  BY DEF MarkAllRead
<1>2. tabs' \in [NoticeTabs -> NoticePost] /\ LoadedIsStored'
  BY <1>1, Released
<1>3. Kept(dismissed)' \subseteq readIds'
  BY <1>1 DEF Kept
<1> QED
  BY <1>1, <1>2, <1>3 DEF NoticesInv, NoticesTypeOK

(***************************************************************************)
(* The theorems.                                                           *)
(***************************************************************************)
\* Nothing is stored and nothing is posted.
LEMMA NoticesInitHolds == NoticesInit => NoticesInv
<1> SUFFICES ASSUME NoticesInit PROVE NoticesInv
  OBVIOUS
<1>1. /\ readIds = {} /\ dismissed = {}
      /\ tabs = [t \in NoticeTabs |-> NoPost]
  BY DEF NoticesInit
<1>2. NoPost \in NoticePost /\ NoPost.step = "none"
  BY DEF NoPost, NoticePost
<1>3. NoticesTypeOK /\ LoadedIsStored
  BY <1>1, <1>2 DEF NoticesTypeOK, LoadedIsStored
<1> QED
  BY <1>1, <1>3 DEF NoticesInv, Kept

\* One step for each action of NoticesNext.
LEMMA NoticesNextKeeps == NoticesInv /\ [NoticesNext]_noticesVars => NoticesInv'
<1> SUFFICES ASSUME NoticesInv, [NoticesNext]_noticesVars PROVE NoticesInv'
  OBVIOUS
<1>1. CASE \E n \in Sources : Happens(n)
  BY <1>1, HappensKeeps
<1>2. CASE \E t \in NoticeTabs :
             \/ \E n \in Unread \cup {<<"all", 0>>} : Post(t, n)
             \/ LoadReadState(t) \/ MarkRead(t) \/ MarkAllRead(t)
  BY <1>2, PostKeeps, LoadKeeps, MarkKeeps, MarkAllKeeps
<1>3. CASE UNCHANGED noticesVars
  BY <1>3 DEF NoticesInv, NoticesTypeOK, LoadedIsStored, Kept, noticesVars
<1> QED
  BY <1>1, <1>2, <1>3 DEF NoticesNext

\* What a request holds under _notif_lock is what is stored.
THEOREM NoticesInvariance == NoticesSpec => []NoticesInv
  BY NoticesInitHolds, NoticesNextKeeps, PTL DEF NoticesSpec

\* mark_read and mark_all_read under _notif_lock: whatever tabs post and
\* whatever happens meanwhile, a dismissed notice that the limit leaves does
\* not come back as unread.
THEOREM DismissedStaysDismissed == NoticesSpec => []DismissedStays
<1>1. NoticesInv => DismissedStays
  BY DEF NoticesInv, DismissedStays, Unread
<1> QED
  BY NoticesInvariance, <1>1, PTL

(***************************************************************************)
(* Set-up.  Until a set-up is saved there is no client, no administrator   *)
(* and no sign-in; since the last one was saved, the first user to sign in *)
(* is the one for whom an address was not needed.                          *)
(***************************************************************************)
Saved ==
  [done : BOOLEAN, version : Nat, email : Users \cup {NoEmail}, pending : BOOLEAN]
Page ==
  [step : {"closed", "opening", "token", "config", "discovery", "done"},
   token : Nat, verified : BOOLEAN, email : Users \cup {NoEmail}]

SetUpTypeOK ==
  /\ saved \in Saved
  /\ tokenFile \in [token : Nat, made : Nat]
  /\ page \in [Operators -> Page]
  /\ client \in Nat
  /\ closing \in BOOLEAN
  /\ admin \in [Users -> BOOLEAN]
  /\ signIns \in [Users -> Nat]
  /\ first \in Users \cup {NoUser}
  /\ replaced \in BOOLEAN

NothingBeforeSetUp ==
  /\ saved.done <=> saved.version > 0
  /\ ~saved.done => /\ client = 0
                    /\ ~replaced
                    /\ \A u \in Users : ~admin[u] /\ signIns[u] = 0

FirstIsFirst ==
  /\ first = NoUser => \A u \in Users : signIns[u] = 0
  /\ first # NoUser => signIns[first] > 0
  /\ saved.done /\ saved.email = NoEmail => (saved.pending <=> first = NoUser)

SetUpInv ==
  /\ SetUpTypeOK
  /\ NothingBeforeSetUp
  /\ FirstIsFirst
  /\ AdminsAreAsSetUp
  /\ ClientIsCurrent

\* A page that moves, or a token that is made, saves nothing.
LEMMA PageKeeps ==
  ASSUME SetUpInv,
         UNCHANGED <<saved, client, closing, admin, signIns, first, replaced>>,
         tokenFile' \in [token : Nat, made : Nat], page' \in [Operators -> Page]
  PROVE  SetUpInv'
BY DEF SetUpInv, SetUpTypeOK, NothingBeforeSetUp, FirstIsFirst, AdminsAreAsSetUp,
       ClientIsCurrent

\* The actions of a page but the last.
LEMMA PageStep ==
  ASSUME SetUpInv, NEW o \in Operators,
         OpenPage(o) \/ GenerateToken(o) \/ EnterToken(o) \/ VerifyToken(o)
           \/ PostForm(o) \/ DiscoveryFails(o)
  PROVE  SetUpInv'
<1>1. /\ page \in [Operators -> Page] /\ page[o] \in Page
      /\ tokenFile \in [token : Nat, made : Nat]
  BY DEF SetUpInv, SetUpTypeOK
<1>2. CASE OpenPage(o)
  <2>1. [page EXCEPT ![o].step = IF saved.done THEN "done" ELSE "opening"]
          \in [Operators -> Page]
    BY <1>1 DEF Page
  <2> QED
    BY <1>1, <1>2, <2>1, PageKeeps DEF OpenPage, Others
<1>3. CASE GenerateToken(o)
  <2>1. [page EXCEPT ![o].step = IF page[o].verified THEN "config" ELSE "token",
                     ![o].token = 0] \in [Operators -> Page]
    BY <1>1 DEF Page
  <2>2. tokenFile' \in [token : Nat, made : Nat]
    BY <1>1, <1>3 DEF GenerateToken
  <2> QED
    BY <1>1, <1>3, <2>1, <2>2, PageKeeps DEF GenerateToken, Others
<1>4. CASE EnterToken(o)
  <2>1. [page EXCEPT ![o].token = tokenFile.token] \in [Operators -> Page]
    BY <1>1 DEF Page
  <2> QED
    BY <1>1, <1>4, <2>1, PageKeeps DEF EnterToken, Others
<1>5. CASE VerifyToken(o)
  <2>1. [page EXCEPT ![o].step = "config", ![o].verified = TRUE] \in [Operators -> Page]
    BY <1>1 DEF Page
  <2> QED
    BY <1>1, <1>5, <2>1, PageKeeps DEF VerifyToken, Others
<1>6. CASE PostForm(o)
  <2>1. PICK email \in Users \cup {NoEmail} :
          page' = [page EXCEPT ![o].step = "discovery", ![o].email = email]
    BY <1>6 DEF PostForm
  <2>2. page' \in [Operators -> Page]
    BY <1>1, <2>1 DEF Page
  <2> QED
    BY <1>1, <1>6, <2>2, PageKeeps DEF PostForm, Others
<1>7. CASE DiscoveryFails(o)
  <2>1. [page EXCEPT ![o].step = "config"] \in [Operators -> Page]
    BY <1>1 DEF Page
  <2> QED
    BY <1>1, <1>7, <2>1, PageKeeps DEF DiscoveryFails
<1> QED
  BY <1>2, <1>3, <1>4, <1>5, <1>6, <1>7

\* What the transaction of complete_setup leaves, with the client of before
\* or with one made from it.
LEMMA PayloadKeeps ==
  ASSUME SetUpInv, NEW o \in Operators, SavePayload(o),
         client' = client \/ client' = saved'.version,
         UNCHANGED admin, closing' \in BOOLEAN,
         tokenFile' \in [token : Nat, made : Nat], page' \in [Operators -> Page]
  PROVE  SetUpInv'
<1>1. page[o].email \in Users \cup {NoEmail} /\ saved.version \in Nat
  BY DEF SetUpInv, SetUpTypeOK, Page, Saved
<1>2. /\ saved' = [done |-> TRUE, version |-> saved.version + 1,
                   email |-> page[o].email, pending |-> TRUE]
      /\ signIns' = [u \in Users |-> 0]
      /\ first' = NoUser
      /\ replaced' = (replaced \/ saved.done)
  BY DEF SavePayload
<1>3. saved' \in Saved /\ saved'.done /\ saved'.version > 0 /\ saved'.pending
  BY <1>1, <1>2 DEF Saved
<1>4. SetUpTypeOK'
  BY <1>2, <1>3 DEF SetUpInv, SetUpTypeOK, Saved
<1>5. NothingBeforeSetUp' /\ FirstIsFirst' /\ AdminsAreAsSetUp'
  BY <1>2, <1>3 DEF NothingBeforeSetUp, FirstIsFirst, AdminsAreAsSetUp
<1>6. ClientIsCurrent'
  BY <1>2 DEF SetUpInv, NothingBeforeSetUp, ClientIsCurrent
<1> QED
  BY <1>4, <1>5, <1>6 DEF SetUpInv

\* The session of a restart, with the set-up saved before it or not.
LEMMA RestartKeeps ==
  ASSUME SetUpInv, SetUpRestart
  PROVE  SetUpInv'
<1>1. /\ page' = PagesAfterRestart /\ client' = saved'.version /\ closing' = FALSE
      /\ UNCHANGED <<tokenFile, admin>>
  BY DEF SetUpRestart, MadeClient
<1>2. page' \in [Operators -> Page]
  <2> SUFFICES ASSUME NEW o \in Operators PROVE PagesAfterRestart[o] \in Page
    BY <1>1 DEF PagesAfterRestart
  <2>1. page[o] \in Page
    BY DEF SetUpInv, SetUpTypeOK
  <2>2. PagesAfterRestart[o] =
          [page[o] EXCEPT !.verified = FALSE,
                          !.step = CASE page[o].step = "discovery" -> "config"
                                     [] page[o].step = "opening" -> "closed"
                                     [] OTHER -> page[o].step]
    BY DEF PagesAfterRestart
  <2> QED
    BY <2>1, <2>2 DEF Page
<1>3. tokenFile' \in [token : Nat, made : Nat] /\ closing' \in BOOLEAN
  BY <1>1 DEF SetUpInv, SetUpTypeOK
<1>4. CASE UNCHANGED <<saved, signIns, first, replaced>>
  <2>1. SetUpTypeOK'
    BY <1>1, <1>2, <1>3, <1>4 DEF SetUpInv, SetUpTypeOK, Saved
  <2>2. client' = saved.version /\ (~saved.done => client' = 0)
    BY <1>1, <1>4 DEF SetUpInv, SetUpTypeOK, Saved, NothingBeforeSetUp
  <2> QED
    BY <1>1, <1>4, <2>1, <2>2 DEF SetUpInv, NothingBeforeSetUp, FirstIsFirst,
         AdminsAreAsSetUp, ClientIsCurrent
<1>5. CASE \E o \in Operators : SavePayload(o)
  BY <1>1, <1>2, <1>3, <1>5, PayloadKeeps
<1> QED
  BY <1>4, <1>5 DEF SetUpRestart

\* A request makes a client of the saved credentials, and new credentials are
\* committed before the old client is closed.
LEMMA ClientStep ==
  ASSUME SetUpInv, GetMsghubClient \/ PatchProvider \/ OldClientClosed
  PROVE  SetUpInv'
<1>1. saved \in Saved
  BY DEF SetUpInv, SetUpTypeOK
<1>2. CASE GetMsghubClient
  <2>1. /\ client' = saved.version /\ saved.version # 0
        /\ UNCHANGED <<saved, tokenFile, page, closing, admin, signIns, first, replaced>>
    BY <1>2 DEF GetMsghubClient, MadeClient
  <2>2. saved.done /\ client' \in Nat
    BY <1>1, <2>1 DEF SetUpInv, NothingBeforeSetUp, Saved
  <2> QED
    BY <2>1, <2>2 DEF SetUpInv, SetUpTypeOK, NothingBeforeSetUp, FirstIsFirst,
         AdminsAreAsSetUp, ClientIsCurrent
<1>3. CASE PatchProvider
  <2>1. /\ saved' = [saved EXCEPT !.version = @ + 1] /\ client' = 0 /\ closing' = TRUE
        /\ UNCHANGED <<tokenFile, page, admin, signIns, first, replaced>>
    BY <1>3 DEF PatchProvider, SavedByPatch
  <2>2. saved.done
    BY <1>3 DEF PatchProvider, SetUpInv, NothingBeforeSetUp
  <2>3. /\ saved' \in Saved /\ saved'.version > 0 /\ saved'.done
        /\ saved'.email = saved.email /\ saved'.pending = saved.pending
    BY <1>1, <2>1, <2>2 DEF Saved
  <2> QED
    BY <2>1, <2>2, <2>3 DEF SetUpInv, SetUpTypeOK, NothingBeforeSetUp, FirstIsFirst,
         AdminsAreAsSetUp, ClientIsCurrent
<1>4. CASE OldClientClosed
  BY <1>4 DEF OldClientClosed, SavedByPatch, SetUpInv, SetUpTypeOK,
       NothingBeforeSetUp, FirstIsFirst, AdminsAreAsSetUp, ClientIsCurrent
<1> QED
  BY <1>2, <1>3, <1>4

\* callback: whose sign-in it is decides his role, and only his.
LEMMA SignInKeeps ==
  ASSUME SetUpInv, NEW u \in Users, SignIn(u)
  PROVE  SetUpInv'
<1>1. /\ saved \in Saved /\ saved.version > 0 /\ saved.done
      /\ admin \in [Users -> BOOLEAN] /\ signIns \in [Users -> Nat]
  BY DEF SignIn, SetUpInv, SetUpTypeOK, NothingBeforeSetUp
<1>2. /\ admin' = [admin EXCEPT ![u] = u \in KeycloakAdmins \/ Anchored(u)]
      /\ saved' = [saved EXCEPT !.pending = @ /\ saved.email # NoEmail /\ u # saved.email]
      /\ signIns' = [signIns EXCEPT ![u] = @ + 1]
      /\ first' = IF first = NoUser THEN u ELSE first
      /\ UNCHANGED <<tokenFile, page, client, closing, replaced>>
  BY DEF SignIn
<1>3. u # NoUser /\ u # NoEmail
  BY SetUpAssumption
<1>4. /\ saved' \in Saved /\ saved'.version = saved.version /\ saved'.done
      /\ saved'.email = saved.email /\ (saved.email = NoEmail => ~saved'.pending)
  BY <1>1, <1>2 DEF Saved
<1>5. admin' \in [Users -> BOOLEAN]
  BY <1>1, <1>2 DEF Anchored, Saved
<1>6. /\ signIns' \in [Users -> Nat] /\ signIns'[u] = signIns[u] + 1
      /\ \A v \in Users : v # u => signIns'[v] = signIns[v] /\ admin'[v] = admin[v]
  BY <1>1, <1>2
<1>7. SetUpTypeOK'
  BY <1>2, <1>4, <1>5, <1>6 DEF SetUpInv, SetUpTypeOK
<1>8. NothingBeforeSetUp'
  BY <1>1, <1>4 DEF NothingBeforeSetUp
<1>9. first' # NoUser /\ first' \in Users /\ signIns'[first'] > 0
  BY <1>1, <1>2, <1>3, <1>6 DEF SetUpInv, SetUpTypeOK, FirstIsFirst
<1>10. FirstIsFirst'
  BY <1>4, <1>9 DEF FirstIsFirst
<1>11. ASSUME NEW v \in Users, signIns'[v] > 0
       PROVE  admin'[v] = ( \/ v \in KeycloakAdmins
                            \/ v = saved'.email
                            \/ saved'.email = NoEmail /\ first' = v /\ signIns'[v] = 1 )
  <2>1. CASE v # u
    <3>1. signIns'[v] = signIns[v] /\ admin'[v] = admin[v] /\ signIns[v] > 0
      BY <1>6, <1>11, <2>1
    <3>2. first # NoUser /\ first' = first
      BY <1>1, <1>2, <3>1 DEF SetUpInv, FirstIsFirst
    <3> QED
      BY <1>4, <3>1, <3>2 DEF SetUpInv, AdminsAreAsSetUp
  <2>2. CASE v = u
    <3>1. admin'[u] = (u \in KeycloakAdmins \/ Anchored(u))
      BY <1>1, <1>2
    <3>2. CASE saved.email # NoEmail
      BY <1>3, <1>4, <2>2, <3>1, <3>2 DEF Anchored
    <3>3. CASE saved.email = NoEmail
      <4>1. Anchored(u) <=> first = NoUser
        BY <1>1, <3>3 DEF Anchored, SetUpInv, FirstIsFirst
      <4>2. first = NoUser => signIns[u] = 0
        BY DEF SetUpInv, FirstIsFirst
      <4>3. first # NoUser => (first = u => signIns[u] > 0)
        BY DEF SetUpInv, FirstIsFirst
      <4>4. (first = NoUser) <=> (first' = u /\ signIns'[u] = 1)
        BY <1>1, <1>2, <1>3, <1>6, <4>2, <4>3
      <4>5. admin'[u] = (u \in KeycloakAdmins \/ (first' = u /\ signIns'[u] = 1))
        BY <3>1, <4>1, <4>4
      <4> QED
        BY <1>3, <1>4, <2>2, <3>3, <4>5
    <3> QED
      BY <3>2, <3>3
  <2> QED
    BY <2>1, <2>2
<1>12. ClientIsCurrent'
  BY <1>2, <1>4 DEF SetUpInv, ClientIsCurrent
<1> QED
  BY <1>7, <1>8, <1>10, <1>11, <1>12 DEF SetUpInv, AdminsAreAsSetUp

\* A fresh installation.
LEMMA SetUpInitHolds == SetUpInit => SetUpInv
<1> SUFFICES ASSUME SetUpInit PROVE SetUpInv
  OBVIOUS
<1>1. FreshPage \in Page
  BY DEF FreshPage, Page
<1>2. saved \in Saved /\ ~saved.done /\ saved.version = 0
  BY DEF SetUpInit, Saved
<1>3. SetUpTypeOK
  BY <1>1, <1>2 DEF SetUpInit, SetUpTypeOK
<1> QED
  BY <1>2, <1>3 DEF SetUpInit, SetUpInv, NothingBeforeSetUp, FirstIsFirst,
       AdminsAreAsSetUp, ClientIsCurrent

\* One step for each action of SetUpNext.
LEMMA SetUpNextKeeps == SetUpInv /\ [SetUpNext]_setUpVars => SetUpInv'
<1> SUFFICES ASSUME SetUpInv, [SetUpNext]_setUpVars PROVE SetUpInv'
  OBVIOUS
<1>1. CASE \E o \in Operators :
             \/ OpenPage(o) \/ GenerateToken(o) \/ EnterToken(o) \/ VerifyToken(o)
             \/ PostForm(o) \/ DiscoveryFails(o)
  BY <1>1, PageStep
<1>2. ASSUME NEW o \in Operators, CompleteSetup(o) PROVE SetUpInv'
  <2>1. [FreshPage EXCEPT !.step = "done"] \in Page
    BY DEF FreshPage, Page
  <2>2. page' \in [Operators -> Page]
    BY <1>2, <2>1 DEF CompleteSetup, SetUpInv, SetUpTypeOK
  <2>3. tokenFile' \in [token : Nat, made : Nat] /\ closing' \in BOOLEAN
    BY <1>2 DEF CompleteSetup, SetUpInv, SetUpTypeOK
  <2> QED
    BY <1>2, <2>2, <2>3, PayloadKeeps DEF CompleteSetup
<1>3. CASE \E u \in Users : SignIn(u)
  BY <1>3, SignInKeeps
<1>4. CASE SetUpRestart
  BY <1>4, RestartKeeps
<1>5. CASE GetMsghubClient \/ PatchProvider \/ OldClientClosed
  BY <1>5, ClientStep
<1>6. CASE UNCHANGED setUpVars
  BY <1>6, PageKeeps DEF setUpVars, SetUpInv, SetUpTypeOK
<1> QED
  BY <1>1, <1>2, <1>3, <1>4, <1>5, <1>6 DEF SetUpNext

\* Before a set-up is saved nobody signs in, nobody is administrator and no
\* client exists.
THEOREM SetUpInvariance == SetUpSpec => []SetUpInv
  BY SetUpInitHolds, SetUpNextKeeps, PTL DEF SetUpSpec

\* The policy of callback (auth.py): whoever signs in is administrator if and
\* only if Keycloak or the set-up says so, for any number of users and of
\* set-ups saved over each other.
THEOREM AdminsAsSetUp == SetUpSpec => []AdminsAreAsSetUp
<1>1. SetUpInv => AdminsAreAsSetUp
  BY DEF SetUpInv
<1> QED
  BY SetUpInvariance, <1>1, PTL

\* patch_provider_settings commits before it resets: whoever asks for the
\* client meanwhile gets one with the saved credentials.
THEOREM ClientHasTheSavedCredentials == SetUpSpec => []ClientIsCurrent
<1>1. SetUpInv => ClientIsCurrent
  BY DEF SetUpInv
<1> QED
  BY SetUpInvariance, <1>1, PTL

(***************************************************************************)
(* Contacts, groups and the import, for any number of browsers, ids and    *)
(* files.  The answer of a request is right because of what the request    *)
(* has read or counted before: an import under way has told what it has    *)
(* done, and its rows left make up the file (ImportCounts); a bulk request *)
(* found different contacts for different numbers (BulkRead), so that      *)
(* numbers can be counted by their contacts; and members are contacts,     *)
(* ids are within bounds (TablesOk), so that a new id is nobody's.         *)
(***************************************************************************)
\* The counts of an import add up to the rows it has done.
ImportCounts(q) ==
  /\ q.told \in [Counts -> Int] /\ q.done \in [Counts -> Int]
  /\ q.told["created"] = q.done["created"] /\ q.told["updated"] = q.done["updated"]
  /\ q.told["added"] = q.done["added"]
  /\ DOMAIN q.rows \in SUBSET Nat /\ IsFiniteSet(DOMAIN q.rows)
  /\ q.asked = q.told["created"] + q.told["updated"] + q.told["skipped"]
                 + q.told["errors"] + q.told["invalid"] + Cardinality(DOMAIN q.rows)

\* The numbers of a bulk request were found to be of different contacts.
BulkRead(q) ==
  /\ q.phones \subseteq Phones /\ q.autoCreate \in BOOLEAN
  /\ DOMAIN q.known \subseteq q.phones
  /\ \A p, r \in DOMAIN q.known : q.known[p] = q.known[r] => p = r

AnswerOk(q) ==
  /\ q.told["created"] = q.done["created"] /\ q.told["updated"] = q.done["updated"]
  /\ q.told["added"] = q.done["added"] \/ q.reused
  /\ q.of = "bulk" => q.asked = q.told["added"] + q.told["skipped"]
  /\ q.of = "import" =>
       q.asked = q.told["created"] + q.told["updated"] + q.told["skipped"]
                   + q.told["errors"] + q.told["invalid"]

RequestOk(q) ==
  /\ q.step = "bulk" => BulkRead(q)
  /\ q.step = "import" => ImportCounts(q)
  /\ q.step = "answered" => AnswerOk(q)

\* Members are contacts of groups.
TablesOk ==
  /\ ContactIds \subseteq 1..MaxContactId
  /\ groups \subseteq 1..MaxGroupId
  /\ members \subseteq groups \X ContactIds

DirectoryInv ==
  /\ TablesOk
  /\ DOMAIN dirReq = DirClients
  /\ \A c \in DirClients : RequestOk(dirReq[c])

-----------------------------------------------------------------------------
\* A set of numbers that none exceeds has a greatest.
LEMMA GreatestMember ==
  ASSUME NEW n \in Nat, NEW S \in SUBSET (0..n), S # {}
  PROVE  Max(S) \in S /\ \A x \in S : Max(S) >= x
<1> DEFINE T == {k \in 0..n : n - k \in S}
<1>1. T \in SUBSET Nat /\ \A y \in S : n - y \in T
  OBVIOUS
<1>2. T # {}
  BY <1>1
<1>3. PICK k \in T : \A j \in T : k <= j
  <2> DEFINE Less == {ss \in Nat \X Nat : ss[1] < ss[2]}
  <2>1. OpToRel(<, Nat) = Less
    BY DEF OpToRel
  <2>2. IsWellFoundedOn(Less, Nat)
    BY NatLessThanWellFounded, <2>1
  <2>3. PICK k \in T : \A j \in T : <<j, k>> \notin Less
    <3> HIDE DEF Less, T
    <3> QED
      BY <1>1, <1>2, <2>2, WFMin
  <2>4. ASSUME NEW j \in T PROVE k <= j
    <3>1. <<j, k>> \in Nat \X Nat
      BY <1>1
    <3> QED
      BY <2>3, <3>1
  <2> QED
    BY <2>4
<1>4. n - k \in S /\ \A y \in S : n - k >= y
  BY <1>1, <1>3
<1> QED
  BY <1>4 DEF Max

\* A new id is none of the old ones.
LEMMA NextIdIsNew ==
  ASSUME NEW n \in Nat, NEW S \in SUBSET (1..n)
  PROVE  NextId(S) \in Nat /\ NextId(S) > 0 /\ \A i \in S : i < NextId(S)
<1> DEFINE T == S \cup {0}
<1>1. T \in SUBSET (0..n) /\ T # {}
  OBVIOUS
<1> HIDE DEF T
<1>2. Max(T) \in 0..n /\ \A x \in T : Max(T) >= x
  BY <1>1, GreatestMember
<1>3. \A i \in S : i \in T /\ i \in Nat
  BY DEF T
<1> QED
  BY <1>2, <1>3 DEF NextId, T

LEMMA TablesAreFinite ==
  ASSUME TablesOk
  PROVE  IsFiniteSet(ContactIds) /\ IsFiniteSet(members)
<1>1. IsFiniteSet(1..MaxContactId) /\ IsFiniteSet(1..MaxGroupId)
  BY DirectoryAssumption, FS_Interval
<1>2. IsFiniteSet(ContactIds) /\ IsFiniteSet(groups)
  BY <1>1, FS_Subset DEF TablesOk
<1>3. IsFiniteSet(groups \X ContactIds)
  BY <1>2, FS_Product
<1> QED
  BY <1>2, <1>3, FS_Subset DEF TablesOk

\* Contacts made together get consecutive ids, one for each number.
LEMMA NewContactsAreNew ==
  ASSUME TablesOk, NEW P, IsFiniteSet(P)
  PROVE  /\ IsFiniteSet(DOMAIN NewContacts(P))
         /\ Cardinality(DOMAIN NewContacts(P)) = Cardinality(P)
         /\ DOMAIN NewContacts(P) \cap ContactIds = {}
         /\ DOMAIN NewContacts(P)
              = NextId(ContactIds)..(NextId(ContactIds) + Cardinality(P) - 1)
<1> DEFINE n == NextId(ContactIds)
           k == Cardinality(P)
           D == n..(n + k - 1)
<1>1. n \in Nat /\ \A i \in ContactIds : i < n /\ i \in Nat
  <2>1. MaxContactId \in Nat /\ ContactIds \in SUBSET (1..MaxContactId)
    BY DirectoryAssumption DEF TablesOk
  <2>2. \A i \in ContactIds : i \in Nat
    BY <2>1
  <2> QED
    BY <2>1, <2>2, NextIdIsNew
<1>2. k \in Nat
  BY FS_CardinalityType
<1>3. PICK h \in Bijection(1..k, P) : TRUE
  BY FS_CardinalityType DEF ExistsBijection
<1>4. h \in [1..k -> P] /\ \A p \in P : \E j \in 1..k : h[j] = p
  BY <1>3 DEF Bijection, Injection, Surjection
<1> HIDE DEF n, k
<1> DEFINE f == [i \in D |-> h[i - n + 1]]
<1>5. f \in [D -> P]
  BY <1>1, <1>2, <1>4
<1>6. \A p \in P : \E i \in D : f[i] = p
  <2> SUFFICES ASSUME NEW p \in P PROVE \E i \in D : f[i] = p
    OBVIOUS
  <2>1. PICK j \in 1..k : h[j] = p
    BY <1>4
  <2>2. n + j - 1 \in D /\ f[n + j - 1] = h[j]
    BY <1>1, <1>2
  <2> QED
    BY <2>1, <2>2
<1>7. Range(f) = P
  <2> HIDE DEF f, D
  <2> QED
    BY <1>5, <1>6 DEF Range
<1>8. NewContacts(P) \in [D -> P]
  BY <1>5, <1>7 DEF NewContacts, n, k
<1>9. DOMAIN NewContacts(P) = D
  BY <1>8
<1>10. IsFiniteSet(D) /\ Cardinality(D) = k
  <2>1. n \in Int /\ n + k - 1 \in Int
    BY <1>1, <1>2
  <2>2. /\ IsFiniteSet(D)
        /\ Cardinality(D) = IF n > n + k - 1 THEN 0 ELSE (n + k - 1) - n + 1
    BY <2>1, FS_Interval
  <2> HIDE DEF D
  <2> QED
    BY <1>1, <1>2, <2>2
<1> QED
  BY <1>1, <1>2, <1>9, <1>10 DEF n, k

\* Every number of a bulk request is made a contact and a member, made a
\* member, or skipped.
LEMMA BulkAddsUp ==
  ASSUME NEW q, q.step = "bulk", BulkRead(q)
  PROVE  /\ IsFiniteSet(Missing(q)) /\ IsFiniteSet(Joining(q)) /\ IsFiniteSet(Skipped(q))
         /\ Cardinality(q.phones)
              = Cardinality(Missing(q)) + Cardinality(Joining(q)) + Cardinality(Skipped(q))
<1> DEFINE J == {p \in DOMAIN q.known : q.known[p] \notin q.were}
           M == Missing(q)
           S == Skipped(q)
<1>1. IsFiniteSet(q.phones) /\ q.phones \subseteq Phones
  BY DirectoryAssumption, FS_Subset DEF BulkRead
<1>2. /\ J \subseteq q.phones /\ M \subseteq q.phones /\ S \subseteq q.phones
      /\ q.phones = (M \cup J) \cup S /\ M \cap J = {} /\ (M \cup J) \cap S = {}
  BY DEF BulkRead, Missing, Skipped
<1>3. Cardinality(Joining(q)) = Cardinality(J) /\ IsFiniteSet(Joining(q))
  <2> DEFINE f == [p \in J |-> q.known[p]]
  <2>1. Joining(q) = {q.known[p] : p \in J}
    BY DEF Joining, Range
  <2>2. f \in Bijection(J, Joining(q))
    BY <2>1 DEF BulkRead, Bijection, Injection, Surjection, IsInjective
  <2>3. IsFiniteSet(J)
    BY <1>1, <1>2, FS_Subset
  <2> HIDE DEF J, f
  <2> QED
    BY <2>2, <2>3, FS_Bijection DEF ExistsBijection
<1> HIDE DEF J, M, S
<1>4. IsFiniteSet(J) /\ IsFiniteSet(M) /\ IsFiniteSet(S)
  BY <1>1, <1>2, FS_Subset
<1>5. IsFiniteSet(M \cup J) /\ Cardinality(M \cup J) = Cardinality(M) + Cardinality(J)
  <2>1. IsFiniteSet(M \cup J)
         /\ Cardinality(M \cup J) = Cardinality(M) + Cardinality(J) - Cardinality(M \cap J)
    BY <1>4, FS_Union
  <2>2. Cardinality(M) \in Nat /\ Cardinality(J) \in Nat
    BY <1>4, FS_CardinalityType
  <2> QED
    <3>1. Cardinality(M \cap J) = 0
      BY <1>2, FS_EmptySet
    <3> QED
      BY <2>1, <2>2, <3>1
<1>6. Cardinality(q.phones) = Cardinality(M \cup J) + Cardinality(S)
  <2>1. Cardinality((M \cup J) \cup S)
          = Cardinality(M \cup J) + Cardinality(S) - Cardinality((M \cup J) \cap S)
    BY <1>4, <1>5, FS_Union
  <2>2. Cardinality(M \cup J) \in Nat /\ Cardinality(S) \in Nat
    BY <1>4, <1>5, FS_CardinalityType
  <2> QED
    <3>1. Cardinality((M \cup J) \cap S) = 0
      BY <1>2, FS_EmptySet
    <3> QED
      BY <1>2, <2>1, <2>2, <3>1
<1> QED
  BY <1>3, <1>4, <1>5, <1>6 DEF M, S
\* A relation of one group grows by the contacts that become members.
LEMMA MembersGrow ==
  ASSUME TablesOk, NEW g, NEW D, IsFiniteSet(D), D \cap MembersOf(g) = {},
         \A i \in D : i \in ContactIds \/ <<g, i>> \notin members
  PROVE  Cardinality(members \cup ({g} \X D)) - Cardinality(members) = Cardinality(D)
<1> DEFINE new == {g} \X D
<1>1. IsFiniteSet(members) /\ IsFiniteSet({g}) /\ Cardinality({g}) = 1
  BY TablesAreFinite, FS_Singleton
<1>2. IsFiniteSet(new) /\ Cardinality(new) = 1 * Cardinality(D)
  BY <1>1, FS_Product
<1>3. Cardinality(D) \in Nat /\ Cardinality(members) \in Nat
  BY <1>1, FS_CardinalityType
<1>4. members \cap new = {}
  <2> SUFFICES ASSUME NEW i \in D, <<g, i>> \in members PROVE FALSE
    OBVIOUS
  <2>1. i \in ContactIds
    OBVIOUS
  <2> QED
    BY <2>1 DEF MembersOf
<1> HIDE DEF new
<1>5. Cardinality(members \cup new)
        = Cardinality(members) + Cardinality(new) - Cardinality(members \cap new)
  BY <1>1, <1>2, FS_Union
<1>6. Cardinality(members \cap new) = 0
  BY <1>4, FS_EmptySet
<1> QED
  BY <1>2, <1>3, <1>5, <1>6 DEF new

\* A step that leaves all requests but one, or all, alone.
LEMMA OneRequest ==
  ASSUME DirectoryInv, TablesOk', NEW c \in DirClients, NEW q, RequestOk(q),
         dirReq' = [dirReq EXCEPT ![c] = q]
  PROVE  DirectoryInv'
BY DEF DirectoryInv, RequestOk, BulkRead, ImportCounts, AnswerOk

LEMMA NoRequests ==
  ASSUME DirectoryInv, TablesOk', UNCHANGED dirReq
  PROVE  DirectoryInv'
BY DEF DirectoryInv

LEMMA NoneIsOk == RequestOk(NoRequest)
BY DEF RequestOk, NoRequest

LEMMA DirectoryInitHolds == DirectoryInit => DirectoryInv
BY NoneIsOk DEF DirectoryInit, DirectoryInv, TablesOk, ContactIds

LEMMA ContactsKeep ==
  ASSUME DirectoryInv
  PROVE  /\ \A p : CreateContact(p) => DirectoryInv'
         /\ \A i \in ContactIds : \A p : UpdateContact(i, p) => DirectoryInv'
         /\ \A i \in ContactIds : DeleteContact(i) => DirectoryInv'
<1>1. ASSUME NEW p, CreateContact(p) PROVE DirectoryInv'
  <2>1. MaxContactId \in Nat /\ ContactIds \in SUBSET (1..MaxContactId)
    BY DirectoryAssumption DEF DirectoryInv, TablesOk
  <2>2. NextId(ContactIds) \in 1..MaxContactId
    <3>1. NextId(ContactIds) \in Nat /\ NextId(ContactIds) > 0
      BY <2>1, NextIdIsNew
    <3>2. NextId(ContactIds) <= MaxContactId
      BY <1>1 DEF CreateContact
    <3> QED
      BY <2>1, <3>1, <3>2
  <2>3. DOMAIN contacts' = ContactIds \cup {NextId(ContactIds)}
    BY <1>1 DEF CreateContact, Put, ContactIds
  <2>4. TablesOk'
    BY <1>1, <2>2, <2>3 DEF CreateContact, DirectoryInv, TablesOk, ContactIds
  <2> QED
    BY <1>1, <2>4, NoRequests DEF CreateContact
<1>2. ASSUME NEW i \in ContactIds, NEW p, UpdateContact(i, p) PROVE DirectoryInv'
  <2>1. TablesOk'
    BY <1>2 DEF UpdateContact, DirectoryInv, TablesOk, ContactIds
  <2> QED
    BY <1>2, <2>1, NoRequests DEF UpdateContact
<1>3. ASSUME NEW i \in ContactIds, DeleteContact(i) PROVE DirectoryInv'
  <2>1. DOMAIN contacts' = ContactIds \ {i}
    BY <1>3 DEF DeleteContact, Restrict, ContactIds
  <2>2. members' \subseteq groups \X (ContactIds \ {i})
    BY <1>3 DEF DeleteContact, DirectoryInv, TablesOk
  <2>3. TablesOk'
    BY <1>3, <2>1, <2>2 DEF DeleteContact, DirectoryInv, TablesOk, ContactIds
  <2> QED
    BY <1>3, <2>3, NoRequests DEF DeleteContact
<1> QED
  BY <1>1, <1>2, <1>3

LEMMA GroupsKeep ==
  ASSUME DirectoryInv
  PROVE  /\ CreateGroup => DirectoryInv'
         /\ \A g \in groups : DeleteGroup(g) => DirectoryInv'
         /\ \A g, ids : RemoveMembers(g, ids) => DirectoryInv'
<1>1. ASSUME CreateGroup PROVE DirectoryInv'
  <2>1. MaxGroupId \in Nat /\ groups \in SUBSET (1..MaxGroupId)
    BY DirectoryAssumption DEF DirectoryInv, TablesOk
  <2>2. NextId(groups) \in 1..MaxGroupId
    <3>1. NextId(groups) \in Nat /\ NextId(groups) > 0
      BY <2>1, NextIdIsNew
    <3>2. NextId(groups) <= MaxGroupId
      BY <1>1 DEF CreateGroup
    <3> QED
      BY <2>1, <3>1, <3>2
  <2>3. TablesOk'
    BY <1>1, <2>2 DEF CreateGroup, DirectoryInv, TablesOk, ContactIds
  <2> QED
    BY <1>1, <2>3, NoRequests DEF CreateGroup
<1>2. ASSUME NEW g \in groups, DeleteGroup(g) PROVE DirectoryInv'
  <2>1. members' \subseteq (groups \ {g}) \X ContactIds
    BY <1>2 DEF DeleteGroup, DirectoryInv, TablesOk
  <2>2. TablesOk'
    BY <1>2, <2>1 DEF DeleteGroup, DirectoryInv, TablesOk, ContactIds
  <2> QED
    BY <1>2, <2>2, NoRequests DEF DeleteGroup
<1>3. ASSUME NEW g, NEW ids, RemoveMembers(g, ids) PROVE DirectoryInv'
  <2>1. TablesOk'
    BY <1>3 DEF RemoveMembers, DirectoryInv, TablesOk, ContactIds
  <2> QED
    BY <1>3, <2>1, NoRequests DEF RemoveMembers
<1> QED
  BY <1>1, <1>2, <1>3

\* What is found for a number is a contact that has it.
LEMMA FoundHasTheNumber ==
  ASSUME TablesOk, NEW P
  PROVE  /\ DOMAIN FoundBy(P) \subseteq P
         /\ \A p \in DOMAIN FoundBy(P) :
              FoundBy(P)[p] \in ContactIds /\ contacts[FoundBy(P)[p]] = p
<1> SUFFICES ASSUME NEW p \in DOMAIN FoundBy(P)
             PROVE  p \in P /\ FoundBy(P)[p] \in ByPhone(p)
  BY DEF ByPhone
<1>1. p \in P /\ ByPhone(p) # {} /\ FoundBy(P)[p] = Max(ByPhone(p))
  BY DEF FoundBy
<1>2. MaxContactId \in Nat /\ ByPhone(p) \in SUBSET (0..MaxContactId)
  <2>1. MaxContactId \in Nat /\ ContactIds \subseteq 1..MaxContactId
    BY DirectoryAssumption DEF TablesOk
  <2>2. ByPhone(p) \subseteq ContactIds
    BY DEF ByPhone
  <2>3. 1..MaxContactId \subseteq 0..MaxContactId
    BY <2>1
  <2> QED
    BY <2>1, <2>2, <2>3
<1>3. Max(ByPhone(p)) \in ByPhone(p)
  BY <1>1, <1>2, GreatestMember
<1> QED
  BY <1>1, <1>3

LEMMA ReadsKeep ==
  ASSUME DirectoryInv, NEW c \in DirClients
  PROVE  /\ \A g, ids : ReadForAdd(c, g, ids) => DirectoryInv'
         /\ \A g, P, auto : P \subseteq Phones /\ auto \in BOOLEAN =>
              (ReadForBulkAdd(c, g, P, auto) => DirectoryInv')
<1>1. ASSUME UNCHANGED <<contacts, groups, members>> PROVE TablesOk'
  BY <1>1 DEF DirectoryInv, TablesOk, ContactIds
<1>2. ASSUME NEW g, NEW ids, ReadForAdd(c, g, ids) PROVE DirectoryInv'
  <2> DEFINE q == [step |-> "add", group |-> g, ids |-> ids, were |-> MembersOf(g)]
  <2>1. RequestOk(q)
    BY DEF RequestOk
  <2>2. dirReq' = [dirReq EXCEPT ![c] = q] /\ TablesOk'
    BY <1>1, <1>2 DEF ReadForAdd
  <2> QED
    BY <2>1, <2>2, OneRequest
<1>3. ASSUME NEW g, NEW P, NEW auto, P \subseteq Phones, auto \in BOOLEAN,
             ReadForBulkAdd(c, g, P, auto)
      PROVE  DirectoryInv'
  <2> DEFINE q == [step |-> "bulk", group |-> g, phones |-> P, autoCreate |-> auto,
                   known |-> FoundBy(P), were |-> MembersOf(g)]
  <2>1. /\ q.step = "bulk" /\ q.phones = P /\ q.autoCreate = auto
        /\ q.known = FoundBy(P)
    OBVIOUS
  <2>2. dirReq' = [dirReq EXCEPT ![c] = q] /\ TablesOk'
    BY <1>1, <1>3 DEF ReadForBulkAdd
  <2> HIDE DEF q
  <2>3. BulkRead(q)
    BY <1>3, <2>1, FoundHasTheNumber DEF BulkRead, DirectoryInv
  <2>4. RequestOk(q)
    BY <2>1, <2>3 DEF RequestOk
  <2> QED
    BY <2>2, <2>4, OneRequest
<1> QED
  BY <1>2, <1>3

\* What is committed for a request of either kind is what it is told.
LEMMA CommitKeeps ==
  ASSUME DirectoryInv, NEW c \in DirClients, CommitMembers(c)
  PROVE  DirectoryInv'
<1> DEFINE q == dirReq[c]
           M == Missing(q)
           J == Joining(q)
           new == NewContacts(M)
           D == J \cup (DOMAIN new \ q.were)
<1>1. CASE ~Accepted(q)
  <2>1. TablesOk'
    BY <1>1 DEF CommitMembers, DirectoryInv, TablesOk, ContactIds
  <2>2. dirReq' = [dirReq EXCEPT ![c] = NoRequest]
    BY <1>1 DEF CommitMembers
  <2> QED
    BY <2>1, <2>2, NoneIsOk, OneRequest
<1>2. CASE Accepted(q)
  <2>1. TablesOk /\ RequestOk(q) /\ q.step \in {"add", "bulk"}
    BY DEF DirectoryInv, CommitMembers
  <2>2. J \subseteq ContactIds /\ J \cap MembersOf(q.group) = {} /\ q.group \in groups
    BY <1>2 DEF Accepted
  <2>3. IsFiniteSet(M) /\ IsFiniteSet(ContactIds) /\ IsFiniteSet(J)
    <3>1. IsFiniteSet(ContactIds)
      BY <2>1, TablesAreFinite
    <3>2. IsFiniteSet(J)
      BY <2>2, <3>1, FS_Subset
    <3>3. IsFiniteSet(M)
      <4>1. CASE q.step = "bulk"
        BY <2>1, <4>1, BulkAddsUp DEF RequestOk
      <4>2. CASE q.step = "add"
        BY <4>2, FS_EmptySet DEF Missing
      <4> QED
        BY <2>1, <4>1, <4>2
    <3> QED
      BY <3>1, <3>2, <3>3
  <2> HIDE DEF M
  <2>4. /\ IsFiniteSet(DOMAIN new)
        /\ Cardinality(DOMAIN new) = Cardinality(M)
        /\ DOMAIN new \cap ContactIds = {}
        /\ DOMAIN new = NextId(ContactIds)..(NextId(ContactIds) + Cardinality(M) - 1)
    BY <2>1, <2>3, NewContactsAreNew
  <2>5. /\ NextId(ContactIds) + Cardinality(M) - 1 <= MaxContactId
        /\ DOMAIN contacts' = ContactIds \cup DOMAIN new
        /\ members' = members \cup ({q.group} \X D)
        /\ UNCHANGED groups
    BY <1>2 DEF CommitMembers, M
  <2> HIDE DEF q, J
  <2>6. DOMAIN new \subseteq 1..MaxContactId
    <3>1. MaxContactId \in Nat /\ ContactIds \in SUBSET (1..MaxContactId)
      BY <2>1, DirectoryAssumption DEF TablesOk
    <3>2. NextId(ContactIds) \in Nat /\ NextId(ContactIds) > 0
      BY <3>1, NextIdIsNew
    <3>3. Cardinality(M) \in Nat
      BY <2>3, FS_CardinalityType
    <3> HIDE DEF new
    <3> QED
      BY <2>4, <2>5, <3>1, <3>2, <3>3
  <2> HIDE DEF new
  <2>7. TablesOk'
    BY <2>1, <2>2, <2>5, <2>6 DEF TablesOk, ContactIds
  <2>8. Cardinality(ContactIds \cup DOMAIN new) - Cardinality(ContactIds) = Cardinality(M)
    <3>1. Cardinality(ContactIds \cup DOMAIN new)
            = Cardinality(ContactIds) + Cardinality(DOMAIN new)
                - Cardinality(ContactIds \cap DOMAIN new)
      BY <2>3, <2>4, FS_Union
    <3>2. Cardinality(ContactIds \cap DOMAIN new) = 0
      BY <2>4, FS_EmptySet
    <3>3. Cardinality(ContactIds) \in Nat /\ Cardinality(M) \in Nat
      BY <2>3, FS_CardinalityType
    <3> QED
      BY <2>4, <3>1, <3>2, <3>3
  <2>9. ASSUME DOMAIN new \cap q.were = {}
        PROVE  Cardinality(members') - Cardinality(members) = Cardinality(M) + Cardinality(J)
    <3>1. D = J \cup DOMAIN new /\ J \cap DOMAIN new = {}
      BY <2>2, <2>4, <2>9
    <3>2. IsFiniteSet(D) /\ Cardinality(D)
            = Cardinality(J) + Cardinality(DOMAIN new) - Cardinality(J \cap DOMAIN new)
      BY <2>3, <2>4, <3>1, FS_Union
    <3>3. Cardinality(J \cap DOMAIN new) = 0
      BY <3>1, FS_EmptySet
    <3>4. Cardinality(J) \in Nat /\ Cardinality(M) \in Nat
      BY <2>3, FS_CardinalityType
    <3>5. \A i \in D : i \in ContactIds \/ <<q.group, i>> \notin members
      BY <2>1, <2>2, <2>4, <3>1 DEF TablesOk
    <3>6. D \cap MembersOf(q.group) = {}
      BY <2>2, <2>4, <3>1 DEF MembersOf
    <3> HIDE DEF D
    <3>7. Cardinality(members \cup ({q.group} \X D)) - Cardinality(members) = Cardinality(D)
      BY <2>1, <3>2, <3>5, <3>6, MembersGrow
    <3> QED
      BY <2>4, <2>5, <3>2, <3>3, <3>4, <3>7
  <2>10. /\ dirReq'[c].step = "answered" /\ dirReq'[c].of = q.step
         /\ dirReq'[c].asked = Cardinality(IF q.step = "bulk" THEN q.phones ELSE q.ids)
         /\ dirReq'[c].told["created"] = Cardinality(M)
         /\ dirReq'[c].told["updated"] = 0
         /\ dirReq'[c].told["added"] = Cardinality(M) + Cardinality(J)
         /\ dirReq'[c].told["skipped"] = Cardinality(Skipped(q))
         /\ dirReq'[c].reused = (DOMAIN new \cap q.were # {})
         /\ dirReq'[c].done["created"] = Cardinality(DOMAIN contacts') - Cardinality(ContactIds)
         /\ dirReq'[c].done["updated"] = 0
         /\ dirReq'[c].done["added"] = Cardinality(members') - Cardinality(members)
    BY <1>2 DEF CommitMembers, DirectoryInv, q, J, M, new, Zero, Counts
  <2>11. q.step = "bulk" =>
           Cardinality(q.phones) = Cardinality(M) + Cardinality(J) + Cardinality(Skipped(q))
    BY <2>1, BulkAddsUp DEF RequestOk, M, J
  <2>12. AnswerOk(dirReq'[c])
    BY <2>1, <2>5, <2>8, <2>9, <2>10, <2>11 DEF AnswerOk
  <2>13. RequestOk(dirReq'[c])
    BY <2>10, <2>12 DEF RequestOk
  <2>14. dirReq' = [dirReq EXCEPT ![c] = dirReq'[c]]
    BY <1>2 DEF CommitMembers, DirectoryInv, q
  <2> QED
    BY <2>7, <2>13, <2>14, OneRequest
<1> QED
  BY <1>1, <1>2
\* parse_csv puts every row on one of two lists.
LEMMA RowsAddUp ==
  ASSUME NEW f \in Files
  PROVE  /\ DOMAIN ValidRows(f) \in SUBSET Nat /\ IsFiniteSet(DOMAIN ValidRows(f))
         /\ Len(f) = Cardinality(DOMAIN f \ DOMAIN ValidRows(f))
                       + Cardinality(DOMAIN ValidRows(f))
         /\ Cardinality(DOMAIN f \ DOMAIN ValidRows(f)) \in Nat
<1> DEFINE V == DOMAIN ValidRows(f)
           A == DOMAIN f
<1>1. f \in Seq(Range(f))
  BY DirectoryAssumption
<1>2. A = 1..Len(f) /\ Len(f) \in Nat
  BY <1>1
<1>3. V \subseteq A
  BY DEF ValidRows, Restrict
<1> HIDE DEF V, A
<1>4. IsFiniteSet(A) /\ Cardinality(A) = Len(f)
  <2>1. 1 \in Int /\ Len(f) \in Int
    BY <1>2
  <2>2. IsFiniteSet(1..Len(f)) /\ Cardinality(1..Len(f)) = IF 1 > Len(f) THEN 0 ELSE Len(f) - 1 + 1
    BY <2>1, FS_Interval
  <2>3. Cardinality(1..Len(f)) = Len(f)
    BY <1>2, <2>2
  <2> QED
    BY <1>2, <2>2, <2>3
<1>5. IsFiniteSet(V) /\ A \cap V = V
  BY <1>3, <1>4, FS_Subset
<1>6. IsFiniteSet(A \ V) /\ Cardinality(A \ V) = Cardinality(A) - Cardinality(V)
  <2>1. IsFiniteSet(A \ V) /\ Cardinality(A \ V) = Cardinality(A) - Cardinality(A \cap V)
    BY <1>4, FS_Difference
  <2> QED
    BY <1>5, <2>1
<1>7. Cardinality(V) \in Nat /\ Cardinality(A \ V) \in Nat
  BY <1>5, <1>6, FS_CardinalityType
<1>8. V \in SUBSET Nat
  BY <1>2, <1>3
<1> QED
  BY <1>2, <1>4, <1>5, <1>6, <1>7, <1>8 DEF V, A

LEMMA StartKeeps ==
  ASSUME DirectoryInv, NEW c \in DirClients, NEW f \in Files, NEW mode,
         StartImport(c, f, mode)
  PROVE  DirectoryInv'
<1> DEFINE rows == ValidRows(f)
           invalid == Cardinality(DOMAIN f \ DOMAIN rows)
           q == dirReq'[c]
<1>1. TablesOk'
  BY DEF StartImport, DirectoryInv, TablesOk, ContactIds
<1>2. dirReq' = [dirReq EXCEPT ![c] = q]
  BY DEF StartImport, DirectoryInv
<1>3. /\ q.step = "import" /\ q.rows = rows /\ q.asked = Len(f)
      /\ q.told = [Zero EXCEPT !["invalid"] = invalid] /\ q.done = Zero
  BY DEF StartImport, DirectoryInv
<1>4. /\ DOMAIN rows \in SUBSET Nat /\ IsFiniteSet(DOMAIN rows)
      /\ Len(f) = invalid + Cardinality(DOMAIN rows)
      /\ invalid \in Nat
  BY RowsAddUp
<1> HIDE DEF rows, invalid, q
<1>5. Cardinality(DOMAIN rows) \in Nat
  BY <1>4, FS_CardinalityType
<1>6. /\ q.told \in [Counts -> Int] /\ q.done \in [Counts -> Int]
      /\ \A k \in Counts : q.done[k] = 0
      /\ \A k \in Counts \ {"invalid"} : q.told[k] = 0
      /\ q.told["invalid"] = invalid
  BY <1>3, <1>4 DEF Zero, Counts
<1>7. ImportCounts(q)
  BY <1>3, <1>4, <1>5, <1>6 DEF ImportCounts, Counts
<1>8. RequestOk(q)
  BY <1>3, <1>7 DEF RequestOk
<1> QED
  BY <1>1, <1>2, <1>8, OneRequest

\* A row is counted once, and as what was committed of it.
LEMMA RowKeeps ==
  ASSUME DirectoryInv, NEW c \in DirClients, NEW busy \in BOOLEAN, ImportRow(c, busy)
  PROVE  DirectoryInv'
<1> DEFINE q == dirReq[c]
           r == dirReq'[c]
           next == Min(DOMAIN q.rows)
           p == q.rows[next].phone
           kind == KindOf(q, p)
           new == NextId(ContactIds)
           ok == ~busy /\ (kind = "updated" => q.known[p] \in ContactIds)
           more == Cardinality(DOMAIN contacts') - Cardinality(ContactIds)
           counted == CountedAs(kind, ok)
<1>1. /\ q.step = "import" /\ DOMAIN q.rows # {}
      /\ kind = "created" => new <= MaxContactId
      /\ contacts' = IF ok /\ kind = "created" THEN Put(contacts, new, p) ELSE contacts
      /\ UNCHANGED <<groups, members>>
  BY DEF ImportRow
<1>2. /\ r.step = "import" /\ r.asked = q.asked
      /\ r.rows = Restrict(q.rows, DOMAIN q.rows \ {next})
      /\ r.told = [k \in Counts |-> q.told[k] + (IF k \in counted THEN 1 ELSE 0)]
      /\ r.done = [q.done EXCEPT
                     !["created"] = @ + Cardinality(DOMAIN contacts') - Cardinality(ContactIds),
                     !["updated"] = @ + (IF ok /\ kind = "updated" THEN 1 ELSE 0)]
  BY DEF ImportRow, DirectoryInv
<1>3. dirReq' = [dirReq EXCEPT ![c] = r]
  BY DEF ImportRow, DirectoryInv
<1>4. kind \in {"created", "updated", "skipped"}
  BY DEF KindOf
<1>5. counted = {IF ok THEN kind ELSE "errors"}
  BY DEF CountedAs
<1>6. ImportCounts(q)
  BY <1>1 DEF DirectoryInv, RequestOk
<1>7. next \in DOMAIN q.rows
  BY <1>1, <1>6, MinIsMember DEF ImportCounts
<1> HIDE DEF q, r, next, p, kind, ok, counted
<1>8. TablesOk /\ IsFiniteSet(ContactIds)
  BY TablesAreFinite DEF DirectoryInv
<1>9. /\ DOMAIN contacts' = IF ok /\ kind = "created" THEN ContactIds \cup {new} ELSE ContactIds
      /\ new \notin ContactIds
      /\ kind = "created" => new \in 1..MaxContactId
  <2>1. MaxContactId \in Nat /\ ContactIds \in SUBSET (1..MaxContactId)
    BY <1>8, DirectoryAssumption DEF TablesOk
  <2>2. new \in Nat /\ new > 0 /\ \A i \in ContactIds : i < new
    BY <2>1, NextIdIsNew
  <2> HIDE DEF new
  <2>3. new \notin ContactIds
    BY <2>2
  <2> QED
    BY <1>1, <2>1, <2>2, <2>3 DEF Put, ContactIds
<1> HIDE DEF new
<1>10. TablesOk'
  BY <1>1, <1>8, <1>9 DEF TablesOk, ContactIds
<1>11. more = IF ok /\ kind = "created" THEN 1 ELSE 0
  <2>1. Cardinality(ContactIds) \in Nat
    BY <1>8, FS_CardinalityType
  <2>2. Cardinality(ContactIds \cup {new}) = Cardinality(ContactIds) + 1
    BY <1>8, <1>9, FS_AddElement
  <2> QED
    BY <1>9, <2>1, <2>2
<1>12. /\ DOMAIN r.rows = DOMAIN q.rows \ {next} /\ IsFiniteSet(DOMAIN r.rows)
       /\ Cardinality(DOMAIN r.rows) = Cardinality(DOMAIN q.rows) - 1
       /\ Cardinality(DOMAIN q.rows) \in Nat
  <2>1. DOMAIN r.rows = DOMAIN q.rows \ {next}
    BY <1>2 DEF Restrict
  <2>2. IsFiniteSet(DOMAIN q.rows)
    BY <1>6 DEF ImportCounts
  <2> QED
    <3>1. IsFiniteSet(DOMAIN q.rows \ {next})
          /\ Cardinality(DOMAIN q.rows \ {next}) = Cardinality(DOMAIN q.rows) - 1
      BY <1>7, <2>2, FS_RemoveElement
    <3>2. Cardinality(DOMAIN q.rows) \in Nat
      BY <2>2, FS_CardinalityType
    <3> QED
      BY <2>1, <3>1, <3>2
<1>13. /\ r.told \in [Counts -> Int] /\ r.done \in [Counts -> Int]
       /\ \A k \in Counts : r.told[k] = q.told[k] + (IF k \in counted THEN 1 ELSE 0)
       /\ r.done["created"] = q.done["created"] + more
       /\ r.done["updated"] = q.done["updated"] + (IF ok /\ kind = "updated" THEN 1 ELSE 0)
       /\ r.done["added"] = q.done["added"]
  <2>1. more \in Int
    BY <1>11
  <2>2. Cardinality(DOMAIN contacts') \in Int /\ Cardinality(ContactIds) \in Int
    <3>1. IsFiniteSet(ContactIds \cup {new})
      BY <1>8, FS_AddElement
    <3> QED
      BY <1>8, <1>9, <3>1, FS_CardinalityType
  <2>3. q.told \in [Counts -> Int] /\ q.done \in [Counts -> Int]
    BY <1>6 DEF ImportCounts
  <2>4. r.told \in [Counts -> Int]
        /\ \A k \in Counts : r.told[k] = q.told[k] + (IF k \in counted THEN 1 ELSE 0)
    BY <1>2, <2>3
  <2>5. {"created", "updated", "added"} \subseteq Counts
    BY DEF Counts
  <2> QED
    BY <1>2, <2>2, <2>3, <2>4, <2>5
<1> HIDE DEF more
<1>14. ImportCounts(r)
  <2>1. DOMAIN r.rows \in SUBSET Nat
    BY <1>6, <1>12 DEF ImportCounts
  <2>2. \A k \in Counts : q.told[k] \in Int /\ q.done[k] \in Int
    BY <1>6 DEF ImportCounts
  <2>3. {"created", "updated", "skipped", "errors", "invalid", "added"} = Counts
    BY DEF Counts
  <2>4. /\ r.told["created"] = r.done["created"] /\ r.told["updated"] = r.done["updated"]
        /\ r.told["added"] = r.done["added"]
    BY <1>4, <1>5, <1>6, <1>11, <1>13, <2>2, <2>3 DEF ImportCounts
  <2>5. r.asked = r.told["created"] + r.told["updated"] + r.told["skipped"]
                    + r.told["errors"] + r.told["invalid"] + Cardinality(DOMAIN r.rows)
    BY <1>2, <1>4, <1>5, <1>6, <1>12, <1>13, <2>2, <2>3 DEF ImportCounts
  <2> QED
    BY <1>12, <1>13, <2>1, <2>4, <2>5 DEF ImportCounts
<1>15. RequestOk(r)
  BY <1>2, <1>14 DEF RequestOk
<1> QED
  BY <1>3, <1>10, <1>15, OneRequest

LEMMA AnswerKeeps ==
  ASSUME DirectoryInv, NEW c \in DirClients, AnswerDirectory(c)
  PROVE  DirectoryInv'
<1> DEFINE q == dirReq[c]
<1>1. TablesOk'
  BY DEF AnswerDirectory, DirectoryInv, TablesOk, ContactIds
<1>2. CASE q.step = "import" /\ DOMAIN q.rows = {}
  <2> DEFINE r == [step |-> "answered", of |-> "import", asked |-> q.asked, reused |-> FALSE,
                   told |-> q.told, done |-> q.done]
  <2>1. dirReq' = [dirReq EXCEPT ![c] = r]
    BY <1>2 DEF AnswerDirectory
  <2>2. ImportCounts(q) /\ Cardinality(DOMAIN q.rows) = 0
    BY <1>2, FS_EmptySet DEF DirectoryInv, RequestOk
  <2>3. /\ r.step = "answered" /\ r.of = "import" /\ r.asked = q.asked
        /\ r.told = q.told /\ r.done = q.done
    OBVIOUS
  <2> HIDE DEF q, r
  <2>4. \A k \in Counts : q.told[k] \in Int
    BY <2>2 DEF ImportCounts
  <2>5. AnswerOk(r)
    BY <2>2, <2>3, <2>4 DEF AnswerOk, ImportCounts, Counts
  <2>6. RequestOk(r)
    BY <2>3, <2>5 DEF RequestOk
  <2> QED
    BY <1>1, <2>1, <2>6, OneRequest
<1>3. CASE q.step = "answered"
  <2>1. dirReq' = [dirReq EXCEPT ![c] = NoRequest]
    BY <1>3 DEF AnswerDirectory
  <2> QED
    BY <1>1, <2>1, NoneIsOk, OneRequest
<1> QED
  BY <1>2, <1>3 DEF AnswerDirectory

LEMMA DirectoryRestartKeeps == ASSUME DirectoryInv, DirectoryRestart PROVE DirectoryInv'
<1>1. TablesOk'
  BY DEF DirectoryRestart, DirectoryInv, TablesOk, ContactIds
<1> QED
  BY <1>1, NoneIsOk DEF DirectoryRestart, DirectoryInv

LEMMA DirectoryNextKeeps == DirectoryInv /\ [DirectoryNext]_directoryVars => DirectoryInv'
<1> SUFFICES ASSUME DirectoryInv, [DirectoryNext]_directoryVars PROVE DirectoryInv'
  OBVIOUS
<1>1. CASE UNCHANGED directoryVars
  BY <1>1 DEF directoryVars, DirectoryInv, TablesOk, ContactIds
<1>2. CASE \/ \E p \in Phones \cup {NoPhone} : CreateContact(p)
           \/ \E i \in ContactIds, p \in Phones : UpdateContact(i, p)
           \/ \E i \in ContactIds : DeleteContact(i)
  BY <1>2, ContactsKeep
<1>3. CASE \/ CreateGroup
           \/ \E g \in groups : DeleteGroup(g) \/ \E i \in ContactIds : RemoveMembers(g, {i})
  BY <1>3, GroupsKeep
<1>4. ASSUME NEW c \in DirClients,
             \/ \E g \in groups, ids \in SUBSET (1..MaxContactId) \ {{}} : ReadForAdd(c, g, ids)
             \/ \E g \in groups, P \in SUBSET Phones \ {{}}, auto \in BOOLEAN :
                  ReadForBulkAdd(c, g, P, auto)
             \/ CommitMembers(c)
             \/ \E f \in Files, mode \in {"skip", "update", "create"} : StartImport(c, f, mode)
             \/ \E busy \in BOOLEAN : ImportRow(c, busy)
             \/ AnswerDirectory(c)
      PROVE  DirectoryInv'
  BY <1>4, ReadsKeep, CommitKeeps, StartKeeps, RowKeeps, AnswerKeeps
<1>5. CASE DirectoryRestart
  BY <1>5, DirectoryRestartKeeps
<1> QED
  BY <1>1, <1>2, <1>3, <1>4, <1>5 DEF DirectoryNext

\* Members are contacts of groups that exist, and a request that is under
\* way has counted what was committed for it.
THEOREM DirectoryInvariance == DirectorySpec => []DirectoryInv
BY DirectoryInitHolds, DirectoryNextKeeps, PTL DEF DirectorySpec

\* import_contacts, add_members and bulk_add_by_phones: the answer tells what
\* was committed, and accounts for every row and number, whatever other
\* requests commit between the reads and the writes.
THEOREM AnswersAreTrue == DirectorySpec => []AnswersTellTheEffect
<1>1. DirectoryInv => AnswersTellTheEffect
  BY DEF DirectoryInv, RequestOk, AnswerOk, AnswersTellTheEffect
<1> QED
  BY <1>1, DirectoryInvariance, PTL
=============================================================================
