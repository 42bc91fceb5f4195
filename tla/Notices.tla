------------------------------ MODULE Notices ------------------------------
(***************************************************************************)
(* What a user has read of the notification centre:                        *)
(* app/routes/notifications.py.                                            *)
(*                                                                         *)
(* Notices are derived from campaigns and the audit log; two settings of   *)
(* the user say what is read: a time, and the ids read one by one.  The    *)
(* handlers are threads, in which two tabs of the user read these settings *)
(* and write them back under _notif_lock.                                  *)
(***************************************************************************)
EXTENDS Naturals, FiniteSets, FiniteSetsExt

CONSTANTS
  NoticeTabs,    \* open pages of the user
  NCampaigns,    \* campaigns, by id
  NAudits,       \* audit rows whose action has a notice, by id
  NoticeLimit,   \* _CAMPAIGN_LIMIT and _AUDIT_LIMIT
  MaxReadIds,    \* _MAX_READ_IDS
  LastMoment     \* bound: the end of the model's time

Unlocked == "free"

ASSUME NoticesAssumption ==
  /\ Unlocked \notin NoticeTabs
  /\ {NCampaigns, NAudits, LastMoment} \subseteq Nat
  /\ {NoticeLimit, MaxReadIds} \subseteq Nat \ {0}

VARIABLES
  moment,      \* the time, in _now_iso
  noticeTime,  \* completed_at or created_at of each source, 0 before it exists
  lastReadAt,  \* notif.last_read_at
  readIds,     \* notif.read_ids
  notifLock,   \* who holds _notif_lock
  tabs,        \* the post of each tab: which, on what, and the ids it loaded
  dismissed    \* the notices whose post was answered since all were read

noticesVars == <<moment, noticeTime, lastReadAt, readIds, notifLock, tabs,
                 dismissed>>

Sources == ({"campaign"} \X (1..NCampaigns)) \cup ({"audit"} \X (1..NAudits))
NoPost == [step |-> "none", on |-> <<"all", 0>>, ids |-> {}]

NoticesInit ==
  /\ moment = 1
  /\ noticeTime = [n \in Sources |-> 0]
  /\ lastReadAt = 0
  /\ readIds = {}
  /\ notifLock = Unlocked
  /\ tabs = [t \in NoticeTabs |-> NoPost]
  /\ dismissed = {}

\* _build_notifications: the newest of each source.
ListedNotices == {n \in Sources :
  /\ noticeTime[n] > 0
  /\ Cardinality({o \in Sources : o[1] = n[1] /\ o[2] > n[2] /\ noticeTime[o] > 0})
       < NoticeLimit}

\* _apply_read_state
Unread == {n \in ListedNotices : noticeTime[n] > lastReadAt /\ n \notin readIds}

\* _nid_sort_key orders by source first, "audit" before "campaign".
SortsBefore(m, n) ==
  \/ m[1] = "audit" /\ n[1] = "campaign"
  \/ m[1] = n[1] /\ m[2] < n[2]

\* Those of S that the limit of the stored ids leaves.
Kept(S) == {n \in S : Cardinality({m \in S : SortsBefore(n, m)}) < MaxReadIds}

\* Something happens: a campaign or an audit row of the next id, or the
\* end of a campaign, whose notice then has completed_at.
Happens(n) ==
  /\ \/ /\ noticeTime[n] = 0
        /\ n[2] > 1 => noticeTime[<<n[1], n[2] - 1>>] > 0
     \/ n[1] = "campaign" /\ noticeTime[n] > 0
  /\ moment < LastMoment
  /\ moment' = moment + 1
  /\ noticeTime' = [noticeTime EXCEPT ![n] = moment']
  /\ UNCHANGED <<lastReadAt, readIds, notifLock, tabs, dismissed>>

\* The user marks a listed notice, or all.
Post(t, what) ==
  /\ tabs[t] = NoPost
  /\ tabs' = [tabs EXCEPT ![t] = [NoPost EXCEPT !.step = "posted", !.on = what]]
  /\ UNCHANGED <<moment, noticeTime, lastReadAt, readIds, notifLock, dismissed>>

\* Mutant: the lock is not taken.
EntersAnyway(t) == tabs[t].step = "posted" /\ UNCHANGED notifLock

TakesLock(t) ==
  tabs[t].step = "posted" /\ notifLock = Unlocked /\ notifLock' = t

\* with _notif_lock, _load_read_state
LoadReadState(t) ==
  /\ TakesLock(t)
  /\ tabs' = [tabs EXCEPT ![t].step = "loaded", ![t].ids = readIds]
  /\ UNCHANGED <<moment, noticeTime, lastReadAt, readIds, dismissed>>

\* The rest of mark_read: the id is added, the ids are cut to the limit and
\* committed; an id that is there already is answered at once.
MarkRead(t) ==
  /\ tabs[t].step = "loaded" /\ tabs[t].on \in Sources
  /\ readIds' = IF tabs[t].on \in tabs[t].ids THEN readIds
                ELSE Kept(tabs[t].ids \cup {tabs[t].on})
  /\ dismissed' = dismissed \cup {tabs[t].on}
  /\ notifLock' = Unlocked
  /\ tabs' = [tabs EXCEPT ![t] = NoPost]
  /\ UNCHANGED <<moment, noticeTime, lastReadAt>>

\* The rest of mark_all_read: the time is set and the ids are emptied.
MarkAllRead(t) ==
  /\ tabs[t].step = "loaded" /\ tabs[t].on \notin Sources
  /\ lastReadAt' = moment
  /\ readIds' = {}
  /\ dismissed' = {}
  /\ notifLock' = Unlocked
  /\ tabs' = [tabs EXCEPT ![t] = NoPost]
  /\ UNCHANGED <<moment, noticeTime>>

NoticesNext ==
  \/ \E n \in Sources : Happens(n)
  \/ \E t \in NoticeTabs :
       \/ \E n \in Unread \cup {<<"all", 0>>} : Post(t, n)
       \/ LoadReadState(t) \/ MarkRead(t) \/ MarkAllRead(t)

NoticesSpec == NoticesInit /\ [][NoticesNext]_noticesVars

-----------------------------------------------------------------------------
\* What the user dismissed does not come back as unread, although his tabs
\* write the whole set of read ids: as many as the set holds stay dismissed,
\* those that sort last (mark_read under _notif_lock).
DismissedStays == Kept(dismissed) \cap Unread = {}
=============================================================================
