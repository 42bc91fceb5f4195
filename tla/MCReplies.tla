------------------------------ MODULE MCReplies ------------------------------
(***************************************************************************)
(* Three parts that share no state, checked in one run: a behaviour is one *)
(* of an answer that is posted twice, with two restarts; of three          *)
(* attachments, the first and the last of MMS, where a lock outlives two   *)
(* downloads, as many as a cycle of the loop makes, like the five of the   *)
(* code; or of a thread, two coroutines and two replies that wait for     *)
(* each other when settings are saved.                                     *)
(***************************************************************************)
EXTENDS ChatReply, MoMedia, SettingsLocks

CONSTANTS p1, p2, o1, s1, s2, c1, c2

VARIABLE part

MCMaxAttempts == [i \in MediaRows |-> 2]

MCInit ==
  /\ part \in {"reply", "media", "settings"}
  /\ MediaInit /\ LocksInit /\ ReplyInit
  /\ part # "reply" => channel = "sms" /\ fresh = FALSE

MCNext ==
  /\ UNCHANGED part
  /\ \/ /\ part = "reply"
        /\ ReplyNext /\ UNCHANGED <<mediaVars, locksVars>>
     \/ /\ part = "media"
        /\ MediaNext /\ UNCHANGED <<replyVars, locksVars>>
     \/ /\ part = "settings"
        /\ LocksNext /\ UNCHANGED <<replyVars, mediaVars>>

MCVars == <<part, replyVars, mediaVars, locksVars>>

\* Only what has begun goes on, so the fairness of one part asks nothing of
\* the behaviours of the others.
MCSpec ==
  MCInit /\ [][MCNext]_MCVars /\ ReplyFairness /\ MediaFairness /\ LocksFairness
=============================================================================
