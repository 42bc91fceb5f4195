----------------------------- MODULE TokenManager -----------------------------
(***************************************************************************)
(* Requests to msghub that share one access token: msghub/auth.py          *)
(* TokenManager.get_token and the one retry of msghub/client.py _call.     *)
(* Requests interleave at their awaits: the renewal lock, the login, the   *)
(* refresh and the request itself.                                         *)
(*                                                                         *)
(* Tokens are numbered as they are issued.  The two tries of a login are   *)
(* one step, as a failed try changes nothing.  Time is what the code       *)
(* compares it with, for the token issued last: whether it is fresh (more  *)
(* than ten minutes left), aging, or ending (at most thirty seconds left), *)
(* whether its refresh token is near its end, and whether a failed renewal *)
(* was less than thirty seconds ago.                                       *)
(***************************************************************************)
EXTENDS Naturals

CONSTANTS
  Requests,   \* the callers of _call
  NoOne,      \* nobody holds the lock
  MaxTokens   \* bound on the tokens issued

ASSUME TokenAssumption == NoOne \notin Requests /\ MaxTokens \in Nat

VARIABLES
  cache,       \* _state: the number of the cached token, or NoToken
  pause,       \* now < _renew_retry_at
  lock,        \* who holds _lock
  issued,      \* the number of the token issued last
  life,        \* how long the access token issued last is good for
  refreshOld,  \* its refresh token is near its end
  dead,        \* the tokens msghub refuses
  req          \* the requests

vars == <<cache, pause, lock, issued, life, refreshOld, dead, req>>

NoToken == 0
Tokens == 0..MaxTokens
Renewing == {"login", "refresh"}
Ended == {"done", "failed", "crashed"}

\* token: what the request was sent with.  seen: the local variable state of
\* get_token.  first: the token it was refused with, after which it is tried
\* once more.
RequestStates ==
  [pc : {"idle", "waiting"} \cup Renewing \cup Ended,
   token : {NoToken}, seen : Tokens, first : Tokens] \cup
  [pc : {"sent"}, token : Tokens \ {NoToken}, seen : {NoToken},
   first : Tokens]

NewRequest ==
  [pc |-> "idle", token |-> NoToken, seen |-> NoToken, first |-> NoToken]

Init ==
  /\ cache = NoToken /\ pause = FALSE /\ lock = NoOne
  /\ issued = 0 /\ life = "fresh" /\ refreshOld = FALSE
  /\ dead = {}
  /\ req = [r \in Requests |-> NewRequest]

(***************************************************************************)
(* get_token.                                                              *)
(***************************************************************************)
\* _still_usable
StillUsable(token) == token # NoToken /\ life # "ending"

\* The two conditions that return the cached token, asked before the lock
\* is taken and once more under it.
ServesCached(token, paused) ==
  \/ token # NoToken /\ life = "fresh"
  \/ paused /\ StillUsable(token)

\* Request r, first refused with token first, goes out with a token.
Sent(r, token, first) ==
  [req EXCEPT ![r] = [NewRequest EXCEPT !.pc = "sent", !.token = token,
                                        !.first = first]]

\* It renews the token it sees in the cache.
Renews(r, token, first) ==
  [req EXCEPT ![r] = [NewRequest EXCEPT !.pc = IF token = NoToken \/ refreshOld
                                               THEN "login" ELSE "refresh",
                                        !.seen = token, !.first = first]]

Waits(r, first) ==
  [req EXCEPT ![r] = [NewRequest EXCEPT !.pc = "waiting", !.first = first]]

Ends(r, how) == [req EXCEPT ![r] = [NewRequest EXCEPT !.pc = how]]

\* Request r gets the lock when the cached token is token.
Enter(r, token, paused, first) ==
  IF ServesCached(token, paused)
  THEN /\ lock' = NoOne
       /\ req' = Sent(r, token, first)
  ELSE /\ lock' = r
       /\ req' = Renews(r, token, first)

\* get_token up to its first await.
GetToken(r, token, paused, first) ==
  \/ /\ ServesCached(token, paused)
     /\ req' = Sent(r, token, first)
     /\ UNCHANGED lock
  \/ /\ ~ServesCached(token, paused)
     /\ IF lock = NoOne /\ \A q \in Requests : req[q].pc # "waiting"
        THEN Enter(r, token, paused, first)
        ELSE /\ req' = Waits(r, first)
             /\ UNCHANGED lock

Begin(r) ==
  /\ req[r].pc \in Ended \cup {"idle"}
  /\ GetToken(r, cache, pause, NoToken)
  /\ UNCHANGED <<cache, pause, issued, life, refreshOld, dead>>

GetLock(r) ==
  /\ req[r].pc = "waiting"
  /\ lock = NoOne
  /\ Enter(r, cache, pause, req[r].first)
  /\ UNCHANGED <<cache, pause, issued, life, refreshOld, dead>>

\* A new access token is cached, and the request goes out with it.
Issued(r) ==
  /\ issued < MaxTokens
  /\ issued' = issued + 1
  /\ cache' = issued + 1
  /\ life' = "fresh"
  /\ pause' = FALSE
  /\ lock' = NoOne
  /\ req' = Sent(r, issued + 1, req[r].first)
  /\ UNCHANGED dead

LoginOk(r) ==
  /\ req[r].pc = "login"
  /\ Issued(r)
  /\ refreshOld' = FALSE

\* The answer of a refresh is stored with the refresh token of _state, which
\* another request may have thrown away meanwhile: an AttributeError.
RefreshOk(r) ==
  /\ req[r].pc = "refresh"
  /\ \/ cache # NoToken /\ Issued(r)
     \/ /\ cache = NoToken
        /\ req' = Ends(r, "crashed")
        /\ lock' = NoOne
        /\ UNCHANGED <<cache, pause, issued, life, dead>>
  /\ UNCHANGED refreshOld

\* A refused refresh, or one without an answer, becomes a login.
RefreshRefused(r) ==
  /\ req[r].pc = "refresh"
  /\ req' = [req EXCEPT ![r].pc = "login"]
  /\ UNCHANGED <<cache, pause, lock, issued, life, refreshOld, dead>>

\* Mutant: the error leaves the lock taken.
RenewalFailsLocked(r) ==
  /\ req[r].pc \in Renewing
  /\ IF StillUsable(req[r].seen)
     THEN /\ pause' = TRUE /\ lock' = NoOne
          /\ req' = Sent(r, req[r].seen, req[r].first)
     ELSE /\ req' = Ends(r, "failed")
          /\ UNCHANGED <<pause, lock>>
  /\ UNCHANGED <<cache, issued, life, refreshOld, dead>>

\* AuthError: the token seen before is used while it lasts.
RenewalFails(r) ==
  /\ req[r].pc \in Renewing
  /\ lock' = NoOne
  /\ IF StillUsable(req[r].seen)
     THEN /\ pause' = TRUE
          /\ req' = Sent(r, req[r].seen, req[r].first)
     ELSE /\ req' = Ends(r, "failed")
          /\ UNCHANGED pause
  /\ UNCHANGED <<cache, issued, life, refreshOld, dead>>

(***************************************************************************)
(* _call.                                                                  *)
(***************************************************************************)
\* Mutant: the refused token stays cached.
DropsNone(token) == FALSE

\* invalidate_token
Drops(token) == cache = token

MayRetry(r) == req[r].first = NoToken

\* msghub refuses the token: the first time the request drops it and asks
\* for another one.
Refused(r) ==
  LET token == req[r].token IN
  /\ req[r].pc = "sent"
  /\ token \in dead
  /\ IF MayRetry(r)
     THEN /\ cache' = IF Drops(token) THEN NoToken ELSE cache
          /\ pause' = (pause /\ ~Drops(token))
          /\ GetToken(r, cache', pause', token)
     ELSE /\ req' = Ends(r, "failed")
          /\ UNCHANGED <<cache, pause, lock>>
  /\ UNCHANGED <<issued, life, refreshOld, dead>>

\* Any other answer, or none.
Answered(r) ==
  /\ req[r].pc = "sent"
  /\ req' = Ends(r, "done")
  /\ UNCHANGED <<cache, pause, lock, issued, life, refreshOld, dead>>

(***************************************************************************)
(* Time and msghub.                                                        *)
(***************************************************************************)
TokenAges ==
  /\ issued # 0
  /\ \/ life = "fresh" /\ life' = "aging"
     \/ life = "aging" /\ life' = "ending"
  /\ UNCHANGED <<cache, pause, lock, issued, refreshOld, dead, req>>

RefreshTokenAges ==
  /\ issued # 0 /\ ~refreshOld
  /\ refreshOld' = TRUE
  /\ UNCHANGED <<cache, pause, lock, issued, life, dead, req>>

PauseEnds ==
  /\ pause
  /\ pause' = FALSE
  /\ UNCHANGED <<cache, lock, issued, life, refreshOld, dead, req>>

InUse(token) ==
  cache = token \/ \E r \in Requests : token \in {req[r].token, req[r].seen}

\* msghub may refuse a token before its time; nothing says when.
Revoke(token) ==
  /\ InUse(token) /\ token \notin dead
  /\ dead' = dead \cup {token}
  /\ UNCHANGED <<cache, pause, lock, issued, life, refreshOld, req>>

Next ==
  \/ \E r \in Requests :
       \/ Begin(r) \/ GetLock(r)
       \/ LoginOk(r) \/ RefreshOk(r) \/ RefreshRefused(r) \/ RenewalFails(r)
       \/ Refused(r) \/ Answered(r)
  \/ TokenAges \/ RefreshTokenAges \/ PauseEnds
  \/ \E token \in 1..issued : Revoke(token)

Spec == Init /\ [][Next]_vars

(***************************************************************************)
(* Properties.                                                             *)
(***************************************************************************)
TypeOK ==
  /\ cache \in Tokens /\ issued \in Tokens
  /\ pause \in BOOLEAN /\ refreshOld \in BOOLEAN
  /\ lock \in Requests \cup {NoOne}
  /\ life \in {"fresh", "aging", "ending"}
  /\ dead \subseteq Tokens \ {NoToken}
  /\ req \in [Requests -> RequestStates]

\* SPEC.md 5.1 and the comment on 50010: a cached token is thrown away or
\* replaced only when it was refused or gets old, however many requests find
\* that out at once.
NoWastedToken ==
  [][cache' # cache => issued = 0 \/ issued \in dead \/ life # "fresh"]_vars

\* The retry of a refused request uses a token issued after the refused one,
\* so a second refusal is not the same one again.
RetryUsesALaterToken ==
  \A r \in Requests :
    req[r].first # NoToken /\ req[r].pc = "sent"
      => req[r].token > req[r].first

(***************************************************************************)
(* Liveness.  httpx ends every request, and asyncio.Lock serves those that *)
(* wait in their order.                                                    *)
(***************************************************************************)
Fairness ==
  \A r \in Requests :
    /\ WF_vars(LoginOk(r) \/ RefreshOk(r) \/ RefreshRefused(r)
                 \/ RenewalFails(r))
    /\ WF_vars(Refused(r) \/ Answered(r))
    /\ SF_vars(GetLock(r))

FairSpec == Spec /\ Fairness

\* No request waits for ever, for the lock or for a token that works.
RequestsEnd ==
  \A r \in Requests : req[r].pc # "idle" ~> req[r].pc \in Ended
=============================================================================
