--------------------------- MODULE SettingsLocks ---------------------------
(***************************************************************************)
(* Who waits for whom when settings are saved: patch_org and               *)
(* patch_provider_settings of app/routes/settings.py beside replies in a   *)
(* conversation.                                                           *)
(*                                                                         *)
(* There are three things to wait for.  patch_org is a thread and          *)
(* patch_provider_settings a coroutine, and both take _settings_lock, a    *)
(* threading.Lock: the coroutine waits for it on the event loop, where     *)
(* meanwhile nothing else runs.  SQLite has one writer; a reply becomes it *)
(* when it flushes its campaign, before it awaits the provider.  Who waits *)
(* for SQLite gives up after five seconds, the default of the driver.      *)
(***************************************************************************)
EXTENDS Naturals

CONSTANTS
  OrgPatches,       \* requests of patch_org
  ProviderPatches,  \* requests of patch_provider_settings
  Replies           \* two-way replies

Requests == OrgPatches \cup ProviderPatches \cup Replies
Patches == OrgPatches \cup ProviderPatches
OnLoop == ProviderPatches \cup Replies

ASSUME LocksAssumption ==
  /\ OrgPatches \cap OnLoop = {}
  /\ ProviderPatches \cap Replies = {}

VARIABLES
  held,          \* how far each request is
  loop,          \* the coroutine that occupies the event loop
  settingsLock,  \* who holds _settings_lock
  writer         \* who may write to SQLite

locksVars == <<held, loop, settingsLock, writer>>

Nobody == "nobody"

LocksInit ==
  /\ held = [r \in Requests |-> "new"]
  /\ loop = Nobody
  /\ settingsLock = Nobody
  /\ writer = Nobody

Release(holder, r) == IF holder = r THEN Nobody ELSE holder

\* A request begins; a coroutine does when the loop is free.
Begin(r) ==
  /\ held[r] = "new"
  /\ IF r \in OnLoop THEN loop = Nobody /\ loop' = r ELSE UNCHANGED loop
  /\ held' = [held EXCEPT ![r] = IF r \in Patches THEN "wantsLock"
                                   ELSE "wantsToWrite"]
  /\ UNCHANGED <<settingsLock, writer>>

\* with _settings_lock
EnterLock(r) ==
  /\ held[r] = "wantsLock"
  /\ settingsLock = Nobody
  /\ settingsLock' = r
  /\ held' = [held EXCEPT ![r] = "wantsToWrite"]
  /\ UNCHANGED <<loop, writer>>

\* The first flush.  A reply then awaits the provider and leaves the loop.
Flush(r) ==
  /\ held[r] = "wantsToWrite"
  /\ writer = Nobody
  /\ writer' = r
  /\ held' = [held EXCEPT ![r] = IF r \in Replies THEN "awaits" ELSE "writes"]
  /\ loop' = IF r \in Replies THEN Nobody ELSE loop
  /\ UNCHANGED settingsLock

\* The answer, or the time limit of the client.
ProviderAnswers(r) ==
  /\ held[r] = "awaits"
  /\ held' = [held EXCEPT ![r] = "answered"]
  /\ UNCHANGED <<loop, settingsLock, writer>>

Resume(r) ==
  /\ held[r] = "answered"
  /\ loop = Nobody
  /\ loop' = r
  /\ held' = [held EXCEPT ![r] = "writes"]
  /\ UNCHANGED <<settingsLock, writer>>

Leave(r) ==
  /\ held' = [held EXCEPT ![r] = "ended"]
  /\ loop' = Release(loop, r)
  /\ settingsLock' = Release(settingsLock, r)
  /\ writer' = Release(writer, r)

Commit(r) == held[r] = "writes" /\ Leave(r)

\* Mutant: SQLite is waited for without limit.
LocksForEver(r) == FALSE

\* "database is locked": the request fails and gives back what it holds.
WriterIsBusy(r) ==
  held[r] = "wantsToWrite" /\ writer # Nobody

LocksGiveUp(r) == WriterIsBusy(r) /\ Leave(r)

Continues(r) ==
  \/ EnterLock(r) \/ Flush(r) \/ ProviderAnswers(r) \/ Resume(r)
  \/ Commit(r) \/ LocksGiveUp(r)

LocksNext == \E r \in Requests : Begin(r) \/ Continues(r)

\* Threads and coroutines that can go on do; the provider answers or the
\* client gives up; and the driver's five seconds pass.
LocksFairness == \A r \in Requests : WF_locksVars(Continues(r))

-----------------------------------------------------------------------------
\* No request waits for ever, not even when a thread holds _settings_lock and
\* waits for the writer, the writer for the loop, and the loop for
\* _settings_lock (settings.py:495, compose.py:817).
EveryRequestEnds ==
  \A r \in Requests : held[r] # "new" ~> held[r] = "ended"
=============================================================================
