-------------------------------- MODULE SetUp --------------------------------
(***************************************************************************)
(* From a fresh installation to the first administrators:                  *)
(* app/routes/setup.py, the sign-in of app/routes/auth.py, the provider    *)
(* settings of app/routes/settings.py and the client of app/main.py.       *)
(*                                                                         *)
(* complete_setup checks that the set-up is open and the token good,       *)
(* awaits the discovery of Keycloak, and saves without a further check.    *)
(* setup_status is a thread: it reads whether the set-up is done and makes *)
(* the token file a moment later.  Sessions are cookies signed with a      *)
(* secret that changes at every restart until one is saved, so a restart   *)
(* ends those of the set-up.  An e-mail address is its user.               *)
(***************************************************************************)
EXTENDS Naturals

CONSTANTS
  Operators,      \* browsers with the set-up page
  Users,          \* who may sign in at Keycloak
  KeycloakAdmins, \* those whose claims hold the role admin
  MaxVersions,    \* bound: how often credentials are saved
  MaxMishaps      \* bound: restarts, and discoveries that fail

NoEmail == "no e-mail"
NoUser == "nobody"

ASSUME SetUpAssumption ==
  /\ KeycloakAdmins \subseteq Users
  /\ NoEmail \notin Users /\ NoUser \notin Users
  /\ {MaxVersions, MaxMishaps} \subseteq Nat

VARIABLES
  saved,      \* settings: bootstrap.completed, the version of the credentials,
              \* setup.first_admin_email and setup.pending_first_admin
  tokenFile,  \* setup.token, and how many have been made
  page,       \* each operator's page, and setup_token_verified of his session
  client,     \* _msghub_client: the version it was made with, 0 for None
  closing,    \* is reset_msghub_client closing the old client?
  admin,      \* users.roles: has a user the role admin?
  signIns,    \* how often each user signed in since the set-up was saved
  first,      \* who was the first
  replaced,   \* has a set-up been saved over another?
  mishaps

setUpVars == <<saved, tokenFile, page, client, closing, admin, signIns, first,
               replaced, mishaps>>

FreshPage == [step |-> "closed", token |-> 0, verified |-> FALSE,
              email |-> NoEmail]

SetUpInit ==
  /\ saved = [done |-> FALSE, version |-> 0, email |-> NoEmail, pending |-> FALSE]
  /\ tokenFile = [token |-> 0, made |-> 0]
  /\ page = [o \in Operators |-> FreshPage]
  /\ client = 0
  /\ closing = FALSE
  /\ admin = [u \in Users |-> FALSE]
  /\ signIns = [u \in Users |-> 0]
  /\ first = NoUser
  /\ replaced = FALSE
  /\ mishaps = 0

Others == <<client, closing, admin, signIns, first, replaced, mishaps>>

(***************************************************************************)
(* The page.                                                               *)
(***************************************************************************)
\* The page is opened or loaded again: setup_status reads bootstrap.completed.
OpenPage(o) ==
  /\ page[o].step \in {"closed", "token", "config"}
  /\ page' = [page EXCEPT ![o].step = IF saved.done THEN "done" ELSE "opening"]
  /\ UNCHANGED <<saved, tokenFile, Others>>

\* generate_setup_token keeps the file there is.  The page asks for the token
\* unless the session has been verified; its field is empty.
GenerateToken(o) ==
  /\ page[o].step = "opening"
  /\ tokenFile' = IF tokenFile.token # 0 THEN tokenFile
                  ELSE [token |-> tokenFile.made + 1, made |-> tokenFile.made + 1]
  /\ page' = [page EXCEPT
       ![o].step = IF page[o].verified THEN "config" ELSE "token",
       ![o].token = 0]
  /\ UNCHANGED <<saved, Others>>

\* The operator reads the file on the console and enters the token.
EnterToken(o) ==
  /\ page[o].step = "token"
  /\ tokenFile.token # 0
  /\ page' = [page EXCEPT ![o].token = tokenFile.token]
  /\ UNCHANGED <<saved, tokenFile, Others>>

TokenIsGoodFor(o) == page[o].token # 0 /\ page[o].token = tokenFile.token

\* verify_token, behind require_setup_mode.
VerifyToken(o) ==
  /\ page[o].step = "token" /\ page[o].token # 0
  /\ ~ saved.done /\ TokenIsGoodFor(o)
  /\ page' = [page EXCEPT ![o].step = "config", ![o].verified = TRUE]
  /\ UNCHANGED <<saved, tokenFile, Others>>

\* The form is posted, and complete_setup goes on to the discovery: the set-up
\* is open, the body has a token, and the session or the token is good.
\* Everything else leaves the page as it is, with a message.
PassesComplete(o) ==
  /\ ~ saved.done
  /\ page[o].token # 0
  /\ page[o].verified \/ TokenIsGoodFor(o)

PostForm(o) ==
  /\ page[o].step = "config"
  /\ PassesComplete(o)
  /\ \E email \in Users \cup {NoEmail} :
       page' = [page EXCEPT ![o].step = "discovery", ![o].email = email]
  /\ UNCHANGED <<saved, tokenFile, Others>>

DiscoveryFails(o) ==
  /\ page[o].step = "discovery"
  /\ mishaps < MaxMishaps
  /\ mishaps' = mishaps + 1
  /\ page' = [page EXCEPT ![o].step = "config"]
  /\ UNCHANGED <<saved, tokenFile, client, closing, admin, signIns, first, replaced>>

\* The payload and bootstrap.completed are one transaction.
SavePayload(o) ==
  /\ page[o].step = "discovery"
  /\ saved.version < MaxVersions
  /\ saved' = [done |-> TRUE, version |-> saved.version + 1,
               email |-> page[o].email, pending |-> TRUE]
  /\ signIns' = [u \in Users |-> 0]
  /\ first' = NoUser
  /\ replaced' = (replaced \/ saved.done)

CompleteSetup(o) ==
  /\ SavePayload(o)
  /\ tokenFile' = [tokenFile EXCEPT !.token = 0]
  /\ page' = [page EXCEPT ![o] = [FreshPage EXCEPT !.step = "done"]]
  /\ UNCHANGED <<client, closing, admin, mishaps>>

(***************************************************************************)
(* The process.                                                            *)
(***************************************************************************)
MadeClient(s) == s.version

\* A restart cuts off the requests and ends the sessions of the set-up; it
\* may come between the commit of complete_setup and the deletion of the file.
PagesAfterRestart ==
  [o \in Operators |->
     [page[o] EXCEPT !.verified = FALSE,
                     !.step = CASE @ = "discovery" -> "config"
                                [] @ = "opening" -> "closed"
                                [] OTHER -> @]]

SetUpRestart ==
  /\ mishaps < MaxMishaps
  /\ mishaps' = mishaps + 1
  /\ \/ UNCHANGED <<saved, signIns, first, replaced>>
     \/ \E o \in Operators : SavePayload(o)
  /\ page' = PagesAfterRestart
  /\ client' = MadeClient(saved')
  /\ closing' = FALSE
  /\ UNCHANGED <<tokenFile, admin>>

\* A request needs the client.
GetMsghubClient ==
  /\ client = 0 /\ MadeClient(saved) # 0
  /\ client' = MadeClient(saved)
  /\ UNCHANGED <<saved, tokenFile, page, closing, admin, signIns, first,
                 replaced, mishaps>>

\* Mutant: the settings are committed after the old client was closed.
SavedWhenClosed(s, step) ==
  IF step = "closed" THEN [s EXCEPT !.version = @ + 1] ELSE s

\* patch_provider_settings of an administrator commits new credentials and
\* goes on to reset_msghub_client, which awaits the closing of the old one.
SavedByPatch(s, step) ==
  IF step = "patched" THEN [s EXCEPT !.version = @ + 1] ELSE s

PatchProvider ==
  /\ \E u \in Users : admin[u]
  /\ ~ closing /\ saved.version < MaxVersions
  /\ saved' = SavedByPatch(saved, "patched")
  /\ closing' = TRUE
  /\ client' = 0
  /\ UNCHANGED <<tokenFile, page, admin, signIns, first, replaced, mishaps>>

OldClientClosed ==
  /\ closing
  /\ saved' = SavedByPatch(saved, "closed")
  /\ closing' = FALSE
  /\ UNCHANGED <<tokenFile, page, client, admin, signIns, first, replaced, mishaps>>

(***************************************************************************)
(* Signing in.                                                             *)
(***************************************************************************)
\* Mutant: the address counts while the first administrator is awaited only.
AnchoredOnce(u) ==
  IF saved.email # NoEmail THEN u = saved.email /\ saved.pending
  ELSE saved.pending

\* The policy of callback: the user of the address, at every sign-in; without
\* an address whoever signs in first.
Anchored(u) == IF saved.email # NoEmail THEN u = saved.email ELSE saved.pending

\* callback after the exchange with Keycloak: the roles are overwritten.
SignIn(u) ==
  /\ saved.version > 0
  /\ signIns[u] < 2
  /\ admin' = [admin EXCEPT ![u] = u \in KeycloakAdmins \/ Anchored(u)]
  /\ saved' = [saved EXCEPT !.pending =
       @ /\ saved.email # NoEmail /\ u # saved.email]
  /\ signIns' = [signIns EXCEPT ![u] = @ + 1]
  /\ first' = IF first = NoUser THEN u ELSE first
  /\ UNCHANGED <<tokenFile, page, client, closing, replaced, mishaps>>

SetUpNext ==
  \/ \E o \in Operators :
       \/ OpenPage(o) \/ GenerateToken(o) \/ EnterToken(o) \/ VerifyToken(o)
       \/ PostForm(o) \/ DiscoveryFails(o) \/ CompleteSetup(o)
  \/ \E u \in Users : SignIn(u)
  \/ SetUpRestart \/ GetMsghubClient \/ PatchProvider \/ OldClientClosed

\* The operators go on with what the page offers, and requests end.
SetUpFairness ==
  \A o \in Operators :
    /\ WF_setUpVars(GenerateToken(o)) /\ WF_setUpVars(EnterToken(o))
    /\ WF_setUpVars(VerifyToken(o)) /\ WF_setUpVars(PostForm(o))
    /\ WF_setUpVars(DiscoveryFails(o) \/ CompleteSetup(o))

SetUpSpec == SetUpInit /\ [][SetUpNext]_setUpVars /\ SetUpFairness

-----------------------------------------------------------------------------
\* Whoever signs in is administrator if and only if Keycloak says so or the
\* set-up does: the user of the address at every sign-in, and without an
\* address the first one at his first (the policy of callback; before it was
\* corrected the administrator lost his role at the second sign-in).
AdminsAreAsSetUp ==
  \A u \in Users :
    signIns[u] > 0 =>
      admin[u] = ( \/ u \in KeycloakAdmins
                   \/ u = saved.email
                   \/ saved.email = NoEmail /\ first = u /\ signIns[u] = 1 )

\* The open client has the saved credentials, though requests make clients
\* while a changed one is being closed (commit before reset in
\* patch_provider_settings); only a set-up that was saved over another may
\* leave the client of the first in place.
ClientIsCurrent == client # 0 /\ ~ replaced => client = saved.version

\* complete_setup accepts a session that was verified, or the token of the
\* form (setup.py:258): an operator whose session is verified, and stays it,
\* gets his settings saved.
VerifiedOperatorGetsThrough ==
  \A o \in Operators :
    page[o].verified ~> saved.done \/ ~ page[o].verified
=============================================================================
