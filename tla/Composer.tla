------------------------------- MODULE Composer -------------------------------
(***************************************************************************)
(* The send form of one browser tab (web ComposeForm.tsx with              *)
(* AttachmentPicker.tsx, lib/csrf-client.ts and lib/campaign-preview.ts)   *)
(* and the server that answers it: preview_campaign, create_campaign and   *)
(* upload_attachment of app/routes/campaigns.py, dispatch_campaign of      *)
(* services/compose.py up to its first commit, the sign-in and CSRF checks *)
(* of auth/deps.py, security/csrf.py and routes/auth.py.                   *)
(*                                                                         *)
(* The operator edits while an estimate, an upload or a post is under way; *)
(* a post may lose its answer or reach the server after its repetition;    *)
(* another tab may sign out, or sign somebody else in.  What happens to a  *)
(* campaign once it is committed is module Campaign.                       *)
(*                                                                         *)
(* A click or a keystroke flushes React's effects with its own render; an  *)
(* upload that ends does not, so its effects are a step of their own.  The *)
(* handler of a post has no await between its checks and the commit.       *)
(***************************************************************************)
EXTENDS Naturals, FiniteSets

CONSTANTS
  Users,          \* who may sign in
  Nobody,         \* no user signed in
  Operator,       \* the user who opened the form
  Texts,          \* the recipients, text and channel of a form
  ValidTexts,     \* those that the server's rules accept
  Times,          \* the rest of a form: sender, send mode and time
  Now,            \* that of a form just opened
  MaxEdits,       \* how often a field is edited (version counts uploads too)
  MaxFiles,       \* how many pictures are uploaded
  MaxSessions,    \* how often the session of the browser changes
  MaxToggles,     \* how often the sender number is switched on or off
  MaxFaults       \* how many requests fail or lose their answer

ASSUME ComposerAssumption ==
  /\ Nobody \notin Users /\ Operator \in Users
  /\ Now \in Times
  /\ ValidTexts \subseteq Texts
  /\ {MaxEdits, MaxFiles, MaxSessions, MaxToggles, MaxFaults} \subseteq Nat

NoFile == 0
Files == 1..MaxFiles
Forms == [text : Texts, time : Times, file : {NoFile} \cup Files]

\* previewKey: what the estimate of a form depends on.
PreviewKey(f) == [text |-> f.text, image |-> f.file # NoFile]

\* The two requests of the form that go through apiSend.
Calls == {"preview", "create"}
NoCall == [stage |-> "idle"]

VARIABLES
  form,        \* the fields of the form
  version,     \* how often they changed
  effects,     \* an upload changed the form and its effects are to run
  key,         \* idemKeyRef; 0 is null
  preview,     \* the estimate on display: [key, state]
  timer,       \* the debounce timer of the estimate is running
  call,        \* what apiSend is doing for either request
  uploading,   \* the user under whom a picture is being uploaded, or Nobody
  sent,        \* the form was accepted and the page is left
  token,       \* csrf-client's cache against the session: "none", "good", "stale"
  user,        \* the user of the browser's session
  maySend,     \* does the role of a user allow sending?
  active,      \* is the sender number active?
  files,       \* the attachments table: [owner, state]
  campaigns,   \* the campaigns table
  late,        \* posts the browser gave up that the server has yet to get
  sessions, toggles, faults   \* counters of the bounds

formVars == <<form, version, effects, key, preview, timer, uploading, sent>>
serverVars == <<active, files, campaigns>>
sessionVars == <<user, maySend, sessions>>
vars == <<formVars, call, token, sessionVars, serverVars, late, toggles,
          faults>>

NoPreview == [key |-> "none", state |-> "none"]

\* The form is filled for the first time.
Init ==
  /\ form \in [text : ValidTexts, time : {Now}, file : {NoFile}]
  /\ version = 0
  /\ effects = FALSE
  /\ key = 0
  /\ preview = [key |-> PreviewKey(form), state |-> "checking"]
  /\ timer = TRUE
  /\ call = [c \in Calls |-> NoCall]
  /\ uploading = Nobody
  /\ sent = FALSE
  /\ token = "none"
  /\ user = Operator
  /\ maySend = [u \in Users |-> TRUE]
  /\ active = TRUE
  /\ files = [f \in Files |-> [owner |-> Nobody, state |-> "none"]]
  /\ campaigns = {}
  /\ late = {}
  /\ sessions = 0
  /\ toggles = 0
  /\ faults = 0

(***************************************************************************)
(* The form.                                                               *)
(***************************************************************************)

\* A new key: one that no campaign has and no request carries.
Used == {c.key : c \in campaigns} \cup {m.body.key : m \in late} \cup {0, key}
          \cup (IF call["create"] = NoCall THEN {} ELSE {call["create"].body.key})
FreshKey == CHOOSE k \in 1..(Cardinality(Used) + 1) : k \notin Used

\* A mutant: the key is drawn anew for every submit.
KeyOfSubmitAnew == FreshKey

\* idemKeyRef.current ?? crypto.randomUUID()
KeyOfSubmit == IF key = 0 THEN FreshKey ELSE key

\* The effects of a render in which the form became f: the key is dropped,
\* and if the estimate's input changed a new one is asked for and the request
\* for the last is aborted.
RunEffects(f) ==
  /\ key' = 0
  /\ IF preview.key = PreviewKey(f)
     THEN UNCHANGED <<preview, timer, call>>
     ELSE /\ preview' = [key |-> PreviewKey(f), state |-> "checking"]
          /\ timer' = TRUE
          /\ call' = [call EXCEPT !["preview"] = NoCall]

\* A field changes, or the picture is removed.
Edit ==
  /\ ~sent /\ ~effects
  /\ version < MaxEdits
  /\ \E f \in Forms :
       /\ f # form /\ f.file \in {NoFile, form.file}
       /\ form' = f
       /\ RunEffects(f)
  /\ version' = version + 1
  /\ UNCHANGED <<effects, uploading, sent, token, sessionVars, serverVars, late,
                 toggles, faults>>

EffectsRun ==
  /\ effects
  /\ effects' = FALSE
  /\ RunEffects(form)
  /\ UNCHANGED <<form, version, uploading, sent, token, sessionVars,
                 serverVars, late, toggles, faults>>

TimerFires ==
  /\ timer
  /\ timer' = FALSE
  /\ call' = [call EXCEPT !["preview"] =
                [stage |-> "token", try |-> 1, body |-> preview.key]]
  /\ UNCHANGED <<form, version, effects, key, preview, uploading, sent, token,
                 sessionVars, serverVars, late, toggles, faults>>

\* The button under a failed estimate: previewAttempt is counted up.
AskAgain ==
  /\ ~sent /\ ~effects
  /\ preview.state = "failed"
  /\ preview' = [preview EXCEPT !.state = "checking"]
  /\ timer' = TRUE
  /\ UNCHANGED <<form, version, effects, key, call, uploading, sent, token,
                 sessionVars, serverVars, late, toggles, faults>>

\* A mutant: the estimate on display counts, whatever it was asked for.
CurrentPreviewOfAny == preview

\* currentPreview: from the first render with another input, the estimate on
\* display does not count.
CurrentPreview ==
  IF preview.key = PreviewKey(form) THEN preview ELSE NoPreview

CanSubmit == CurrentPreview.state = "valid"

Submit ==
  /\ ~sent
  /\ call["create"] = NoCall
  /\ CanSubmit
  /\ key' = KeyOfSubmit
  /\ call' = [call EXCEPT !["create"] =
       [stage |-> "token", try |-> 1,
        body |-> [key |-> KeyOfSubmit, form |-> form, version |-> version,
                  seen |-> preview.key]]]
  /\ UNCHANGED <<form, version, effects, preview, timer, uploading, sent,
                 token, sessionVars, serverVars, late, toggles, faults>>

(***************************************************************************)
(* apiSend: a token, the request, and after a 403 once more with a new     *)
(* token.                                                                  *)
(***************************************************************************)

\* /auth/me, or /setup/status without a user: the token of the session as it
\* is now, minted if it has none.
FetchToken(c) ==
  /\ call[c].stage = "token"
  /\ token = "none"
  /\ token' = "good"
  /\ UNCHANGED <<formVars, call, sessionVars, serverVars, late, toggles,
                 faults>>

\* The session cookie goes along as it is when the request leaves.
Send(c) ==
  /\ call[c].stage = "token"
  /\ token # "none"
  /\ call' = [call EXCEPT ![c] =
       [stage |-> "out", try |-> @.try, body |-> @.body,
        user |-> user, csrf |-> token = "good"]]
  /\ UNCHANGED <<formVars, token, sessionVars, serverVars, late, toggles,
                 faults>>

Answered(c, result) ==
  call' = [call EXCEPT ![c] =
    [stage |-> "back", try |-> @.try, body |-> @.body, result |-> result]]

\* normalize_recipients and the rules for a text; the estimate and the post
\* are held to the same.
Acceptable(text) == text \in ValidTexts

\* require_sender reads the roles of the last sign-in of the user.
MaySend(u) == maySend[u]

\* What require_user and verify_csrf say of a request that reaches a router.
SignedIn(m) == m.user # Nobody
Forbidden(m) == SignedIn(m) /\ ~m.csrf

\* A mutant: the request is repeated with the token it had.
RetryWithSameToken(c) ==
  /\ call[c].stage = "back"
  /\ call[c].result = "forbidden" /\ call[c].try = 1
  /\ call' = [call EXCEPT ![c] =
                [stage |-> "token", try |-> 2, body |-> @.body]]
  /\ UNCHANGED <<formVars, token, sessionVars, serverVars, late, toggles,
                 faults>>

\* The first 403 is taken for a stale token.
RetryForbidden(c) ==
  /\ call[c].stage = "back"
  /\ call[c].result = "forbidden" /\ call[c].try = 1
  /\ token' = "none"
  /\ call' = [call EXCEPT ![c] =
                [stage |-> "token", try |-> 2, body |-> @.body]]
  /\ UNCHANGED <<formVars, sessionVars, serverVars, late, toggles, faults>>

Final(c) ==
  /\ call[c].stage = "back"
  /\ ~(call[c].result = "forbidden" /\ call[c].try = 1)

(***************************************************************************)
(* The estimate.                                                           *)
(***************************************************************************)
PreviewCampaign ==
  LET m == call["preview"] IN
  /\ m.stage = "out"
  /\ Answered("preview",
       IF ~SignedIn(m) THEN "signedOut"
       ELSE IF Forbidden(m) THEN "forbidden"
       ELSE IF Acceptable(m.body.text) THEN "valid" ELSE "invalid")
  /\ UNCHANGED <<formVars, token, sessionVars, serverVars, late, toggles,
                 faults>>

\* The answer is kept with the input it was asked for.
ShowEstimate ==
  /\ Final("preview")
  /\ preview' = [key |-> call["preview"].body,
                 state |-> IF call["preview"].result \in {"valid", "invalid"}
                           THEN call["preview"].result ELSE "failed"]
  /\ call' = [call EXCEPT !["preview"] = NoCall]
  /\ UNCHANGED <<form, version, effects, key, timer, uploading, sent, token,
                 sessionVars, serverVars, late, toggles, faults>>

(***************************************************************************)
(* create_campaign.                                                        *)
(***************************************************************************)
Existing(m) ==
  {c \in campaigns : c.by = m.user /\ c.key = m.body.key}

\* The checks of dispatch_campaign: recipients and text, the picture, the
\* sender number.
FileUsable(f, u) ==
  f = NoFile \/ files[f] = [owner |-> u, state |-> "free"]
Sendable(m) ==
  /\ Acceptable(m.body.form.text)
  /\ FileUsable(m.body.form.file, m.user)
  /\ active

\* The unique index on idempotency_key does not know the user.
KeyTaken(m) == \E c \in campaigns : c.key = m.body.key

Verdict(m) ==
  IF ~SignedIn(m) THEN "signedOut"
  ELSE IF ~MaySend(m.user) \/ Forbidden(m) THEN "forbidden"
  ELSE IF Existing(m) # {} THEN "exists"
  ELSE IF ~Sendable(m) THEN "refused"
  ELSE IF KeyTaken(m) THEN "conflict"
  ELSE "created"

\* The campaign and the link of its picture are committed together.
Commit(m) ==
  IF Verdict(m) = "created"
  THEN /\ campaigns' = campaigns \cup
            {[key |-> m.body.key, by |-> m.user, form |-> m.body.form,
              version |-> m.body.version, seen |-> m.body.seen]}
       /\ files' = [f \in Files |->
            IF f = m.body.form.file THEN [files[f] EXCEPT !.state = "linked"]
            ELSE files[f]]
  ELSE UNCHANGED <<campaigns, files>>

CreateCampaign ==
  LET m == call["create"] IN
  /\ m.stage = "out"
  /\ Commit(m)
  /\ IF Verdict(m) = "created"
     THEN call' = [call EXCEPT !["create"].stage = "sending"]
     ELSE Answered("create", Verdict(m))
  /\ UNCHANGED <<formVars, token, sessionVars, active, late, toggles, faults>>

\* The chunks are sent; without an authentication error of the provider the
\* answer is the campaign.
AnswerCreated ==
  /\ call["create"].stage = "sending"
  /\ Answered("create", "created")
  /\ UNCHANGED <<formVars, token, sessionVars, serverVars, late, toggles,
                 faults>>

\* A post that the browser gave up reaches the server.
CreateLate ==
  \E m \in late :
    /\ late' = late \ {m}
    /\ Commit(m)
    /\ UNCHANGED <<formVars, call, token, sessionVars, active, toggles, faults>>

\* On success the key is dropped and the page left, which ends the timer and
\* the request of an estimate; else the form is open
\* again, with the same key.
SubmitAccepted ==
  /\ Final("create")
  /\ call["create"].result \in {"created", "exists"}
  /\ key' = 0
  /\ sent' = TRUE
  /\ timer' = FALSE
  /\ call' = [c \in Calls |-> NoCall]
  /\ UNCHANGED <<form, version, effects, preview, uploading, token,
                 sessionVars, serverVars, late, toggles, faults>>

SubmitFailed ==
  /\ Final("create")
  /\ call["create"].result \notin {"created", "exists"}
  /\ call' = [call EXCEPT !["create"] = NoCall]
  /\ UNCHANGED <<formVars, token, sessionVars, serverVars, late, toggles,
                 faults>>

(***************************************************************************)
(* upload_attachment.  Both channels are registered with the provider      *)
(* before the row is written; then the browser takes the id into the form. *)
(***************************************************************************)
NewFiles == {f \in Files : files[f].state = "none"}

StartUpload ==
  /\ ~sent /\ ~effects
  /\ call["create"] = NoCall
  /\ uploading = Nobody
  /\ user # Nobody /\ MaySend(user)
  /\ NewFiles # {}
  /\ uploading' = user
  /\ UNCHANGED <<form, version, effects, key, preview, timer, sent, call,
                 token, sessionVars, serverVars, late, toggles, faults>>

\* It may end when the form was submitted meanwhile.
UploadDone ==
  /\ uploading # Nobody
  /\ ~sent
  /\ \E f \in NewFiles :
       /\ \A g \in NewFiles : f <= g
       /\ files' = [files EXCEPT ![f] =
                      [owner |-> uploading, state |-> "free"]]
       /\ form' = [form EXCEPT !.file = f]
  /\ version' = version + 1
  /\ effects' = TRUE
  /\ uploading' = Nobody
  /\ UNCHANGED <<key, preview, timer, sent, call, token, sessionVars, active,
                 campaigns, late, toggles, faults>>

UploadFails ==
  /\ uploading # Nobody
  /\ faults < MaxFaults
  /\ faults' = faults + 1
  /\ uploading' = Nobody
  /\ UNCHANGED <<form, version, effects, key, preview, timer, sent, call,
                 token, sessionVars, serverVars, late, toggles>>

(***************************************************************************)
(* What goes on around the form.                                           *)
(***************************************************************************)

\* The provider client is missing (503), the database is locked or the
\* provider refuses the account (500), before the commit or after it; or the
\* estimate does not come.
RequestFails(c) ==
  /\ call[c].stage \in {"token", "out", "sending"}
  /\ faults < MaxFaults
  /\ faults' = faults + 1
  /\ Answered(c, "failed")
  /\ UNCHANGED <<formVars, token, sessionVars, serverVars, late, toggles>>

\* The connection breaks while the post is on its way.
AnswerLost ==
  /\ call["create"].stage = "out"
  /\ faults < MaxFaults
  /\ faults' = faults + 1
  /\ late' = late \cup {call["create"]}
  /\ Answered("create", "failed")
  /\ UNCHANGED <<formVars, token, sessionVars, serverVars, toggles>>

\* Another tab signs out, or signs a user in: the callback overwrites the
\* user's role with the one it was told, and begins a session without a token.
OtherSession(u) ==
  /\ ~sent
  /\ sessions < MaxSessions
  /\ sessions' = sessions + 1
  /\ user' = u
  /\ token' = IF token = "none" THEN "none" ELSE "stale"
  /\ UNCHANGED <<formVars, call, serverVars, late, toggles, faults>>

SignOut == user # Nobody /\ OtherSession(Nobody) /\ UNCHANGED maySend

SignIn ==
  \E u \in Users, r \in BOOLEAN :
    /\ OtherSession(u)
    /\ maySend' = [maySend EXCEPT ![u] = r]

ToggleNumber ==
  /\ ~sent /\ toggles < MaxToggles
  /\ toggles' = toggles + 1
  /\ active' = ~active
  /\ UNCHANGED <<formVars, call, token, sessionVars, files, campaigns, late,
                 faults>>

FileExpires ==
  \E f \in Files :
    /\ files[f].state = "free"
    /\ ~sent /\ toggles < MaxToggles
    /\ toggles' = toggles + 1
    /\ files' = [files EXCEPT ![f].state = "expired"]
    /\ UNCHANGED <<formVars, call, token, sessionVars, active, campaigns,
                   late, faults>>

ApiSend(c) == FetchToken(c) \/ Send(c) \/ RetryForbidden(c)
Server == PreviewCampaign \/ CreateCampaign \/ AnswerCreated
Answer == ShowEstimate \/ SubmitAccepted \/ SubmitFailed

Next ==
  \/ Edit \/ EffectsRun \/ TimerFires \/ AskAgain \/ Submit
  \/ \E c \in Calls : ApiSend(c) \/ RequestFails(c)
  \/ Server \/ Answer \/ CreateLate \/ AnswerLost
  \/ StartUpload \/ UploadDone \/ UploadFails
  \/ SignOut \/ SignIn \/ ToggleNumber \/ FileExpires

\* The browser and the server go on, and the operator insists: an estimate
\* that failed is asked for again, a form that can be submitted is.
Fairness ==
  /\ WF_vars(EffectsRun)
  /\ WF_vars(TimerFires)
  /\ \A c \in Calls : WF_vars(ApiSend(c))
  /\ WF_vars(Server)
  /\ WF_vars(Answer)
  /\ WF_vars(CreateLate)
  /\ WF_vars(AskAgain)
  /\ WF_vars(Submit)

Spec == Init /\ [][Next]_vars /\ Fairness

(***************************************************************************)
(* Properties.                                                             *)
(***************************************************************************)

\* However often a form is submitted, with whatever answers lost and by
\* whomever, the same contents become one campaign at most
\* (ComposeForm.tsx: the key stays for a repetition; campaigns.py: the server
\* sends no key twice).
OneCampaignPerForm ==
  \A c, d \in campaigns : c.version = d.version => c = d

\* What is sent is what the operator had the estimate of: no campaign has
\* other recipients, another text or a picture more than the estimate that
\* was on display (ComposeForm.tsx: currentPreview).
SentAsEstimated ==
  \A c \in campaigns : c.seen = PreviewKey(c.form)

\* Nothing stands in the way of the form any more.
Sound ==
  /\ user # Nobody /\ MaySend(user)
  /\ Acceptable(form.text)
  /\ \/ \E c \in campaigns : c.key = key /\ c.by = user
     \/ /\ active
        /\ FileUsable(form.file, user)
        /\ \A c \in campaigns : c.key # key

\* An operator who insists gets the form accepted: neither a token of an
\* earlier session nor an estimate of an earlier input, a lost answer or a
\* failed request leaves it stuck (csrf-client.ts: a 403 is tried again with a
\* new token; ComposeForm.tsx: effects, retries).
InsistingOperatorSends == <>[]Sound => <>sent
=============================================================================
