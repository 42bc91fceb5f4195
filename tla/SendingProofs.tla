------------------------- MODULE SendingProofs -------------------------
(***************************************************************************)
(* Proofs about the two ends of a send: the form it comes from (module     *)
(* Composer), and the cancelling of its reservation (ReservationCancel).   *)
(***************************************************************************)
EXTENDS Composer, ReservationCancel, MessageRowsProofs, WellFoundedInduction

(***************************************************************************)
(* The form, for any number of users, edits, pictures and faults.          *)
(* OneCampaignPerForm is not inductive: between an upload and its effects  *)
(* the form has new contents under the old key, so two posts of the same   *)
(* contents may have different keys.  The invariant says what they have    *)
(* then: one picture, which the first campaign takes (VersionsTell,        *)
(* CampaignsApart); else one key, for which there is one campaign.         *)
(***************************************************************************)
(***************************************************************************)
(* Records with any key: nothing is asked of a key but that it is the same.*)
(***************************************************************************)
SomeUser == Users \cup {Nobody}
IsBody(b) ==
  /\ b = [key |-> b.key, form |-> b.form, version |-> b.version, seen |-> b.seen]
  /\ b.form \in Forms /\ b.version \in Nat
IsPost(m) ==
  /\ m = [stage |-> m.stage, try |-> m.try, body |-> m.body, user |-> m.user,
          csrf |-> m.csrf]
  /\ m.stage \in {"out", "sending"} /\ IsBody(m.body) /\ m.user \in SomeUser
IsCall(m) ==
  \/ m = NoCall
  \/ /\ m = [stage |-> "token", try |-> m.try, body |-> m.body]
     /\ IsBody(m.body)
  \/ IsPost(m)
  \/ /\ m = [stage |-> "back", try |-> m.try, body |-> m.body,
             result |-> m.result]
     /\ IsBody(m.body)
IsCampaign(c) ==
  /\ c = [key |-> c.key, by |-> c.by, form |-> c.form, version |-> c.version,
          seen |-> c.seen]
  /\ c.form \in Forms /\ c.version \in Nat
Attachment ==
  [owner : SomeUser, state : {"none", "free", "linked", "expired"}]

FormTypes ==
  /\ form \in Forms /\ version \in Nat
  /\ uploading \in SomeUser /\ user \in SomeUser
  /\ call = [c \in Calls |-> call[c]]
  /\ IsCall(call["create"])
  /\ \A m \in late : IsPost(m)
  /\ \A c \in campaigns : IsCampaign(c)
  /\ files \in [Files -> Attachment]
  /\ IsFiniteSet(late) /\ IsFiniteSet(campaigns)

\* The contents of all posts, of those that became campaigns as well.
Posts ==
  {m.body : m \in late}
    \cup (IF call["create"] = NoCall THEN {} ELSE {call["create"].body})
    \cup {[key |-> c.key, form |-> c.form, version |-> c.version,
           seen |-> c.seen] : c \in campaigns}

\* Two posts of one version have one key, but for the moment between an
\* upload and its effects; then they have one picture.
SameContents(b, d) ==
  b.form = d.form /\ (b.key = d.key \/ b.form.file # NoFile)

\* No post has contents other than those of its version, and the form holds
\* the key of the posts that have the contents it shows.
VersionsTell ==
  /\ effects => form.file # NoFile
  /\ \A b \in Posts :
       /\ b.seen = PreviewKey(b.form)
       /\ b.version <= version
       /\ b.version = version =>
            /\ b.form = form
            /\ sent \/ (key # 0 /\ b.key = key) \/ form.file # NoFile
  /\ \A b, d \in Posts : b.version = d.version => SameContents(b, d)

\* A key has one campaign, and so has a picture.
CampaignsApart ==
  /\ \A c, d \in campaigns : c.key = d.key => c = d
  /\ \A c \in campaigns :
       c.form.file # NoFile => files[c.form.file].state = "linked"
  /\ OneCampaignPerForm

FormInv == FormTypes /\ VersionsTell /\ CampaignsApart

LEMMA FilesAreNumbers == NoFile \notin Files /\ Files \subseteq Nat
BY ComposerAssumption DEF Files, NoFile

\* The values of a function on a finite set.
LEMMA ValuesAreFinite ==
  ASSUME NEW S, IsFiniteSet(S), NEW f, f = [x \in S |-> f[x]]
  PROVE  IsFiniteSet({f[x] : x \in S})
<1> DEFINE T == {f[x] : x \in S}
<1>1. f \in Surjection(S, T)
  BY DEF Surjection
<1> HIDE DEF T
<1>3. IsFiniteSet(T)
  BY <1>1, FS_Surjection
<1> QED
  BY <1>3 DEF T

\* A key that is drawn is nobody's yet.
LEMMA KeyIsNew ==
  ASSUME FormTypes
  PROVE  FreshKey \in Nat \ {0} /\ FreshKey \notin Used
<1> DEFINE f == [c \in campaigns |-> c.key]
           g == [m \in late |-> m.body.key]
           A == {c.key : c \in campaigns}
           B == {m.body.key : m \in late}
           C == {0, key}
           D == IF call["create"] = NoCall THEN {} ELSE {call["create"].body.key}
           n == Cardinality(Used)
<1>1. IsFiniteSet(A)
  <2>1. f = [c \in campaigns |-> f[c]] /\ A = {f[c] : c \in campaigns}
    OBVIOUS
  <2> HIDE DEF f, A
  <2> QED
    BY <2>1, ValuesAreFinite DEF FormTypes
<1>2. IsFiniteSet(B)
  <2>1. g = [m \in late |-> g[m]] /\ B = {g[m] : m \in late}
    OBVIOUS
  <2> HIDE DEF g, B
  <2> QED
    BY <2>1, ValuesAreFinite DEF FormTypes
<1>3. IsFiniteSet(C) /\ IsFiniteSet(D)
  <2>1. IsFiniteSet({0} \cup {key}) /\ IsFiniteSet({call["create"].body.key})
    BY FS_Singleton, FS_AddElement
  <2>2. C = {0} \cup {key}
    OBVIOUS
  <2> QED
    BY <2>1, <2>2, FS_EmptySet
<1>4. Used = ((A \cup B) \cup C) \cup D
  BY DEF Used
<1> HIDE DEF A, B, C, D
<1>5. IsFiniteSet(Used)
  BY <1>1, <1>2, <1>3, <1>4, FS_Union
<1>6. n \in Nat
  BY <1>5, FS_CardinalityType
<1> HIDE DEF n
<1>7. \E k \in 1..(n + 1) : k \notin Used
  <2> SUFFICES ASSUME 1..(n + 1) \subseteq Used PROVE FALSE
    OBVIOUS
  <2>1. Cardinality(1..(n + 1)) = n + 1
    BY <1>6, FS_Interval
  <2>2. Cardinality(1..(n + 1)) <= Cardinality(Used)
    BY <1>5, FS_Subset
  <2> QED
    BY <1>6, <2>1, <2>2 DEF n
<1>8. FreshKey \in 1..(n + 1) /\ FreshKey \notin Used
  BY <1>7 DEF FreshKey, n
<1> QED
  BY <1>6, <1>8

LEMMA PostTypes == FormTypes => \A b \in Posts : IsBody(b)
<1> SUFFICES ASSUME FormTypes, NEW b \in Posts PROVE IsBody(b)
  OBVIOUS
<1>1. CASE b \in {m.body : m \in late}
  BY <1>1 DEF FormTypes, IsPost
<1>2. CASE call["create"] # NoCall /\ b = call["create"].body
  BY <1>2 DEF FormTypes, IsCall, IsPost
<1>3. CASE b \in {[key |-> c.key, form |-> c.form, version |-> c.version,
                   seen |-> c.seen] : c \in campaigns}
  BY <1>3 DEF FormTypes, IsCampaign, IsBody
<1> QED
  BY <1>1, <1>2, <1>3 DEF Posts

LEMMA FormInit == Init => FormInv
<1> SUFFICES ASSUME Init PROVE FormInv
  OBVIOUS
<1> USE DEF Init
<1>1. FormTypes
  <2>1. form \in Forms
    BY ComposerAssumption DEF Forms, NoFile
  <2>2. call["create"] = NoCall /\ call = [c \in Calls |-> call[c]]
    BY DEF Calls
  <2>3. files \in [Files -> Attachment]
    BY DEF Attachment, SomeUser
  <2> QED
    BY <2>1, <2>2, <2>3, FS_EmptySet, ComposerAssumption DEF FormTypes, IsCall, SomeUser
<1>2. Posts = {}
  BY DEF Posts, Calls
<1> QED
  BY <1>1, <1>2 DEF FormInv, VersionsTell, CampaignsApart, OneCampaignPerForm

\* A step with no new contents: the form is as it was, and the key is dropped
\* only when the form is left or has a picture.
LEMMA NoNewPost ==
  ASSUME VersionsTell, Posts' \subseteq Posts, UNCHANGED <<form, version>>,
         sent => sent', key' = key \/ sent' \/ form.file # NoFile,
         effects' => effects
  PROVE  VersionsTell'
<1> DEFINE P == Posts'
<1>1. \A b \in P : b \in Posts
  OBVIOUS
<1> HIDE DEF P
<1>2. /\ effects' => form.file # NoFile
      /\ \A b \in P :
           /\ b.seen = PreviewKey(b.form)
           /\ b.version <= version
           /\ b.version = version =>
                /\ b.form = form
                /\ sent' \/ (key' # 0 /\ b.key = key') \/ form.file # NoFile
      /\ \A b, d \in P : b.version = d.version => SameContents(b, d)
  BY <1>1 DEF VersionsTell
<1> QED
  BY <1>2 DEF VersionsTell, P, SameContents, PreviewKey

\* The form has other contents than any post.
LEMMA NewVersion ==
  ASSUME FormTypes, VersionsTell, Posts' \subseteq Posts,
         version' = version + 1, effects' => form'.file # NoFile
  PROVE  VersionsTell'
<1> DEFINE P == Posts'
<1>1. \A b \in P : b \in Posts /\ b.version \in Nat
  BY PostTypes DEF IsBody
<1> HIDE DEF P
<1>2. version \in Nat
  BY DEF FormTypes
<1>3. \A b \in P : b.version <= version + 1 /\ b.version # version + 1
  BY <1>1, <1>2 DEF VersionsTell
<1>4. /\ \A b \in P : b.seen = PreviewKey(b.form)
      /\ \A b, d \in P : b.version = d.version => SameContents(b, d)
  BY <1>1 DEF VersionsTell
<1> QED
  BY <1>3, <1>4 DEF VersionsTell, P, SameContents, PreviewKey

\* A step that makes no campaign, and releases no picture.
LEMMA NoNewCampaign ==
  ASSUME CampaignsApart, FormTypes, UNCHANGED campaigns,
         \A f \in Files : files[f].state = "linked" => files'[f].state = "linked"
  PROVE  CampaignsApart'
<1>1. \A c \in campaigns : c.form.file # NoFile => c.form.file \in Files
  BY DEF FormTypes, IsCampaign, Forms
<1> QED
  BY <1>1 DEF CampaignsApart, OneCampaignPerForm

\* The call of a post goes on with what it asks for, or ends.
GoesOn ==
  \/ call'["create"] = call["create"]
  \/ call'["create"] = NoCall
  \/ call["create"] # NoCall /\ call'["create"].body = call["create"].body

LEMMA NoPostAppears ==
  ASSUME GoesOn, UNCHANGED campaigns,
         \A m \in late' : m \in late \/ (call["create"] # NoCall /\ m.body = call["create"].body)
  PROVE  Posts' \subseteq Posts
<1> SUFFICES ASSUME NEW b \in Posts' PROVE b \in Posts
  OBVIOUS
<1>1. \/ b \in {m.body : m \in late'}
      \/ call'["create"] # NoCall /\ b = call'["create"].body
      \/ b \in {[key |-> c.key, form |-> c.form, version |-> c.version,
                 seen |-> c.seen] : c \in campaigns}
  BY DEF Posts
<1>2. CASE b \in {m.body : m \in late'}
  BY <1>2 DEF Posts
<1>3. CASE call'["create"] # NoCall /\ b = call'["create"].body
  BY <1>3 DEF Posts, GoesOn
<1> QED
  BY <1>1, <1>2, <1>3 DEF Posts

\* What a step does to a call, where the body stays.
LEMMA CallChanges ==
  ASSUME FormTypes, NEW c \in Calls, NEW r, call' = [call EXCEPT ![c] = r],
         c = "create" => IsCall(r) /\ (\/ r = NoCall
                                       \/ call["create"] # NoCall /\ r.body = call["create"].body)
  PROVE  /\ call' = [k \in Calls |-> call'[k]] /\ IsCall(call'["create"])
         /\ GoesOn
<1>1. call' = [k \in Calls |-> IF k = c THEN r ELSE call[k]]
  BY DEF FormTypes
<1>2. call'["create"] = IF c = "create" THEN r ELSE call["create"]
  BY <1>1 DEF Calls
<1>3. call' = [k \in Calls |-> call'[k]]
  BY <1>1
<1> QED
  BY <1>2, <1>3 DEF GoesOn, FormTypes

LEMMA CallStages ==
  ASSUME FormTypes, NEW c \in Calls
  PROVE  /\ call["create"].stage # "idle" => call["create"] # NoCall
         /\ c = "create" /\ call[c].stage # "idle" => call["create"] # NoCall /\ IsBody(call[c].body)
         /\ NoCall.stage = "idle"
BY DEF FormTypes, IsCall, IsPost, NoCall

LEMMA AnsweredType ==
  ASSUME FormTypes, NEW c \in Calls, NEW told, Answered(c, told), call[c].stage # "idle"
  PROVE  /\ call' = [k \in Calls |-> call'[k]] /\ IsCall(call'["create"])
         /\ GoesOn
<1> DEFINE r == [stage |-> "back", try |-> call[c].try, body |-> call[c].body, result |-> told]
<1>1. call' = [call EXCEPT ![c] = r]
  BY DEF Answered
<1>2. c = "create" => IsCall(r) /\ call["create"] # NoCall /\ r.body = call["create"].body
  BY CallStages DEF IsCall
<1> HIDE DEF r
<1> QED
  BY <1>1, <1>2, CallChanges

\* A step of the browser or of the network that leaves the contents of the
\* form and the tables as they are.
LEMMA OnlyTheCall ==
  ASSUME FormInv, UNCHANGED <<form, version, user, campaigns, files>>,
         uploading' \in {uploading, Nobody, user},
         sent => sent', key' = key \/ sent' \/ form.file # NoFile,
         effects' => effects,
         call' = [k \in Calls |-> call'[k]], IsCall(call'["create"]), GoesOn,
         \A m \in late' : m \in late \/ (IsPost(m) /\ call["create"] # NoCall
                                          /\ m.body = call["create"].body),
         late' = late \/ IsFiniteSet(late')
  PROVE  FormInv'
<1>1. FormTypes'
  BY DEF FormInv, FormTypes, SomeUser
<1>2. Posts' \subseteq Posts
  BY NoPostAppears
<1>3. VersionsTell'
  BY <1>2, NoNewPost DEF FormInv, VersionsTell
<1>4. CampaignsApart'
  BY NoNewCampaign DEF FormInv
<1> QED
  BY <1>1, <1>3, <1>4 DEF FormInv

LEMMA ApiSendStep ==
  ASSUME FormInv, NEW c \in Calls, ApiSend(c) \/ RequestFails(c)
  PROVE  FormInv'
<1>1. FormTypes
  BY DEF FormInv
<1>2. CASE FetchToken(c)
  BY <1>1, <1>2, OnlyTheCall DEF FetchToken, GoesOn, formVars, serverVars, sessionVars, FormTypes
<1>3. CASE Send(c)
  <2> DEFINE r == [stage |-> "out", try |-> call[c].try, body |-> call[c].body,
                   user |-> user, csrf |-> token = "good"]
  <2>1. call' = [call EXCEPT ![c] = r] /\ call[c].stage = "token"
    BY <1>3 DEF Send
  <2>2. c = "create" => IsCall(r) /\ call["create"] # NoCall /\ r.body = call["create"].body
    BY <1>1, <2>1, CallStages DEF IsCall, IsPost, FormTypes
  <2> HIDE DEF r
  <2>3. call' = [k \in Calls |-> call'[k]] /\ IsCall(call'["create"]) /\ GoesOn
    BY <1>1, <2>1, <2>2, CallChanges
  <2> QED
    BY <1>3, <2>3, OnlyTheCall DEF Send, formVars, serverVars, sessionVars
<1>4. CASE RetryForbidden(c)
  <2> DEFINE r == [stage |-> "token", try |-> 2, body |-> call[c].body]
  <2>1. call' = [call EXCEPT ![c] = r] /\ call[c].stage = "back"
    BY <1>4 DEF RetryForbidden
  <2>2. c = "create" => IsCall(r) /\ call["create"] # NoCall /\ r.body = call["create"].body
    BY <1>1, <2>1, CallStages DEF IsCall
  <2> HIDE DEF r
  <2>3. call' = [k \in Calls |-> call'[k]] /\ IsCall(call'["create"]) /\ GoesOn
    BY <1>1, <2>1, <2>2, CallChanges
  <2> QED
    BY <1>4, <2>3, OnlyTheCall DEF RetryForbidden, formVars, serverVars, sessionVars
<1>5. CASE RequestFails(c)
  <2>1. call' = [k \in Calls |-> call'[k]] /\ IsCall(call'["create"]) /\ GoesOn
    BY <1>1, <1>5, AnsweredType DEF RequestFails
  <2> QED
    BY <1>5, <2>1, OnlyTheCall DEF RequestFails, formVars, serverVars, sessionVars
<1> QED
  BY <1>2, <1>3, <1>4, <1>5 DEF ApiSend

LEMMA FormStep ==
  ASSUME FormInv,
         Edit \/ EffectsRun \/ TimerFires \/ AskAgain \/ ShowEstimate
  PROVE  FormInv'
<1>1. FormTypes
  BY DEF FormInv
<1>2. ASSUME NEW f, RunEffects(f)
      PROVE  /\ call' = [k \in Calls |-> call'[k]] /\ IsCall(call'["create"])
             /\ GoesOn /\ key' = 0
  <2>1. call' = call \/ call' = [call EXCEPT !["preview"] = NoCall]
    BY <1>2 DEF RunEffects
  <2>2. call' = call => /\ call' = [k \in Calls |-> call'[k]] /\ IsCall(call'["create"])
                        /\ GoesOn
    BY <1>1 DEF FormTypes, GoesOn
  <2>3. call' = [call EXCEPT !["preview"] = NoCall] =>
          /\ call' = [k \in Calls |-> call'[k]] /\ IsCall(call'["create"])
          /\ GoesOn
    BY <1>1, CallChanges DEF Calls
  <2> QED
    BY <1>2, <2>1, <2>2, <2>3 DEF RunEffects
<1>3. CASE Edit
  <2>1. PICK f \in Forms : RunEffects(f) /\ form' = f
    BY <1>3 DEF Edit
  <2>2. /\ call' = [k \in Calls |-> call'[k]] /\ IsCall(call'["create"]) /\ GoesOn
    BY <1>2, <2>1
  <2>3. version \in Nat /\ version' = version + 1 /\ ~effects /\ UNCHANGED effects
    BY <1>1, <1>3 DEF Edit, FormTypes
  <2>4. FormTypes'
    BY <1>1, <1>3, <2>1, <2>2, <2>3 DEF Edit, FormTypes, sessionVars, serverVars
  <2>5. Posts' \subseteq Posts
    BY <1>3, <2>2, NoPostAppears DEF Edit, serverVars
  <2>6. VersionsTell'
    BY <1>1, <2>3, <2>5, NewVersion DEF FormInv
  <2>7. CampaignsApart'
    BY <1>1, <1>3, NoNewCampaign DEF FormInv, Edit, serverVars
  <2> QED
    BY <2>4, <2>6, <2>7 DEF FormInv
<1>4. CASE EffectsRun
  <2>1. form.file # NoFile
    BY <1>4 DEF FormInv, VersionsTell, EffectsRun
  <2>2. /\ call' = [k \in Calls |-> call'[k]] /\ IsCall(call'["create"]) /\ GoesOn
    BY <1>2, <1>4 DEF EffectsRun
  <2> QED
    BY <1>4, <2>1, <2>2, OnlyTheCall DEF EffectsRun, sessionVars, serverVars
<1>5. CASE TimerFires
  <2> DEFINE r == [stage |-> "token", try |-> 1, body |-> preview.key]
  <2>1. call' = [call EXCEPT !["preview"] = r]
    BY <1>5 DEF TimerFires
  <2> HIDE DEF r
  <2>2. /\ call' = [k \in Calls |-> call'[k]] /\ IsCall(call'["create"]) /\ GoesOn
    BY <1>1, <2>1, CallChanges DEF Calls
  <2> QED
    BY <1>5, <2>2, OnlyTheCall DEF TimerFires, sessionVars, serverVars
<1>6. CASE AskAgain
  <2>1. /\ call' = [k \in Calls |-> call'[k]] /\ IsCall(call'["create"]) /\ GoesOn
    BY <1>1, <1>6 DEF FormTypes, AskAgain, GoesOn
  <2> QED
    BY <1>6, <2>1, OnlyTheCall DEF AskAgain, sessionVars, serverVars
<1>7. CASE ShowEstimate
  <2>1. call' = [call EXCEPT !["preview"] = NoCall]
    BY <1>7 DEF ShowEstimate
  <2>2. /\ call' = [k \in Calls |-> call'[k]] /\ IsCall(call'["create"]) /\ GoesOn
    BY <1>1, <2>1, CallChanges DEF Calls
  <2> QED
    BY <1>7, <2>2, OnlyTheCall DEF ShowEstimate, sessionVars, serverVars
<1> QED
  BY <1>3, <1>4, <1>5, <1>6, <1>7

\* A submit sends what the form shows, with the estimate on display.
LEMMA SubmitStep ==
  ASSUME FormInv, Submit
  PROVE  FormInv'
<1> DEFINE b == [key |-> KeyOfSubmit, form |-> form, version |-> version,
                 seen |-> preview.key]
           r == [stage |-> "token", try |-> 1, body |-> b]
           P == Posts'
<1>1. FormTypes /\ form \in Forms /\ version \in Nat
  BY DEF FormInv, FormTypes
<1>2. /\ ~sent /\ call["create"] = NoCall /\ key' = KeyOfSubmit
      /\ call' = [call EXCEPT !["create"] = r]
      /\ UNCHANGED <<form, version, effects, uploading, sent, user, campaigns, files, late>>
  BY DEF Submit, sessionVars, serverVars
<1>3. preview.key = PreviewKey(form)
  BY DEF Submit, CanSubmit, CurrentPreview, NoPreview
<1>4. IsBody(b) /\ b.form = form /\ b.version = version /\ b.key = key'
      /\ b.seen = PreviewKey(form)
  BY <1>1, <1>2, <1>3 DEF IsBody
<1>5. IsCall(r) /\ r.body = b
  BY <1>4 DEF IsCall
<1>6. key' # 0 /\ (key # 0 => key' = key)
  BY <1>1, <1>2, KeyIsNew DEF KeyOfSubmit
<1> HIDE DEF b, r
<1>7. call' = [k \in Calls |-> call'[k]] /\ call'["create"] = r
  BY <1>1, <1>2 DEF FormTypes, Calls
<1>8. FormTypes'
  BY <1>1, <1>2, <1>5, <1>7 DEF FormTypes
<1>9. \A d \in P : d \in Posts \/ d = b
  BY <1>2, <1>5, <1>7 DEF Posts
<1> HIDE DEF P
<1>10. \A d \in Posts : d.version = version =>
         d.form = form /\ ((key # 0 /\ d.key = key) \/ form.file # NoFile)
  BY <1>2 DEF FormInv, VersionsTell
<1>11. \A d \in P : /\ d.seen = PreviewKey(d.form)
                    /\ d.version <= version
                    /\ d.version = version =>
                         /\ d.form = form
                         /\ (key' # 0 /\ d.key = key') \/ form.file # NoFile
  BY <1>1, <1>4, <1>6, <1>9, <1>10 DEF FormInv, VersionsTell
<1>12. \A d, e \in P : d.version = e.version => SameContents(d, e)
  BY <1>4, <1>6, <1>9, <1>10 DEF SameContents, FormInv, VersionsTell
<1>13. effects' => form.file # NoFile
  BY <1>2 DEF FormInv, VersionsTell
<1>14. VersionsTell'
  BY <1>2, <1>11, <1>12, <1>13 DEF VersionsTell, P, SameContents, PreviewKey
<1>15. CampaignsApart'
  BY <1>1, <1>2, NoNewCampaign DEF FormInv
<1> QED
  BY <1>8, <1>14, <1>15 DEF FormInv
\* A post that reaches the server becomes a campaign of its own, or nothing
\* changes: its key or its picture would tell that there is one already.
LEMMA CommitTables ==
  ASSUME FormInv, NEW m, IsPost(m), m.body \in Posts, Commit(m)
  PROVE  /\ \A c \in campaigns' :
              c \in campaigns \/ [key |-> c.key, form |-> c.form, version |-> c.version,
                                  seen |-> c.seen] = m.body
         /\ \A c \in campaigns' : IsCampaign(c)
         /\ IsFiniteSet(campaigns')
         /\ files' \in [Files -> Attachment]
         /\ CampaignsApart'
<1> DEFINE new == [key |-> m.body.key, by |-> m.user, form |-> m.body.form,
                   version |-> m.body.version, seen |-> m.body.seen]
<1>1. FormTypes /\ VersionsTell /\ CampaignsApart
  BY DEF FormInv
<1>2. CASE Verdict(m) # "created"
  <2>1. UNCHANGED <<campaigns, files>>
    BY <1>2 DEF Commit
  <2>2. CampaignsApart'
    BY <1>1, <2>1, NoNewCampaign
  <2> QED
    BY <1>1, <2>1, <2>2 DEF FormTypes
<1>3. CASE Verdict(m) = "created"
  <2>1. campaigns' = campaigns \cup {new}
    BY <1>3 DEF Commit
  <2>2. files' = [f \in Files |->
            IF f = m.body.form.file THEN [files[f] EXCEPT !.state = "linked"]
            ELSE files[f]]
    BY <1>3 DEF Commit
  <2>3. ~KeyTaken(m) /\ FileUsable(m.body.form.file, m.user)
    BY <1>3 DEF Verdict, Sendable
  <2>4. IsBody(m.body) /\ m.body.form \in Forms
    BY DEF IsPost, IsBody
  <2>5. IsCampaign(new)
    BY <2>4 DEF IsCampaign, IsBody
  <2>6. m.body = [key |-> new.key, form |-> new.form, version |-> new.version,
                  seen |-> new.seen]
    BY <2>4 DEF IsBody
  <2>7. files' \in [Files -> Attachment]
    BY <1>1, <2>2 DEF FormTypes, Attachment
  <2>8. \A f \in Files : files'[f].state = IF f = m.body.form.file THEN "linked"
                                           ELSE files[f].state
    BY <1>1, <2>2 DEF FormTypes, Attachment
  <2>9. \A c \in campaigns : c.key # new.key
    BY <2>3 DEF KeyTaken
  <2>10. ASSUME NEW c \in campaigns, c.version = new.version PROVE FALSE
    <3> DEFINE d == [key |-> c.key, form |-> c.form, version |-> c.version,
                     seen |-> c.seen]
    <3>1. d \in Posts
      BY DEF Posts
    <3>2. d.version = m.body.version /\ d.key # m.body.key
      BY <2>9, <2>10
    <3>3. d.form = c.form /\ IsCampaign(c)
      BY <1>1 DEF FormTypes
    <3> HIDE DEF d, new
    <3>4. SameContents(d, m.body)
      BY <1>1, <3>1, <3>2 DEF VersionsTell
    <3>5. c.form = m.body.form /\ c.form.file # NoFile
      BY <3>2, <3>3, <3>4 DEF SameContents
    <3>6. files[m.body.form.file].state = "linked"
      BY <1>1, <3>5 DEF CampaignsApart
    <3> QED
      BY <2>3, <3>5, <3>6 DEF FileUsable
  <2>11. new.form = m.body.form /\ new.form.file \in {NoFile} \cup Files
    BY <2>4 DEF Forms
  <2>12. \A c \in campaigns : c.form.file \in {NoFile} \cup Files
    BY <1>1 DEF FormTypes, IsCampaign, Forms
  <2> HIDE DEF new
  <2>13. IsFiniteSet(campaigns')
    BY <1>1, <2>1, FS_AddElement DEF FormTypes
  <2>14. \A c, d \in campaigns' : c.key = d.key => c = d
    BY <1>1, <2>1, <2>9 DEF CampaignsApart
  <2>15. \A c \in campaigns' : c.form.file # NoFile => files'[c.form.file].state = "linked"
    BY <1>1, <2>1, <2>8, <2>11, <2>12 DEF CampaignsApart
  <2>16. \A c, d \in campaigns' : c.version = d.version => c = d
    BY <1>1, <2>1, <2>10 DEF CampaignsApart, OneCampaignPerForm
  <2>17. CampaignsApart'
    BY <2>14, <2>15, <2>16 DEF CampaignsApart, OneCampaignPerForm
  <2> QED
    BY <1>1, <2>1, <2>5, <2>6, <2>7, <2>13, <2>17 DEF FormTypes
<1> QED
  BY <1>2, <1>3

\* A step of the server with a post m.
LEMMA ServerStep ==
  ASSUME FormInv, NEW m, IsPost(m), m.body \in Posts, Commit(m),
         UNCHANGED <<formVars, sessionVars>>, late' \subseteq late,
         call' = [k \in Calls |-> call'[k]], IsCall(call'["create"]), GoesOn
  PROVE  FormInv'
<1>1. /\ \A c \in campaigns' :
           c \in campaigns \/ [key |-> c.key, form |-> c.form, version |-> c.version,
                               seen |-> c.seen] = m.body
      /\ \A c \in campaigns' : IsCampaign(c)
      /\ IsFiniteSet(campaigns')
      /\ files' \in [Files -> Attachment]
      /\ CampaignsApart'
  BY CommitTables
<1>2. IsFiniteSet(late')
  BY FS_Subset DEF FormInv, FormTypes
<1>3. FormTypes'
  BY <1>1, <1>2 DEF FormInv, FormTypes, formVars, sessionVars
<1>4. ASSUME NEW b \in Posts' PROVE b \in Posts
  <2>1. \/ b \in {x.body : x \in late'}
        \/ call'["create"] # NoCall /\ b = call'["create"].body
        \/ b \in {[key |-> c.key, form |-> c.form, version |-> c.version,
                   seen |-> c.seen] : c \in campaigns'}
    BY <1>4 DEF Posts
  <2>2. CASE b \in {x.body : x \in late'}
    BY <2>2 DEF Posts
  <2>3. CASE call'["create"] # NoCall /\ b = call'["create"].body
    BY <2>3 DEF Posts, GoesOn
  <2>4. CASE b \in {[key |-> c.key, form |-> c.form, version |-> c.version,
                     seen |-> c.seen] : c \in campaigns'}
    <3>1. PICK c \in campaigns' : b = [key |-> c.key, form |-> c.form,
                                       version |-> c.version, seen |-> c.seen]
      BY <2>4
    <3>2. CASE c \in campaigns
      BY <3>1, <3>2 DEF Posts
    <3> QED
      BY <1>1, <3>1, <3>2
  <2> QED
    BY <2>1, <2>2, <2>3, <2>4
<1>5. VersionsTell'
  BY <1>4, NoNewPost DEF FormInv, formVars
<1> QED
  BY <1>1, <1>3, <1>5 DEF FormInv

LEMMA CreateStep ==
  ASSUME FormInv, CreateCampaign \/ CreateLate
  PROVE  FormInv'
<1>1. FormTypes
  BY DEF FormInv
<1>2. CASE CreateCampaign
  <2> DEFINE m == call["create"]
             r == [m EXCEPT !.stage = "sending"]
  <2>1. m.stage = "out" /\ Commit(m)
    BY <1>2 DEF CreateCampaign
  <2>2. m # NoCall /\ IsPost(m)
    BY <1>1, <2>1 DEF FormTypes, IsCall, NoCall, IsPost
  <2>3. m.body \in Posts
    BY <2>2 DEF Posts
  <2>4. call' = [call EXCEPT !["create"] = r] \/ Answered("create", Verdict(m))
    BY <1>2 DEF CreateCampaign
  <2>5. r.body = m.body /\ IsCall(r)
    BY <2>2 DEF IsPost, IsCall
  <2> HIDE DEF r
  <2>6. call' = [call EXCEPT !["create"] = r] =>
          call' = [k \in Calls |-> call'[k]] /\ IsCall(call'["create"]) /\ GoesOn
    BY <1>1, <2>2, <2>5, CallChanges DEF Calls
  <2>7. Answered("create", Verdict(m)) =>
          call' = [k \in Calls |-> call'[k]] /\ IsCall(call'["create"]) /\ GoesOn
    BY <1>1, <2>1, AnsweredType DEF Calls
  <2>8. UNCHANGED <<formVars, sessionVars>> /\ late' \subseteq late
    BY <1>2 DEF CreateCampaign
  <2> HIDE DEF m
  <2> QED
    BY <2>1, <2>2, <2>3, <2>4, <2>6, <2>7, <2>8, ServerStep
<1>3. CASE CreateLate
  <2>1. PICK m \in late : late' = late \ {m} /\ Commit(m)
                          /\ UNCHANGED <<formVars, sessionVars, call>>
    BY <1>3 DEF CreateLate
  <2>2. IsPost(m) /\ m.body \in Posts
    BY <1>1 DEF FormTypes, Posts
  <2>3. call' = [k \in Calls |-> call'[k]] /\ IsCall(call'["create"]) /\ GoesOn
    BY <1>1, <2>1 DEF FormTypes, GoesOn
  <2> QED
    BY <2>1, <2>2, <2>3, ServerStep
<1> QED
  BY <1>2, <1>3

LEMMA AnswerStep ==
  ASSUME FormInv,
         PreviewCampaign \/ AnswerCreated \/ SubmitAccepted \/ SubmitFailed \/ AnswerLost
  PROVE  FormInv'
<1>1. FormTypes
  BY DEF FormInv
<1>2. CASE PreviewCampaign
  <2>1. PICK told : Answered("preview", told)
    BY <1>2 DEF PreviewCampaign
  <2>2. call["preview"].stage # "idle"
    BY <1>2 DEF PreviewCampaign
  <2>3. call' = [k \in Calls |-> call'[k]] /\ IsCall(call'["create"]) /\ GoesOn
    BY <1>1, <2>1, <2>2, AnsweredType DEF Calls
  <2> QED
    BY <1>2, <2>3, OnlyTheCall DEF PreviewCampaign, formVars, sessionVars, serverVars
<1>3. CASE AnswerCreated
  <2>1. call' = [k \in Calls |-> call'[k]] /\ IsCall(call'["create"]) /\ GoesOn
    BY <1>1, <1>3, AnsweredType DEF AnswerCreated, Calls
  <2> QED
    BY <1>3, <2>1, OnlyTheCall DEF AnswerCreated, formVars, sessionVars, serverVars
<1>4. CASE SubmitAccepted
  <2>1. call' = [c \in Calls |-> NoCall] /\ sent' /\ UNCHANGED <<form, version, effects,
          user, uploading, campaigns, files, late>>
    BY <1>4 DEF SubmitAccepted, sessionVars, serverVars
  <2>2. call' = [k \in Calls |-> call'[k]] /\ IsCall(call'["create"]) /\ GoesOn
    BY <2>1 DEF Calls, IsCall, GoesOn
  <2> QED
    BY <2>1, <2>2, OnlyTheCall
<1>5. CASE SubmitFailed
  <2>1. call' = [k \in Calls |-> call'[k]] /\ IsCall(call'["create"]) /\ GoesOn
    <3>1. call' = [call EXCEPT !["create"] = NoCall] /\ IsCall(NoCall)
      BY <1>5 DEF SubmitFailed, IsCall
    <3> QED
      BY <1>1, <3>1, CallChanges DEF Calls
  <2> QED
    BY <1>5, <2>1, OnlyTheCall DEF SubmitFailed, formVars, sessionVars, serverVars
<1>6. CASE AnswerLost
  <2>1. call["create"].stage = "out" /\ Answered("create", "failed")
        /\ late' = late \cup {call["create"]}
    BY <1>6 DEF AnswerLost
  <2>2. call["create"] # NoCall /\ IsPost(call["create"])
    BY <1>1, <2>1 DEF FormTypes, IsCall, NoCall, IsPost
  <2>3. call' = [k \in Calls |-> call'[k]] /\ IsCall(call'["create"]) /\ GoesOn
    BY <1>1, <2>1, AnsweredType DEF Calls
  <2>4. IsFiniteSet(late')
    BY <1>1, <2>1, FS_AddElement DEF FormTypes
  <2> QED
    BY <1>6, <2>1, <2>2, <2>3, <2>4, OnlyTheCall DEF AnswerLost, formVars, sessionVars, serverVars
<1> QED
  BY <1>2, <1>3, <1>4, <1>5, <1>6

LEMMA UploadStep ==
  ASSUME FormInv, StartUpload \/ UploadDone \/ UploadFails
  PROVE  FormInv'
<1>1. FormTypes /\ call' = call
  BY DEF FormInv, StartUpload, UploadDone, UploadFails
<1>2. call' = [k \in Calls |-> call'[k]] /\ IsCall(call'["create"]) /\ GoesOn
  BY <1>1 DEF FormTypes, GoesOn
<1>3. CASE StartUpload
  BY <1>2, <1>3, OnlyTheCall DEF StartUpload, sessionVars, serverVars
<1>4. CASE UploadFails
  BY <1>2, <1>4, OnlyTheCall DEF UploadFails, sessionVars, serverVars
<1>5. CASE UploadDone
  <2>1. PICK f \in Files : /\ files[f].state = "none"
                           /\ files' = [files EXCEPT ![f] =
                                [owner |-> uploading, state |-> "free"]]
                           /\ form' = [form EXCEPT !.file = f]
    BY <1>5 DEF UploadDone, NewFiles
  <2>2. files' \in [Files -> Attachment]
    BY <1>1, <2>1 DEF FormTypes, Attachment
  <2>3. form' \in Forms /\ form'.file = f
    BY <1>1, <2>1 DEF FormTypes, Forms
  <2>4. FormTypes'
    BY <1>1, <1>2, <1>5, <2>2, <2>3 DEF FormTypes, UploadDone, SomeUser, sessionVars
  <2>5. Posts' \subseteq Posts
    BY <1>2, <1>5, NoPostAppears DEF UploadDone
  <2>6. VersionsTell'
    BY <1>1, <1>5, <2>3, <2>5, NewVersion, FilesAreNumbers DEF FormInv, UploadDone
  <2>7. CampaignsApart'
    BY <1>1, <1>5, <2>1, NoNewCampaign DEF FormInv, FormTypes, UploadDone
  <2> QED
    BY <2>4, <2>6, <2>7 DEF FormInv
<1> QED
  BY <1>3, <1>4, <1>5

LEMMA AroundStep ==
  ASSUME FormInv, SignOut \/ SignIn \/ ToggleNumber \/ FileExpires
  PROVE  FormInv'
<1>1. FormTypes /\ UNCHANGED <<call, form, version, effects, key, sent, uploading, late, campaigns>>
  BY DEF FormInv, SignOut, SignIn, ToggleNumber, FileExpires, OtherSession, formVars, serverVars
<1>2. call' = [k \in Calls |-> call'[k]] /\ IsCall(call'["create"]) /\ GoesOn
  BY <1>1 DEF FormTypes, GoesOn
<1>3. user' \in SomeUser
  BY <1>1 DEF FormTypes, SignOut, SignIn, ToggleNumber, FileExpires, OtherSession, SomeUser, sessionVars
<1>4. /\ files' \in [Files -> Attachment]
      /\ \A f \in Files : files[f].state = "linked" => files'[f].state = "linked"
  <2>1. CASE files' = files
    BY <1>1, <2>1 DEF FormTypes
  <2>2. CASE FileExpires
    <3>1. PICK f \in Files : files[f].state = "free"
                             /\ files' = [files EXCEPT ![f].state = "expired"]
      BY <2>2 DEF FileExpires
    <3> QED
      BY <1>1, <3>1 DEF FormTypes, Attachment
  <2> QED
    BY <2>1, <2>2 DEF SignOut, SignIn, ToggleNumber, OtherSession, serverVars
<1>5. FormTypes'
  BY <1>1, <1>2, <1>3, <1>4 DEF FormTypes
<1>6. Posts' \subseteq Posts
  BY <1>1, <1>2, NoPostAppears
<1>7. VersionsTell'
  BY <1>1, <1>6, NoNewPost DEF FormInv
<1>8. CampaignsApart'
  BY <1>1, <1>4, NoNewCampaign DEF FormInv
<1> QED
  BY <1>5, <1>7, <1>8 DEF FormInv

\* The invariant of the form, whatever is lost, late or done in another tab.
THEOREM FormInvariance == Spec => []FormInv
<1>1. ASSUME FormInv, [Next]_vars PROVE FormInv'
  <2>1. CASE Next
    <3>1. CASE Edit \/ EffectsRun \/ TimerFires \/ AskAgain \/ ShowEstimate
      BY <1>1, <3>1, FormStep
    <3>2. CASE Submit
      BY <1>1, <3>2, SubmitStep
    <3>3. CASE \E c \in Calls : ApiSend(c) \/ RequestFails(c)
      BY <1>1, <3>3, ApiSendStep
    <3>4. CASE CreateCampaign \/ CreateLate
      BY <1>1, <3>4, CreateStep
    <3>5. CASE PreviewCampaign \/ AnswerCreated \/ SubmitAccepted \/ SubmitFailed
                 \/ AnswerLost
      BY <1>1, <3>5, AnswerStep
    <3>6. CASE StartUpload \/ UploadDone \/ UploadFails
      BY <1>1, <3>6, UploadStep
    <3>7. CASE SignOut \/ SignIn \/ ToggleNumber \/ FileExpires
      BY <1>1, <3>7, AroundStep
    <3> QED
      BY <2>1, <3>1, <3>2, <3>3, <3>4, <3>5, <3>6, <3>7 DEF Next, Server, Answer
  <2>2. CASE UNCHANGED vars
    <3>1. FormTypes' /\ Posts' = Posts
      BY <1>1, <2>2 DEF FormInv, FormTypes, Posts, vars, formVars, sessionVars, serverVars
    <3>2. VersionsTell'
      BY <1>1, <2>2, <3>1, NoNewPost DEF FormInv, vars, formVars
    <3>3. CampaignsApart'
      BY <1>1, <2>2, NoNewCampaign DEF FormInv, vars, serverVars
    <3> QED
      BY <3>1, <3>2, <3>3 DEF FormInv
  <2> QED
    BY <1>1, <2>1, <2>2
<1> QED
  BY <1>1, FormInit, PTL DEF Spec

\* However a form is submitted and repeated, with answers lost, posts that
\* come late and other sessions in between, its contents become one campaign.
THEOREM OneFormOneCampaign == Spec => []OneCampaignPerForm
<1>1. FormInv => OneCampaignPerForm
  BY DEF FormInv, CampaignsApart
<1> QED
  BY <1>1, FormInvariance, PTL

\* Every campaign has the recipients, the text and the picture, if any, of
\* the estimate that was on display when it was submitted.
THEOREM CampaignsAreAsEstimated == Spec => []SentAsEstimated
<1>1. ASSUME FormInv PROVE SentAsEstimated
  <2> SUFFICES ASSUME NEW c \in campaigns PROVE c.seen = PreviewKey(c.form)
    BY DEF SentAsEstimated
  <2> DEFINE d == [key |-> c.key, form |-> c.form, version |-> c.version,
                   seen |-> c.seen]
  <2>1. d \in Posts /\ d.seen = c.seen /\ d.form = c.form
    BY DEF Posts
  <2> HIDE DEF d
  <2> QED
    BY <1>1, <2>1 DEF FormInv, VersionsTell
<1> QED
  BY <1>1, FormInvariance, PTL

(***************************************************************************)
(* The reservation, for any number of recipients, chunks and cancel        *)
(* requests: a canceled one sends nothing that has a row.                  *)
(*                                                                         *)
(* CanceledSendsNothing is not inductive: a cancel request decides by the  *)
(* rows and by answers it got earlier.  The invariant adds that an answer  *)
(* "cancelled" which waits to be applied is still so at the provider, that *)
(* a row that failed for certain was never reserved, and where a dispatch  *)
(* that runs, and whose restart may leave a chunk reserved, has rows.      *)
(***************************************************************************)
\* The chunks that a running dispatch has not reserved have no rows.
DispatchInv ==
  dispatching =>
    /\ recorded < NChunks
    /\ camp.state # "RESERVE_CANCELED"
    /\ \A r \in Recipients : ChunkOf[r] > recorded => rows[r].status = "NONE"

\* No request asks while the dispatch runs, and an answer "cancelled" that
\* waits to be applied is still so.
AskingInv ==
  \A q \in Requests :
    cancel[q].pc = "asking" =>
      /\ ~dispatching
      /\ cancel[q].todo # {}
      /\ cancel[q].answer = "cancelled" =>
           provider[First(cancel[q].todo)] = "cancelled"

\* The provider never had what it explicitly rejected.
FailedInv ==
  \A r \in Recipients :
    rows[r].status = "FAILED" /\ ~UncertainFailure(rows[r]) =>
      provider[ChunkOf[r]] = "none"

CancelInv ==
  /\ TypeOK
  /\ DispatchInv
  /\ AskingInv
  /\ FailedInv
  /\ CanceledRowsAreCancelled
  /\ CanceledSendsNothing

(***************************************************************************)
(* Types.                                                                  *)
(***************************************************************************)
\* The campaign as it is created.
LEMMA CreatedType == CreatedCampaign \in Campaigns
BY ReservationAssumption, PartCount DEF CreatedCampaign, Campaigns, CampaignStates

\* A request that has not begun, and one that has ended.
LEMMA NewRequestType ==
  /\ NewRequest \in CancelRequest /\ EndedRequest \in CancelRequest
  /\ NewRequest.pc = "idle" /\ EndedRequest.pc = "done"
BY CreatedType DEF NewRequest, EndedRequest, CancelRequest

\* The chunk a request asks about is one it has to ask about.
LEMMA FirstIsMember ==
  ASSUME NEW todo \in SUBSET Chunks, todo # {}
  PROVE  First(todo) \in todo
<1> DEFINE Less == {ss \in Nat \X Nat : ss[1] < ss[2]}
<1>1. OpToRel(<, Nat) = Less
  BY DEF OpToRel
<1>2. IsWellFoundedOn(Less, Nat)
  BY <1>1, NatLessThanWellFounded
<1>3. todo \subseteq Nat
  BY ReservationAssumption DEF Chunks
<1>4. PICK c \in todo : \A d \in todo : <<d, c>> \notin Less
  <2> HIDE DEF Less
  <2> QED
    BY <1>2, <1>3, WFMin
<1>5. \A d \in todo : c <= d
  <2> SUFFICES ASSUME NEW d \in todo PROVE c <= d
    OBVIOUS
  <2>1. <<d, c>> \in Nat \X Nat
    BY <1>3
  <2>2. ~(d < c)
    BY <1>4, <2>1
  <2> QED
    BY <2>1, <2>2
<1> QED
  BY <1>5 DEF First

\* What the dispatch writes when it ends is a campaign record.
LEMMA VerdictType ==
  ASSUME TypeOK, NEW lost \in SUBSET Recipients
  PROVE  FinalVerdict(Cardinality(lost)) \in Campaigns
<1> DEFINE total == Cardinality(Recipients)
           n == Cardinality(lost)
<1>1. total \in Nat /\ n \in Nat /\ n <= total
  BY ReservationAssumption, PartCount
<1>2. total - n \in Nat /\ camp.completed + 1 \in Nat
  BY <1>1 DEF TypeOK, Campaigns
<1>3. FinalVerdict(n) \in Campaigns
  <2> HIDE DEF n
  <2> QED
    BY <1>1, <1>2 DEF FinalVerdict, Campaigns, CampaignStates
<1> QED
  BY <1>3

\* So is what a cancel request writes when it ends.
LEMMA ConcludedType ==
  ASSUME TypeOK, NEW held \in Campaigns, NEW any, NEW messages \in [Recipients -> Row]
  PROVE  Concluded(held, any, messages) \in Campaigns
<1> DEFINE fresh == Refreshed(held, camp, messages)
           stopped == Refreshed([held EXCEPT !.state = "RESERVE_CANCELED"], camp, messages)
           again == [fresh EXCEPT !.state = "RESERVED", !.completed = held.completed]
<1>1. camp \in Campaigns
  BY DEF TypeOK
<1>2. [held EXCEPT !.state = "RESERVE_CANCELED"] \in Campaigns
  BY DEF Campaigns, CampaignStates
<1>3. fresh \in Campaigns /\ stopped \in Campaigns
  BY <1>1, <1>2, ReservationAssumption, RefreshedType
<1>4. again \in Campaigns
  <2> HIDE DEF fresh
  <2> QED
    BY <1>3 DEF Campaigns, CampaignStates
<1>5. /\ Flushed(camp, held, stopped) \in Campaigns
      /\ Flushed(camp, held, fresh) \in Campaigns
      /\ Flushed(camp, held, again) \in Campaigns
  BY <1>1, <1>3, <1>4, FlushedType
<1>6. Concluded(held, any, messages) \in
        {Flushed(camp, held, stopped), Flushed(camp, held, fresh),
         Flushed(camp, held, again), camp}
  BY DEF Concluded
<1> QED
  BY <1>1, <1>5, <1>6

\* A cancel request concludes that nothing will be sent only if nothing with
\* a row may be.
LEMMA ConcludedState ==
  ASSUME TypeOK, NEW held \in Campaigns, NEW any, NEW messages \in [Recipients -> Row],
         Concluded(held, any, messages).state = "RESERVE_CANCELED"
  PROVE  \/ camp.state = "RESERVE_CANCELED"
         \/ \A r \in Recorded(messages) : DefinitivelyNotSent(messages[r])
<1> DEFINE canceled == {r \in Recipients : messages[r].status = "CANCELED"}
           live == {r \in Recorded(messages) : ~DefinitivelyNotSent(messages[r])}
           fresh == Refreshed(held, camp, messages)
           again == [fresh EXCEPT !.state = "RESERVED", !.completed = held.completed]
<1> SUFFICES ASSUME camp.state # "RESERVE_CANCELED", live # {} PROVE FALSE
  OBVIOUS
<1>1. camp \in Campaigns
  BY DEF TypeOK
<1>2. Concluded(held, any, messages) \in
        {camp, Flushed(camp, held, fresh), Flushed(camp, held, again)}
  BY DEF Concluded
<1>3. fresh \in Campaigns
  BY <1>1, ReservationAssumption, RefreshedType
<1>4. again.state = "RESERVED"
  <2> HIDE DEF fresh
  <2> QED
    BY <1>3 DEF Campaigns
<1>5. Flushed(camp, held, again).state # "RESERVE_CANCELED"
  <2> HIDE DEF again
  <2> QED
    BY <1>1, <1>4, FlushedState
<1>6. fresh.state = "RESERVE_CANCELED" => held.state = "RESERVE_CANCELED"
  BY RefreshedCancelsNothing
<1>7. Flushed(camp, held, fresh).state # "RESERVE_CANCELED"
  <2> HIDE DEF fresh
  <2> QED
    BY <1>1, <1>6, FlushedState
<1> QED
  BY <1>2, <1>5, <1>7

(***************************************************************************)
(* The invariant, one action at a time.                                    *)
(***************************************************************************)
\* The dispatch reserves the next chunk.
LEMMA ReserveKeeps ==
  ASSUME CancelInv, NEW outcome \in {"accepted", "rejected", "unknown"},
         ReserveChunk(outcome)
  PROVE  CancelInv'
<1> DEFINE c == recorded + 1
           newRows == [r \in Recipients |->
                         IF r \in Chunk(c) THEN ChunkRow(outcome) ELSE rows[r]]
           lost == {r \in Recipients : newRows[r].status = "FAILED"}
<1>1. PICK s \in MayBecome(outcome) :
        /\ dispatching /\ recorded' = c /\ rows' = newRows
        /\ webReq' = (IF outcome = "accepted" THEN webReq \cup {c} ELSE webReq)
        /\ provider' = [provider EXCEPT ![c] = s]
        /\ dispatching' = (c < NChunks)
        /\ camp' = IF c < NChunks THEN camp
                   ELSE Flushed(camp, CreatedCampaign, FinalVerdict(Cardinality(lost)))
        /\ UNCHANGED <<result, cancel, asked, age>>
  BY DEF ReserveChunk, MoreChunks
<1> HIDE DEF lost
<1>2. /\ recorded \in Nat /\ NChunks \in Nat /\ recorded < NChunks /\ c \in Chunks
      /\ \A r \in Recipients : ChunkOf[r] \in Nat
  BY <1>1, ReservationAssumption DEF CancelInv, DispatchInv, TypeOK, Chunks
<1>3. /\ s \in {"reserved", "none"}
      /\ outcome = "rejected" => s = "none"
  BY <1>1 DEF MayBecome
<1>4. /\ ChunkRow(outcome) \in Row
      /\ ChunkRow(outcome).status \in {"PENDING", "FAILED"}
      /\ outcome # "rejected" => ChunkRow(outcome).code = "null"
  BY DEF ChunkRow, Row, Statuses, OpenStatuses, Codes, ResultCodes
<1>5. camp' \in Campaigns /\ camp'.state # "RESERVE_CANCELED"
  <2>1. camp \in Campaigns /\ camp.state # "RESERVE_CANCELED"
    BY <1>1 DEF CancelInv, DispatchInv, TypeOK
  <2>2. lost \in SUBSET Recipients
    BY DEF lost
  <2>3. FinalVerdict(Cardinality(lost)) \in Campaigns
    BY <2>2, VerdictType DEF CancelInv
  <2>4. FinalVerdict(Cardinality(lost)).state # "RESERVE_CANCELED"
    BY DEF FinalVerdict
  <2> HIDE DEF newRows
  <2>5. Flushed(camp, CreatedCampaign, FinalVerdict(Cardinality(lost))) \in Campaigns
    BY <2>1, <2>3, CreatedType, FlushedType
  <2>6. Flushed(camp, CreatedCampaign, FinalVerdict(Cardinality(lost))).state
          # "RESERVE_CANCELED"
    BY <2>1, <2>4, FlushedState
  <2> QED
    BY <1>1, <2>1, <2>5, <2>6
<1>6. TypeOK'
  <2>1. rows' \in [Recipients -> Row]
    BY <1>1, <1>4 DEF CancelInv, TypeOK
  <2>2. recorded' \in 0..NChunks /\ webReq' \in SUBSET Chunks
    BY <1>1, <1>2 DEF CancelInv, TypeOK
  <2>3. provider' \in [Chunks -> ChunkStates]
    BY <1>1, <1>2, <1>3 DEF CancelInv, TypeOK, ChunkStates
  <2> QED
    BY <1>1, <1>5, <2>1, <2>2, <2>3 DEF CancelInv, TypeOK
<1>7. \A r \in Recipients :
        /\ r \in Chunk(c) <=> ChunkOf[r] = c
        /\ ChunkOf[r] # c => rows'[r] = rows[r] /\ provider'[ChunkOf[r]] = provider[ChunkOf[r]]
        /\ ChunkOf[r] = c => rows'[r] = ChunkRow(outcome) /\ provider'[ChunkOf[r]] = s
  <2>1. \A r \in Recipients : ChunkOf[r] \in Chunks
    BY ReservationAssumption DEF Chunks
  <2> QED
    BY <1>1, <1>2, <2>1 DEF Chunk, CancelInv, TypeOK
<1>8. DispatchInv'
  <2>1. dispatching' => recorded' < NChunks
    BY <1>1
  <2>2. ASSUME NEW r \in Recipients, ChunkOf[r] > recorded'
        PROVE  rows'[r].status = "NONE"
    <3>1. ChunkOf[r] # c /\ ChunkOf[r] > recorded
      BY <1>1, <1>2, <2>2
    <3> QED
      BY <1>1, <1>7, <3>1 DEF CancelInv, DispatchInv
  <2> QED
    BY <1>5, <2>1, <2>2 DEF DispatchInv
<1>9. AskingInv'
  BY <1>1 DEF CancelInv, AskingInv
<1>10. FailedInv'
  BY <1>3, <1>4, <1>7 DEF CancelInv, FailedInv, UncertainFailure
<1>11. CanceledRowsAreCancelled'
  BY <1>4, <1>7 DEF CancelInv, CanceledRowsAreCancelled
<1>12. CanceledSendsNothing'
  BY <1>5 DEF CanceledSendsNothing
<1> QED
  BY <1>6, <1>8, <1>9, <1>10, <1>11, <1>12 DEF CancelInv

\* A step of a cancel request that changes no row, or cancels rows of a
\* chunk whose cancel the provider accepted.
LEMMA ProceedKeeps ==
  ASSUME CancelInv, NEW q \in Requests, NEW held \in Campaigns,
         NEW todo \in SUBSET Chunks, NEW any \in BOOLEAN,
         NEW newRows \in [Recipients -> Row],
         Proceed(q, held, todo, any, newRows), ~dispatching,
         \A r \in Recipients :
           \/ newRows[r] = rows[r]
           \/ /\ rows[r].status # "NONE" /\ newRows[r].status = "CANCELED"
              /\ provider[ChunkOf[r]] = "cancelled"
  PROVE  CancelInv'
<1> DEFINE asks == [pc |-> "asking", todo |-> todo, answer |-> "none", any |-> any,
                    held |-> held]
<1>1. /\ rows' = newRows
      /\ cancel' = [cancel EXCEPT ![q] = IF todo = {} THEN EndedRequest ELSE asks]
      /\ camp' = IF todo = {} THEN Concluded(held, any, newRows) ELSE camp
      /\ UNCHANGED <<dispatching, recorded, webReq, provider, result, asked, age>>
  BY DEF Proceed, dispatchVars
<1>2. asks \in CancelRequest
  BY DEF CancelRequest
<1>3. TypeOK'
  <2>1. camp' \in Campaigns
    BY <1>1, ConcludedType DEF CancelInv, TypeOK
  <2>2. cancel' \in [Requests -> CancelRequest]
    <3> HIDE DEF asks
    <3> QED
      BY <1>1, <1>2, NewRequestType DEF CancelInv, TypeOK
  <2> QED
    BY <1>1, <2>1, <2>2 DEF CancelInv, TypeOK
<1>4. DispatchInv'
  BY <1>1 DEF DispatchInv
<1>5. AskingInv'
  <2>1. ASSUME NEW p \in Requests, cancel'[p].pc = "asking", p # q
        PROVE  cancel'[p] = cancel[p]
    BY <1>1, <2>1 DEF CancelInv, TypeOK
  <2>2. cancel'[q] = IF todo = {} THEN EndedRequest ELSE asks
    BY <1>1 DEF CancelInv, TypeOK
  <2>3. cancel'[q].pc = "asking" => todo # {} /\ cancel'[q] = asks
    BY <2>2, NewRequestType
  <2> QED
    BY <1>1, <2>1, <2>3 DEF CancelInv, AskingInv
<1>6. FailedInv'
  BY <1>1 DEF CancelInv, FailedInv
<1>7. CanceledRowsAreCancelled'
  BY <1>1 DEF CancelInv, CanceledRowsAreCancelled
<1>8. CanceledSendsNothing'
  <2> SUFFICES ASSUME camp'.state = "RESERVE_CANCELED", NEW r \in Recorded(newRows)
               PROVE  provider[ChunkOf[r]] \in {"none", "cancelled"}
    BY <1>1 DEF CanceledSendsNothing
  <2>1. r \in Recipients /\ r \in Recorded(rows)
    BY DEF Recorded, CancelInv, TypeOK
  <2>2. CASE camp.state = "RESERVE_CANCELED"
    BY <2>1, <2>2 DEF CancelInv, CanceledSendsNothing
  <2>3. CASE camp.state # "RESERVE_CANCELED"
    <3>1. Concluded(held, any, newRows).state = "RESERVE_CANCELED"
      BY <1>1, <2>3
    <3>2. DefinitivelyNotSent(newRows[r])
      BY <2>3, <3>1, ConcludedState DEF CancelInv
    <3>3. CASE newRows[r].status = "CANCELED"
      BY <1>1, <1>7, <2>1, <3>3 DEF CanceledRowsAreCancelled
    <3>4. CASE newRows[r].status = "FAILED" /\ ~UncertainFailure(newRows[r])
      <4>1. provider'[ChunkOf[r]] = "none"
        BY <1>1, <1>6, <2>1, <3>4 DEF FailedInv, UncertainFailure
      <4> QED
        BY <1>1, <4>1
    <3> QED
      BY <3>2, <3>3, <3>4 DEF DefinitivelyNotSent
  <2> QED
    BY <2>2, <2>3
<1> QED
  BY <1>3, <1>4, <1>5, <1>6, <1>7, <1>8 DEF CancelInv

\* The steps of a request that starts, or that applies an answer.
LEMMA RequestKeeps ==
  ASSUME CancelInv, NEW q \in Requests,
         CancelCampaign(q) \/ ChunkCancelled(q) \/ ChunkRefused(q) \/ CancelFails(q)
  PROVE  CancelInv'
<1> DEFINE c == First(cancel[q].todo)
<1>1. /\ cancel[q] \in CancelRequest /\ camp \in Campaigns
      /\ rows \in [Recipients -> Row] /\ webReq \in SUBSET Chunks
  BY DEF CancelInv, TypeOK
<1>2. /\ cancel[q].todo \in SUBSET Chunks /\ cancel[q].any \in BOOLEAN
      /\ cancel[q].held \in Campaigns
  BY <1>1 DEF CancelRequest
<1>3. CASE CancelCampaign(q)
  <2>1. Proceed(q, camp, Targets, FALSE, rows) /\ ~dispatching
    BY <1>3 DEF CancelCampaign, IsDispatching
  <2>2. Targets \in SUBSET Chunks
    BY <1>1 DEF Targets
  <2> QED
    BY <1>1, <2>1, <2>2, ProceedKeeps
<1>4. CASE ChunkCancelled(q)
  <2>1. /\ cancel[q].pc = "asking" /\ cancel[q].answer = "cancelled"
        /\ Proceed(q, cancel[q].held, cancel[q].todo \ {c}, TRUE, CanceledRows(c))
    BY <1>4 DEF ChunkCancelled
  <2>2. ~dispatching /\ provider[c] = "cancelled"
    BY <2>1 DEF CancelInv, AskingInv
  <2> HIDE DEF c
  <2>3. ASSUME NEW r \in Recipients
        PROVE  /\ CanceledRows(c)[r] \in Row
               /\ \/ CanceledRows(c)[r] = rows[r]
                  \/ /\ rows[r].status # "NONE" /\ CanceledRows(c)[r].status = "CANCELED"
                     /\ ChunkOf[r] = c
    <3>1. CASE r \in Chunk(c) /\ rows[r].status = "PENDING"
      <4>1. CanceledRows(c)[r] = [rows[r] EXCEPT !.status = "CANCELED"]
        BY <3>1 DEF CanceledRows
      <4>2. rows[r] \in Row /\ ChunkOf[r] = c
        BY <1>1, <3>1 DEF Chunk
      <4> QED
        BY <3>1, <4>1, <4>2 DEF Row, Statuses
    <3>2. CASE ~(r \in Chunk(c) /\ rows[r].status = "PENDING")
      <4>1. CanceledRows(c)[r] = rows[r]
        BY <3>2 DEF CanceledRows
      <4> QED
        BY <1>1, <4>1
    <3> QED
      BY <3>1, <3>2
  <2>4. CanceledRows(c) \in [Recipients -> Row]
    <3>1. CanceledRows(c) = [r \in Recipients |-> CanceledRows(c)[r]]
      BY DEF CanceledRows
    <3> QED
      BY <2>3, <3>1
  <2>5. cancel[q].todo \ {c} \in SUBSET Chunks
    BY <1>2
  <2> QED
    BY <1>2, <2>1, <2>2, <2>3, <2>4, <2>5, ProceedKeeps
<1>5. CASE ChunkRefused(q)
  <2>1. /\ cancel[q].pc = "asking"
        /\ Proceed(q, cancel[q].held, cancel[q].todo \ {c}, cancel[q].any, rows)
    BY <1>5 DEF ChunkRefused
  <2>2. ~dispatching /\ cancel[q].todo \ {c} \in SUBSET Chunks
    BY <1>2, <2>1 DEF CancelInv, AskingInv
  <2> QED
    BY <1>1, <1>2, <2>1, <2>2, ProceedKeeps
<1>6. CASE CancelFails(q)
  <2>1. cancel[q].pc = "asking" /\ Proceed(q, cancel[q].held, {}, cancel[q].any, rows)
    BY <1>6 DEF CancelFails
  <2>2. ~dispatching
    BY <2>1 DEF CancelInv, AskingInv
  <2> QED
    BY <1>1, <1>2, <2>1, <2>2, ProceedKeeps
<1> QED
  BY <1>3, <1>4, <1>5, <1>6

\* The provider cancels or sends a chunk that it holds reserved.
LEMMA ReservedEnds ==
  ASSUME CancelInv, NEW c \in Chunks, NEW s \in {"cancelled", "sent"},
         provider[c] = "reserved", provider' = [provider EXCEPT ![c] = s],
         UNCHANGED <<dispatching, recorded, webReq, result, rows, camp, asked, age>>,
         cancel' \in [Requests -> CancelRequest],
         \A q \in Requests :
           \/ cancel'[q] = cancel[q]
           \/ /\ cancel[q].pc = "asking" /\ cancel'[q].todo = cancel[q].todo
              /\ First(cancel[q].todo) = c /\ s = "cancelled"
  PROVE  CancelInv'
<1>1. TypeOK'
  BY DEF CancelInv, TypeOK, ChunkStates
<1>2. \A d \in Chunks :
        provider[d] \in {"none", "cancelled"} => provider'[d] = provider[d]
  BY DEF CancelInv, TypeOK
<1>3. \A r \in Recipients : ChunkOf[r] \in Chunks
  BY ReservationAssumption DEF Chunks
<1>4. AskingInv'
  <2> SUFFICES ASSUME NEW q \in Requests, cancel'[q].pc = "asking"
               PROVE  /\ ~dispatching /\ cancel'[q].todo # {}
                      /\ cancel'[q].answer = "cancelled" =>
                           provider'[First(cancel'[q].todo)] = "cancelled"
    BY DEF AskingInv
  <2>1. CASE cancel'[q] = cancel[q]
    <3>1. First(cancel[q].todo) \in Chunks
      BY <2>1, FirstIsMember DEF CancelInv, AskingInv, TypeOK, CancelRequest
    <3> QED
      BY <1>2, <2>1, <3>1 DEF CancelInv, AskingInv
  <2>2. CASE /\ cancel[q].pc = "asking" /\ cancel'[q].todo = cancel[q].todo
             /\ First(cancel[q].todo) = c /\ s = "cancelled"
    <3>1. provider'[c] = "cancelled"
      BY <2>2 DEF CancelInv, TypeOK
    <3> QED
      BY <2>2, <3>1 DEF CancelInv, AskingInv
  <2> QED
    BY <2>1, <2>2
<1>5. FailedInv' /\ CanceledRowsAreCancelled'
  BY <1>2, <1>3 DEF CancelInv, FailedInv, CanceledRowsAreCancelled
<1>6. CanceledSendsNothing'
  BY <1>2, <1>3 DEF CancelInv, CanceledSendsNothing, Recorded, TypeOK
<1>7. DispatchInv'
  BY DEF CancelInv, DispatchInv
<1> QED
  BY <1>1, <1>4, <1>5, <1>6, <1>7 DEF CancelInv

\* The provider handles a cancel request, and the answer comes or is lost.
LEMMA ProviderAnswersKeeps ==
  ASSUME CancelInv, NEW q \in Requests, ProviderCancels(q) \/ ProviderRefuses(q)
  PROVE  CancelInv'
<1> DEFINE c == First(cancel[q].todo)
<1>1. PICK answer \in {"cancelled", "rejected", "error"} :
        cancel' = [cancel EXCEPT ![q].answer = answer]
        /\ (ProviderRefuses(q) => answer # "cancelled")
  BY DEF ProviderCancels, ProviderRefuses
<1>2. cancel' \in [Requests -> CancelRequest]
  BY <1>1 DEF CancelInv, TypeOK, CancelRequest
<1>3. /\ cancel[q].pc = "asking"
      /\ \A p \in Requests :
           /\ p # q => cancel'[p] = cancel[p]
           /\ cancel'[p].pc = cancel[p].pc /\ cancel'[p].todo = cancel[p].todo
      /\ cancel'[q].answer = answer
  BY <1>1 DEF ProviderCancels, ProviderRefuses, CancelInv, TypeOK, CancelRequest
<1>4. c \in Chunks
  BY <1>3, FirstIsMember DEF CancelInv, AskingInv, TypeOK, CancelRequest
<1>5. CASE ProviderCancels(q)
  <2>1. /\ provider[c] = "reserved" /\ provider' = [provider EXCEPT ![c] = "cancelled"]
        /\ UNCHANGED <<dispatching, recorded, webReq, result, rows, camp, asked, age>>
    BY <1>5 DEF ProviderCancels, dispatchVars
  <2>2. \A p \in Requests :
           \/ cancel'[p] = cancel[p]
           \/ /\ cancel[p].pc = "asking" /\ cancel'[p].todo = cancel[p].todo
              /\ First(cancel[p].todo) = c
    BY <1>3
  <2> HIDE DEF c
  <2> QED
    BY <1>2, <1>4, <2>1, <2>2, ReservedEnds
<1>6. CASE ProviderRefuses(q)
  <2>1. /\ answer # "cancelled"
        /\ UNCHANGED <<dispatching, recorded, webReq, provider, result, rows, camp, asked, age>>
    BY <1>1, <1>6 DEF ProviderRefuses, dispatchVars
  <2>2. TypeOK'
    BY <1>2, <2>1 DEF CancelInv, TypeOK
  <2>3. AskingInv'
    BY <1>3, <2>1 DEF CancelInv, AskingInv
  <2>4. /\ DispatchInv' /\ FailedInv' /\ CanceledRowsAreCancelled'
        /\ CanceledSendsNothing'
    BY <2>1 DEF CancelInv, DispatchInv, FailedInv, CanceledRowsAreCancelled,
                CanceledSendsNothing
  <2> QED
    BY <2>2, <2>3, <2>4 DEF CancelInv
<1> QED
  BY <1>5, <1>6

\* Reports and answers to queries make no row and cancel none.
LEMMA RowsKeep ==
  ASSUME CancelInv, TypeOK',
         UNCHANGED <<dispatching, recorded, provider, cancel>>,
         \A r \in Recipients : RowKept(rows[r], rows'[r]),
         camp'.state = "RESERVE_CANCELED" => camp.state = "RESERVE_CANCELED"
  PROVE  CancelInv'
<1>1. DispatchInv' /\ AskingInv' /\ CanceledRowsAreCancelled'
  BY DEF CancelInv, DispatchInv, AskingInv, CanceledRowsAreCancelled, RowKept
<1>2. FailedInv'
  <2> SUFFICES ASSUME NEW r \in Recipients, rows'[r].status = "FAILED",
                      ~UncertainFailure(rows'[r])
               PROVE  provider[ChunkOf[r]] = "none"
    BY DEF FailedInv, UncertainFailure
  <2>1. rows'[r] = rows[r]
    BY DEF RowKept, UncertainFailure
  <2> QED
    BY <2>1 DEF CancelInv, FailedInv, UncertainFailure
<1>3. CanceledSendsNothing'
  <2>1. Recorded(rows') = Recorded(rows)
    BY DEF Recorded, CancelInv, TypeOK, RowKept
  <2> QED
    BY <2>1 DEF CancelInv, CanceledSendsNothing
<1> QED
  BY <1>1, <1>2, <1>3 DEF CancelInv

\* receive_report, on rows that may be canceled by then.
LEMMA ReportKeeps ==
  ASSUME CancelInv, NEW batch \in SUBSET Recipients, ReceiveReport(batch)
  PROVE  CancelInv'
<1> DEFINE newRows == [r \in Recipients |->
                         IF r \in batch THEN AfterReport(rows[r], FALSE, result[r])
                         ELSE rows[r]]
<1>1. /\ \A r \in batch : result[r] # "none"
      /\ rows' = newRows
      /\ camp' = IF newRows = rows THEN camp ELSE Refreshed(camp, camp, newRows)
      /\ UNCHANGED <<dispatching, recorded, webReq, provider, result, cancel, asked, age>>
  BY DEF ReceiveReport, dispatchVars
<1>2. \A r \in batch : result[r] \in ResultCodes
  BY <1>1 DEF CancelInv, TypeOK, Results, ResultCodes
<1>3. \A r \in Recipients : rows[r] \in Row
  BY DEF CancelInv, TypeOK
<1>4. \A r \in Recipients : newRows[r] \in Row /\ RowKept(rows[r], newRows[r])
  <2> TAKE r \in Recipients
  <2>1. CASE r \in batch
    <3>1. newRows[r] = AfterReport(rows[r], FALSE, result[r])
      BY <2>1
    <3> HIDE DEF newRows
    <3> QED
      BY <1>2, <1>3, <2>1, <3>1, AfterReportRow, AfterReportKeeps
  <2>2. CASE r \notin batch
    <3>1. newRows[r] = rows[r]
      BY <2>2
    <3> HIDE DEF newRows
    <3> QED
      BY <1>3, <3>1 DEF RowKept
  <2> QED
    BY <2>1, <2>2
<1>5. newRows \in [Recipients -> Row]
  BY <1>4
<1> HIDE DEF newRows
<1>6. camp \in Campaigns /\ Refreshed(camp, camp, newRows) \in Campaigns
  BY <1>5, RefreshedType, ReservationAssumption DEF CancelInv, TypeOK
<1>7. TypeOK'
  BY <1>1, <1>5, <1>6 DEF CancelInv, TypeOK
<1>8. camp'.state = "RESERVE_CANCELED" => camp.state = "RESERVE_CANCELED"
  BY <1>1, RefreshedCancelsNothing
<1> QED
  BY <1>1, <1>4, <1>7, <1>8, RowsKeep

\* A query changes nothing until its answers are applied.
LEMMA QueryKeeps ==
  ASSUME CancelInv, NEW batch \in SUBSET Recipients, QuerySent(batch)
  PROVE  CancelInv'
<1>1. /\ asked' \in [batch -> Results \cup {"reg", "noresult"}]
      /\ UNCHANGED <<dispatching, recorded, webReq, provider, result, rows, camp, cancel, age>>
  BY DEF QuerySent, dispatchVars
<1>2. TypeOK'
  BY <1>1 DEF CancelInv, TypeOK
<1>3. \A r \in Recipients : RowKept(rows[r], rows'[r])
  BY <1>1 DEF RowKept
<1> QED
  BY <1>1, <1>2, <1>3, RowsKeep

\* process_sent_query applies what may be old by then.
LEMMA AnswersKeep ==
  ASSUME CancelInv, ApplyAnswers
  PROVE  CancelInv'
<1> DEFINE newRows == [r \in Recipients |->
                         IF r \in DOMAIN asked THEN AfterAnswer(rows[r], FALSE, asked[r])
                         ELSE rows[r]]
           fresh == Refreshed(camp, camp, newRows)
<1>1. /\ rows' = newRows /\ camp' = AfterAnswers(camp, rows, newRows)
      /\ asked' = NoAnswers
      /\ UNCHANGED <<dispatching, recorded, webReq, provider, result, cancel, age>>
  BY DEF ApplyAnswers, dispatchVars
<1>2. \A r \in DOMAIN asked : asked[r] \in ResultCodes \cup {"reg", "noresult"}
  BY DEF CancelInv, TypeOK, Results, ResultCodes
<1>3. \A r \in Recipients : rows[r] \in Row
  BY DEF CancelInv, TypeOK
<1>4. \A r \in Recipients : newRows[r] \in Row /\ RowKept(rows[r], newRows[r])
  <2> TAKE r \in Recipients
  <2>1. CASE r \in DOMAIN asked
    <3>1. newRows[r] = AfterAnswer(rows[r], FALSE, asked[r])
      BY <2>1
    <3> HIDE DEF newRows
    <3> QED
      BY <1>2, <1>3, <2>1, <3>1, AfterAnswerRow, AfterAnswerKeeps
  <2>2. CASE r \notin DOMAIN asked
    <3>1. newRows[r] = rows[r]
      BY <2>2
    <3> HIDE DEF newRows
    <3> QED
      BY <1>3, <3>1 DEF RowKept
  <2> QED
    BY <2>1, <2>2
<1>5. newRows \in [Recipients -> Row]
  BY <1>4
<1> HIDE DEF newRows
<1>6. camp \in Campaigns /\ fresh \in Campaigns
  BY <1>5, RefreshedType, ReservationAssumption DEF CancelInv, TypeOK
<1>7. camp' \in {camp, fresh, [fresh EXCEPT !.state = "DISPATCHING"]}
  BY <1>1 DEF AfterAnswers
<1>8. /\ [fresh EXCEPT !.state = "DISPATCHING"] \in Campaigns
      /\ [fresh EXCEPT !.state = "DISPATCHING"].state = "DISPATCHING"
  <2> HIDE DEF fresh
  <2> QED
    BY <1>6 DEF Campaigns, CampaignStates
<1>9. asked' \in [{} -> Results \cup {"reg", "noresult"}]
  BY <1>1 DEF NoAnswers
<1>10. TypeOK'
  <2> HIDE DEF fresh
  <2> QED
    BY <1>1, <1>5, <1>6, <1>7, <1>8, <1>9 DEF CancelInv, TypeOK
<1>11. camp'.state = "RESERVE_CANCELED" => camp.state = "RESERVE_CANCELED"
  <2>1. fresh.state = "RESERVE_CANCELED" => camp.state = "RESERVE_CANCELED"
    BY RefreshedCancelsNothing
  <2> HIDE DEF fresh
  <2> QED
    BY <1>7, <1>8, <2>1
<1> QED
  BY <1>1, <1>4, <1>10, <1>11, RowsKeep

\* A restart may leave the next chunk of a dispatch reserved; it has no rows.
LEMMA RestartKeeps ==
  ASSUME CancelInv, CancelRestart
  PROVE  CancelInv'
<1> DEFINE c == recorded + 1
<1>1. /\ dispatching' = FALSE /\ asked' = NoAnswers
      /\ cancel' = [q \in Requests |->
           IF cancel[q].pc = "asking" THEN EndedRequest ELSE cancel[q]]
      /\ UNCHANGED <<recorded, webReq, result, rows, camp, age>>
  BY DEF CancelRestart
<1>2. \/ provider' = provider
      \/ /\ dispatching
         /\ \E s \in {"reserved", "none"} : provider' = [provider EXCEPT ![c] = s]
  BY DEF CancelRestart, MayBecome
<1>3. TypeOK'
  <2>1. provider' \in [Chunks -> ChunkStates]
    BY <1>2 DEF CancelInv, TypeOK, ChunkStates
  <2>2. cancel' \in [Requests -> CancelRequest]
    BY <1>1, NewRequestType DEF CancelInv, TypeOK
  <2>3. asked' \in [{} -> Results \cup {"reg", "noresult"}]
    BY <1>1 DEF NoAnswers
  <2> QED
    BY <1>1, <2>1, <2>2, <2>3 DEF CancelInv, TypeOK
<1>4. \A r \in Recipients :
        \/ provider'[ChunkOf[r]] = provider[ChunkOf[r]]
        \/ dispatching /\ rows[r].status = "NONE"
  <2> TAKE r \in Recipients
  <2>1. recorded \in Nat /\ ChunkOf[r] \in Chunks
    BY ReservationAssumption DEF CancelInv, TypeOK, Chunks
  <2>2. CASE provider' = provider \/ ChunkOf[r] # c
    BY <1>2, <2>1, <2>2 DEF CancelInv, TypeOK
  <2>3. CASE provider' # provider /\ ChunkOf[r] = c
    <3>1. dispatching
      BY <1>2, <2>3
    <3> QED
      BY <2>1, <2>3, <3>1 DEF CancelInv, DispatchInv
  <2> QED
    BY <2>2, <2>3
<1>5. DispatchInv'
  BY <1>1 DEF DispatchInv
<1>6. AskingInv'
  BY <1>1, NewRequestType DEF AskingInv
<1>7. FailedInv' /\ CanceledRowsAreCancelled'
  BY <1>1, <1>4 DEF CancelInv, FailedInv, UncertainFailure, CanceledRowsAreCancelled
<1>8. CanceledSendsNothing'
  BY <1>1, <1>4 DEF CancelInv, DispatchInv, CanceledSendsNothing, Recorded, TypeOK
<1> QED
  BY <1>3, <1>5, <1>6, <1>7, <1>8 DEF CancelInv

(***************************************************************************)
(* The theorems.                                                           *)
(***************************************************************************)
\* No rows, and nothing reserved.
LEMMA CancelInitHolds == CancelInit => CancelInv
<1> SUFFICES ASSUME CancelInit PROVE CancelInv
  OBVIOUS
<1>1. TypeOK
  <2>1. rows \in [Recipients -> Row]
    BY DEF CancelInit, NoRow, Row, Statuses, Codes
  <2>2. recorded \in 0..NChunks /\ age \in 0..Old
    BY ReservationAssumption DEF CancelInit, Old
  <2>3. asked \in [{} -> Results \cup {"reg", "noresult"}]
    BY DEF CancelInit, NoAnswers
  <2>4. cancel \in [Requests -> CancelRequest] /\ camp \in Campaigns
    BY CreatedType, NewRequestType DEF CancelInit
  <2> QED
    BY <2>1, <2>2, <2>3, <2>4 DEF CancelInit, TypeOK, ChunkStates
<1>2. /\ \A r \in Recipients : rows[r].status = "NONE"
      /\ \A q \in Requests : cancel[q].pc = "idle"
      /\ camp.state = "RESERVED" /\ recorded < NChunks
  BY ReservationAssumption, NewRequestType DEF CancelInit, NoRow, CreatedCampaign
<1> QED
  BY <1>1, <1>2 DEF CancelInv, DispatchInv, AskingInv, FailedInv,
                    CanceledRowsAreCancelled, CanceledSendsNothing

\* One step for each action of CancelNext.
LEMMA CancelNextKeeps == CancelInv /\ [CancelNext]_cancelVars => CancelInv'
<1> SUFFICES ASSUME CancelInv, [CancelNext]_cancelVars PROVE CancelInv'
  OBVIOUS
<1>1. ASSUME NEW outcome \in {"accepted", "rejected", "unknown"}, ReserveChunk(outcome)
      PROVE  CancelInv'
  BY <1>1, ReserveKeeps
<1>2. ASSUME NEW q \in Requests,
             CancelCampaign(q) \/ ChunkCancelled(q) \/ ChunkRefused(q) \/ CancelFails(q)
      PROVE  CancelInv'
  BY <1>2, RequestKeeps
<1>3. ASSUME NEW q \in Requests, ProviderCancels(q) \/ ProviderRefuses(q)
      PROVE  CancelInv'
  BY <1>3, ProviderAnswersKeeps
<1>4. ASSUME NEW c \in Chunks, ProviderSends(c) PROVE CancelInv'
  <2>1. /\ provider[c] = "reserved" /\ provider' = [provider EXCEPT ![c] = "sent"]
        /\ UNCHANGED <<dispatching, recorded, webReq, result, rows, camp, cancel, asked, age>>
    BY <1>4 DEF ProviderSends, dispatchVars
  <2>2. cancel' \in [Requests -> CancelRequest]
    BY <2>1 DEF CancelInv, TypeOK
  <2> QED
    BY <2>1, <2>2, ReservedEnds
<1>5. ASSUME NEW r \in Recipients, ProviderResolves(r) PROVE CancelInv'
  <2>1. /\ \E s \in Results : result' = [result EXCEPT ![r] = s]
        /\ UNCHANGED <<dispatching, recorded, webReq, provider, rows, camp, cancel, asked, age>>
    BY <1>5 DEF ProviderResolves, dispatchVars
  <2>2. TypeOK'
    BY <2>1 DEF CancelInv, TypeOK
  <2>3. \A p \in Recipients : RowKept(rows[p], rows'[p])
    BY <2>1 DEF RowKept
  <2> QED
    BY <2>1, <2>2, <2>3, RowsKeep
<1>6. ASSUME NEW batch \in SUBSET Recipients, ReceiveReport(batch) \/ QuerySent(batch)
      PROVE  CancelInv'
  BY <1>6, ReportKeeps, QueryKeeps
<1>7. CASE ApplyAnswers
  BY <1>7, AnswersKeep
<1>8. CASE TimePasses
  <2>1. /\ age < Old /\ age' = age + 1
        /\ UNCHANGED <<dispatching, recorded, webReq, provider, result, rows, camp, cancel, asked>>
    BY <1>8 DEF TimePasses, dispatchVars
  <2>2. TypeOK'
    BY <2>1 DEF CancelInv, TypeOK, Old
  <2>3. \A p \in Recipients : RowKept(rows[p], rows'[p])
    BY <2>1 DEF RowKept
  <2> QED
    BY <2>1, <2>2, <2>3, RowsKeep
<1>9. CASE CancelRestart
  BY <1>9, RestartKeeps
<1>10. CASE UNCHANGED cancelVars
  <2>1. UNCHANGED <<dispatching, recorded, webReq, provider, result, rows, camp, cancel, asked, age>>
    BY <1>10 DEF cancelVars
  <2>2. TypeOK'
    BY <2>1 DEF CancelInv, TypeOK
  <2>3. \A p \in Recipients : RowKept(rows[p], rows'[p])
    BY <2>1 DEF RowKept
  <2> QED
    BY <2>1, <2>2, <2>3, RowsKeep
<1> QED
  BY <1>1, <1>2, <1>3, <1>4, <1>5, <1>6, <1>7, <1>8, <1>9, <1>10 DEF CancelNext

\* The cancel of a reservation, its dispatch, reports, queries and restarts
\* keep the invariant, whatever the number of chunks and requests.
THEOREM CancelInvariance == CancelSpec => []CancelInv
  BY CancelInitHolds, CancelNextKeeps, PTL DEF CancelSpec

\* The variables of a reservation and of its cancel requests keep their types.
THEOREM ReservationTypeCorrect == CancelSpec => []TypeOK
<1>1. CancelInv => TypeOK
  BY DEF CancelInv
<1> QED
  BY CancelInvariance, <1>1, PTL

\* _cancel_reservation_chunks: whatever interleaves with its awaits, a
\* campaign shown as RESERVE_CANCELED has no row that the provider sent or
\* will send.
THEOREM CanceledReservationSendsNothing == CancelSpec => []CanceledSendsNothing
<1>1. CancelInv => CanceledSendsNothing
  BY DEF CancelInv
<1> QED
  BY CancelInvariance, <1>1, PTL

\* _cancel_reservation_chunks: a row shown as canceled belongs to a chunk
\* that the provider cancelled.
THEOREM CanceledIsCancelled == CancelSpec => []CanceledRowsAreCancelled
<1>1. CancelInv => CanceledRowsAreCancelled
  BY DEF CancelInv
<1> QED
  BY CancelInvariance, <1>1, PTL
=============================================================================
