--------------------------- MODULE RecordingCache ---------------------------
(***************************************************************************)
(* The playing of call recordings: play_recording of app/routes/pbx.py     *)
(* with its _RecordingCache, and the tokens of app/services/calls.py by    *)
(* which a page of the call list names the recordings.                     *)
(*                                                                         *)
(* The PBX sends a recording as a whole, so the server keeps the last few  *)
(* for the range requests of the players.  The PBX is asked while other    *)
(* players go on, and it may delete a recording at any time; a transfer    *)
(* that has begun then still ends.  The audit row of a playback and the    *)
(* cutting of a range are left out.                                        *)
(***************************************************************************)
EXTENDS Naturals, Sequences, SequencesExt

CONSTANTS
  Listeners,    \* users with a role of SEND_ROLES
  Paths,        \* recordings, by path
  BytesOf,      \* length of each
  MaxItems,     \* max_items of the cache
  MaxBytes,     \* max_bytes
  CacheTtl,     \* ttl_sec
  TokenTtl,     \* RECORDING_TOKEN_TTL_SECONDS
  MaxTransfer,  \* bound: how long the PBX takes to send a recording
  LastTick      \* bound: the end of the model's time

NoPath == "none"

ASSUME RecordingAssumption ==
  /\ BytesOf \in [Paths -> Nat \ {0}]
  /\ MaxItems \in Nat \ {0}
  /\ NoPath \notin Paths
  /\ {MaxBytes, CacheTtl, TokenTtl, MaxTransfer, LastTick} \subseteq Nat

VARIABLES
  tick,    \* time.monotonic()
  gone,    \* when the PBX deleted each recording, or Never
  listed,  \* when each listener's page, and its tokens, were made, or Never
  cache,   \* _items: path and stored_at, in the order of the dict
  player,  \* what each listener's play_recording awaits, and since when
  heard    \* the last audio that went out: path and time

recVars == <<tick, gone, listed, cache, player, heard>>

Never == LastTick + 1
Silent == [path |-> NoPath, since |-> 0]

RecInit ==
  /\ tick = 0
  /\ gone = [p \in Paths |-> Never]
  /\ listed = [u \in Listeners |-> Never]
  /\ cache = <<>>
  /\ player = [u \in Listeners |-> Silent]
  /\ heard = [path |-> NoPath, at |-> 0]

\* read_recording_token, for the user the token was made for.
TokenIsGood(u) == listed[u] # Never /\ tick <= listed[u] + TokenTtl

\* make_recording_token for the rows of a page; the page is loaded again when
\* a link of it is refused.
ListCalls(u) ==
  /\ ~ TokenIsGood(u)
  /\ listed' = [listed EXCEPT ![u] = tick]
  /\ UNCHANGED <<tick, gone, cache, player, heard>>

Has(c, p) == \E i \in DOMAIN c : c[i].path = p
PlaceOf(c, p) == CHOOSE i \in DOMAIN c : c[i].path = p
Without(c, p) == IF Has(c, p) THEN RemoveAt(c, PlaceOf(c, p)) ELSE c

\* Mutant: a hit is stored anew.
HitRefreshed(c, p) ==
  IF ~ Has(c, p) THEN c
  ELSE IF tick > c[PlaceOf(c, p)].at + CacheTtl THEN Without(c, p)
  ELSE Append(Without(c, p), [path |-> p, at |-> tick])

\* get: an old item is deleted, a good one moves to the end.
AfterGet(c, p) ==
  IF ~ Has(c, p) THEN c
  ELSE LET hit == c[PlaceOf(c, p)]
       IN IF tick > hit.at + CacheTtl THEN Without(c, p) ELSE Append(Without(c, p), hit)

PathsIn(c) == {c[i].path : i \in DOMAIN c}
BytesIn(c) == MapThenSumSet(LAMBDA p : BytesOf[p], PathsIn(c))
Fits(c) == Len(c) <= MaxItems /\ (Len(c) <= 1 \/ BytesIn(c) <= MaxBytes)

\* put: the new item goes to the end, and the first ones are dropped until
\* the rest fits.
AfterPut(c, p) ==
  LET all == Append(Without(c, p), [path |-> p, at |-> tick])
      drop == CHOOSE k \in 0..Len(all) - 1 :
                /\ Fits(SubSeq(all, k + 1, Len(all)))
                /\ \A j \in 0..k - 1 : ~ Fits(SubSeq(all, j + 1, Len(all)))
  IN SubSeq(all, drop + 1, Len(all))

\* A player asks: an expired link is refused, a cached recording goes out at
\* once, and for any other the PBX is asked, which may not have it (404).
PlayRecording(u, p) ==
  /\ player[u] = Silent
  /\ TokenIsGood(u)
  /\ cache' = AfterGet(cache, p)
  /\ IF Has(cache', p)
     THEN heard' = [path |-> p, at |-> tick] /\ UNCHANGED player
     ELSE /\ UNCHANGED heard
          /\ player' = IF gone[p] = Never
                       THEN [player EXCEPT ![u] = [path |-> p, since |-> tick]]
                       ELSE player
  /\ UNCHANGED <<tick, gone, listed>>

\* fetch_recording returns.
RecordingArrives(u) ==
  /\ player[u] # Silent
  /\ cache' = AfterPut(cache, player[u].path)
  /\ heard' = [path |-> player[u].path, at |-> tick]
  /\ player' = [player EXCEPT ![u] = Silent]
  /\ UNCHANGED <<tick, gone, listed>>

\* PbxError: no answer, an error, or more than MAX_RECORDING_BYTES.
RecordingFails(u) ==
  /\ player[u] # Silent
  /\ player' = [player EXCEPT ![u] = Silent]
  /\ UNCHANGED <<tick, gone, listed, cache, heard>>

\* The PBX deletes a recording.
PbxDeletes(p) ==
  /\ gone[p] = Never
  /\ gone' = [gone EXCEPT ![p] = tick]
  /\ UNCHANGED <<tick, listed, cache, player, heard>>

RecordingAges ==
  /\ tick < LastTick
  /\ \A u \in Listeners :
       player[u] # Silent => tick < player[u].since + MaxTransfer
  /\ tick' = tick + 1
  /\ UNCHANGED <<gone, listed, cache, player, heard>>

RecordingRestart ==
  /\ cache # <<>>
  /\ cache' = <<>>
  /\ player' = [u \in Listeners |-> Silent]
  /\ UNCHANGED <<tick, gone, listed, heard>>

RecNext ==
  \/ \E u \in Listeners :
       \/ ListCalls(u) \/ RecordingArrives(u) \/ RecordingFails(u)
       \/ \E p \in Paths : PlayRecording(u, p)
  \/ \E p \in Paths : PbxDeletes(p)
  \/ RecordingAges \/ RecordingRestart

RecSpec == RecInit /\ [][RecNext]_recVars
-----------------------------------------------------------------------------
\* A recording that the PBX has deleted is not played for longer than the
\* cache keeps one, however often it is played and whoever else fetches it
\* meanwhile (stored_at in get and put); and the cache keeps no more than it
\* may, though several fetches end after one another.
DeletedRecordingsAgeOut ==
  /\ Fits(cache)
  /\ heard.path \in Paths =>
       heard.at <= gone[heard.path] + MaxTransfer + CacheTtl
=============================================================================
