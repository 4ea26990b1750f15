----------------------------- MODULE Analytics -----------------------------
(***************************************************************************)
(* What the supervisor publishes about people: the tracker it runs at      *)
(* 10 Hz (tracking/byte_tracker_lite.cpp, tracking/tracker.cpp), the latch *)
(* that carries the tracker's one-shot enter and exit flags to the 1 Hz    *)
(* publish, the emission cache and the gaze accumulator                    *)
(* (orchestrator.cpp, supervisor_loop).                                    *)
(*                                                                         *)
(* One turn of the loop is Recover (at most), Track, Publish; all of it is *)
(* the supervisor's thread, so nothing interleaves with it.  Which tracks  *)
(* a detection matches, how many detections match none, on which side of   *)
(* the region of interest a box lies and which face looks at the camera    *)
(* are choices: IoU, Kalman filter and landmarks are data.  The flags      *)
(* just_entered and just_exited are a set of events.  There is a publisher *)
(* to send to: without one the loop never publishes.                       *)
(***************************************************************************)
EXTENDS Integers

CONSTANTS MaxIds,        \* bound on the tracks ever started
          NInit,         \* byte_n_init, and confirm_hits, which is equal
          MaxAge,        \* byte_max_age: updates without a match
          PublishGrace,  \* publish_grace_missed
          PublishEvery,  \* loop turns in publish_interval_ns
          Hold,          \* loop turns in HOLD_TTL_S
          MaxGaze        \* bound on the gaze count of a track

ASSUME CountAssumption ==
  /\ {MaxIds, NInit, PublishEvery} \subseteq Nat \ {0}
  /\ {MaxAge, PublishGrace, Hold, MaxGaze} \subseteq Nat
ASSUME GraceAssumption == PublishGrace <= MaxAge
ASSUME HoldAssumption == Hold < PublishEvery

Ids    == 1 .. MaxIds
Events == {"enter", "exit"}
Empty  == [id \in {} |-> {}]

VARIABLES step,      \* the part of the loop the supervisor is at
          byte,      \* byte_tracker_.tracks_: hits (up to NInit), missed
          nextId,    \* byte_tracker_.next_id_
          tracks,    \* Tracker::tracks_: confirmed, was_inside, and enter_sent
                     \*   and exit_sent
          latest,    \* latest_tracks_: the events each track carries, until the
                     \*   turn ends (the next one overwrites it unread)
          latch,     \* enter_exit_latch_
          sincePub,  \* turns since last_publish_ns, up to PublishEvery
          held,      \* emit_cache_.last_nonempty, until it has expired
          heldAge,   \* turns since emit_cache_.last_nonempty_ts, up to Hold + 1
          gaze,      \* gaze_time_map_
          \* what happened to one track, any of them, since it was started;
          \*   this guards nothing:
          watched,   \* its id
          place,     \* whether its box was last inside the region
          owed,      \* the kinds of crossing it made that no message has reported
          looked,    \* the messages at whose publish it looked at the camera
          had        \* which of Mishaps it has had

\* Deleted; lived through a recovery; absent from the message that its latched
\* events were meant for; left out of a message that had other tracks.
Mishaps == {"deleted", "recovered", "skipped", "lapsed"}

trackerVars == <<byte, nextId, tracks>>
publishVars == <<latch, sincePub, held, heldAge, gaze>>
history == <<watched, place, owed, looked, had>>
vars == <<step, trackerVars, latest, publishVars, history>>

Get(f, id, default) == IF id \in DOMAIN f THEN f[id] ELSE default
LeastOf(a, b) == IF a < b THEN a ELSE b

TypeOK ==
  /\ step \in {"track", "publish"}
  /\ DOMAIN byte \subseteq Ids
  /\ byte \in [DOMAIN byte -> [hits : 1 .. NInit, missed : 0 .. MaxAge]]
  /\ nextId \in 1 .. MaxIds + 1
  /\ DOMAIN tracks \subseteq DOMAIN byte
  /\ tracks \in [DOMAIN tracks -> [confirmed : BOOLEAN, inside : BOOLEAN,
                                   pending : SUBSET Events]]
  /\ \A m \in {latest, latch, held} :
       DOMAIN m \subseteq Ids /\ m \in [DOMAIN m -> SUBSET Events]
  /\ sincePub \in 0 .. PublishEvery
  /\ heldAge \in 0 .. Hold + 1
  /\ DOMAIN gaze \subseteq Ids /\ gaze \in [DOMAIN gaze -> 0 .. MaxGaze]
  /\ watched \in Ids /\ place \in BOOLEAN /\ owed \subseteq Events
  /\ looked \in 0 .. MaxGaze /\ had \subseteq Mishaps

Init ==
  /\ step = "track"
  /\ byte = Empty /\ nextId = 1 /\ tracks = Empty
  /\ latest = Empty /\ latch = Empty /\ held = Empty /\ gaze = Empty
  /\ sincePub = PublishEvery /\ heldAge = Hold + 1
  /\ watched \in Ids /\ place = FALSE /\ owed = {} /\ looked = 0 /\ had = {}

Mishap(name, happens) == {m \in {name} : happens}

\* What a box does that was inside the region or not (a), and now is or not (b).
Crossing(a, b) == {e \in Events : a # b /\ b = (e = "enter")}

-----------------------------------------------------------------------------
(* ByteTrackLite::update *)

\* predict_all() ages every track, update_track() renews the matched ones, and
\* start_track() starts one for each detection with a high score left over.
Associated(matched, born) ==
  [id \in DOMAIN byte \cup born |->
     IF id \in born THEN [hits |-> 1, missed |-> 0]
     ELSE IF id \in matched
          THEN [hits |-> LeastOf(byte[id].hits + 1, NInit), missed |-> 0]
          ELSE [byte[id] EXCEPT !.missed = @ + 1]]

\* Tracks that are too old, or whose box is degenerate, are dropped.
Kept(b, degenerate) == {id \in DOMAIN b : b[id].missed <= MaxAge} \ degenerate

\* The ids next_id_++ gives to the tracks that are started.
Newborn(n) == {id \in Ids : id >= nextId /\ id < nextId + n}

\* update(): n detections start a track.
ByteUpdate(n, matched, degenerate) ==
  LET all == Associated(matched, Newborn(n))
  IN  [id \in Kept(all, degenerate) |-> all[id]]

-----------------------------------------------------------------------------
(* Tracker::update, Tracker::update_with_bytetrack *)

\* The track a byte track updates: its own, or a new one, which is confirmed if
\* the byte track already is.
Old(id, b) ==
  Get(tracks, id, [confirmed |-> b[id].hits >= NInit, inside |-> FALSE, pending |-> {}])

\* update_behavior_fields() raises the one-shots; then comes the promotion.
Updated(id, b, inside) ==
  LET old == Old(id, b) IN
  [confirmed |-> old.confirmed \/ b[id].hits >= NInit,
   inside    |-> inside,
   pending   |-> old.pending \cup Crossing(old.inside, inside)]

\* It adds ts - last_ts to the dwell time of a confirmed track inside the region,
\* and a track that is created confirmed has no last_ts.
Unmeasured(id, b, inside) ==
  id \in DOMAIN b \ DOMAIN tracks /\ Old(id, b).confirmed /\ inside

\* Seeded fault: the last update of the grace is not one of it.
ReturnedEarly(t, b) ==
  {id \in DOMAIN b : t[id].confirmed /\ b[id].missed < PublishGrace}

\* Only confirmed tracks within the publish grace are returned.
Returned(t, b) ==
  {id \in DOMAIN b : t[id].confirmed /\ b[id].missed <= PublishGrace}

\* Returning a track resets its one-shots.
Reset(t, out) ==
  [id \in DOMAIN t |-> IF id \in out THEN [t[id] EXCEPT !.pending = {}] ELSE t[id]]

\* Seeded fault: the latch is assigned, not accumulated.
LatchedLast(out) == [id \in {i \in DOMAIN out : out[i] # {}} |-> out[id]]

\* "Latch this tick's one-shot enter/exit flags."
Latched(out) ==
  [id \in DOMAIN latch \cup {i \in DOMAIN out : out[i] # {}} |->
     Get(latch, id, {}) \cup Get(out, id, {})]

\* update_person_tracks(), then the latch.
Track ==
  /\ step = "track"
  /\ \E n \in 0 .. MaxIds + 1 - nextId :
     \E degenerate \in SUBSET DOMAIN byte : \E matched \in SUBSET (DOMAIN byte \ degenerate) :
       LET b == ByteUpdate(n, matched, degenerate) IN
       \E inside \in [DOMAIN b -> BOOLEAN] :
            LET t   == [id \in DOMAIN b |-> Updated(id, b, inside[id])]
                out == Returned(t, b)
            IN /\ byte' = b /\ nextId' = nextId + n
               /\ tracks' = Reset(t, out)
               /\ latest' = [id \in out |-> t[id].pending]
               /\ latch' = Latched(latest')
               /\ place' = Get(inside, watched, FALSE)
               /\ owed' = IF watched \in DOMAIN b THEN owed \cup Crossing(place, place') ELSE {}
               /\ looked' = IF watched \in DOMAIN b THEN looked ELSE 0
               /\ had' = IF watched \in DOMAIN byte \ DOMAIN b THEN {"deleted"} ELSE had
  /\ step' = "publish"
  /\ UNCHANGED <<sincePub, held, heldAge, gaze, watched>>

-----------------------------------------------------------------------------
(* The 1 Hz publish *)

Due == sincePub >= PublishEvery

\* The latched events are folded into the tracks being published; without
\* tracks the emission cache fills in, for HOLD_TTL_S.
WithLatch == [id \in DOMAIN latest |-> latest[id] \cup Get(latch, id, {})]
Emitted == IF DOMAIN latest # {} THEN WithLatch ELSE held

\* Seeded fault: entries are erased by a message without tracks, too.
GazeErased(gazing) ==
  [id \in (DOMAIN gaze \cup gazing) \cap DOMAIN latest |->
     IF id \in gazing THEN LeastOf(Get(gaze, id, 0) + 1, MaxGaze) ELSE gaze[id]]

\* A face that looks at the camera adds 1.0 to its track, however long ago the last
\* message was (one that does not may make an entry of 0, which reads as none);
\* entries of tracks that are not in this message are erased, if any is.
GazeAfter(gazing) ==
  [id \in {i \in DOMAIN gaze \cup gazing : DOMAIN latest # {} => i \in DOMAIN latest} |->
     IF id \in gazing THEN LeastOf(Get(gaze, id, 0) + 1, MaxGaze) ELSE gaze[id]]

\* Seeded fault: the cache does not expire.
EndTurnHolding(pub, m, age) ==
  /\ \E ticks \in {1, PublishEvery} :
       /\ sincePub' = LeastOf(pub + ticks, PublishEvery)
       /\ heldAge' = LeastOf(age + ticks, Hold + 1)
  /\ held' = m
  /\ latest' = Empty
  /\ step' = "track"

\* The turn ends with a cache m of that age: the next one starts 100 ms later,
\* or far more if it recovers.
EndTurn(pub, m, age) ==
  /\ \E ticks \in {1, PublishEvery} :
       /\ sincePub' = LeastOf(pub + ticks, PublishEvery)
       /\ heldAge' = LeastOf(age + ticks, Hold + 1)
  /\ held' = IF heldAge' > Hold THEN Empty ELSE m
  /\ latest' = Empty
  /\ step' = "track"

Publish ==
  /\ step = "publish" /\ Due
  /\ \E gazing \in SUBSET DOMAIN latest :
       /\ gaze' = GazeAfter(gazing)
       /\ looked' = IF watched \in gazing THEN LeastOf(looked + 1, MaxGaze) ELSE looked
  /\ latch' = Empty
  /\ EndTurn(0, Emitted, IF DOMAIN latest # {} THEN 0 ELSE heldAge)
  /\ owed' = owed \ Get(Emitted, watched, {})
  /\ had' = had \cup Mishap("skipped", watched \in DOMAIN latch \ DOMAIN latest)
                \cup Mishap("lapsed", watched \in DOMAIN byte \ DOMAIN latest /\ DOMAIN latest # {})
  /\ UNCHANGED <<trackerVars, watched, place>>

NotDue ==
  /\ step = "publish" /\ ~Due
  /\ EndTurn(sincePub, held, heldAge)
  /\ UNCHANGED <<trackerVars, latch, gaze, history>>

-----------------------------------------------------------------------------

\* Seeded fault: a recovery resets the byte tracker and its ids as well.
RecoverAll ==
  /\ step = "track"
  /\ byte' = Empty /\ nextId' = 1 /\ tracks' = Empty
  /\ UNCHANGED <<step, latest, publishVars, history>>

\* recover_pipeline() ends with person_tracker_.reset(), which clears the
\* tracks and next_id_ of the tracker, and leaves byte_tracker_ alone.
Recover ==
  /\ step = "track"
  /\ tracks' = Empty
  /\ had' = had \cup Mishap("recovered", watched \in DOMAIN byte)
  /\ UNCHANGED <<step, byte, nextId, latest, publishVars, watched, place, owed, looked>>

Next == Recover \/ Track \/ Publish \/ NotDue

Spec == Init /\ [][Next]_vars

-----------------------------------------------------------------------------
(* Correctness *)

\* After a recovery a person in the region enters it anew.
Reentered == {e \in {"enter"} : "recovered" \in had}

\* The flags of a message are exact: enter (or exit) is true for a track only if it
\* entered (left) the region and no earlier message said so, or was in it after a
\* recovery; and unless a recovery or LostOnlyOutOfSight took some of its events, it is
\* true if it did; whatever happened at 10 Hz since, while it was tentative or coasting.
\* A flag counts nothing: two entries between two messages are one (CrossingsKeptApart).
FlagsExact ==
  [][(Publish /\ watched \in DOMAIN latest) =>
       /\ Emitted[watched] \subseteq owed \cup Reentered
       /\ {"recovered", "skipped"} \cap had = {} => Emitted[watched] = owed]_vars

\* A message has exactly the people who were matched NInit times, in all and not in a
\* row (HitsAreConsecutive), and missed at most PublishGrace updates by then, coasting
\* or not (LostIsNotPublished): the promotion, the two maps of tracks and the emission
\* cache publish nobody else, and neither they nor a recovery leave anybody out.
Seen == {id \in DOMAIN byte : byte[id].hits >= NInit /\ byte[id].missed <= PublishGrace}
PublishedIsSeen == [][Publish => DOMAIN Emitted = Seen]_vars

\* Latched events that a message does not report, and so nobody ever does, are those
\* of a person who is out of sight when it is due: the track is deleted, or missed
\* more than PublishGrace updates.  A recovery drops the events of nobody in sight.
LostOnlyOutOfSight ==
  [][Publish => \A id \in DOMAIN latch \ DOMAIN Emitted :
        id \notin DOMAIN byte \/ byte[id].missed > PublishGrace]_vars

\* mqtt-message-format.md: ids are "never reused in same session".  No message
\* shows the id of a deleted track, through any number of recoveries.
IdsNeverReused == "deleted" \in had => watched \notin DOMAIN byte \cup DOMAIN latest

\* The gaze time of a track that no message left out, while it had other tracks, is the
\* number of messages at whose publish the track looked at the camera: each counts
\* once, and the erasures and a recovery lose none.  It is no measure of time, and not
\* what mqtt-message-format.md says, which has it grow "at frame rate".
GazeCountsMessages ==
  (watched \in DOMAIN byte /\ "lapsed" \notin had) => Get(gaze, watched, 0) = looked

-----------------------------------------------------------------------------
(* What the documentation says and the code does not do *)

\* mqtt-message-format.md: enter is "true for exactly one frame when person
\* enters ROI".  After a recovery a person who never moved enters again.
EventsOnce ==
  [][(Publish /\ watched \in DOMAIN latest) => Emitted[watched] \subseteq owed]_vars

\* orchestrator.h: events are latched "so visitor/exit counters are not lost".
\* Those of a track that is gone when the message is due are cleared.
LatchedIsPublished == [][Publish => DOMAIN latch \subseteq DOMAIN Emitted]_vars

\* mqtt-message-format.md: dwell is the "total time (seconds) this person has
\* spent inside the region of interest".  A track created confirmed, which only
\* happens after a recovery, adds ts minus an indeterminate last_ts.
DwellIsMeasured ==
  [][Track => \A id \in DOMAIN byte' : ~Unmeasured(id, byte', tracks'[id].inside)]_vars

\* mqtt-message-format.md: enter "can repeat if person exits and re-enters ROI".  A
\* crossing that follows one of its kind before the message is latched into the same bit.
CrossingsKeptApart ==
  [][(Track /\ watched \in DOMAIN byte') => Crossing(place, place') \cap owed = {}]_vars

\* tracker.h: hits are "consecutive matched frames".  A miss resets no hits.
HitsAreConsecutive ==
  [][\A id \in DOMAIN byte \cap DOMAIN byte' :
        byte'[id].hits > byte[id].hits => byte[id].missed = 0]_vars

\* mqtt-message-format.md: a lost track is "not published, then removed".  One that
\* coasts within the publish grace is.
LostIsNotPublished == [][Publish => \A id \in DOMAIN Emitted : byte[id].missed = 0]_vars
=============================================================================
