------------------------------ MODULE FramePath ------------------------------
(***************************************************************************)
(* The way of a frame: capture_loop_threadfn() posts it to a mailbox per   *)
(* model, the workers (inference_worker.cpp) store what they find in the   *)
(* fusion state, and the supervisor's turn tracks people on it and         *)
(* publishes (orchestrator.cpp), over recoveries that stop and launch the  *)
(* threads but clear neither the mailboxes nor the fusion state.           *)
(*                                                                         *)
(* A frame is its SharedFrame::seq, and stands for everything that was     *)
(* found in it: detections, landmarks, tracks.  What happens under         *)
(* fusion_.m is one step.  The mailboxes are those of LatestWins, which    *)
(* FrameMailbox implements.  When a recovery happens and what it does to   *)
(* the pipeline's objects is the Orchestrator's.                           *)
(*                                                                         *)
(* Both models and the blur are enabled.  A picture is drawn by the person *)
(* detector's worker, on a copy of its frame: the face worker draws one,   *)
(* too, but has no writer and throws it away.                              *)
(***************************************************************************)
EXTENDS Naturals

CONSTANTS MaxFrames,  \* bound on the frames captured in a behaviour
          FaceSkip,   \* face_skip_frames
          YoloSkip,   \* yolo_skip_frames
          Watched     \* the frame the liveness property follows, any of them

ASSUME BoundsAssumption ==
  MaxFrames \in Nat /\ FaceSkip \in Nat /\ YoloSkip \in Nat /\ Watched \in 1 .. MaxFrames

Models == {"face", "yolo"}
Skip(m) == IF m = "face" THEN FaceSkip ELSE YoloSkip

NoFrame == 0
Seqs    == 0 .. MaxFrames

\* What a message says: the frame number when it was begun, the frame of its
\* faces and the frame its tracks were last updated from.
Messages == [seq : Seqs, faces : Seqs, tracks : Seqs]

VARIABLES capture,   \* where the capture thread is, and the frame it has
          frameSeq,  \* frame_seq_
          box,       \* mb_face_ and mb_yolo_: what waits, what was posted and taken last
          worker,    \* where each worker is, and the last frame it took
          fusion,    \* fusion_: the frame of each model's results
          canvas,    \* the picture being drawn
          picture,   \* the last picture written
          broken,    \* source_health_
          super,     \* where the supervisor is
          tracked,   \* latest_tracks_
          msg,       \* the message being built
          last       \* the last message published

pictures == <<canvas, picture>>
threads  == <<capture, frameSeq, box, worker, pictures>>
message  == <<tracked, msg, last>>
vars     == <<threads, fusion, broken, super, message>>

Empty == [seq |-> 0, faces |-> 0, tracks |-> 0]

\* What a picture is made of: the frame of its pixels, which is also that of the boxes
\* around people; the frames of the people that are blurred, of the faces that are
\* drawn, and of the faces that a box must hold one of to be drawn.
Pictures == [frame : Seqs, blurred : Seqs, faces : Seqs, centres : Seqs]
Blank    == [frame |-> NoFrame, blurred |-> NoFrame, faces |-> NoFrame, centres |-> NoFrame]

TypeOK ==
  /\ capture \in [pc : {"fetch", "number", "face", "yolo", "gone"}, frame : Seqs]
  /\ frameSeq \in Seqs /\ tracked \in Seqs
  /\ box \in [Models -> [slot : Seqs, newest : Seqs, delivered : Seqs]]
  /\ worker \in [Models -> [pc : {"idle", "take", "infer", "blur", "faces", "boxes", "gone"}, frame : Seqs]]
  /\ fusion \in [Models -> Seqs]
  /\ canvas \in Pictures /\ picture \in Pictures
  /\ broken \in BOOLEAN
  /\ super \in {"check", "join", "track", "due", "snapshot", "publish"}
  /\ msg \in Messages /\ last \in Messages

Init ==
  /\ capture = [pc |-> "fetch", frame |-> NoFrame]
  /\ frameSeq = 0
  /\ box = [m \in Models |-> [slot |-> NoFrame, newest |-> NoFrame, delivered |-> NoFrame]]
  /\ worker = [m \in Models |-> [pc |-> "idle", frame |-> NoFrame]]
  /\ fusion = [m \in Models |-> NoFrame]
  /\ canvas = Blank /\ picture = Blank
  /\ broken = FALSE /\ super = "check"
  /\ tracked = NoFrame /\ msg = Empty /\ last = Empty

Stopping == super = "join"

-----------------------------------------------------------------------------
(* Seeded faults: variants of definitions below that the properties must    *)
(* catch.                                                                   *)

\* The counter of frames starts again with the new capture thread.
RelaunchRenumbered ==
  /\ super = "join" /\ super' = "track"
  /\ capture.pc = "gone" /\ \A m \in Models : worker[m].pc = "gone"
  /\ capture' = [capture EXCEPT !.pc = "fetch"]
  /\ worker' = [m \in Models |-> [worker[m] EXCEPT !.pc = "idle"]]
  /\ broken' = FALSE /\ frameSeq' = 0
  /\ UNCHANGED <<box, pictures, fusion, message>>


\* A frame that the gate drops stays in the mailbox.
TakeLeaves(m) ==
  LET n == box[m].slot IN
  /\ worker[m].pc = "take" /\ n # NoFrame
  /\ IF Skip(m) <= 1 \/ n % Skip(m) = 0
     THEN /\ box' = [box EXCEPT ![m].slot = NoFrame, ![m].delivered = n]
          /\ worker' = [worker EXCEPT ![m] = [pc |-> "infer", frame |-> n]]
     ELSE /\ box' = [box EXCEPT ![m].delivered = n]
          /\ worker' = [worker EXCEPT ![m] = [pc |-> "idle", frame |-> n]]
  /\ UNCHANGED <<capture, frameSeq, pictures, fusion, broken, super, message>>

\* An inference that finds nothing leaves the results there are.
StoreFound(m) ==
  /\ worker[m].pc = "infer"
  /\ worker' = [worker EXCEPT ![m].pc = IF m = "yolo" THEN "blur" ELSE "idle"]
  /\ fusion' \in {fusion, [fusion EXCEPT ![m] = worker[m].frame]}
  /\ UNCHANGED <<capture, frameSeq, box, pictures, broken, super, message>>

-----------------------------------------------------------------------------
(* The capture thread: capture_loop_threadfn() *)

CaptureAt(pc, next) == capture.pc = pc /\ capture' = [capture EXCEPT !.pc = next]

\* The stop flag and tryFetch() in one step: others see nothing of a fetch.
Fetch ==
  /\ ~Stopping /\ frameSeq < MaxFrames
  /\ capture.pc = "fetch"
  /\ capture' = [pc |-> "number", frame |-> frameSeq + 1]
  /\ UNCHANGED <<frameSeq, box, worker, pictures, fusion, broken, super, message>>

FetchFails ==
  /\ ~Stopping /\ capture.pc = "fetch"
  /\ ~broken /\ broken' = TRUE
  /\ UNCHANGED <<threads, fusion, super, message>>

Number ==
  /\ CaptureAt("number", "face") /\ frameSeq' = frameSeq + 1
  /\ UNCHANGED <<box, worker, pictures, fusion, broken, super, message>>

\* postFrame() to one mailbox and then to the other.
Post(m) ==
  /\ CaptureAt(m, IF m = "face" THEN "yolo" ELSE "fetch")
  /\ box' = [box EXCEPT ![m].slot = frameSeq, ![m].newest = frameSeq]
  /\ UNCHANGED <<frameSeq, worker, pictures, fusion, broken, super, message>>

CaptureExit ==
  /\ Stopping /\ CaptureAt("fetch", "gone")
  /\ UNCHANGED <<frameSeq, box, worker, pictures, fusion, broken, super, message>>

Capture == Fetch \/ FetchFails \/ Number \/ CaptureExit
           \/ \E m \in Models : Post(m)

-----------------------------------------------------------------------------
(* A worker: run_inference_loop() *)

\* should_process_frame()
ShouldProcess(m, n) == Skip(m) <= 1 \/ n % Skip(m) = 0

WorkerAt(m, pc, next) ==
  worker[m].pc = pc /\ worker' = [worker EXCEPT ![m].pc = next]

Look(m) ==
  /\ ~Stopping /\ WorkerAt(m, "idle", "take")
  /\ UNCHANGED <<capture, frameSeq, box, pictures, fusion, broken, super, message>>

\* takeFrame(), even if the worker was told to stop since it looked.
Take(m) ==
  LET n == box[m].slot IN
  /\ worker[m].pc = "take" /\ n # NoFrame
  /\ box' = [box EXCEPT ![m].slot = NoFrame, ![m].delivered = n]
  /\ worker' = [worker EXCEPT ![m] = [pc |-> IF ShouldProcess(m, n) THEN "infer" ELSE "idle",
                                      frame |-> n]]
  /\ UNCHANGED <<capture, frameSeq, pictures, fusion, broken, super, message>>

TakeNothing(m) ==
  /\ box[m].slot = NoFrame /\ WorkerAt(m, "take", "idle")
  /\ UNCHANGED <<capture, frameSeq, box, pictures, fusion, broken, super, message>>

\* An empty frame or a failed inference leaves the results of an older frame.
InferFails(m) ==
  /\ WorkerAt(m, "infer", "idle")
  /\ UNCHANGED <<capture, frameSeq, box, pictures, fusion, broken, super, message>>

\* store_inference_results(), before the picture is drawn.
Store(m) ==
  /\ WorkerAt(m, "infer", IF m = "yolo" THEN "blur" ELSE "idle")
  /\ fusion' = [fusion EXCEPT ![m] = worker[m].frame]
  /\ UNCHANGED <<capture, frameSeq, box, pictures, broken, super, message>>

\* process_inference_results() takes fusion_.m three times.  blur_persons() reads the
\* people back,
Blur(m) ==
  /\ WorkerAt(m, "blur", "faces")
  /\ canvas' = [Blank EXCEPT !.frame = worker[m].frame, !.blurred = fusion["yolo"]]
  /\ UNCHANGED <<capture, frameSeq, box, picture, fusion, broken, super, message>>

\* draw_face_detections() the faces there are then,
DrawFaces(m) ==
  /\ WorkerAt(m, "faces", "boxes")
  /\ canvas' = [canvas EXCEPT !.faces = fusion["face"]]
  /\ UNCHANGED <<capture, frameSeq, box, picture, fusion, broken, super, message>>

\* and draw_yolo_detections() the faces once more, to leave out the runner's own
\* detections that hold none.  Then the picture is written.
DrawBoxes(m) ==
  /\ WorkerAt(m, "boxes", "idle")
  /\ picture' = [canvas EXCEPT !.centres = fusion["face"]]
  /\ canvas' = Blank
  /\ UNCHANGED <<capture, frameSeq, box, fusion, broken, super, message>>

WorkerExit(m) ==
  /\ Stopping /\ WorkerAt(m, "idle", "gone")
  /\ UNCHANGED <<capture, frameSeq, box, pictures, fusion, broken, super, message>>

Draw(m) == Blur(m) \/ DrawFaces(m) \/ DrawBoxes(m)

Worker(m) ==
  \/ Look(m) \/ Take(m) \/ TakeNothing(m) \/ InferFails(m)
  \/ Store(m) \/ Draw(m) \/ WorkerExit(m)

-----------------------------------------------------------------------------
(* The supervisor's turn *)

SuperAt(pc, next) == super = pc /\ super' = next

\* Nothing broken, or the backoff is not over.
NoRecovery ==
  /\ SuperAt("check", "track")
  /\ UNCHANGED <<threads, fusion, broken, message>>

\* stop_threads()
StopThreads ==
  /\ broken /\ SuperAt("check", "join")
  /\ UNCHANGED <<threads, fusion, broken, message>>

Joined == capture.pc = "gone" /\ \A m \in Models : worker[m].pc = "gone"

\* The new threads find the old mailboxes, counter and results.
Launch(up) ==
  /\ capture' = [capture EXCEPT !.pc = IF "capture" \in up THEN "fetch" ELSE @]
  /\ worker' = [m \in Models |-> [worker[m] EXCEPT !.pc = IF m \in up THEN "idle" ELSE @]]

\* Nothing is launched, or a launch fails half-way and leaves the threads before it.
RecoverFails ==
  /\ Joined /\ SuperAt("join", "track")
  /\ \E up \in {{}, {"capture"}, {"capture", "face"}} : Launch(up)
  /\ UNCHANGED <<frameSeq, box, pictures, fusion, broken, message>>

Relaunch ==
  /\ Joined /\ SuperAt("join", "track")
  /\ Launch({"capture"} \cup Models)
  /\ broken' = FALSE
  /\ UNCHANGED <<frameSeq, box, pictures, fusion, message>>

\* update_person_tracks(), whatever the age of the detections.
Track ==
  /\ super = "track" /\ super' \in {"due", "check"}
  /\ tracked' = fusion["yolo"]
  /\ UNCHANGED <<threads, fusion, broken, msg, last>>

\* current_seq is read before the lock is taken.
Begin ==
  /\ SuperAt("due", "snapshot")
  /\ msg' = [msg EXCEPT !.seq = frameSeq]
  /\ UNCHANGED <<threads, fusion, broken, tracked, last>>

Snapshot ==
  /\ SuperAt("snapshot", "publish")
  /\ msg' = [msg EXCEPT !.faces = fusion["face"], !.tracks = tracked]
  /\ UNCHANGED <<threads, fusion, broken, tracked, last>>

Publish ==
  /\ SuperAt("publish", "check")
  /\ last' = msg /\ msg' = Empty
  /\ UNCHANGED <<threads, fusion, broken, tracked>>

Supervisor == NoRecovery \/ StopThreads \/ RecoverFails \/ Relaunch
              \/ Track \/ Begin \/ Snapshot \/ Publish

-----------------------------------------------------------------------------

Next == Capture \/ Supervisor \/ \E m \in Models : Worker(m)

Spec == Init /\ [][Next]_vars

CaptureRuns == Number \/ CaptureExit \/ \E m \in Models : Post(m)
WorkerRuns(m) == Take(m) \/ TakeNothing(m) \/ InferFails(m) \/ Store(m) \/ Draw(m) \/ WorkerExit(m)

\* Threads run and model calls return.  A worker polls its mailbox every 2 ms
\* and recoveries are 2 s apart; a backoff ends, a source comes back in the end,
\* and a message is due again and again.  A source need not deliver.
FairSpec ==
  /\ Spec
  /\ WF_vars(CaptureRuns) /\ WF_vars(Supervisor)
  /\ \A m \in Models : SF_vars(Look(m)) /\ WF_vars(WorkerRuns(m))
  /\ SF_vars(StopThreads) /\ SF_vars(Relaunch) /\ SF_vars(Track /\ super' = "due")

-----------------------------------------------------------------------------
(* Correctness *)

\* Results are never overwritten by those of an older frame, and no message
\* shows an older picture of the world than the message before it: over faults,
\* recoveries (which clear nothing) and inferences that outlive a source.
NeverBack ==
  [][ /\ \A m \in Models : fusion'[m] >= fusion[m]
      /\ \A what \in DOMAIN last : last'[what] >= last[what] ]_vars

\* The people that are blurred in a picture are those of its own frame, as the boxes
\* around people are: nobody is framed whom the blur missed, although it reads the people
\* back from the state all threads share, after another worker, a recovery or the
\* supervisor may have run.  The faces are of any frame (FacesSynchronized), but
\* those that select the boxes are no older than those that are drawn.
PeopleMatchPicture ==
  picture.blurred = picture.frame /\ picture.faces <= picture.centres

\* The threads of all generations together use a mailbox as one producer and one
\* consumer of consecutive frames: it stays a latest-wins slot.
FaceBox == INSTANCE LatestWins
  WITH slot <- box["face"].slot, newest <- box["face"].newest, delivered <- box["face"].delivered
YoloBox == INSTANCE LatestWins
  WITH slot <- box["yolo"].slot, newest <- box["yolo"].newest, delivered <- box["yolo"].delivered
UsesLatestWins == FaceBox!Spec /\ YoloBox!Spec

\* A posted frame that no worker has taken waits in its mailbox unless a newer one does:
\* neither a recovery nor a gate that drops a frame leaves the newest one behind.
NewestWaits ==
  \A m \in Models : box[m].newest > worker[m].frame => box[m].slot = box[m].newest

\* The pictures are of later and later frames, each drawn at most once: no worker of a
\* new generation draws over the picture of a later frame.  Nor do the faces in them go
\* back in time, from one picture to the next.
PictureForward ==
  [][picture' # picture => /\ picture.frame < picture'.frame
                           /\ picture.centres <= picture'.faces]_vars


-----------------------------------------------------------------------------
(* What the documentation says and the code does not do *)

\* tracker.h: a track's hits are "consecutive matched frames".  The supervisor
\* feeds the tracker ten times per second with whatever result is there.
HitsAreFrames == [][Track /\ tracked # NoFrame => tracked' # tracked]_vars

\* visualization.cpp: the faces are drawn from fusion_ "for synchronized face detection
\* data".  They are those of the last frame the face worker has finished, whichever it
\* is, and may change between the two times one picture reads them.
FacesSynchronized ==
  picture.faces # NoFrame => picture.faces = picture.frame /\ picture.centres = picture.faces
=============================================================================
