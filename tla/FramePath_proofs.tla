-------------------------- MODULE FramePath_proofs --------------------------
(***************************************************************************)
(* For every number of frames and every skip setting: the way of a frame   *)
(* never goes back, over any number of recoveries, the people that are     *)
(* blurred in a picture are those of its own frame, the mailboxes stay     *)
(* latest-wins slots, and the newest frame waits until it is taken.        *)
(***************************************************************************)
EXTENDS FramePath, TLAPS

-----------------------------------------------------------------------------
(* The strengthening *)

\* Which mailboxes have got frame frameSeq already.
Numbered ==
  /\ capture.pc = "number" => frameSeq < MaxFrames
  /\ capture.pc \in {"face", "yolo"} => frameSeq > 0
  /\ box["face"].newest = IF capture.pc = "face" THEN frameSeq - 1 ELSE frameSeq
  /\ box["yolo"].newest = IF capture.pc \in {"face", "yolo"} THEN frameSeq - 1 ELSE frameSeq

\* What waits is the newest frame and is newer than what was taken, and a worker
\* goes on with what was taken, generation after generation.
Taken ==
  \A m \in Models :
    /\ box[m].slot # NoFrame => box[m].slot = box[m].newest /\ box[m].delivered < box[m].slot
    /\ box[m].delivered <= box[m].newest
    /\ worker[m].frame = box[m].delivered

\* Results are never of a later frame than the last one taken, and of that very
\* frame when the people in it are blurred.
Found ==
  \A m \in Models :
    /\ fusion[m] <= worker[m].frame
    /\ worker[m].pc = "blur" => fusion[m] = worker[m].frame

\* The picture being drawn is of the worker's frame, and its faces are no newer than
\* the results there are.
Drawing ==
  /\ worker["face"].pc \notin {"blur", "faces", "boxes"}
  /\ worker["yolo"].pc \in {"faces", "boxes"} =>
       canvas.frame = worker["yolo"].frame /\ canvas.blurred = canvas.frame
  /\ worker["yolo"].pc = "boxes" => canvas.faces <= fusion["face"]

\* The message being built is between the last one and the present state.
Told ==
  /\ tracked <= fusion["yolo"]
  /\ last.seq <= frameSeq /\ last.faces <= fusion["face"] /\ last.tracks <= tracked
  /\ super \in {"snapshot", "publish"} => last.seq <= msg.seq /\ msg.seq <= frameSeq
  /\ super = "publish" =>
       /\ last.faces <= msg.faces /\ msg.faces <= fusion["face"]
       /\ last.tracks <= msg.tracks /\ msg.tracks <= tracked

IInv == TypeOK /\ Numbered /\ Taken /\ Found /\ Drawing /\ Told /\ PeopleMatchPicture

-----------------------------------------------------------------------------

\* The initial state satisfies the inductive invariant.
LEMMA InitIInv == Init => IInv
<1> SUFFICES ASSUME Init PROVE IInv
  OBVIOUS
<1> USE BoundsAssumption DEF Init, Models, Seqs, NoFrame, Empty, Pictures, Blank
<1>1. TypeOK
  <2>1. box \in [Models -> [slot : Seqs, newest : Seqs, delivered : Seqs]]
    OBVIOUS
  <2>2. worker \in [Models -> [pc : {"idle", "take", "infer", "blur", "faces", "boxes", "gone"}, frame : Seqs]]
    OBVIOUS
  <2>3. capture \in [pc : {"fetch", "number", "face", "yolo", "gone"}, frame : Seqs]
    OBVIOUS
  <2>4. QED BY <2>1, <2>2, <2>3 DEF TypeOK, Messages
<1>2. Numbered BY DEF Numbered
<1>3. Taken BY DEF Taken
<1>4. Found /\ Drawing BY DEF Found, Drawing
<1>5. Told /\ PeopleMatchPicture BY DEF Told, PeopleMatchPicture
<1>6. QED BY <1>1, <1>2, <1>3, <1>4, <1>5 DEF IInv

\* The capture thread preserves every part.
LEMMA CaptureKeeps == IInv /\ Capture => IInv'
<1> SUFFICES ASSUME IInv, Capture PROVE IInv'
  OBVIOUS
<1> USE BoundsAssumption DEF IInv, TypeOK, Models, Seqs, Messages, Pictures, Blank, NoFrame, pictures, threads, message, CaptureAt
<1>1. CASE Fetch
  <2> USE <1>1 DEF Fetch
  <2>1. TypeOK' BY DEF Messages
  <2>2. Numbered' BY DEF Numbered
  <2>3. Taken' /\ Found' /\ Drawing' BY DEF Taken, Found, Drawing
  <2>4. Told' /\ PeopleMatchPicture' BY DEF Told, PeopleMatchPicture
  <2>5. QED BY <2>1, <2>2, <2>3, <2>4
<1>2. CASE FetchFails
  <2> USE <1>2 DEF FetchFails
  <2>1. TypeOK' BY DEF Messages
  <2>2. Numbered' BY DEF Numbered
  <2>3. Taken' /\ Found' /\ Drawing' BY DEF Taken, Found, Drawing
  <2>4. Told' /\ PeopleMatchPicture' BY DEF Told, PeopleMatchPicture
  <2>5. QED BY <2>1, <2>2, <2>3, <2>4
<1>3. CASE Number
  <2> USE <1>3 DEF Number
  <2>1. TypeOK' BY DEF Messages, Numbered
  <2>2. Numbered' BY DEF Numbered
  <2>3. Taken' /\ Found' /\ Drawing' BY DEF Taken, Found, Drawing
  <2>4. Told' /\ PeopleMatchPicture' BY DEF Told, PeopleMatchPicture, Messages
  <2>5. QED BY <2>1, <2>2, <2>3, <2>4
<1>4. ASSUME NEW m \in Models, Post(m) PROVE IInv'
  <2> USE <1>4 DEF Post
  <2>1. TypeOK' BY DEF Messages
  <2>2. Numbered' BY DEF Numbered
  <2>3. Taken' /\ Found' /\ Drawing' BY DEF Taken, Found, Drawing, Numbered
  <2>4. Told' /\ PeopleMatchPicture' BY DEF Told, PeopleMatchPicture
  <2>5. QED BY <2>1, <2>2, <2>3, <2>4
<1>5. CASE CaptureExit
  <2> USE <1>5 DEF CaptureExit
  <2>1. TypeOK' BY DEF Messages
  <2>2. Numbered' BY DEF Numbered
  <2>3. Taken' /\ Found' /\ Drawing' BY DEF Taken, Found, Drawing
  <2>4. Told' /\ PeopleMatchPicture' BY DEF Told, PeopleMatchPicture
  <2>5. QED BY <2>1, <2>2, <2>3, <2>4
<1>6. QED BY <1>1, <1>2, <1>3, <1>4, <1>5 DEF Capture

\* A worker preserves every part.
LEMMA WorkerKeeps ==
  ASSUME NEW m \in Models, IInv, Worker(m)
  PROVE  IInv'
<1> USE BoundsAssumption DEF IInv, TypeOK, Models, Seqs, Messages, Pictures, Blank, NoFrame, pictures, threads, message, WorkerAt
<1>1. CASE Look(m)
  <2> USE <1>1 DEF Look
  <2>1. TypeOK' OBVIOUS
  <2>2. Numbered' BY DEF Numbered
  <2>3. Taken' /\ Found' /\ Drawing' BY DEF Taken, Found, Drawing
  <2>4. Told' /\ PeopleMatchPicture' BY DEF Told, PeopleMatchPicture, Found, Taken, Drawing
  <2>5. QED BY <2>1, <2>2, <2>3, <2>4
<1>2. CASE Take(m)
  <2> USE <1>2 DEF Take
  <2>1. TypeOK' OBVIOUS
  <2>2. Numbered' BY DEF Numbered
  <2>3. Taken' /\ Found' /\ Drawing' BY DEF Taken, Found, Drawing
  <2>4. Told' /\ PeopleMatchPicture' BY DEF Told, PeopleMatchPicture, Found, Taken, Drawing
  <2>5. QED BY <2>1, <2>2, <2>3, <2>4
<1>3. CASE TakeNothing(m)
  <2> USE <1>3 DEF TakeNothing
  <2>1. TypeOK' OBVIOUS
  <2>2. Numbered' BY DEF Numbered
  <2>3. Taken' /\ Found' /\ Drawing' BY DEF Taken, Found, Drawing
  <2>4. Told' /\ PeopleMatchPicture' BY DEF Told, PeopleMatchPicture, Found, Taken, Drawing
  <2>5. QED BY <2>1, <2>2, <2>3, <2>4
<1>4. CASE InferFails(m)
  <2> USE <1>4 DEF InferFails
  <2>1. TypeOK' OBVIOUS
  <2>2. Numbered' BY DEF Numbered
  <2>3. Taken' /\ Found' /\ Drawing' BY DEF Taken, Found, Drawing
  <2>4. Told' /\ PeopleMatchPicture' BY DEF Told, PeopleMatchPicture, Found, Taken, Drawing
  <2>5. QED BY <2>1, <2>2, <2>3, <2>4
<1>5. CASE Store(m)
  <2> USE <1>5 DEF Store
  <2>1. TypeOK' OBVIOUS
  <2>2. Numbered' BY DEF Numbered
  <2>3. Taken' /\ Found' /\ Drawing' BY DEF Taken, Found, Drawing
  <2>4. Told' /\ PeopleMatchPicture' BY DEF Told, PeopleMatchPicture, Found, Taken, Drawing
  <2>5. QED BY <2>1, <2>2, <2>3, <2>4
<1>6. CASE Blur(m)
  <2> USE <1>6 DEF Blur
  <2>1. TypeOK'
    <3>1. canvas' \in Pictures
      <4>1. worker[m].frame \in Seqs /\ fusion["yolo"] \in Seqs /\ Blank \in Pictures
        OBVIOUS
      <4>2. QED BY <4>1, canvas' = [Blank EXCEPT !.frame = worker[m].frame, !.blurred = fusion["yolo"]]
    <3>2. worker' \in [Models -> [pc : {"idle", "take", "infer", "blur", "faces", "boxes", "gone"},
                                  frame : Seqs]]
      OBVIOUS
    <3>3. QED BY <3>1, <3>2
  <2>2. Numbered' BY DEF Numbered
  <2>3. Taken' /\ Found' /\ Drawing' BY DEF Taken, Found, Drawing
  <2>4. Told' /\ PeopleMatchPicture' BY DEF Told, PeopleMatchPicture, Found, Taken, Drawing
  <2>5. QED BY <2>1, <2>2, <2>3, <2>4
<1>7. CASE DrawFaces(m)
  <2> USE <1>7 DEF DrawFaces
  <2>1. TypeOK' OBVIOUS
  <2>2. Numbered' BY DEF Numbered
  <2>3. Taken' /\ Found' /\ Drawing' BY DEF Taken, Found, Drawing
  <2>4. Told' /\ PeopleMatchPicture' BY DEF Told, PeopleMatchPicture, Found, Taken, Drawing
  <2>5. QED BY <2>1, <2>2, <2>3, <2>4
<1>8. CASE DrawBoxes(m)
  <2> USE <1>8 DEF DrawBoxes
  <2>1. TypeOK' OBVIOUS
  <2>2. Numbered' BY DEF Numbered
  <2>3. Taken' /\ Found' /\ Drawing' BY DEF Taken, Found, Drawing
  <2>4. Told' /\ PeopleMatchPicture' BY DEF Told, PeopleMatchPicture, Found, Taken, Drawing
  <2>5. QED BY <2>1, <2>2, <2>3, <2>4
<1>9. CASE WorkerExit(m)
  <2> USE <1>9 DEF WorkerExit
  <2>1. TypeOK' OBVIOUS
  <2>2. Numbered' BY DEF Numbered
  <2>3. Taken' /\ Found' /\ Drawing' BY DEF Taken, Found, Drawing
  <2>4. Told' /\ PeopleMatchPicture' BY DEF Told, PeopleMatchPicture, Found, Taken, Drawing
  <2>5. QED BY <2>1, <2>2, <2>3, <2>4
<1>10. QED BY <1>1, <1>2, <1>3, <1>4, <1>5, <1>6, <1>7, <1>8, <1>9 DEF Worker, Draw

\* The supervisor's turn preserves every part.
LEMMA SupervisorKeeps == IInv /\ Supervisor => IInv'
<1> SUFFICES ASSUME IInv, Supervisor PROVE IInv'
  OBVIOUS
<1> USE BoundsAssumption DEF IInv, TypeOK, Models, Seqs, Messages, Pictures, Blank, NoFrame, pictures, threads, message, SuperAt
<1>1. CASE NoRecovery
  <2> USE <1>1 DEF NoRecovery
  <2>1. TypeOK' OBVIOUS
  <2>2. Numbered' BY DEF Numbered
  <2>3. Taken' /\ Found' /\ Drawing' BY DEF Taken, Found, Drawing
  <2>4. Told' /\ PeopleMatchPicture' BY DEF Told, PeopleMatchPicture, Found, Taken, Drawing
  <2>5. QED BY <2>1, <2>2, <2>3, <2>4
<1>2. CASE StopThreads
  <2> USE <1>2 DEF StopThreads
  <2>1. TypeOK' OBVIOUS
  <2>2. Numbered' BY DEF Numbered
  <2>3. Taken' /\ Found' /\ Drawing' BY DEF Taken, Found, Drawing
  <2>4. Told' /\ PeopleMatchPicture' BY DEF Told, PeopleMatchPicture, Found, Taken, Drawing
  <2>5. QED BY <2>1, <2>2, <2>3, <2>4
<1>3. CASE RecoverFails
  <2> USE <1>3 DEF RecoverFails, Joined, Launch
  <2>1. TypeOK' OBVIOUS
  <2>2. Numbered' BY DEF Numbered
  <2>3. Taken' /\ Found' /\ Drawing' BY DEF Taken, Found, Drawing
  <2>4. Told' /\ PeopleMatchPicture' BY DEF Told, PeopleMatchPicture, Found, Taken, Drawing
  <2>5. QED BY <2>1, <2>2, <2>3, <2>4
<1>4. CASE Relaunch
  <2> USE <1>4 DEF Relaunch, Joined, Launch
  <2>1. TypeOK' OBVIOUS
  <2>2. Numbered' BY DEF Numbered
  <2>3. Taken' /\ Found' /\ Drawing' BY DEF Taken, Found, Drawing
  <2>4. Told' /\ PeopleMatchPicture' BY DEF Told, PeopleMatchPicture, Found, Taken, Drawing
  <2>5. QED BY <2>1, <2>2, <2>3, <2>4
<1>5. CASE Track
  <2> USE <1>5 DEF Track
  <2>1. TypeOK' OBVIOUS
  <2>2. Numbered' BY DEF Numbered
  <2>3. Taken' /\ Found' /\ Drawing' BY DEF Taken, Found, Drawing
  <2>4. Told' /\ PeopleMatchPicture' BY DEF Told, PeopleMatchPicture, Found, Taken, Drawing
  <2>5. QED BY <2>1, <2>2, <2>3, <2>4
<1>6. CASE Begin
  <2> USE <1>6 DEF Begin
  <2>1. TypeOK' OBVIOUS
  <2>2. Numbered' BY DEF Numbered
  <2>3. Taken' /\ Found' /\ Drawing' BY DEF Taken, Found, Drawing
  <2>4. Told' /\ PeopleMatchPicture' BY DEF Told, PeopleMatchPicture, Found, Taken, Drawing
  <2>5. QED BY <2>1, <2>2, <2>3, <2>4
<1>7. CASE Snapshot
  <2> USE <1>7 DEF Snapshot
  <2>1. TypeOK' OBVIOUS
  <2>2. Numbered' BY DEF Numbered
  <2>3. Taken' /\ Found' /\ Drawing' BY DEF Taken, Found, Drawing
  <2>4. Told' /\ PeopleMatchPicture' BY DEF Told, PeopleMatchPicture, Found, Taken, Drawing
  <2>5. QED BY <2>1, <2>2, <2>3, <2>4
<1>8. CASE Publish
  <2> USE <1>8 DEF Publish, Empty
  <2>1. TypeOK' OBVIOUS
  <2>2. Numbered' BY DEF Numbered
  <2>3. Taken' /\ Found' /\ Drawing' BY DEF Taken, Found, Drawing
  <2>4. Told' /\ PeopleMatchPicture' BY DEF Told, PeopleMatchPicture, Found, Taken, Drawing
  <2>5. QED BY <2>1, <2>2, <2>3, <2>4
<1>9. QED BY <1>1, <1>2, <1>3, <1>4, <1>5, <1>6, <1>7, <1>8 DEF Supervisor

\* Every step preserves the inductive invariant.
LEMMA NextIInv == IInv /\ [Next]_vars => IInv'
<1> SUFFICES ASSUME IInv, [Next]_vars PROVE IInv'
  OBVIOUS
<1>1. CASE Capture BY <1>1, CaptureKeeps
<1>2. CASE Supervisor BY <1>2, SupervisorKeeps
<1>3. ASSUME NEW m \in Models, Worker(m) PROVE IInv' BY <1>3, WorkerKeeps
<1>4. CASE UNCHANGED vars
  BY <1>4 DEF vars, threads, pictures, message, IInv, TypeOK, Numbered, Taken, Found, Drawing, Told,
              PeopleMatchPicture
<1>5. QED BY <1>1, <1>2, <1>3, <1>4 DEF Next

-----------------------------------------------------------------------------
(* The theorems *)

\* The inductive invariant holds in every reachable state.
THEOREM Invariance == Spec => []IInv
  BY InitIInv, NextIInv, PTL DEF Spec

\* Every variable keeps its type.
THEOREM TypeCorrect == Spec => []TypeOK
<1>1. IInv => TypeOK BY DEF IInv
<1>2. QED BY <1>1, Invariance, PTL

\* The people that are blurred in a picture are those of its own frame, as those that
\* are framed are, and the faces that select the boxes are no older than those drawn.
THEOREM PeopleMatch == Spec => []PeopleMatchPicture
<1>1. IInv => PeopleMatchPicture BY DEF IInv
<1>2. QED BY <1>1, Invariance, PTL

\* Results and messages never go back in time, over any number of recoveries.
THEOREM NeverGoesBack == Spec => NeverBack
<1> DEFINE Forward == /\ \A m \in Models : fusion'[m] >= fusion[m]
                      /\ \A what \in DOMAIN last : last'[what] >= last[what]
<1>1. IInv /\ [Next]_vars => [Forward]_vars
  <2> SUFFICES ASSUME IInv, Next PROVE Forward
    OBVIOUS
  <2> USE BoundsAssumption DEF IInv, TypeOK, Models, Seqs, Messages, Pictures, Blank, NoFrame, pictures, threads, message
  <2>1. DOMAIN last = {"seq", "faces", "tracks"} OBVIOUS
  <2>2. CASE Publish BY <2>1, <2>2 DEF Publish, SuperAt, Told
  <2>3. ASSUME NEW m \in Models, Store(m) PROVE Forward
    BY <2>1, <2>3 DEF Store, WorkerAt, Found
  <2>4. CASE UNCHANGED <<fusion, last>>
    BY <2>1, <2>4
  <2>5. ASSUME NEW m \in Models, Worker(m), ~Store(m) PROVE UNCHANGED <<fusion, last>>
    BY <2>5 DEF Worker, Look, Take, TakeNothing, InferFails, Draw, Blur, DrawFaces, DrawBoxes, WorkerExit
  <2>6. Supervisor /\ ~Publish => UNCHANGED <<fusion, last>>
    BY DEF Supervisor, NoRecovery, StopThreads, RecoverFails, Relaunch, Track, Begin, Snapshot
  <2>7. Capture => UNCHANGED <<fusion, last>>
    BY DEF Capture, Fetch, FetchFails, Number, Post, CaptureExit
  <2>8. QED BY <2>2, <2>3, <2>4, <2>5, <2>6, <2>7 DEF Next
<1>2. QED BY <1>1, Invariance, PTL DEF Spec, NeverBack

\* The threads of all generations together use either mailbox as one producer and
\* one consumer of consecutive frames.
THEOREM MailboxesStayLatestWins == Spec => UsesLatestWins
<1>1. Init => FaceBox!Init /\ YoloBox!Init
  BY DEF Init, Models, NoFrame, FaceBox!Init, YoloBox!Init, FaceBox!NoFrame, YoloBox!NoFrame
<1>2. IInv /\ [Next]_vars => [FaceBox!Next]_(FaceBox!vars) /\ [YoloBox!Next]_(YoloBox!vars)
  <2> SUFFICES ASSUME IInv, [Next]_vars
               PROVE  [FaceBox!Next]_(FaceBox!vars) /\ [YoloBox!Next]_(YoloBox!vars)
    OBVIOUS
  <2> USE BoundsAssumption
          DEF FaceBox!vars, FaceBox!Next, FaceBox!NoFrame, YoloBox!vars, YoloBox!Next, YoloBox!NoFrame
  <2>1. CASE UNCHANGED box BY <2>1
  <2>2. CASE Post("face")
    <3>1. FaceBox!Post /\ UNCHANGED box["yolo"]
      BY <2>2 DEF Post, CaptureAt, FaceBox!Post, IInv, TypeOK, Models, Seqs, Numbered
    <3>2. QED BY <3>1
  <2>3. CASE Post("yolo")
    <3>1. YoloBox!Post /\ UNCHANGED box["face"]
      BY <2>3 DEF Post, CaptureAt, YoloBox!Post, IInv, TypeOK, Models, Seqs, Numbered
    <3>2. QED BY <3>1
  <2>4. CASE Take("face")
    <3>1. FaceBox!Take /\ UNCHANGED box["yolo"]
      BY <2>4 DEF Take, FaceBox!Take, IInv, TypeOK, Models, NoFrame
    <3>2. QED BY <3>1
  <2>5. CASE Take("yolo")
    <3>1. YoloBox!Take /\ UNCHANGED box["face"]
      BY <2>5 DEF Take, YoloBox!Take, IInv, TypeOK, Models, NoFrame
    <3>2. QED BY <3>1
  <2>6. \A m \in Models : Worker(m) /\ ~Take(m) => UNCHANGED box
    BY DEF Worker, Look, TakeNothing, InferFails, Store, Draw, Blur, DrawFaces, DrawBoxes, WorkerExit
  <2>7. Supervisor => UNCHANGED box
    BY DEF Supervisor, NoRecovery, StopThreads, RecoverFails, Relaunch, Track, Begin,
           Snapshot, Publish, threads
  <2>8. Capture => UNCHANGED box \/ \E m \in Models : Post(m)
    BY DEF Capture, Fetch, FetchFails, Number, CaptureExit, threads
  <2>9. UNCHANGED vars => UNCHANGED box BY DEF vars, threads
  <2>10. QED BY <2>1, <2>2, <2>3, <2>4, <2>5, <2>6, <2>7, <2>8, <2>9 DEF Next, Models
<1>3. QED BY <1>1, <1>2, Invariance, PTL DEF Spec, UsesLatestWins, FaceBox!Spec, YoloBox!Spec

-----------------------------------------------------------------------------
(* Nothing posted is left behind *)

\* An empty mailbox has handed out the newest frame posted to it.
EmptyIsTaken ==
  \A m \in Models : box[m].slot = NoFrame => box[m].delivered = box[m].newest

\* The newest frame posted is always either taken or waiting.
THEOREM NewestKept == Spec => []NewestWaits
<1>1. Init => EmptyIsTaken BY DEF Init, EmptyIsTaken, NoFrame
<1>2. IInv /\ EmptyIsTaken /\ [Next]_vars => EmptyIsTaken'
  <2> SUFFICES ASSUME IInv, EmptyIsTaken, [Next]_vars PROVE EmptyIsTaken'
    OBVIOUS
  <2> USE BoundsAssumption DEF EmptyIsTaken, IInv, TypeOK, Models, Seqs, NoFrame
  <2>1. CASE UNCHANGED box BY <2>1
  <2>2. ASSUME NEW m \in Models, Post(m) PROVE EmptyIsTaken'
    BY <2>2 DEF Post, CaptureAt, Numbered
  <2>3. ASSUME NEW m \in Models, Take(m) PROVE EmptyIsTaken'
    BY <2>3 DEF Take, Taken
  <2>4. \A m \in Models : Worker(m) /\ ~Take(m) => UNCHANGED box
    BY DEF Worker, Look, TakeNothing, InferFails, Store, Draw, Blur, DrawFaces, DrawBoxes, WorkerExit
  <2>5. Supervisor => UNCHANGED box
    BY DEF Supervisor, NoRecovery, StopThreads, RecoverFails, Relaunch, Track, Begin,
           Snapshot, Publish, threads
  <2>6. Capture => UNCHANGED box \/ \E m \in Models : Post(m)
    BY DEF Capture, Fetch, FetchFails, Number, CaptureExit, threads
  <2>7. UNCHANGED vars => UNCHANGED box BY DEF vars, threads
  <2>8. QED BY <2>1, <2>2, <2>3, <2>4, <2>5, <2>6, <2>7 DEF Next
<1>3. IInv /\ EmptyIsTaken => NewestWaits
  BY DEF IInv, Taken, EmptyIsTaken, NewestWaits, TypeOK, Models, Seqs, NoFrame
<1>4. QED BY <1>1, <1>2, <1>3, Invariance, PTL DEF Spec

-----------------------------------------------------------------------------
(* The pictures *)

\* What the person detector's worker is busy with has not been drawn, nor anything
\* later; and no picture has newer faces than the results or the picture being drawn.
Undrawn ==
  /\ picture.frame <= worker["yolo"].frame
  /\ worker["yolo"].pc \in {"infer", "blur", "faces", "boxes"} =>
       picture.frame < worker["yolo"].frame
  /\ picture.centres <= fusion["face"]
  /\ worker["yolo"].pc = "boxes" => picture.centres <= canvas.faces

\* Pictures never go back and are never drawn twice, and nor do their faces go back.
THEOREM PicturesForward == Spec => PictureForward
<1> DEFINE Forward == picture' # picture => /\ picture.frame < picture'.frame
                                            /\ picture.centres <= picture'.faces
           Seen    == <<worker, fusion, canvas, picture>>
<1>1. Init => Undrawn BY DEF Init, Undrawn, Models, NoFrame, Blank
<1>2. IInv /\ Undrawn /\ [Next]_vars => Undrawn' /\ [Forward]_vars
  <2> SUFFICES ASSUME IInv, Undrawn, [Next]_vars PROVE Undrawn' /\ Forward
    OBVIOUS
  <2> USE BoundsAssumption
          DEF Undrawn, IInv, TypeOK, Models, Seqs, Pictures, Blank, NoFrame, pictures
  <2>1. CASE UNCHANGED Seen BY <2>1
  <2>2. ASSUME NEW m \in Models, Look(m) \/ Take(m) \/ TakeNothing(m) PROVE Undrawn' /\ Forward
    BY <2>2 DEF Look, Take, TakeNothing, WorkerAt, Taken
  <2>3. ASSUME NEW m \in Models, InferFails(m) \/ Store(m) \/ WorkerExit(m)
        PROVE  Undrawn' /\ Forward
    BY <2>3 DEF InferFails, Store, WorkerExit, WorkerAt, Found
  <2>4. ASSUME NEW m \in Models, Draw(m) PROVE Undrawn' /\ Forward
    BY <2>4 DEF Draw, Blur, DrawFaces, DrawBoxes, WorkerAt, Drawing
  <2>5. CASE Relaunch \/ RecoverFails
    BY <2>5 DEF Relaunch, RecoverFails, Joined, Launch
  <2>6. Supervisor /\ ~Relaunch /\ ~RecoverFails => UNCHANGED Seen
    BY DEF Supervisor, NoRecovery, StopThreads, Track, Begin, Snapshot,
           Publish, threads
  <2>7. Capture => UNCHANGED Seen
    BY DEF Capture, Fetch, FetchFails, Number, Post, CaptureExit, threads
  <2>8. UNCHANGED vars => UNCHANGED Seen BY DEF vars, threads
  <2>9. QED BY <2>1, <2>2, <2>3, <2>4, <2>5, <2>6, <2>7, <2>8 DEF Next, Worker
<1>3. QED BY <1>1, <1>2, Invariance, PTL DEF Spec, PictureForward
=============================================================================
