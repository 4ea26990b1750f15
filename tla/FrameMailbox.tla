---------------------------- MODULE FrameMailbox ----------------------------
(***************************************************************************)
(* FrameMailbox (include/pipeline/frame_mailbox.h): the 1-deep hand-off    *)
(* between the capture thread and one model worker.  It is lock free and   *)
(* made of TWO atomics, buffer_ and has_frame_, that the two threads touch *)
(* in opposite orders, so postFrame and takeFrame are split at each atomic *)
(* access.                                                                 *)
(*                                                                         *)
(* Frames are their sequence numbers.  posted, due, taken are observations *)
(* of the calls and guard no action of the code.                           *)
(***************************************************************************)
EXTENDS Naturals

CONSTANT MaxFrames   \* bound on the frames the producer posts

ASSUME MaxFramesAssumption == MaxFrames \in Nat

NoFrame == 0
Frames  == 1 .. MaxFrames

VARIABLES buffer,    \* buffer_: the frame stored, NoFrame for a null pointer
          hasFrame,  \* has_frame_
          producer,  \* where the capture thread is in postFrame
          consumer,  \* where the worker is in takeFrame
          stored,    \* sequence number of the last frame stored
          posted,    \* last frame whose postFrame has returned
          due,       \* the value of posted when the current take began
          taken      \* last frame the exchange handed to the worker

vars == <<buffer, hasFrame, producer, consumer, stored, posted, due, taken>>

TypeOK ==
  /\ buffer \in {NoFrame} \cup Frames
  /\ hasFrame \in BOOLEAN
  /\ producer \in {"idle", "flag"}
  /\ consumer \in {"idle", "exchange", "clear"}
  /\ stored \in {NoFrame} \cup Frames
  /\ posted \in {NoFrame} \cup Frames
  /\ due \in {NoFrame} \cup Frames
  /\ taken \in {NoFrame} \cup Frames

Init ==
  /\ buffer = NoFrame /\ hasFrame = FALSE
  /\ producer = "idle" /\ consumer = "idle"
  /\ stored = NoFrame /\ posted = NoFrame
  /\ due = NoFrame /\ taken = NoFrame

-----------------------------------------------------------------------------
(* Seeded faults: variants of the actions below that the properties must    *)
(* catch.                                                                   *)

\* Drop-new instead of drop-old: a waiting frame is not overwritten.
PostStoreDropNew ==
  /\ producer = "idle" /\ stored < MaxFrames
  /\ stored' = stored + 1
  /\ buffer' = IF buffer = NoFrame THEN stored + 1 ELSE buffer
  /\ producer' = "flag"
  /\ UNCHANGED <<hasFrame, consumer, posted, due, taken>>

\* A load in place of the exchange: the frame stays in the buffer.
TakeLoad ==
  /\ consumer = "exchange"
  /\ taken' = IF buffer # NoFrame THEN buffer ELSE taken
  /\ consumer' = "clear"
  /\ UNCHANGED <<buffer, hasFrame, producer, stored, posted, due>>

\* The buffer is emptied with the flag, not by the exchange alone.
TakeClearBoth ==
  /\ consumer = "clear"
  /\ hasFrame' = FALSE
  /\ buffer' = NoFrame
  /\ consumer' = "idle"
  /\ UNCHANGED <<producer, stored, posted, due, taken>>

-----------------------------------------------------------------------------
(* postFrame, called once per captured frame *)

\* atomic_store(&buffer_, f): overwrites a frame that was not taken.
PostStore ==
  /\ producer = "idle" /\ stored < MaxFrames
  /\ stored' = stored + 1
  /\ buffer' = stored + 1
  /\ producer' = "flag"
  /\ UNCHANGED <<hasFrame, consumer, posted, due, taken>>

\* has_frame_.store(true), and the return.
PostFlag ==
  /\ producer = "flag"
  /\ hasFrame' = TRUE
  /\ posted' = stored
  /\ producer' = "idle"
  /\ UNCHANGED <<buffer, consumer, stored, due, taken>>

-----------------------------------------------------------------------------
(* takeFrame, called in a loop by the worker *)

\* has_frame_ is false: return nullptr.
TakeEmpty ==
  /\ consumer = "idle" /\ ~hasFrame
  /\ due' = posted
  /\ UNCHANGED <<buffer, hasFrame, producer, consumer, stored, posted, taken>>

\* has_frame_ is true: go on to the exchange.
TakeCheck ==
  /\ consumer = "idle" /\ hasFrame
  /\ due' = posted
  /\ consumer' = "exchange"
  /\ UNCHANGED <<buffer, hasFrame, producer, stored, posted, taken>>

\* atomic_exchange(&buffer_, nullptr).  The pointer it returns may be null: a
\* late has_frame_.store(true) announces a frame an earlier take already got.
TakeExchange ==
  /\ consumer = "exchange"
  /\ taken' = IF buffer # NoFrame THEN buffer ELSE taken
  /\ buffer' = NoFrame
  /\ consumer' = "clear"
  /\ UNCHANGED <<hasFrame, producer, stored, posted, due>>

\* has_frame_.store(false), whatever was posted since the exchange; return f.
\* A frame posted in between stays in buffer_ unannounced until the next one.
TakeClear ==
  /\ consumer = "clear"
  /\ hasFrame' = FALSE
  /\ consumer' = "idle"
  /\ UNCHANGED <<buffer, producer, stored, posted, due, taken>>

Next == PostStore \/ PostFlag \/ TakeEmpty \/ TakeCheck \/ TakeExchange \/ TakeClear

Spec == Init /\ [][Next]_vars

-----------------------------------------------------------------------------
(* Correctness *)

\* A take is never older than its call: once it has exchanged, the worker has
\* been given every frame, or a newer one, whose postFrame had returned when
\* takeFrame was entered with has_frame_ set ("latest wins", even though the
\* flag and the buffer are two atomics).
FreshAtCall == consumer = "clear" => taken >= due

\* The newest frame is never lost: it is in the buffer until it is taken.
\* Only frames that a newer one overwrote may disappear.
NewestNotLost == buffer = stored \/ (buffer = NoFrame /\ taken = stored)

\* A worker is given no frame twice and no older frame after a newer one, although a
\* late has_frame_ announces the same frame again; and what it gets is the newest.
FramesForward == [][taken' # taken => taken < taken' /\ taken' = stored]_vars

\* The two-atomics protocol implements the one-slot hand-off: same frames, in
\* order, none twice, the newest first.
Abstract == INSTANCE LatestWins WITH slot <- buffer, newest <- stored, delivered <- taken
ImplementsLatestWins == Abstract!Spec
=============================================================================
