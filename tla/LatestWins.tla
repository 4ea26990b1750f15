----------------------------- MODULE LatestWins -----------------------------
(***************************************************************************)
(* What the capture -> worker hand-off promises: one slot, the newest      *)
(* frame wins, a frame is handed out at most once, and the frames a worker *)
(* gets are in capture order.  Frames are their SharedFrame::seq numbers,  *)
(* which capture_loop_threadfn draws from frame_seq_ (1, 2, 3 ...).        *)
(***************************************************************************)
EXTENDS Naturals

CONSTANT MaxFrames   \* bound on the number of frames captured in a behaviour

NoFrame == 0         \* the null shared_ptr
Frames  == 1 .. MaxFrames

VARIABLES slot,      \* the frame waiting, or NoFrame
          newest,    \* the last frame posted
          delivered  \* the last frame handed to the worker

vars == <<slot, newest, delivered>>

Init == slot = NoFrame /\ newest = NoFrame /\ delivered = NoFrame

\* A post replaces whatever is waiting: the overwritten frame is dropped.
Post == /\ newest < MaxFrames
        /\ newest' = newest + 1
        /\ slot' = newest + 1
        /\ UNCHANGED delivered

\* A take removes the waiting frame; a take that finds nothing is a stutter.
Take == /\ slot # NoFrame
        /\ delivered' = slot
        /\ slot' = NoFrame
        /\ UNCHANGED newest

Next == Post \/ Take

Spec == Init /\ [][Next]_vars
=============================================================================
