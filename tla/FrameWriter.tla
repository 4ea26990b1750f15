----------------------------- MODULE FrameWriter -----------------------------
(***************************************************************************)
(* AsyncDiskFrameWriter (frame_writer.cpp) over its SPSCQueue              *)
(* (spsc_queue.h): a producer and a writer thread that share a ring and    *)
(* its two indices without a lock.  One step is one access to an index or  *)
(* to a slot; the indices are atomics with release and acquire.            *)
(*                                                                         *)
(* The producer is whoever calls writeFrame(), and, after its last call,   *)
(* whoever calls flush() and destroys the writer.  A frame is the number   *)
(* of the call that offered it to the ring; of three calls only one does.  *)
(***************************************************************************)
EXTENDS Naturals, Sequences

CONSTANTS Size,         \* Capacity of the SPSCQueue: it holds one frame less
          MaxFrames,    \* bound on the frames offered in a behaviour
          FlushPolls    \* polls of a flush before it gives up (50)

ASSUME SizeAssumption == Size \in Nat \ {0, 1}
ASSUME BoundsAssumption == MaxFrames \in Nat /\ FlushPolls \in Nat

NoFrame == 0
Slots   == 0 .. Size - 1
Frames  == 0 .. MaxFrames

VARIABLES head,      \* the slot the producer fills next
          tail,      \* the slot the writer empties next
          buffer,    \* the slots
          offered,   \* frames offered so far
          calls,     \* frame_count_ modulo 3
          running,   \* running_
          producer,  \* where the producer is
          polls,     \* elapsed_ms of its flush, in polls
          writer,    \* where the writer thread is
          item,      \* the frame the writer has
          handled    \* the last frame that was encoded, or failed to be

ring == <<head, tail, buffer>>
vars == <<ring, offered, calls, running, producer, polls, writer, item, handled>>

TypeOK ==
  /\ head \in Slots /\ tail \in Slots
  /\ buffer \in [Slots -> Frames]
  /\ offered \in Frames /\ item \in Frames /\ handled \in Frames
  /\ calls \in 0 .. 2 /\ polls \in 0 .. FlushPolls
  /\ running \in BOOLEAN
  /\ producer \in {"idle", "check", "fill", "advance", "flush", "join", "gone"}
  /\ writer \in {"none", "loop", "empty", "check", "read", "advance", "encode", "exit"}

\* The constructor: no thread if the directory cannot be created or the thread
\* not launched; writeFrame() accepts frames all the same.
Init ==
  /\ head = 0 /\ tail = 0 /\ buffer = [i \in Slots |-> NoFrame]
  /\ offered = 0 /\ calls = 0
  /\ running \in BOOLEAN /\ writer \in {"none"} \cup (IF running THEN {"loop"} ELSE {})
  /\ producer = "idle" /\ polls = 0 /\ item = NoFrame /\ handled = NoFrame

-----------------------------------------------------------------------------
(* Seeded faults: variants of definitions below that the properties must    *)
(* catch.                                                                   *)

\* All slots are used: a full ring looks empty.
FullNever == FALSE

\* The index is advanced before the slot is filled.
FillLate ==
  /\ producer = "fill" /\ producer' = "advance"
  /\ head' = (head + 1) % Size
  /\ buffer' = [buffer EXCEPT ![head] = offered]
  /\ UNCHANGED <<tail, offered, calls, running, polls, writer, item, handled>>

\* The writer leaves as soon as it is told to.
LoopUntilStopped ==
  /\ writer = "loop"
  /\ writer' = IF running THEN "check" ELSE "exit"
  /\ UNCHANGED <<ring, offered, calls, running, producer, polls, item, handled>>

\* A wrapped index is not wrapped.
AfterUnmasked(i) == i + 1

\* (i + 1) & mask_
After(i) == (i + 1) % Size

-----------------------------------------------------------------------------
(* The producer *)

Producer(pc, next) == producer = pc /\ producer' = next

\* writeFrame(): two calls of three are done at once, and so is the third if the
\* copy of its image throws.
SkipFrame ==
  /\ producer = "idle"
  /\ calls' = (calls + 1) % 3
  /\ UNCHANGED <<ring, offered, running, producer, polls, writer, item, handled>>

OfferFrame ==
  /\ calls = 0 /\ offered < MaxFrames
  /\ Producer("idle", "check")
  /\ calls' = 1 /\ offered' = offered + 1
  /\ UNCHANGED <<ring, running, polls, writer, item, handled>>

Full == After(head) = tail

\* try_enqueue(): a full ring refuses the frame.
CheckFull ==
  /\ producer = "check" /\ producer' = IF Full THEN "idle" ELSE "fill"
  /\ UNCHANGED <<ring, offered, calls, running, polls, writer, item, handled>>

Fill ==
  /\ Producer("fill", "advance")
  /\ buffer' = [buffer EXCEPT ![head] = offered]
  /\ UNCHANGED <<head, tail, offered, calls, running, polls, writer, item, handled>>

AdvanceHead ==
  /\ Producer("advance", "idle")
  /\ head' = After(head)
  /\ UNCHANGED <<tail, buffer, offered, calls, running, polls, writer, item, handled>>

\* flush(), which looks at the queue only and waits for a limited time.
FlushCall ==
  /\ Producer("idle", "flush") /\ polls' = 0
  /\ UNCHANGED <<ring, offered, calls, running, writer, item, handled>>

FlushPoll ==
  /\ producer = "flush"
  /\ IF head # tail /\ polls < FlushPolls
     THEN polls' = polls + 1 /\ UNCHANGED producer
     ELSE producer' = "idle" /\ UNCHANGED polls
  /\ UNCHANGED <<ring, offered, calls, running, writer, item, handled>>

\* The destructor.
Destroy ==
  /\ Producer("idle", "join") /\ running' = FALSE
  /\ UNCHANGED <<ring, offered, calls, polls, writer, item, handled>>

DestroyJoins ==
  /\ writer \in {"none", "exit"} /\ Producer("join", "gone")
  /\ UNCHANGED <<ring, offered, calls, running, polls, writer, item, handled>>

-----------------------------------------------------------------------------
(* The writer thread: writer_thread_func() *)

Writer(pc, next) == writer = pc /\ writer' = next

\* while (running_ || !queue_.empty()): the queue is looked at second.
LoopTest ==
  /\ writer = "loop" /\ writer' = IF running THEN "check" ELSE "empty"
  /\ UNCHANGED <<ring, offered, calls, running, producer, polls, item, handled>>

LoopTestEmpty ==
  /\ writer = "empty" /\ writer' = IF head # tail THEN "check" ELSE "exit"
  /\ UNCHANGED <<ring, offered, calls, running, producer, polls, item, handled>>

\* try_dequeue(); an empty queue is asked again after 1 ms.
CheckEmpty ==
  /\ writer = "check" /\ writer' = IF tail = head THEN "loop" ELSE "read"
  /\ UNCHANGED <<ring, offered, calls, running, producer, polls, item, handled>>

\* The image is moved out of its slot.
Read ==
  /\ Writer("read", "advance")
  /\ item' = buffer[tail] /\ buffer' = [buffer EXCEPT ![tail] = NoFrame]
  /\ UNCHANGED <<head, tail, offered, calls, running, producer, polls, handled>>

AdvanceTail ==
  /\ Writer("advance", "encode")
  /\ tail' = After(tail)
  /\ UNCHANGED <<head, buffer, offered, calls, running, producer, polls, item, handled>>

\* imwrite() returns, whatever it returns.
Encode ==
  /\ Writer("encode", "loop")
  /\ handled' = item /\ item' = NoFrame
  /\ UNCHANGED <<ring, offered, calls, running, producer, polls>>

-----------------------------------------------------------------------------

ProducerRuns == CheckFull \/ Fill \/ AdvanceHead \/ FlushPoll \/ DestroyJoins
WriterRuns   == LoopTest \/ LoopTestEmpty \/ CheckEmpty \/ Read \/ AdvanceTail \/ Encode

Next == SkipFrame \/ OfferFrame \/ FlushCall \/ Destroy \/ ProducerRuns \/ WriterRuns

Spec == Init /\ [][Next]_vars

\* Both threads are scheduled, and an image is encoded in the end.
FairSpec == Spec /\ WF_vars(ProducerRuns) /\ WF_vars(WriterRuns)

-----------------------------------------------------------------------------
(* Correctness *)

\* The two threads never touch the same slot at the same time, and only the frame
\* that was put there is read: the image data needs no lock.
SlotExclusive ==
  /\ ~(producer = "fill" /\ writer = "read" /\ head = tail)
  /\ writer = "read" => buffer[tail] # NoFrame
  /\ producer = "fill" => buffer[head] = NoFrame

\* The slots from tail to head hold the queue, oldest first, less the frame that
\* the writer has moved out of the first one.
Count == (head + Size - tail) % Size
Waiting == [i \in 1 .. Count |-> buffer[(tail + i - 1) % Size]]
Held == IF writer = "advance" THEN Tail(Waiting) ELSE Waiting

\* The ring with its two threads is a queue that refuses what it cannot hold, loses
\* nothing it accepted and keeps the order.
Queue == INSTANCE BoundedDropNew
  WITH Capacity <- Size - 1, MaxItems <- MaxFrames, held <- Held,
       handed <- IF item # NoFrame THEN item ELSE handled
ImplementsDropNew == Queue!Spec

\* "Writer destructor should flush and shutdown gracefully"
\* (test_phase2c_async_writer.cpp): a destruction ends, and if there is a writer
\* thread it has handled every accepted frame by then.
DestroyDrains ==
  producer = "join" ~>
    producer = "gone" /\ (writer = "none" \/ (head = tail /\ item = NoFrame))

\* The same without a clock: when the destructor has joined, there is no accepted frame
\* in the ring nor in the writer's hand, although the writer looks at running_ and at
\* the queue in two steps.
DrainedWhenGone ==
  producer = "gone" => writer = "none" \/ (head = tail /\ item = NoFrame)

\* Frames are encoded in the order they were offered, none twice, whatever the ring
\* refused in between.
EncodedInOrder == [][handled' # handled => handled < handled']_vars

-----------------------------------------------------------------------------
(* What a test says and the code does not do *)

\* "Flush should wait for all pending writes" (test_phase2c_async_writer.cpp): not
\* for the one that has left the queue.
FlushWaits == [][FlushPoll /\ producer' = "idle" /\ polls < FlushPolls => item = NoFrame]_vars
=============================================================================
