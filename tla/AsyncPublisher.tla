--------------------------- MODULE AsyncPublisher ---------------------------
(***************************************************************************)
(* AsyncPublisher (include/output/async_publisher.h and its .cpp): a       *)
(* bounded deque guarded by a mutex, one worker thread that waits on a     *)
(* condition variable and delivers to the wrapped sink outside the lock.   *)
(*                                                                         *)
(* Three threads meet here.  The owner (build_pipeline/destroy_pipeline)   *)
(* calls start() once and stop() at the end; the producer (the supervisor) *)
(* calls enqueue(); the worker runs run().  A shutdown that timed out in   *)
(* main.cpp destroys the pipeline while the supervisor still runs, so      *)
(* enqueue() may overlap stop().                                           *)
(*                                                                         *)
(* Every access to the shared state is a step of its own.  The mutex is    *)
(* held across steps only where run() tests the wait predicate, finds it   *)
(* false, and has not blocked yet: the window stop() does not respect.     *)
(*                                                                         *)
(* Memory is assumed not to run out.  A push_back() that throws would lose *)
(* its message, and the oldest one too if room had been made for it:       *)
(* enqueue() then returns false, to callers that do not look.              *)
(***************************************************************************)
EXTENDS Integers, Sequences, FiniteSets

CONSTANTS Capacity,      \* cfg_.queue_capacity, or 64 when it is 0
          MaxMessages    \* bound on the messages the producer publishes

ASSUME CapacityAssumption == Capacity \in Nat \ {0}
ASSUME MaxMessagesAssumption == MaxMessages \in Nat

None == 0
Messages == 1 .. MaxMessages    \* numbered in the order enqueue() accepts them

VARIABLES owner,      \* where the owner is in start() and stop()
          producer,   \* where the producer is in enqueue()
          worker,     \* where the worker is in run()
          stop,       \* stop_
          q,          \* q_
          inHand,     \* the message moved out of q_ by the worker
          sinkUp,     \* inner_->start() succeeded and inner_->stop() not called
          accepted,   \* number of messages pushed so far
          delivered,  \* messages the sink has returned from, in order
          atStop      \* accepted when stop() stored stop_

vars == <<owner, producer, worker, stop, q, inHand, sinkUp, accepted, delivered, atStop>>

OwnerAt == {"new", "start_inner", "spawn", "running",
            "stop_notify", "stop_join", "stop_inner", "stopped"}

TypeOK ==
  /\ owner \in OwnerAt
  /\ producer \in {"idle", "lock", "notify"}
  /\ worker \in {"none", "test", "block", "waiting", "deliver", "exited"}
  /\ stop \in BOOLEAN
  /\ q \in Seq(Messages) /\ Len(q) <= Capacity
  /\ inHand \in {None} \cup Messages
  /\ sinkUp \in BOOLEAN
  /\ accepted \in {None} \cup Messages
  /\ delivered \in Seq(Messages)
  /\ atStop \in {None} \cup Messages

Init ==
  /\ owner = "new" /\ producer = "idle" /\ worker = "none"
  /\ stop = FALSE /\ q = <<>> /\ inHand = None /\ sinkUp = FALSE
  /\ accepted = 0 /\ delivered = <<>> /\ atStop = 0

-----------------------------------------------------------------------------
(* Seeded faults: variants of the definitions below and above that the      *)
(* properties must catch.                                                   *)

\* Off by one: the queue loses its oldest message before it is full.
MakeRoomEarly(s) == IF Len(s) >= Capacity - 1 /\ s # <<>> THEN Tail(s) ELSE s

\* Off by one: room is made when the queue already holds one too many.
MakeRoomLate(s) == IF Len(s) > Capacity THEN Tail(s) ELSE s

\* Drop-old: "while (q_.size() >= cap) q_.pop_front()".
MakeRoom(s) == IF Len(s) >= Capacity THEN SubSeq(s, Len(s) - Capacity + 2, Len(s)) ELSE s

\* Delivery inside the lock.
MutexFreeSinkInside == worker \notin {"block", "deliver"}

\* mu_ is free: only a worker between its failed test and its wait holds it
\* from one step to the next.
MutexFree == worker # "block"

\* Exit as soon as stop_ is set, whatever is queued.
ExitAtOnce ==
  /\ worker = "test" /\ stop
  /\ worker' = "exited"
  /\ UNCHANGED <<owner, producer, stop, q, inHand, sinkUp, accepted, delivered, atStop>>

\* The message is copied out of q_, not removed.
PopCopies ==
  /\ worker = "test" /\ q # <<>>
  /\ inHand' = Head(q)
  /\ worker' = "deliver"
  /\ UNCHANGED <<owner, producer, stop, q, sinkUp, accepted, delivered, atStop>>

\* The worker is detached instead of joined.
JoinSkipped ==
  /\ owner = "stop_join"
  /\ owner' = "stop_inner"
  /\ UNCHANGED <<producer, worker, stop, q, inHand, sinkUp, accepted, delivered, atStop>>

\* No notify_one() after the push.
NotifyForgotten ==
  /\ producer = "notify"
  /\ producer' = "idle"
  /\ UNCHANGED <<owner, worker, stop, q, inHand, sinkUp, accepted, delivered, atStop>>

-----------------------------------------------------------------------------
(* start(), by build_pipeline *)

\* Take mu_, find no thread, clear q_; then clear stop_.
StartClear ==
  /\ owner = "new" /\ MutexFree
  /\ q' = <<>>
  /\ stop' = FALSE
  /\ owner' = "start_inner"
  /\ UNCHANGED <<producer, worker, inHand, sinkUp, accepted, delivered, atStop>>

\* inner_->start() succeeds; or it fails, start() returns false, and
\* build_pipeline drops the publisher, whose destructor calls stop().
StartInner ==
  /\ owner = "start_inner"
  /\ \/ sinkUp' = TRUE /\ owner' = "spawn" /\ UNCHANGED <<stop, atStop>>
     \/ sinkUp' = FALSE /\ owner' = "stop_notify" /\ stop' = TRUE /\ atStop' = accepted
  /\ UNCHANGED <<producer, worker, q, inHand, accepted, delivered>>

\* th_ = std::thread(run); the publisher joins publishers_.
StartSpawn ==
  /\ owner = "spawn"
  /\ worker' = "test"
  /\ owner' = "running"
  /\ UNCHANGED <<producer, stop, q, inHand, sinkUp, accepted, delivered, atStop>>

-----------------------------------------------------------------------------
(* stop(), by destroy_pipeline and the destructor; mu_ is never taken *)

\* stop_.store(true)
StopStore ==
  /\ owner = "running"
  /\ stop' = TRUE
  /\ atStop' = accepted
  /\ owner' = "stop_notify"
  /\ UNCHANGED <<producer, worker, q, inHand, sinkUp, accepted, delivered>>

\* cv_.notify_all(): wakes the worker only if it is already waiting.
StopNotify ==
  /\ owner = "stop_notify"
  /\ worker' = IF worker = "waiting" THEN "test" ELSE worker
  /\ owner' = "stop_join"
  /\ UNCHANGED <<producer, stop, q, inHand, sinkUp, accepted, delivered, atStop>>

\* th_.join(), when there is a thread.
StopJoin ==
  /\ owner = "stop_join"
  /\ worker \in {"none", "exited"}
  /\ owner' = "stop_inner"
  /\ UNCHANGED <<producer, worker, stop, q, inHand, sinkUp, accepted, delivered, atStop>>

\* inner_->stop()
StopInner ==
  /\ owner = "stop_inner"
  /\ sinkUp' = FALSE
  /\ owner' = "stopped"
  /\ UNCHANGED <<producer, worker, stop, q, inHand, accepted, delivered, atStop>>

-----------------------------------------------------------------------------
(* enqueue(), by the supervisor, while the object is in publishers_ *)

EnqueueCall ==
  /\ producer = "idle" /\ accepted < MaxMessages
  /\ owner \in {"running", "stop_notify", "stop_join"} /\ worker # "none"
  /\ producer' = "lock"
  /\ UNCHANGED <<owner, worker, stop, q, inHand, sinkUp, accepted, delivered, atStop>>

\* Under mu_: make room, push.
EnqueuePush ==
  /\ producer = "lock" /\ MutexFree
  /\ accepted' = accepted + 1
  /\ q' = Append(MakeRoom(q), accepted + 1)
  /\ producer' = "notify"
  /\ UNCHANGED <<owner, worker, stop, inHand, sinkUp, delivered, atStop>>

\* cv_.notify_one(), after the unlock; return true.
EnqueueNotify ==
  /\ producer = "notify"
  /\ worker' = IF worker = "waiting" THEN "test" ELSE worker
  /\ producer' = "idle"
  /\ UNCHANGED <<owner, stop, q, inHand, sinkUp, accepted, delivered, atStop>>

-----------------------------------------------------------------------------
(* run() *)

\* mu_ held, predicate false: about to block, mu_ still held.
WorkerTestFails ==
  /\ worker = "test" /\ ~stop /\ q = <<>>
  /\ worker' = "block"
  /\ UNCHANGED <<owner, producer, stop, q, inHand, sinkUp, accepted, delivered, atStop>>

\* The wait releases mu_ and starts listening.
WorkerBlock ==
  /\ worker = "block"
  /\ worker' = "waiting"
  /\ UNCHANGED <<owner, producer, stop, q, inHand, sinkUp, accepted, delivered, atStop>>

\* A condition variable may wake without a notification.
SpuriousWakeup ==
  /\ worker = "waiting"
  /\ worker' = "test"
  /\ UNCHANGED <<owner, producer, stop, q, inHand, sinkUp, accepted, delivered, atStop>>

\* Stopping with nothing left: return.
WorkerExit ==
  /\ worker = "test" /\ stop /\ q = <<>>
  /\ worker' = "exited"
  /\ UNCHANGED <<owner, producer, stop, q, inHand, sinkUp, accepted, delivered, atStop>>

\* Move the oldest message out of q_ and release mu_.
WorkerPop ==
  /\ worker = "test" /\ q # <<>>
  /\ inHand' = Head(q)
  /\ q' = Tail(q)
  /\ worker' = "deliver"
  /\ UNCHANGED <<owner, producer, stop, sinkUp, accepted, delivered, atStop>>

\* inner_->publish_*() returns, however long the sink took.
WorkerDeliver ==
  /\ worker = "deliver"
  /\ delivered' = Append(delivered, inHand)
  /\ inHand' = None
  /\ worker' = "test"
  /\ UNCHANGED <<owner, producer, stop, q, sinkUp, accepted, atStop>>

\* Everything has been torn down and the producer is gone.
Terminated ==
  /\ owner = "stopped" /\ producer = "idle"
  /\ UNCHANGED vars

OwnerStep == StartClear \/ StartInner \/ StartSpawn
             \/ StopStore \/ StopNotify \/ StopJoin \/ StopInner
ProducerStep == EnqueueCall \/ EnqueuePush \/ EnqueueNotify
WorkerStep == WorkerTestFails \/ WorkerBlock \/ SpuriousWakeup
              \/ WorkerExit \/ WorkerPop \/ WorkerDeliver

Next == OwnerStep \/ ProducerStep \/ WorkerStep \/ Terminated

Spec == Init /\ [][Next]_vars
-----------------------------------------------------------------------------
(* Correctness *)

\* The messages a slow sink made the queue discard.
Lost == {m \in 1 .. accepted :
           /\ m # inHand
           /\ \A i \in DOMAIN q : q[i] # m
           /\ \A i \in DOMAIN delivered : delivered[i] # m}

\* A message is lost only by drop-old: by the time it is, Capacity newer ones
\* have been accepted.  Neither a wakeup, a stop nor the hand-over loses one.
LostOnlyByOverflow == \A m \in Lost : m + Capacity <= accepted

\* stop() drains: when it has joined the worker, every message accepted before
\* it was called has been delivered or had been dropped as too old.
StopDrains ==
  owner \in {"stop_inner", "stopped"} =>
    inHand = None /\ \A i \in DOMAIN q : q[i] > atStop

\* The wrapped sink is used only between its start() and its stop(), although
\* stop() and the deliveries are two threads with no lock in common.
SinkUpWhileDelivering == worker = "deliver" => sinkUp

\* No lost wakeup on the enqueue side, although enqueue() notifies after the
\* unlock: a worker that sleeps while something is queued is about to be notified
\* by the producer that queued it.  (stop() has no such property: StopReturns.)
NeverAsleepOnWork == worker = "waiting" /\ q # <<>> => producer = "notify"

\* The sink sees the messages in the order of acceptance and none of them twice,
\* through overflows, wakeups and the drain after stop(); the one in hand is next.
DeliveredInOrder ==
  \A j \in DOMAIN delivered :
    /\ \A i \in DOMAIN delivered : i < j => delivered[i] < delivered[j]
    /\ inHand # None => delivered[j] < inHand
    /\ \A i \in DOMAIN q : delivered[j] < q[i]

\* The deque, the mutex and the worker together are a drop-old queue.
LastHanded == IF inHand # None THEN inHand
              ELSE IF delivered = <<>> THEN 0 ELSE delivered[Len(delivered)]
Abstract == INSTANCE BoundedDropOld WITH held <- q, handed <- LastHanded
ImplementsDropOld == Abstract!Spec

-----------------------------------------------------------------------------
(* Liveness.  The threads are scheduled, and a mutex that is released again *)
(* and again is not withheld for ever (SF on the push: spurious wakeups     *)
(* could otherwise hold it whenever the producer looks).  Nothing says that *)
(* a sink returns, that a spurious wakeup happens or that the owner ever    *)
(* calls stop().                                                            *)

ThreadFairness ==
  /\ WF_vars(StartClear \/ StartInner \/ StartSpawn)
  /\ WF_vars(StopNotify) /\ WF_vars(StopJoin) /\ WF_vars(StopInner)
  /\ SF_vars(EnqueuePush) /\ WF_vars(EnqueueNotify)
  /\ WF_vars(WorkerTestFails \/ WorkerBlock \/ WorkerExit \/ WorkerPop)

\* A sink that may hang for ever in publish_*().
HungSinkSpec == Spec /\ ThreadFairness

\* A sink whose calls return.
SinkReturns == WF_vars(WorkerDeliver)
FairSpec == HungSinkSpec /\ SinkReturns

\* "Ensures the pipeline never blocks on slow sinks": a call of enqueue()
\* returns even if the sink never does.
ProducerNeverBlocked == producer = "lock" ~> producer = "idle"

\* No lost wakeup on the enqueue side: with a sink that returns, whatever is
\* accepted is delivered, or dropped, or the publisher is stopped, with no help
\* from spurious wakeups.
Handled(m) == m \in Lost \/ stop \/ \E i \in DOMAIN delivered : delivered[i] = m
AcceptedIsHandled ==
  SinkReturns => \A m \in Messages : accepted = m ~> Handled(m)

\* The documented worker polls stop_ every 5 ms (cpp-design.md), so stop()
\* returns once the sink does.  The code's stop() sets stop_ and notifies
\* without mu_, in the window where the worker has tested but not blocked.
StopReturns == owner = "stop_notify" ~> owner = "stopped"
=============================================================================
