------------------------ MODULE AsyncPublisher_proofs ------------------------
(***************************************************************************)
(* For every capacity and every number of messages: AsyncPublisher drains  *)
(* on stop, never touches a stopped sink, loses messages only by drop-old, *)
(* delivers in order, loses no wakeup of enqueue(), and implements         *)
(* BoundedDropOld.                                                         *)
(***************************************************************************)
EXTENDS AsyncPublisher, SequenceTheorems, TLAPS

USE DEF None, Messages

-----------------------------------------------------------------------------
(* The drop-old push *)

\* s holds consecutive message numbers, the first one being b + 1.
Run(s, b) == \A i \in 1 .. Len(s) : s[i] = b + i

\* Removing the oldest message of a run leaves a run.
LEMMA TailRun ==
  ASSUME NEW s \in Seq(Messages), s # <<>>, NEW b \in Int, Run(s, b)
  PROVE  /\ Tail(s) \in Seq(Messages) /\ Len(Tail(s)) = Len(s) - 1
         /\ Head(s) = b + 1
         /\ Run(Tail(s), b + 1)
<1>1. PICK t : t = Tail(s) OBVIOUS
<1>2. /\ t \in Seq(Messages) /\ Len(t) = Len(s) - 1
      /\ \A i \in 1 .. Len(t) : t[i] = s[i+1]
  BY <1>1, HeadTailProperties
<1>3. Len(s) \in Nat \ {0} BY EmptySeq
<1>4. ASSUME NEW i \in 1 .. Len(t) PROVE t[i] = (b + 1) + i
  <2>1. i + 1 \in 1 .. Len(s) BY <1>2, <1>3
  <2>2. s[i+1] = b + (i + 1) BY <2>1 DEF Run
  <2>3. QED BY <1>2, <2>2
<1>5. Head(s) = b + 1
  <2>1. s[1] = b + 1 BY <1>3 DEF Run
  <2>2. QED BY <2>1
<1>6. QED BY <1>1, <1>2, <1>4, <1>5 DEF Run

\* Appending the next number to a run leaves a run.
LEMMA AppendRun ==
  ASSUME NEW s \in Seq(Messages), NEW b \in Int, Run(s, b),
         NEW e \in Messages, e = b + Len(s) + 1
  PROVE  /\ Append(s, e) \in Seq(Messages) /\ Append(s, e) # <<>>
         /\ Len(Append(s, e)) = Len(s) + 1
         /\ Run(Append(s, e), b)
<1>1. PICK t : t = Append(s, e) OBVIOUS
<1>2. /\ t \in Seq(Messages) /\ t # <<>> /\ Len(t) = Len(s) + 1
      /\ \A i \in 1 .. Len(s) : t[i] = s[i]
      /\ t[Len(s) + 1] = e
  BY <1>1, AppendProperties
<1>3. Len(s) \in Nat BY LenProperties
<1>4. ASSUME NEW i \in 1 .. Len(t) PROVE t[i] = b + i
  <2>1. CASE i = Len(s) + 1 BY <1>2, <1>3, <2>1
  <2>2. CASE i # Len(s) + 1
    <3>1. i \in 1 .. Len(s) BY <1>2, <1>3, <2>2
    <3>2. QED BY <1>2, <3>1 DEF Run
  <2>3. QED BY <2>1, <2>2
<1>5. QED BY <1>1, <1>2, <1>4 DEF Run

\* With at most Capacity messages queued, the while loop of enqueue() removes
\* one message from a full queue and none from any other.
LEMMA MakeRoomTail ==
  ASSUME NEW s \in Seq(Messages), Len(s) <= Capacity
  PROVE  MakeRoom(s) = IF Len(s) = Capacity THEN Tail(s) ELSE s
<1>1. Len(s) \in Nat BY LenProperties
<1>2. CASE Len(s) = Capacity
  <2>1. s # <<>> BY <1>2, EmptySeq, CapacityAssumption
  <2>2. Tail(s) = SubSeq(s, 2, Len(s)) BY <2>1, TailIsSubSeq
  <2>3. Len(s) - Capacity + 2 = 2 BY <1>1, <1>2, CapacityAssumption
  <2>4. QED BY <1>1, <1>2, <2>2, <2>3, CapacityAssumption DEF MakeRoom
<1>3. CASE Len(s) # Capacity
  BY <1>1, <1>3, CapacityAssumption DEF MakeRoom
<1>4. QED BY <1>2, <1>3

\* The queue always holds the most recent messages, in order.
Contiguous == Run(q, accepted - Len(q))

\* What one push leaves of a queue of the most recent messages: the bound is
\* kept, and it is again the most recent ones, one more unless it was full.
LEMMA PushKeepsRecent ==
  ASSUME TypeOK, Contiguous, accepted < MaxMessages,
         NEW r, r = Append(MakeRoom(q), accepted + 1)
  PROVE  /\ r \in Seq(Messages)
         /\ Len(q) < Capacity => Len(r) = Len(q) + 1
         /\ Len(q) = Capacity => Len(r) = Capacity
         /\ Run(r, (accepted + 1) - Len(r))
<1>1. /\ q \in Seq(Messages) /\ Len(q) \in Nat /\ Len(q) <= Capacity
      /\ accepted \in Nat /\ accepted + 1 \in Messages
  BY MaxMessagesAssumption, LenProperties DEF TypeOK
<1>2. PICK m : m = MakeRoom(q) OBVIOUS
<1>3. m = IF Len(q) = Capacity THEN Tail(q) ELSE q
  BY <1>1, <1>2, MakeRoomTail
<1>4. /\ m \in Seq(Messages)
      /\ Len(q) = Capacity => Len(m) = Capacity - 1
      /\ Len(q) < Capacity => Len(m) = Len(q)
      /\ Run(m, accepted - Len(m))
  <2>1. CASE Len(q) = Capacity
    <3>1. q # <<>> BY <1>1, <2>1, EmptySeq, CapacityAssumption
    <3>2. m = Tail(q) BY <1>3, <2>1
    <3>3. accepted - Len(q) \in Int BY <1>1
    <3>4. /\ m \in Seq(Messages) /\ Len(m) = Len(q) - 1
          /\ Run(m, (accepted - Len(q)) + 1)
      BY <1>1, <3>1, <3>2, <3>3, TailRun DEF Contiguous
    <3>5. (accepted - Len(q)) + 1 = accepted - Len(m) BY <1>1, <3>4
    <3>6. QED BY <2>1, <3>4, <3>5
  <2>2. CASE Len(q) # Capacity
    <3>1. m = q BY <1>3, <2>2
    <3>2. QED BY <1>1, <2>2, <3>1 DEF Contiguous
  <2>3. QED BY <2>1, <2>2
<1>5. Len(m) \in Nat BY <1>4, LenProperties
<1>6. accepted - Len(m) \in Int /\ accepted + 1 = (accepted - Len(m)) + Len(m) + 1
  BY <1>1, <1>5
<1>7. /\ r \in Seq(Messages) /\ Len(r) = Len(m) + 1
      /\ Run(r, accepted - Len(m))
  BY <1>1, <1>2, <1>4, <1>6, AppendRun
<1>8. accepted - Len(m) = (accepted + 1) - Len(r) BY <1>1, <1>5, <1>7
<1>9. QED BY <1>1, <1>4, <1>5, <1>7, <1>8, CapacityAssumption

-----------------------------------------------------------------------------
(* The inductive invariant *)

\* How the three threads stand with each other.
Phases ==
  /\ stop <=> owner \in {"stop_notify", "stop_join", "stop_inner", "stopped"}
  /\ owner \in {"new", "start_inner", "spawn"} => worker = "none" /\ q = <<>>
  /\ owner = "running" => worker # "none"
  /\ owner \in {"stop_inner", "stopped"} => worker \in {"none", "exited"}
  /\ worker = "none" => q = <<>> /\ producer = "idle"
  /\ worker = "exited" => stop
  /\ inHand # None <=> worker = "deliver"

\* The sink is up from the moment there is a worker until the worker is joined.
SinkPhase ==
  /\ worker # "none" /\ owner # "stopped" => sinkUp
  /\ owner = "spawn" => sinkUp

\* Once the worker has left, only messages accepted after the stop are queued.
LeftEmpty ==
  /\ atStop <= accepted
  /\ worker \in {"none", "exited"} => atStop <= accepted - Len(q)

\* A message is queued (Contiguous), in hand, delivered, or dropped for newer ones.
Accounted ==
  \A m \in 1 .. accepted :
    \/ m = inHand
    \/ m > accepted - Len(q)
    \/ \E i \in 1 .. Len(delivered) : delivered[i] = m
    \/ m + Capacity <= accepted

IInv == TypeOK /\ Phases /\ SinkPhase /\ Contiguous /\ LeftEmpty /\ Accounted
        /\ (producer = "lock" => accepted < MaxMessages)

\* The initial state satisfies the inductive invariant.
LEMMA InitIInv == Init => IInv
<1> SUFFICES ASSUME Init PROVE IInv
  OBVIOUS
<1>1. <<>> \in Seq(Messages) /\ Len(<<>>) = 0 BY EmptySeq
<1>2. q = <<>> /\ delivered = <<>> /\ accepted = 0 /\ atStop = 0 BY DEF Init
<1>3. Len(q) = 0 BY <1>1, <1>2
<1>4. q \in Seq(Messages) /\ delivered \in Seq(Messages) BY <1>1, <1>2
<1>5. 0 <= Capacity BY CapacityAssumption
<1>6. TypeOK BY <1>3, <1>4, <1>5 DEF Init, TypeOK, OwnerAt
<1>7. Phases /\ SinkPhase BY DEF Init, Phases, SinkPhase
<1>8. Contiguous BY <1>3 DEF Contiguous, Run
<1>9. LeftEmpty /\ Accounted BY <1>2, <1>3 DEF LeftEmpty, Accounted
<1>10. QED BY <1>6, <1>7, <1>8, <1>9 DEF IInv, Init

\* The steps that leave the queue, the counters and the hand-over alone: the
\* owner's, and the worker's waiting and leaving.
LEMMA ControlSteps ==
  ASSUME IInv,
         \/ StartInner \/ StartSpawn \/ StopStore \/ StopNotify
         \/ StopJoin \/ StopInner \/ EnqueueCall \/ EnqueueNotify
         \/ WorkerTestFails \/ WorkerBlock \/ SpuriousWakeup \/ WorkerExit
         \/ UNCHANGED vars
  PROVE  IInv'
<1> USE DEF IInv
<1>1. /\ q' = q /\ accepted' = accepted /\ inHand' = inHand
      /\ delivered' = delivered
  BY DEF StartInner, StartSpawn, StopStore, StopNotify, StopJoin, StopInner,
         EnqueueCall, EnqueueNotify, WorkerTestFails, WorkerBlock,
         SpuriousWakeup, WorkerExit, vars
<1>2. Contiguous' /\ Accounted'
  BY <1>1 DEF Contiguous, Accounted
<1>3. Len(q) \in Nat /\ (q = <<>> => Len(q) = 0)
  BY EmptySeq, LenProperties DEF TypeOK
<1>4. TypeOK' /\ Phases' /\ SinkPhase' /\ LeftEmpty' /\ (producer = "lock" => accepted < MaxMessages)'
  <2> USE <1>1, <1>3, MaxMessagesAssumption
          DEF TypeOK, OwnerAt, Phases, SinkPhase, LeftEmpty
  <2>1. CASE StartInner
    <3>1. /\ owner = "start_inner" /\ UNCHANGED <<producer, worker>>
          /\ \/ sinkUp' = TRUE /\ owner' = "spawn" /\ stop' = stop /\ atStop' = atStop
             \/ sinkUp' = FALSE /\ owner' = "stop_notify" /\ stop' = TRUE /\ atStop' = accepted
      BY <2>1 DEF StartInner
    <3>2. worker = "none" /\ q = <<>> /\ Len(q) = 0 BY <3>1
    <3>3. TypeOK' BY <3>1
    <3>4. LeftEmpty' BY <3>1, <3>2
    <3>5. Phases' /\ SinkPhase' BY <3>1, <3>2
    <3>6. QED BY <3>1, <3>3, <3>4, <3>5
  <2>2. CASE StartSpawn BY <2>2 DEF StartSpawn
  <2>3. CASE StopStore BY <2>3 DEF StopStore
  <2>4. CASE StopNotify BY <2>4 DEF StopNotify
  <2>5. CASE StopJoin BY <2>5 DEF StopJoin
  <2>6. CASE StopInner BY <2>6 DEF StopInner
  <2>7. CASE EnqueueCall BY <2>7 DEF EnqueueCall
  <2>8. CASE EnqueueNotify BY <2>8 DEF EnqueueNotify
  <2>9. CASE WorkerTestFails BY <2>9 DEF WorkerTestFails
  <2>10. CASE WorkerBlock BY <2>10 DEF WorkerBlock
  <2>11. CASE SpuriousWakeup BY <2>11 DEF SpuriousWakeup
  <2>12. CASE WorkerExit BY <2>12 DEF WorkerExit
  <2>13. CASE UNCHANGED vars BY <2>13 DEF vars
  <2>14. QED
    BY <2>1, <2>2, <2>3, <2>4, <2>5, <2>6, <2>7, <2>8, <2>9, <2>10, <2>11, <2>12, <2>13
<1>5. QED BY <1>2, <1>4

\* start() clears a queue that is already empty.
LEMMA StartClearStep == ASSUME IInv, StartClear PROVE IInv'
<1> USE DEF IInv
<1>1. q' = q BY DEF StartClear, Phases
<1>2. UNCHANGED <<producer, worker, inHand, sinkUp, accepted, delivered, atStop>>
      /\ stop' = FALSE /\ owner' = "start_inner" /\ owner = "new"
  BY DEF StartClear
<1>3. Contiguous' /\ Accounted' /\ LeftEmpty'
  BY <1>1, <1>2 DEF Contiguous, Accounted, LeftEmpty
<1>4. TypeOK' BY <1>1, <1>2 DEF TypeOK, OwnerAt
<1>5. Phases' /\ SinkPhase' BY <1>1, <1>2 DEF Phases, SinkPhase
<1>6. QED BY <1>2, <1>3, <1>4, <1>5

\* A push: the message that goes, if any, has Capacity newer ones behind it.
LEMMA PushStep == ASSUME IInv, EnqueuePush PROVE IInv'
<1> USE DEF IInv
<1>1. /\ producer = "lock" /\ accepted' = accepted + 1
      /\ producer' = "notify"
      /\ UNCHANGED <<owner, worker, stop, inHand, sinkUp, delivered, atStop>>
  BY DEF EnqueuePush
<1>2. /\ accepted < MaxMessages
      /\ q' = Append(MakeRoom(q), accepted + 1)
  BY DEF EnqueuePush
<1>3. /\ q' \in Seq(Messages)
      /\ Len(q) < Capacity => Len(q') = Len(q) + 1
      /\ Len(q) = Capacity => Len(q') = Capacity
      /\ Run(q', (accepted + 1) - Len(q'))
  BY <1>2, PushKeepsRecent
<1>4. /\ Len(q) \in Nat /\ Len(q) <= Capacity
      /\ accepted \in Nat /\ atStop \in Nat /\ accepted + 1 \in Messages
  BY <1>2, LenProperties, MaxMessagesAssumption DEF TypeOK
<1>5. TypeOK'
  <2>1. Len(q') <= Capacity BY <1>3, <1>4, CapacityAssumption
  <2>2. QED BY <1>1, <1>3, <1>4, <2>1 DEF TypeOK
<1>6. Phases' /\ SinkPhase'
  BY <1>1 DEF Phases, SinkPhase
<1>7. Contiguous'
  <2>1. accepted' = accepted + 1 BY <1>1
  <2>2. accepted' - Len(q') = (accepted + 1) - Len(q') BY <1>4, <2>1
  <2>3. QED BY <1>3, <2>2 DEF Contiguous, Run
<1>8. accepted - Len(q) <= (accepted + 1) - Len(q')
  BY <1>3, <1>4, CapacityAssumption
<1>9. Len(q') \in Nat \ {0} BY <1>3, <1>4, CapacityAssumption
<1>10. LeftEmpty'
  BY <1>1, <1>4, <1>8, <1>9 DEF LeftEmpty
<1>11. Accounted'
  <2> DEFINE A(m, a, h) == \/ m = inHand
                           \/ m > a - Len(h)
                           \/ \E i \in 1 .. Len(delivered) : delivered[i] = m
                           \/ m + Capacity <= a
  <2>1. SUFFICES ASSUME NEW m \in 1 .. accepted + 1 PROVE A(m, accepted + 1, q')
    <3>1. accepted' = accepted + 1 /\ inHand' = inHand /\ delivered' = delivered
      BY <1>1
    <3>2. Accounted' <=> \A m \in 1 .. accepted' : A(m, accepted', q')
      BY <3>1 DEF Accounted
    <3>3. QED BY <1>4, <3>1, <3>2
  <2>2. CASE m = accepted + 1
    <3>1. m > (accepted + 1) - Len(q') BY <1>4, <1>9, <2>2
    <3>2. QED BY <3>1
  <2>3. CASE m \in 1 .. accepted
    <3>1. \/ m = inHand
          \/ m > accepted - Len(q)
          \/ \E i \in 1 .. Len(delivered) : delivered[i] = m
          \/ m + Capacity <= accepted
      BY <2>3 DEF Accounted
    <3>2. CASE m > accepted - Len(q)
      <4>1. CASE Len(q) < Capacity
        <5>1. m > (accepted + 1) - Len(q') BY <1>3, <1>4, <2>3, <3>2, <4>1
        <5>2. QED BY <5>1
      <4>2. CASE Len(q) = Capacity
        <5>1. m > (accepted + 1) - Len(q') \/ m + Capacity <= accepted + 1
          BY <1>3, <1>4, <2>3, <3>2, <4>2, CapacityAssumption
        <5>2. QED BY <5>1
      <4>3. QED BY <1>4, <4>1, <4>2, CapacityAssumption
    <3>3. CASE m + Capacity <= accepted
      <4>1. m + Capacity <= accepted + 1 BY <1>4, <2>3, <3>3, CapacityAssumption
      <4>2. QED BY <4>1
    <3>4. QED BY <3>1, <3>2, <3>3
  <2>4. QED BY <1>4, <2>2, <2>3
<1>12. QED BY <1>1, <1>5, <1>6, <1>7, <1>10, <1>11

\* The hand-over moves the oldest message from the queue to the worker.
LEMMA PopStep == ASSUME IInv, WorkerPop PROVE IInv'
<1> USE DEF IInv
<1>1. /\ worker = "test" /\ q # <<>> /\ worker' = "deliver"
      /\ UNCHANGED <<owner, producer, stop, sinkUp, accepted, delivered, atStop>>
  BY DEF WorkerPop
<1>2. inHand' = Head(q) /\ q' = Tail(q) BY DEF WorkerPop
<1>3. Len(q) \in Nat \ {0} /\ Len(q) <= Capacity /\ accepted \in Nat /\ inHand = None
  BY <1>1, EmptySeq DEF TypeOK, Phases
<1>4. accepted - Len(q) \in Int BY <1>3
<1>5. /\ q' \in Seq(Messages) /\ Len(q') = Len(q) - 1
      /\ inHand' = (accepted - Len(q)) + 1
      /\ Run(q', (accepted - Len(q)) + 1)
  BY <1>1, <1>2, <1>4, TailRun DEF Contiguous, TypeOK
<1>6. inHand' \in Messages BY <1>1, <1>2, HeadTailProperties DEF TypeOK
<1>7. (accepted - Len(q)) + 1 = accepted - Len(q') BY <1>3, <1>5
<1>8. TypeOK'
  <2>1. Len(q') <= Capacity BY <1>3, <1>5, CapacityAssumption
  <2>2. QED BY <1>1, <1>5, <1>6, <2>1 DEF TypeOK
<1>9. Phases' /\ SinkPhase'
  <2>1. inHand' # None BY <1>6, MaxMessagesAssumption
  <2>2. QED BY <1>1, <2>1 DEF Phases, SinkPhase
<1>10. Contiguous' BY <1>1, <1>5, <1>7 DEF Contiguous
<1>11. LeftEmpty' BY <1>1 DEF LeftEmpty
<1>12. Accounted'
  <2>1. SUFFICES ASSUME NEW m \in 1 .. accepted
                 PROVE  \/ m = inHand'
                        \/ m > accepted - Len(q')
                        \/ \E i \in 1 .. Len(delivered) : delivered[i] = m
                        \/ m + Capacity <= accepted
    BY <1>1 DEF Accounted
  <2>2. m # inHand BY <1>3
  <2>3. CASE m > accepted - Len(q)
    <3>1. m = inHand' \/ m > accepted - Len(q') BY <1>3, <1>5, <2>3
    <3>2. QED BY <3>1
  <2>4. QED BY <2>2, <2>3 DEF Accounted
<1>13. QED BY <1>1, <1>8, <1>9, <1>10, <1>11, <1>12

\* The sink returns: the message in hand becomes the last one delivered.
LEMMA DeliverStep == ASSUME IInv, WorkerDeliver PROVE IInv'
<1> USE DEF IInv
<1>1. /\ worker = "deliver" /\ delivered' = Append(delivered, inHand)
      /\ inHand' = None /\ worker' = "test"
      /\ UNCHANGED <<owner, producer, stop, q, sinkUp, accepted, atStop>>
  BY DEF WorkerDeliver
<1>2. inHand \in Messages BY <1>1 DEF TypeOK, Phases
<1>3. /\ delivered' \in Seq(Messages) /\ Len(delivered') = Len(delivered) + 1
      /\ \A i \in 1 .. Len(delivered) : delivered'[i] = delivered[i]
      /\ delivered'[Len(delivered) + 1] = inHand
      /\ Len(delivered) \in Nat
  BY <1>1, <1>2, AppendProperties, LenProperties DEF TypeOK
<1>4. TypeOK' BY <1>1, <1>3 DEF TypeOK
<1>5. Phases' /\ SinkPhase' BY <1>1 DEF Phases, SinkPhase
<1>6. Contiguous' /\ LeftEmpty' BY <1>1 DEF Contiguous, LeftEmpty
<1>7. Accounted'
  <2>1. SUFFICES ASSUME NEW m \in 1 .. accepted
                 PROVE  \/ m > accepted - Len(q)
                        \/ \E i \in 1 .. Len(delivered') : delivered'[i] = m
                        \/ m + Capacity <= accepted
    BY <1>1 DEF Accounted
  <2>2. CASE m = inHand
    <3>1. Len(delivered) + 1 \in 1 .. Len(delivered') BY <1>3
    <3>2. QED BY <1>3, <2>2, <3>1
  <2>3. CASE \E i \in 1 .. Len(delivered) : delivered[i] = m
    <3>1. PICK i \in 1 .. Len(delivered) : delivered[i] = m BY <2>3
    <3>2. i \in 1 .. Len(delivered') /\ delivered'[i] = m BY <1>3, <3>1
    <3>3. QED BY <3>2
  <2>4. QED BY <2>2, <2>3 DEF Accounted
<1>8. QED BY <1>1, <1>4, <1>5, <1>6, <1>7

\* Every step preserves the inductive invariant.
LEMMA NextIInv == IInv /\ [Next]_vars => IInv'
<1> SUFFICES ASSUME IInv, [Next]_vars PROVE IInv'
  OBVIOUS
<1>1. CASE StartClear BY <1>1, StartClearStep
<1>2. CASE EnqueuePush BY <1>2, PushStep
<1>3. CASE WorkerPop BY <1>3, PopStep
<1>4. CASE WorkerDeliver BY <1>4, DeliverStep
<1>5. CASE \/ StartInner \/ StartSpawn \/ StopStore \/ StopNotify
           \/ StopJoin \/ StopInner \/ EnqueueCall \/ EnqueueNotify
           \/ WorkerTestFails \/ WorkerBlock \/ SpuriousWakeup \/ WorkerExit
           \/ UNCHANGED vars
  BY <1>5, ControlSteps
<1>6. QED
  BY <1>1, <1>2, <1>3, <1>4, <1>5
  DEF Next, OwnerStep, ProducerStep, WorkerStep, Terminated

\* The inductive invariant holds in every reachable state.
THEOREM Invariance == Spec => []IInv
  BY InitIInv, NextIInv, PTL DEF Spec

-----------------------------------------------------------------------------
(* What it implies *)

\* start(), stop(), enqueue() and run() keep every variable in its type; the
\* queue never holds more than Capacity messages.
THEOREM TypeCorrect == Spec => []TypeOK
<1>1. IInv => TypeOK BY DEF IInv
<1>2. QED BY <1>1, Invariance, PTL

\* The worker never delivers into a sink that is not started or is stopped.
THEOREM SinkSafe == Spec => []SinkUpWhileDelivering
<1>1. IInv => SinkUpWhileDelivering
  BY DEF IInv, Phases, SinkPhase, SinkUpWhileDelivering
<1>2. QED BY <1>1, Invariance, PTL

\* When stop() has joined the worker, nothing accepted before the call is left.
THEOREM Drains == Spec => []StopDrains
<1>1. IInv => StopDrains
  <2>1. SUFFICES ASSUME IInv, owner \in {"stop_inner", "stopped"}
                 PROVE  inHand = None /\ \A i \in DOMAIN q : q[i] > atStop
    BY DEF StopDrains
  <2>2. worker \in {"none", "exited"} /\ inHand = None
    BY <2>1 DEF IInv, Phases
  <2>3. /\ Len(q) \in Nat /\ DOMAIN q = 1 .. Len(q)
        /\ accepted \in Nat /\ atStop \in Nat
    BY <2>1, LenProperties, MaxMessagesAssumption DEF IInv, TypeOK
  <2>4. atStop <= accepted - Len(q) BY <2>1, <2>2 DEF IInv, LeftEmpty
  <2>5. ASSUME NEW i \in 1 .. Len(q) PROVE q[i] > atStop
    <3>1. q[i] = accepted - Len(q) + i BY <2>1 DEF IInv, Contiguous, Run
    <3>2. QED BY <2>3, <2>4, <3>1
  <2>6. QED BY <2>2, <2>3, <2>5
<1>2. QED BY <1>1, Invariance, PTL

\* A message disappears only for Capacity newer ones.
THEOREM LossIsOverflow == Spec => []LostOnlyByOverflow
<1>1. IInv => LostOnlyByOverflow
  <2>1. SUFFICES ASSUME IInv, NEW m \in Lost PROVE m + Capacity <= accepted
    BY DEF LostOnlyByOverflow
  <2>2. /\ m \in 1 .. accepted /\ m # inHand
        /\ \A i \in DOMAIN q : q[i] # m
        /\ \A i \in DOMAIN delivered : delivered[i] # m
    BY DEF Lost
  <2>3. /\ Len(q) \in Nat /\ DOMAIN q = 1 .. Len(q) /\ accepted \in Nat
        /\ DOMAIN delivered = 1 .. Len(delivered)
    BY <2>1, LenProperties, MaxMessagesAssumption DEF IInv, TypeOK
  <2>4. ~ (m > accepted - Len(q))
    <3>1. SUFFICES ASSUME m > accepted - Len(q) PROVE FALSE
      OBVIOUS
    <3>2. m - (accepted - Len(q)) \in 1 .. Len(q) BY <2>2, <2>3, <3>1
    <3>3. q[m - (accepted - Len(q))] = accepted - Len(q) + (m - (accepted - Len(q)))
      BY <2>1, <3>2 DEF IInv, Contiguous, Run
    <3>4. q[m - (accepted - Len(q))] = m BY <2>2, <2>3, <3>3
    <3>5. QED BY <2>2, <2>3, <3>2, <3>4
  <2>5. QED BY <2>1, <2>2, <2>3, <2>4 DEF IInv, Accounted
<1>2. QED BY <1>1, Invariance, PTL

\* Messages move by the push, the pop and the delivery only: a start() clears a queue
\* that is empty, and nobody else touches the deque, the hand or the sink's record.
LEMMA MovesNoMessage ==
  ASSUME IInv, [Next]_vars, ~EnqueuePush, ~WorkerPop, ~WorkerDeliver
  PROVE  UNCHANGED <<q, accepted, inHand, delivered>>
<1>1. CASE OwnerStep
  BY <1>1 DEF OwnerStep, StartClear, StartInner, StartSpawn, StopStore, StopNotify,
              StopJoin, StopInner, IInv, Phases
<1>2. CASE ProducerStep BY <1>2 DEF ProducerStep, EnqueueCall, EnqueueNotify
<1>3. CASE WorkerStep
  BY <1>3 DEF WorkerStep, WorkerTestFails, WorkerBlock, SpuriousWakeup, WorkerExit
<1>4. QED BY <1>1, <1>2, <1>3 DEF Next, Terminated, vars

\* AsyncPublisher implements the drop-old queue: EnqueuePush is its Put,
\* WorkerPop its Get, and every other step of the three threads a stutter.
THEOREM Implements == Spec => ImplementsDropOld
<1>1. Init => Abstract!Init
  BY DEF Init, Abstract!Init, LastHanded
<1>2. IInv /\ [Next]_vars => [Abstract!Next]_(Abstract!vars)
  <2> SUFFICES ASSUME IInv, [Next]_vars PROVE [Abstract!Next]_(Abstract!vars)
    OBVIOUS
  <2> USE DEF Abstract!Next, Abstract!vars
  <2>1. CASE EnqueuePush
    <3>1. /\ accepted < MaxMessages
          /\ accepted' = accepted + 1
          /\ q' = Append(MakeRoom(q), accepted + 1)
          /\ LastHanded' = LastHanded
      BY <2>1 DEF EnqueuePush, IInv, LastHanded
    <3>2. MakeRoom(q) = IF Len(q) = Capacity THEN Tail(q) ELSE q
      BY MakeRoomTail DEF IInv, TypeOK
    <3>3. Abstract!Put BY <3>1, <3>2 DEF Abstract!Put
    <3>4. QED BY <3>3
  <2>2. CASE WorkerPop
    <3>1. /\ q # <<>> /\ inHand' = Head(q) /\ q' = Tail(q) /\ accepted' = accepted
      BY <2>2 DEF WorkerPop
    <3>2. Head(q) # None
      BY <3>1, HeadTailProperties, MaxMessagesAssumption DEF IInv, TypeOK
    <3>3. LastHanded' = Head(q) BY <3>1, <3>2 DEF LastHanded
    <3>4. Abstract!Get BY <3>1, <3>3 DEF Abstract!Get
    <3>5. QED BY <3>4
  <2>3. CASE WorkerDeliver
    <3>1. /\ inHand # None /\ inHand \in Messages
      BY <2>3 DEF WorkerDeliver, IInv, TypeOK, Phases
    <3>2. /\ delivered' = Append(delivered, inHand) /\ inHand' = None
          /\ q' = q /\ accepted' = accepted
      BY <2>3 DEF WorkerDeliver
    <3>3. /\ delivered' # <<>> /\ delivered'[Len(delivered')] = inHand
      BY <3>1, <3>2, AppendProperties DEF IInv, TypeOK
    <3>4. LastHanded' = LastHanded BY <3>1, <3>2, <3>3 DEF LastHanded
    <3>5. QED BY <3>2, <3>4
  <2>4. CASE ~EnqueuePush /\ ~WorkerPop /\ ~WorkerDeliver
    BY <2>4, MovesNoMessage DEF LastHanded
  <2>5. QED BY <2>1, <2>2, <2>3, <2>4
<1>3. QED BY <1>1, <1>2, Invariance, PTL DEF Spec, Abstract!Spec, ImplementsDropOld
-----------------------------------------------------------------------------
(* No lost wakeup *)

\* The worker holds the mutex from the test that found nothing until it sleeps, so
\* a push can only come before that test or after the wait has begun; in the latter
\* case the notification is still to come.
Notified ==
  /\ worker = "block" => q = <<>>
  /\ NeverAsleepOnWork

\* enqueue() never leaves the worker asleep with a message in the queue.
THEOREM WakesUp == Spec => []NeverAsleepOnWork
<1>1. Init => Notified BY DEF Init, Notified, NeverAsleepOnWork
<1>2. IInv /\ Notified /\ [Next]_vars => Notified'
  <2> SUFFICES ASSUME IInv, Notified, [Next]_vars PROVE Notified'
    OBVIOUS
  <2> USE DEF Notified, NeverAsleepOnWork, IInv, Phases
  <2>1. CASE OwnerStep
    BY <2>1 DEF OwnerStep, StartClear, StartInner, StartSpawn, StopStore,
                StopNotify, StopJoin, StopInner
  <2>2. CASE ProducerStep
    BY <2>2 DEF ProducerStep, EnqueueCall, EnqueuePush, EnqueueNotify, MutexFree
  <2>3. CASE WorkerStep
    BY <2>3 DEF WorkerStep, WorkerTestFails, WorkerBlock, SpuriousWakeup,
                WorkerExit, WorkerPop, WorkerDeliver
  <2>4. CASE UNCHANGED vars BY <2>4 DEF vars
  <2>5. QED BY <2>1, <2>2, <2>3, <2>4 DEF Next, Terminated
<1>3. Notified => NeverAsleepOnWork BY DEF Notified
<1>4. QED BY <1>1, <1>2, <1>3, Invariance, PTL DEF Spec

-----------------------------------------------------------------------------
(* Order of delivery *)

\* What has been delivered is increasing and older than what is in hand, which is
\* the message just before the queue's or an older one.
Behind ==
  /\ \A i, j \in 1 .. Len(delivered) : i < j => delivered[i] < delivered[j]
  /\ \A j \in 1 .. Len(delivered) :
       /\ delivered[j] <= accepted - Len(q)
       /\ inHand # None => delivered[j] < inHand
  /\ inHand <= accepted - Len(q)

\* The delivered messages are numbers.
LEMMA DeliveredAre ==
  ASSUME IInv
  PROVE  /\ Len(delivered) \in Nat
         /\ \A j \in 1 .. Len(delivered) : delivered[j] \in Nat
<1>1. delivered \in Seq(Messages) BY DEF IInv, TypeOK
<1>2. ASSUME NEW j \in 1 .. Len(delivered) PROVE delivered[j] \in Messages
  BY <1>1, ElementOfSeq
<1>3. QED BY <1>1, <1>2, LenProperties

\* A push, whether it makes room or not, puts nothing at or before the ones behind.
LEMMA PushBehind == ASSUME IInv, Behind, EnqueuePush PROVE Behind'
<1>1. /\ UNCHANGED <<inHand, delivered>> /\ accepted' = accepted + 1
      /\ q' = Append(MakeRoom(q), accepted + 1) /\ accepted < MaxMessages
  BY DEF EnqueuePush, IInv
<1>2. /\ q' \in Seq(Messages)
      /\ Len(q) < Capacity => Len(q') = Len(q) + 1
      /\ Len(q) = Capacity => Len(q') = Capacity
  BY <1>1, PushKeepsRecent DEF IInv
<1>3. /\ Len(q) \in Nat /\ Len(q) <= Capacity /\ accepted \in Nat /\ inHand \in Nat
      /\ delivered \in Seq(Messages)
  BY LenProperties, MaxMessagesAssumption DEF IInv, TypeOK
<1>4. accepted - Len(q) <= accepted' - Len(q')
  BY <1>1, <1>2, <1>3, CapacityAssumption
<1>5. /\ Len(q') \in Nat /\ accepted' \in Nat
      /\ \A j \in 1 .. Len(delivered) : delivered[j] \in Nat
  BY <1>1, <1>2, <1>3, LenProperties, DeliveredAre
<1>6. QED BY <1>1, <1>3, <1>4, <1>5 DEF Behind

\* The message taken is the one just before what stays queued.
LEMMA PopBehind == ASSUME IInv, Behind, WorkerPop PROVE Behind'
<1>1. /\ q # <<>> /\ inHand' = Head(q) /\ q' = Tail(q)
      /\ UNCHANGED <<delivered, accepted>>
  BY DEF WorkerPop
<1>2. /\ Len(q) \in Nat \ {0} /\ accepted \in Nat /\ q \in Seq(Messages)
      /\ delivered \in Seq(Messages)
  BY <1>1, EmptySeq, MaxMessagesAssumption DEF IInv, TypeOK
<1>3. accepted - Len(q) \in Int BY <1>2
<1>4. Len(q') = Len(q) - 1 /\ inHand' = (accepted - Len(q)) + 1
  BY <1>1, <1>2, <1>3, TailRun DEF IInv, Contiguous
<1>5. \A j \in 1 .. Len(delivered) : delivered[j] \in Nat
  BY DeliveredAre
<1>6. QED BY <1>1, <1>2, <1>4, <1>5 DEF Behind

\* The message delivered is younger than those before it.
LEMMA DeliverBehind == ASSUME IInv, Behind, WorkerDeliver PROVE Behind'
<1>1. /\ inHand # None /\ inHand \in Messages /\ inHand' = None
      /\ delivered' = Append(delivered, inHand) /\ UNCHANGED <<q, accepted>>
  BY DEF WorkerDeliver, IInv, TypeOK, Phases
<1>2. /\ Len(delivered) \in Nat /\ Len(delivered') = Len(delivered) + 1
      /\ \A i \in 1 .. Len(delivered) : delivered'[i] = delivered[i]
      /\ delivered'[Len(delivered) + 1] = inHand
  BY <1>1, AppendProperties, LenProperties DEF IInv, TypeOK
<1>3. Len(q) \in Nat /\ accepted \in Nat
  BY LenProperties, MaxMessagesAssumption DEF IInv, TypeOK
<1>4. ASSUME NEW i \in 1 .. Len(delivered'), NEW j \in 1 .. Len(delivered'), i < j
      PROVE  delivered'[i] < delivered'[j]
  <2>1. i \in 1 .. Len(delivered) BY <1>2, <1>4
  <2>2. CASE j = Len(delivered) + 1 BY <1>1, <1>2, <2>1, <2>2 DEF Behind
  <2>3. CASE j \in 1 .. Len(delivered) BY <1>2, <1>4, <2>1, <2>3 DEF Behind
  <2>4. QED BY <1>2, <2>2, <2>3
<1>5. ASSUME NEW j \in 1 .. Len(delivered') PROVE delivered'[j] <= accepted - Len(q)
  <2>1. CASE j = Len(delivered) + 1 BY <1>2, <2>1 DEF Behind
  <2>2. CASE j \in 1 .. Len(delivered) BY <1>2, <2>2 DEF Behind
  <2>3. QED BY <1>2, <2>1, <2>2
<1>6. 0 <= accepted - Len(q)
  BY <1>1, <1>3, MaxMessagesAssumption DEF Behind
<1>7. QED BY <1>1, <1>4, <1>5, <1>6 DEF Behind

\* The wrapped sink gets the messages in order, each at most once.
THEOREM InOrderToSink == Spec => []DeliveredInOrder
<1>1. Init => Behind
  <2> SUFFICES ASSUME Init PROVE Behind
    OBVIOUS
  <2>1. Len(q) = 0 /\ Len(delivered) = 0 /\ inHand = 0 /\ accepted = 0
    BY EmptySeq DEF Init
  <2>2. QED BY <2>1 DEF Behind
<1>2. IInv /\ Behind /\ [Next]_vars => Behind'
  <2> SUFFICES ASSUME IInv, Behind, [Next]_vars PROVE Behind'
    OBVIOUS
  <2>1. CASE ~EnqueuePush /\ ~WorkerPop /\ ~WorkerDeliver
    BY <2>1, MovesNoMessage DEF Behind
  <2>2. QED BY <2>1, PushBehind, PopBehind, DeliverBehind
<1>3. IInv /\ Behind => DeliveredInOrder
  <2> SUFFICES ASSUME IInv, Behind, NEW j \in 1 .. Len(delivered)
               PROVE  /\ \A i \in 1 .. Len(delivered) : i < j => delivered[i] < delivered[j]
                      /\ inHand # None => delivered[j] < inHand
                      /\ \A i \in 1 .. Len(q) : delivered[j] < q[i]
    BY LenProperties DEF DeliveredInOrder, IInv, TypeOK
  <2>1. /\ Len(q) \in Nat /\ accepted \in Nat /\ delivered[j] \in Messages
    BY LenProperties, ElementOfSeq, MaxMessagesAssumption DEF IInv, TypeOK
  <2>2. ASSUME NEW i \in 1 .. Len(q) PROVE delivered[j] < q[i]
    <3>1. q[i] = accepted - Len(q) + i BY DEF IInv, Contiguous, Run
    <3>2. delivered[j] <= accepted - Len(q) BY DEF Behind
    <3>3. QED BY <2>1, <3>1, <3>2
  <2>3. QED BY <2>2 DEF Behind
<1>4. QED BY <1>1, <1>2, <1>3, Invariance, PTL DEF Spec
=============================================================================
