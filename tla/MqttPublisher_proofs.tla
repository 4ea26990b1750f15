------------------------ MODULE MqttPublisher_proofs ------------------------
(***************************************************************************)
(* For every number of results and starts: a message is about one result,  *)
(* the messages do not go back in time, and the timer never uses a client  *)
(* that is not there.                                                      *)
(***************************************************************************)
EXTENDS MqttPublisher, TLAPS

\* The strengthening: who holds the mutex, what is whole while nobody or only the
\* timer holds it, and which threads there are while the owner is where.
Locked ==
  /\ m = "worker" <=> worker = "tracks"
  /\ m = "tick" <=> tick = "body"

Whole ==
  /\ worker = "idle" => last.header = last.tracks
  /\ tick = "body" => payload.header = last.header
  /\ MessageIsWhole

Alive ==
  /\ owner \in {"on", "join"} => client
  /\ tick = "none" <=> owner \in {"off", "loop_stop"}

IInv == TypeOK /\ Locked /\ Whole /\ Alive

\* The initial state satisfies it, and every step preserves it.
LEMMA InitIInv == Init => IInv
<1> SUFFICES ASSUME Init PROVE IInv
  OBVIOUS
<1> USE BoundsAssumption DEF Init, Nothing, Results, Payloads
<1>1. TypeOK
  <2>1. Nothing \in Payloads OBVIOUS
  <2>2. starts \in 0 .. MaxStarts OBVIOUS
  <2>3. last \in Payloads /\ payload \in Payloads /\ sent \in Payloads BY <2>1
  <2>4. QED BY <2>2, <2>3 DEF TypeOK
<1>2. Locked /\ Whole /\ Alive BY DEF Locked, Whole, MessageIsWhole, Alive
<1>3. QED BY <1>1, <1>2 DEF IInv

\* Every step of the owner, the supervisor and the timer preserves it.
LEMMA NextIInv == IInv /\ [Next]_vars => IInv'
<1> SUFFICES ASSUME IInv, [Next]_vars PROVE IInv'
  OBVIOUS
<1> USE BoundsAssumption
        DEF IInv, TypeOK, Locked, Whole, MessageIsWhole, Alive, Results, Payloads, timer
<1>1. CASE Start       BY <1>1 DEF Start
<1>2. CASE StartFails  BY <1>2 DEF StartFails
<1>3. CASE Stop        BY <1>3 DEF Stop
<1>4. CASE StopJoin    BY <1>4 DEF StopJoin
<1>5. CASE StopClient  BY <1>5 DEF StopClient
<1>6. CASE StoreHeader BY <1>6 DEF StoreHeader
<1>7. CASE StoreTracks BY <1>7 DEF StoreTracks
<1>8. CASE TickTest    BY <1>8 DEF TickTest
<1>9. CASE TickWake    BY <1>9 DEF TickWake
<1>10. CASE CopyHeader  BY <1>10 DEF CopyHeader
<1>11. CASE CopyTracks  BY <1>11 DEF CopyTracks
<1>12. CASE SendTaken   BY <1>12 DEF SendTaken
<1>13. CASE SendRefused BY <1>13 DEF SendRefused
<1>14. CASE UNCHANGED vars BY <1>14 DEF vars
<1>15. QED BY <1>1, <1>2, <1>3, <1>4, <1>5, <1>6, <1>7, <1>8, <1>9, <1>10, <1>11,
              <1>12, <1>13, <1>14 DEF Next, Owner, Timer

\* The inductive invariant holds in every reachable state.
THEOREM Invariance == Spec => []IInv
  BY InitIInv, NextIInv, PTL DEF Spec

\* Every variable keeps its type.
THEOREM TypeCorrect == Spec => []TypeOK
<1>1. IInv => TypeOK BY DEF IInv
<1>2. QED BY <1>1, Invariance, PTL

\* The header of every message counts the tracks of that message.
THEOREM MessagesWhole == Spec => []MessageIsWhole
<1>1. IInv => MessageIsWhole BY DEF IInv, Whole
<1>2. QED BY <1>1, Invariance, PTL

\* stop() takes the client away only when the timer thread is gone.
THEOREM ClientSafe == Spec => []ClientOutlivesTimer
<1>1. IInv => ClientOutlivesTimer BY DEF IInv, TypeOK, Alive, ClientOutlivesTimer
<1>2. QED BY <1>1, Invariance, PTL

-----------------------------------------------------------------------------
(* The order of the messages *)

\* A result goes from the slot to the formatted message and on to the client, so each
\* is at least as old as the one before it on this way.
Older ==
  /\ sent.header <= payload.header /\ payload.header <= last.header
  /\ sent.tracks <= last.header

\* A subscriber never sees an older result after a newer one, although the timer sends
\* what it formatted earlier, while newer results are stored, and over restarts.
THEOREM NeverOlder == Spec => MessagesForward
<1>1. Init => Older BY DEF Init, Older, Nothing
<1>2. IInv /\ Older /\ [Next]_vars
        => Older' /\ [sent.header <= sent'.header /\ sent'.header <= last.header]_vars
  <2> SUFFICES ASSUME IInv, Older, [Next]_vars
               PROVE  /\ Older'
                      /\ sent.header <= sent'.header /\ sent'.header <= last.header
    OBVIOUS
  <2> USE BoundsAssumption
          DEF Older, IInv, TypeOK, Locked, Whole, MessageIsWhole, Results, Payloads, timer
  <2>1. CASE Owner
    BY <2>1 DEF Owner, Start, StartFails, Stop, StopJoin, StopClient
  <2>2. CASE StoreHeader BY <2>2 DEF StoreHeader
  <2>3. CASE StoreTracks BY <2>3 DEF StoreTracks
  <2>4. CASE TickTest \/ TickWake \/ SendRefused
    BY <2>4 DEF TickTest, TickWake, SendRefused
  <2>5. CASE CopyHeader BY <2>5 DEF CopyHeader
  <2>6. CASE CopyTracks BY <2>6 DEF CopyTracks
  <2>7. CASE SendTaken BY <2>7 DEF SendTaken
  <2>8. CASE UNCHANGED vars BY <2>8 DEF vars
  <2>9. QED BY <2>1, <2>2, <2>3, <2>4, <2>5, <2>6, <2>7, <2>8 DEF Next, Timer
<1>3. QED BY <1>1, <1>2, Invariance, PTL DEF Spec, MessagesForward
=============================================================================
