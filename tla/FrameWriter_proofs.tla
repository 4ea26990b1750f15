------------------------- MODULE FrameWriter_proofs -------------------------
(***************************************************************************)
(* For every capacity and every number of frames: the producer and the     *)
(* writer never meet in a slot of the ring, the ring with its two threads  *)
(* implements BoundedDropNew, frames are encoded in order, and none is     *)
(* left when the destructor is done.                                       *)
(***************************************************************************)
EXTENDS FrameWriter, SequenceTheorems, TLAPS

-----------------------------------------------------------------------------
(* Arithmetic of the ring *)

\* The slot i places after the first one in use.
At(i) == (tail + i) % Size

\* What the remainders are, without remainders.
LEMMA AfterIs ==
  ASSUME NEW i \in Slots
  PROVE  After(i) = IF i = Size - 1 THEN 0 ELSE i + 1
<1>1. CASE i = Size - 1 BY <1>1, SizeAssumption DEF After, Slots
<1>2. CASE i # Size - 1 BY <1>2, SizeAssumption DEF After, Slots
<1>3. QED BY <1>1, <1>2

\* The distance between two indices of the ring, either way round.
LEMMA DistanceIs ==
  ASSUME NEW h \in Slots, NEW t \in Slots
  PROVE  (h + Size - t) % Size = IF t <= h THEN h - t ELSE h + Size - t
<1>1. CASE t <= h
  <2>1. (h - t + Size) % Size = (h - t) % Size
    BY <1>1, SizeAssumption DEF Slots
  <2>2. QED BY <1>1, <2>1, SizeAssumption DEF Slots
<1>2. CASE t > h BY <1>2, SizeAssumption DEF Slots
<1>3. QED BY <1>1, <1>2, SizeAssumption DEF Slots

\* Going round from the distance leads back to the index.
LEMMA WrapIs ==
  ASSUME NEW t \in Slots, NEW i \in Slots
  PROVE  (t + i) % Size = IF t + i < Size THEN t + i ELSE t + i - Size
<1>1. CASE t + i < Size BY <1>1, SizeAssumption DEF Slots
<1>2. CASE t + i >= Size
  <2>1. (t + i - Size + Size) % Size = (t + i - Size) % Size
    BY <1>2, SizeAssumption DEF Slots
  <2>2. QED BY <1>2, <2>1, SizeAssumption DEF Slots
<1>3. QED BY <1>1, <1>2, SizeAssumption DEF Slots

\* A place below the distance is a slot between the two indices.
LEMMA AtIs ==
  ASSUME tail \in Slots, NEW i \in Slots
  PROVE  At(i) = IF tail + i < Size THEN tail + i ELSE tail + i - Size
  BY WrapIs DEF At

-----------------------------------------------------------------------------
(* The strengthening *)

\* The slots that hold accepted frames, from tail up to head.
InUse(i) == IF tail <= head THEN tail <= i /\ i < head ELSE tail <= i \/ i < head

\* A slot in use holds a frame, less the one the writer has emptied; any other slot
\* holds none, less the one the producer has filled.
SlotsHold ==
  \A i \in Slots :
    /\ InUse(i) /\ ~(writer = "advance" /\ i = tail) => buffer[i] # NoFrame
    /\ ~InUse(i) /\ ~(producer = "advance" /\ i = head) => buffer[i] = NoFrame
    /\ InUse(i) => IF producer \in {"check", "fill", "advance"}
                   THEN buffer[i] < offered ELSE buffer[i] <= offered

\* Where a thread is says what it has found, and that only it can change.
AtWork ==
  /\ writer \in {"read", "advance"} => head # tail
  /\ writer = "advance" => buffer[tail] = NoFrame
  /\ item # NoFrame <=> writer \in {"advance", "encode"}
  /\ producer \in {"fill", "advance"} => After(head) # tail
  /\ producer = "advance" => buffer[head] = offered
  /\ producer \in {"check", "fill", "advance"} => offered > 0 /\ item < offered /\ handled < offered
  /\ item <= offered /\ handled <= offered

IInv == TypeOK /\ SlotsHold /\ AtWork

\* The initial state satisfies it.
LEMMA InitIInv == Init => IInv
<1> SUFFICES ASSUME Init PROVE IInv
  OBVIOUS
<1> USE SizeAssumption, BoundsAssumption DEF Init, Slots, Frames, NoFrame
<1>1. TypeOK BY DEF TypeOK
<1>2. SlotsHold /\ AtWork BY DEF SlotsHold, AtWork, InUse
<1>3. QED BY <1>1, <1>2 DEF IInv

\* Every step of the producer preserves it, whatever the writer is doing.
LEMMA ProducerKeeps == IInv /\ (SkipFrame \/ OfferFrame \/ FlushCall \/ Destroy \/ ProducerRuns) => IInv'
<1> SUFFICES ASSUME IInv, SkipFrame \/ OfferFrame \/ FlushCall \/ Destroy \/ ProducerRuns
             PROVE  IInv'
  OBVIOUS
<1> USE SizeAssumption, BoundsAssumption
        DEF IInv, TypeOK, SlotsHold, AtWork, InUse, Slots, Frames, NoFrame, ring, Producer
<1>1. CASE SkipFrame    BY <1>1 DEF SkipFrame, After
<1>2. CASE OfferFrame   BY <1>2 DEF OfferFrame, After
<1>3. CASE FlushCall    BY <1>3 DEF FlushCall, After
<1>4. CASE Destroy      BY <1>4 DEF Destroy, After
<1>5. CASE CheckFull    BY <1>5 DEF CheckFull, Full, After
<1>6. CASE Fill         BY <1>6 DEF Fill, After
<1>7. CASE AdvanceHead
  <2>1. After(head) = IF head = Size - 1 THEN 0 ELSE head + 1 BY AfterIs
  <2>2. QED BY <1>7, <2>1 DEF AdvanceHead
<1>8. CASE FlushPoll    BY <1>8 DEF FlushPoll, After
<1>9. CASE DestroyJoins BY <1>9 DEF DestroyJoins, After
<1>10. QED BY <1>1, <1>2, <1>3, <1>4, <1>5, <1>6, <1>7, <1>8, <1>9 DEF ProducerRuns

\* Every step of the writer preserves it, whatever the producer is doing.
LEMMA WriterKeeps == IInv /\ WriterRuns => IInv'
<1> SUFFICES ASSUME IInv, WriterRuns PROVE IInv'
  OBVIOUS
<1> USE SizeAssumption, BoundsAssumption
        DEF IInv, TypeOK, SlotsHold, AtWork, InUse, Slots, Frames, NoFrame, ring, Writer
<1>1. CASE LoopTest      BY <1>1 DEF LoopTest, After
<1>2. CASE LoopTestEmpty BY <1>2 DEF LoopTestEmpty, After
<1>3. CASE CheckEmpty    BY <1>3 DEF CheckEmpty, After
<1>4. CASE Read          BY <1>4 DEF Read, After
<1>5. CASE AdvanceTail
  <2>1. After(tail) = IF tail = Size - 1 THEN 0 ELSE tail + 1 BY AfterIs
  <2>2. After(head) = IF head = Size - 1 THEN 0 ELSE head + 1 BY AfterIs
  <2>3. QED BY <1>5, <2>1, <2>2 DEF AdvanceTail
<1>6. CASE Encode        BY <1>6 DEF Encode, After
<1>7. QED BY <1>1, <1>2, <1>3, <1>4, <1>5, <1>6 DEF WriterRuns

\* Every step preserves the inductive invariant.
LEMMA NextIInv == IInv /\ [Next]_vars => IInv'
<1>1. IInv /\ UNCHANGED vars => IInv'
  BY DEF vars, ring, IInv, TypeOK, SlotsHold, AtWork, InUse, After
<1>2. QED BY <1>1, ProducerKeeps, WriterKeeps DEF Next

\* The inductive invariant holds in every reachable state.
THEOREM Invariance == Spec => []IInv
  BY InitIInv, NextIInv, PTL DEF Spec

\* Every variable keeps its type: the indices stay in the ring.
THEOREM TypeCorrect == Spec => []TypeOK
<1>1. IInv => TypeOK BY DEF IInv
<1>2. QED BY <1>1, Invariance, PTL

\* The two threads never use the same slot at the same time.
THEOREM Exclusive == Spec => []SlotExclusive
<1>1. IInv => SlotExclusive
  <2> SUFFICES ASSUME IInv PROVE SlotExclusive
    OBVIOUS
  <2>1. writer = "read" => InUse(tail) BY SizeAssumption DEF IInv, TypeOK, AtWork, InUse, Slots
  <2>2. ~InUse(head) BY SizeAssumption DEF IInv, TypeOK, InUse, Slots
  <2>3. QED BY <2>1, <2>2 DEF IInv, TypeOK, SlotsHold, AtWork, SlotExclusive
<1>2. QED BY <1>1, Invariance, PTL

-----------------------------------------------------------------------------
(* The refinement *)

\* The slot the writer has emptied and not given back yet.
Gone == IF writer = "advance" THEN 1 ELSE 0

\* Held, written element by element.
InOrder == [i \in 1 .. Count - Gone |-> buffer[At(i - 1 + Gone)]]

\* The places from 0 up to Count are the slots from tail up to head.
LEMMA PlacesAre ==
  ASSUME TypeOK
  PROVE  /\ Count \in 0 .. Size - 1
         /\ Count = 0 <=> head = tail
         /\ \A k \in 0 .. Count - 1 : At(k) \in Slots /\ InUse(At(k)) /\ (At(k) = tail <=> k = 0)
         /\ At(Count) = head
<1> USE SizeAssumption DEF TypeOK, Slots
<1>1. Count = IF tail <= head THEN head - tail ELSE head + Size - tail
  BY DistanceIs DEF Count
<1>2. \A k \in Slots : At(k) = IF tail + k < Size THEN tail + k ELSE tail + k - Size BY AtIs
<1>3. Count \in 0 .. Size - 1 /\ (Count = 0 <=> head = tail) BY <1>1
<1>4. ASSUME NEW k \in 0 .. Count - 1
      PROVE  At(k) \in Slots /\ InUse(At(k)) /\ (At(k) = tail <=> k = 0)
  <2>1. At(k) = IF tail + k < Size THEN tail + k ELSE tail + k - Size BY <1>2, <1>3
  <2>2. QED BY <1>1, <2>1 DEF InUse
<1>5. At(Count) = head BY <1>1, <1>2, <1>3
<1>6. QED BY <1>3, <1>4, <1>5

\* Two sequences of frames with the same elements are the same.
LEMMA SameFrames ==
  ASSUME NEW s \in Seq(Frames), NEW t \in Seq(Frames), Len(s) = Len(t),
         \A i \in 1 .. Len(s) : s[i] = t[i]
  PROVE  s = t
  BY SeqEqual

\* The accepted frames not yet read form a queue of Count - Gone frames.
LEMMA InOrderIs ==
  ASSUME IInv
  PROVE  /\ Count - Gone \in 0 .. Size - 1
         /\ InOrder \in Seq(Frames) /\ Len(InOrder) = Count - Gone
         /\ Held = InOrder
<1>1. /\ Count \in 0 .. Size - 1
      /\ Count = 0 <=> head = tail
      /\ \A k \in 0 .. Count - 1 : At(k) \in Slots
  BY PlacesAre DEF IInv
<1>2. Gone \in {0, 1} /\ (Gone = 1 <=> writer = "advance") /\ Gone <= Count
  BY <1>1 DEF Gone, IInv, AtWork
<1>3. Count - Gone \in 0 .. Size - 1 BY <1>1, <1>2, SizeAssumption
<1>4. ASSUME NEW i \in 1 .. Count - Gone PROVE buffer[At(i - 1 + Gone)] \in Frames
  <2>1. i - 1 + Gone \in 0 .. Count - 1 BY <1>1, <1>2
  <2>2. QED BY <1>1, <2>1 DEF IInv, TypeOK
<1>5. InOrder \in Seq(Frames) /\ Len(InOrder) = Count - Gone
  BY <1>3, <1>4 DEF InOrder
<1>6. Waiting = [i \in 1 .. Count |-> buffer[At(i - 1)]]
  <2>1. \A i \in 1 .. Count : tail + i - 1 = tail + (i - 1)
    BY <1>1 DEF IInv, TypeOK, Slots
  <2>2. QED BY <2>1 DEF Waiting, At
<1>7. CASE writer # "advance"
  <2>1. \A i \in 1 .. Count : i - 1 + Gone = i - 1 BY <1>1, <1>2, <1>7
  <2>2. Count - Gone = Count BY <1>1, <1>2, <1>7
  <2>3. Waiting = InOrder BY <1>6, <2>1, <2>2 DEF InOrder
  <2>4. QED BY <1>3, <1>5, <1>7, <2>3 DEF Held
<1>8. CASE writer = "advance"
  <2>1. \A i \in 1 .. Count : buffer[At(i - 1)] \in Frames
    BY <1>1 DEF IInv, TypeOK
  <2>2. Waiting \in Seq(Frames) /\ Len(Waiting) = Count BY <1>1, <1>6, <2>1
  <2>3. PICK t : t = Tail(Waiting) OBVIOUS
  <2>4. Waiting # <<>> BY <1>2, <1>8, <2>2, EmptySeq
  <2>5. /\ t \in Seq(Frames) /\ Len(t) = Count - 1
        /\ \A i \in 1 .. Len(t) : t[i] = Waiting[i + 1]
    BY <2>2, <2>3, <2>4, HeadTailProperties
  <2>6. ASSUME NEW i \in 1 .. Len(t) PROVE t[i] = InOrder[i]
    <3>1. i + 1 \in 1 .. Count /\ i \in 1 .. Count - Gone /\ (i + 1) - 1 = i - 1 + Gone
      BY <1>1, <1>2, <1>8, <2>5
    <3>2. Waiting[i + 1] = buffer[At((i + 1) - 1)] BY <1>6, <3>1
    <3>3. InOrder[i] = buffer[At(i - 1 + Gone)] BY <3>1 DEF InOrder
    <3>4. QED BY <2>5, <3>1, <3>2, <3>3
  <2>7. Len(InOrder) = Len(t) BY <1>2, <1>5, <1>8, <2>5
  <2>8. t = InOrder BY <1>5, <2>5, <2>6, <2>7, SameFrames
  <2>9. QED BY <1>3, <1>5, <1>8, <2>3, <2>8 DEF Held
<1>9. QED BY <1>7, <1>8

\* The same in the next state.
LEMMA InOrderNow == IInv => InOrder \in Seq(Frames) /\ Len(InOrder) = Count - Gone
                            /\ Count \in 0 .. Size - 1
  BY InOrderIs, PlacesAre DEF IInv

LEMMA InOrderNext == IInv' => (InOrder \in Seq(Frames) /\ Len(InOrder) = Count - Gone
                               /\ Count \in 0 .. Size - 1)'
  BY InOrderNow, PTL

\* The last frame handed over.
Handed == IF item # NoFrame THEN item ELSE handled

\* Steps that leave the ring's accepted part alone leave the queue alone.
LEMMA QueueStays ==
  ASSUME IInv, UNCHANGED <<head, tail, Gone>>, \A i \in Slots : InUse(i) => buffer'[i] = buffer[i]
  PROVE  InOrder' = InOrder
<1>1. /\ Count \in 0 .. Size - 1
      /\ \A k \in 0 .. Count - 1 : At(k) \in Slots /\ InUse(At(k))
  BY PlacesAre DEF IInv
<1>2. Gone \in {0, 1} BY DEF Gone
<1>3. Count' = Count BY DEF Count
<1>4. ASSUME NEW i \in 1 .. Count - Gone
      PROVE  buffer'[At(i - 1 + Gone)] = buffer[At(i - 1 + Gone)]
  <2>1. i - 1 + Gone \in 0 .. Count - 1 BY <1>1, <1>2
  <2>2. QED BY <1>1, <2>1
<1>5. InOrder' = [i \in 1 .. Count - Gone |-> buffer'[At(i - 1 + Gone)]]
  BY <1>3 DEF InOrder, At
<1>6. QED BY <1>4, <1>5 DEF InOrder

\* AdvanceHead accepts the frame that was offered.
LEMMA AdvanceHeadPuts ==
  ASSUME IInv, AdvanceHead
  PROVE  /\ Len(InOrder) < Size - 1
         /\ \A i \in 1 .. Len(InOrder) : InOrder[i] < offered
         /\ Handed < offered
         /\ InOrder' = Append(InOrder, offered)
<1> USE SizeAssumption
<1>1. /\ Count \in 0 .. Size - 1 /\ (Count = 0 <=> head = tail) /\ At(Count) = head
      /\ \A k \in 0 .. Count - 1 : At(k) \in Slots /\ InUse(At(k))
  BY PlacesAre DEF IInv
<1>2. /\ Count - Gone \in 0 .. Size - 1
      /\ InOrder \in Seq(Frames) /\ Len(InOrder) = Count - Gone
  BY InOrderIs
<1>3. Gone \in {0, 1} BY DEF Gone
<1>4. IInv' BY ProducerKeeps DEF ProducerRuns
<1>5. /\ InOrder' \in Seq(Frames) /\ Len(InOrder') = Count' - Gone'
      /\ Count' \in 0 .. Size - 1
  BY <1>4, InOrderNext
<1>6. /\ Gone' = Gone /\ tail' = tail /\ buffer' = buffer /\ offered' = offered
      /\ head' = After(head) /\ After(head) # tail /\ buffer[head] = offered
      /\ offered \in Frames /\ head \in Slots /\ tail \in Slots /\ After(head) \in Slots
  <2>1. After(head) \in Slots BY AfterIs DEF IInv, TypeOK, Slots
  <2>2. QED BY <2>1 DEF AdvanceHead, Gone, Producer, IInv, AtWork, TypeOK
<1>7. Count' = Count + 1
  <2>1. Count = IF tail <= head THEN head - tail ELSE head + Size - tail
    BY <1>6, DistanceIs DEF Count
  <2>2. Count' = (IF tail <= head THEN head - tail ELSE head + Size - tail)'
    BY <1>6, DistanceIs DEF Count
  <2>3. After(head) = IF head = Size - 1 THEN 0 ELSE head + 1 BY <1>6, AfterIs
  <2>4. QED BY <1>6, <2>1, <2>2, <2>3 DEF Slots
<1>8. Len(InOrder) < Size - 1 BY <1>1, <1>2, <1>3, <1>5, <1>7
<1>9. ASSUME NEW i \in 1 .. Len(InOrder) PROVE InOrder[i] < offered
  <2>1. i - 1 + Gone \in 0 .. Count - 1 /\ i \in 1 .. Count - Gone BY <1>1, <1>2, <1>3
  <2>2. InOrder[i] = buffer[At(i - 1 + Gone)] BY <2>1 DEF InOrder
  <2>3. At(i - 1 + Gone) \in Slots /\ InUse(At(i - 1 + Gone)) BY <1>1, <2>1
  <2>4. QED BY <2>2, <2>3 DEF IInv, SlotsHold, AdvanceHead, Producer
<1>10. Handed < offered BY DEF Handed, IInv, AtWork, AdvanceHead, Producer
<1>11. InOrder' = Append(InOrder, offered)
  <2>1. PICK s : s = Append(InOrder, offered) OBVIOUS
  <2>2. /\ s \in Seq(Frames) /\ Len(s) = Len(InOrder) + 1 /\ s[Len(InOrder) + 1] = offered
        /\ \A i \in 1 .. Len(InOrder) : s[i] = InOrder[i]
    BY <1>2, <1>6, <2>1, AppendProperties
  <2>3. InOrder' = [i \in 1 .. Count + 1 - Gone |-> buffer[At(i - 1 + Gone)]]
    <3>1. Count' - Gone' = Count + 1 - Gone BY <1>1, <1>3, <1>6, <1>7
    <3>2. QED BY <1>6, <3>1 DEF InOrder, At
  <2>4. ASSUME NEW i \in 1 .. Len(s) PROVE s[i] = InOrder'[i]
    <3>1. i \in 1 .. Count + 1 - Gone BY <1>1, <1>2, <1>3, <2>2
    <3>2. InOrder'[i] = buffer[At(i - 1 + Gone)] BY <2>3, <3>1
    <3>3. CASE i = Len(InOrder) + 1
      <4>1. i - 1 + Gone = Count BY <1>1, <1>2, <1>3, <3>3
      <4>2. QED BY <1>1, <1>6, <2>2, <3>2, <3>3, <4>1
    <3>4. CASE i # Len(InOrder) + 1
      <4>1. i \in 1 .. Len(InOrder) BY <1>1, <1>2, <1>3, <2>2, <3>4
      <4>2. i \in 1 .. Count - Gone BY <1>2, <4>1
      <4>3. InOrder[i] = buffer[At(i - 1 + Gone)] BY <4>2 DEF InOrder
      <4>4. QED BY <2>2, <3>2, <4>1, <4>3
    <3>5. QED BY <3>3, <3>4
  <2>5. Len(s) = Len(InOrder') BY <1>1, <1>2, <1>3, <1>5, <1>6, <1>7, <2>2
  <2>6. QED BY <1>5, <2>1, <2>2, <2>4, <2>5, SameFrames
<1>12. QED BY <1>8, <1>9, <1>10, <1>11

\* Read hands over the oldest frame.
LEMMA ReadGets ==
  ASSUME IInv, Read
  PROVE  /\ InOrder # <<>>
         /\ Handed' = Head(InOrder)
         /\ InOrder' = Tail(InOrder)
         /\ offered' = offered
<1> USE SizeAssumption
<1>1. /\ Count \in 0 .. Size - 1 /\ (Count = 0 <=> head = tail)
      /\ \A k \in 0 .. Count - 1 : At(k) \in Slots /\ InUse(At(k)) /\ (At(k) = tail <=> k = 0)
  BY PlacesAre DEF IInv
<1>2. InOrder \in Seq(Frames) /\ Len(InOrder) = Count - Gone BY InOrderIs
<1>3. /\ Gone = 0 /\ Gone' = 1 /\ head' = head /\ tail' = tail /\ offered' = offered
      /\ head # tail /\ item' = buffer[tail] /\ tail \in Slots
      /\ buffer \in [Slots -> Frames] /\ buffer' = [buffer EXCEPT ![tail] = NoFrame]
  BY DEF Read, Writer, Gone, IInv, TypeOK, AtWork
<1>4. Count \in 1 .. Size - 1 BY <1>1, <1>3
<1>5. Count' = Count BY <1>3 DEF Count
<1>6. IInv' BY WriterKeeps DEF WriterRuns
<1>7. InOrder' \in Seq(Frames) /\ Len(InOrder') = Count - 1
  BY <1>3, <1>5, <1>6, InOrderNext
<1>8. InOrder # <<>> BY <1>2, <1>3, <1>4
<1>9. Handed' = Head(InOrder)
  <2>1. 1 \in 1 .. Count - Gone BY <1>3, <1>4
  <2>2. InOrder[1] = buffer[At(1 - 1 + Gone)] BY <2>1 DEF InOrder
  <2>3. At(1 - 1 + Gone) = tail BY <1>1, <1>3, <1>4
  <2>4. Head(InOrder) = InOrder[1] BY <1>2, <1>8
  <2>5. buffer[tail] # NoFrame
    <3>1. InUse(tail) BY <1>1, <1>4
    <3>2. writer # "advance" BY DEF Read, Writer
    <3>3. QED BY <1>3, <3>1, <3>2 DEF IInv, SlotsHold
  <2>6. QED BY <1>3, <2>2, <2>3, <2>4, <2>5 DEF Handed
<1>10. InOrder' = Tail(InOrder)
  <2>1. PICK t : t = Tail(InOrder) OBVIOUS
  <2>2. /\ t \in Seq(Frames) /\ Len(t) = Count - 1
        /\ \A i \in 1 .. Len(t) : t[i] = InOrder[i + 1]
    <3>1. Len(InOrder) = Count BY <1>2, <1>3, <1>4
    <3>2. QED BY <1>2, <1>8, <2>1, <3>1, HeadTailProperties
  <2>3. ASSUME NEW i \in 1 .. Len(t) PROVE t[i] = InOrder'[i]
    <3>1. /\ i \in 1 .. Count - 1 /\ i \in 0 .. Count - 1 /\ i + 1 \in 1 .. Count
          /\ Count' - Gone' = Count - 1 /\ Count - Gone = Count
          /\ i - 1 + Gone' = i /\ i + 1 - 1 + Gone = i
      BY <1>3, <1>4, <1>5, <2>2
    <3>2. InOrder[i + 1] = buffer[At(i + 1 - 1 + Gone)] BY <3>1 DEF InOrder
    <3>3. InOrder'[i] = buffer'[At(i)]
      <4>1. InOrder' = [j \in 1 .. Count' - Gone' |-> buffer'[(tail' + (j - 1 + Gone')) % Size]]
        BY DEF InOrder, At
      <4>2. InOrder'[i] = buffer'[(tail' + (i - 1 + Gone')) % Size] BY <3>1, <4>1
      <4>3. (tail' + (i - 1 + Gone')) % Size = At(i) BY <1>3, <3>1 DEF At
      <4>4. QED BY <4>2, <4>3
    <3>4. At(i) \in Slots /\ At(i) # tail BY <1>1, <3>1
    <3>5. buffer'[At(i)] = buffer[At(i)] BY <1>3, <3>4
    <3>6. QED BY <2>2, <3>1, <3>2, <3>3, <3>5
  <2>4. QED BY <1>7, <2>1, <2>2, <2>3, SameFrames
<1>11. QED BY <1>3, <1>8, <1>9, <1>10

\* AdvanceTail gives the slot back and changes nothing that is seen.
LEMMA AdvanceTailStays ==
  ASSUME IInv, AdvanceTail
  PROVE  InOrder' = InOrder /\ Handed' = Handed /\ offered' = offered
<1> USE SizeAssumption
<1>1. /\ Count \in 0 .. Size - 1 /\ (Count = 0 <=> head = tail)
  BY PlacesAre DEF IInv
<1>2. /\ Gone = 1 /\ Gone' = 0 /\ head' = head /\ buffer' = buffer /\ offered' = offered
      /\ item' = item /\ handled' = handled /\ head # tail
      /\ tail' = After(tail) /\ head \in Slots /\ tail \in Slots /\ After(tail) \in Slots
  <2>1. After(tail) \in Slots BY AfterIs DEF IInv, TypeOK, Slots
  <2>2. QED BY <2>1 DEF AdvanceTail, Writer, Gone, ring, IInv, TypeOK, AtWork
<1>3. Count \in 1 .. Size - 1 BY <1>1, <1>2
<1>4. After(tail) = IF tail = Size - 1 THEN 0 ELSE tail + 1 BY <1>2, AfterIs
<1>5. Count' = Count - 1
  <2>1. Count = IF tail <= head THEN head - tail ELSE head + Size - tail
    BY <1>2, DistanceIs DEF Count
  <2>2. Count' = (head + Size - After(tail)) % Size BY <1>2 DEF Count
  <2>3. (head + Size - After(tail)) % Size
          = IF After(tail) <= head THEN head - After(tail) ELSE head + Size - After(tail)
    BY <1>2, DistanceIs
  <2>4. QED BY <1>2, <1>4, <2>1, <2>2, <2>3 DEF Slots
<1>6. ASSUME NEW i \in 1 .. Count - 1
      PROVE  (tail' + (i - 1)) % Size = At(i)
  <2>1. At(i) = IF tail + i < Size THEN tail + i ELSE tail + i - Size
    BY <1>2, <1>3, AtIs DEF Slots
  <2>2. (tail' + (i - 1)) % Size = (After(tail) + (i - 1)) % Size BY <1>2
  <2>3. (After(tail) + (i - 1)) % Size
          = IF After(tail) + (i - 1) < Size THEN After(tail) + (i - 1)
            ELSE After(tail) + (i - 1) - Size
    <3>1. i - 1 \in Slots BY <1>3 DEF Slots
    <3>2. QED BY <1>2, <3>1, WrapIs
  <2>4. QED BY <1>2, <1>3, <1>4, <2>1, <2>2, <2>3 DEF Slots
<1>7. InOrder' = InOrder
  <2>1. Count' - Gone' = Count - 1 /\ Count - Gone = Count - 1 BY <1>2, <1>3, <1>5
  <2>2. \A i \in 1 .. Count - 1 : i - 1 + Gone = i /\ i - 1 + Gone' = i - 1 BY <1>2, <1>3
  <2>3. InOrder' = [i \in 1 .. Count' - Gone' |-> buffer'[(tail' + (i - 1 + Gone')) % Size]]
    BY DEF InOrder, At
  <2>4. InOrder' = [i \in 1 .. Count - 1 |-> buffer[(tail' + (i - 1)) % Size]]
    BY <1>2, <2>1, <2>2, <2>3
  <2>5. InOrder = [i \in 1 .. Count - 1 |-> buffer[At(i)]] BY <2>1, <2>2 DEF InOrder
  <2>6. QED BY <1>6, <2>4, <2>5
<1>8. QED BY <1>2, <1>7 DEF Handed

\* Each step of the two threads is a step of the queue or changes nothing of it.
LEMMA StepIsQueueStep ==
  ASSUME IInv, IInv', Held = InOrder, (Held = InOrder)', [Next]_vars
  PROVE  [Queue!Next]_(Queue!vars)
<1> USE DEF Queue!vars, Queue!Next
<1>1. CASE OfferFrame
  <2>1. InOrder' = InOrder
    BY <1>1, QueueStays DEF OfferFrame, Producer, ring, Gone
  <2>2. Queue!Offer BY <1>1, <2>1 DEF Queue!Offer, OfferFrame
  <2>3. QED BY <2>2
<1>2. CASE AdvanceHead
  <2>1. /\ offered' = offered /\ item' = item /\ handled' = handled
    BY <1>2 DEF AdvanceHead
  <2>2. Queue!Put BY <1>2, <2>1, AdvanceHeadPuts DEF Queue!Put, Handed
  <2>3. QED BY <2>2
<1>3. CASE Read
  <2>1. Queue!Get BY <1>3, ReadGets DEF Queue!Get, Handed
  <2>2. QED BY <2>1
<1>4. CASE AdvanceTail
  BY <1>4, AdvanceTailStays DEF Handed
<1>5. CASE SkipFrame \/ FlushCall \/ Destroy \/ CheckFull \/ FlushPoll \/ DestroyJoins
  <2>1. UNCHANGED <<ring, writer, offered, item, handled>>
    BY <1>5 DEF SkipFrame, FlushCall, Destroy, CheckFull, FlushPoll, DestroyJoins, ring
  <2>2. InOrder' = InOrder BY <2>1, QueueStays DEF ring, Gone
  <2>3. QED BY <2>1, <2>2
<1>6. CASE Fill
  <2>1. ~InUse(head) BY SizeAssumption DEF IInv, TypeOK, InUse, Slots
  <2>2. InOrder' = InOrder
    BY <1>6, <2>1, QueueStays DEF Fill, Gone, IInv, TypeOK
  <2>3. QED BY <1>6, <2>2 DEF Fill
<1>7. CASE LoopTest \/ LoopTestEmpty \/ CheckEmpty
  <2>1. UNCHANGED <<ring, Gone, offered, item, handled>>
    BY <1>7 DEF LoopTest, LoopTestEmpty, CheckEmpty, ring, Gone
  <2>2. InOrder' = InOrder BY <2>1, QueueStays DEF ring
  <2>3. QED BY <2>1, <2>2
<1>8. CASE Encode
  <2>1. UNCHANGED <<ring, Gone, offered, Handed>>
    BY <1>8 DEF Encode, Writer, ring, Gone, Handed, NoFrame, IInv, AtWork
  <2>2. InOrder' = InOrder BY <2>1, QueueStays DEF ring
  <2>3. QED BY <2>1, <2>2 DEF Handed
<1>9. CASE UNCHANGED vars
  <2>1. InOrder' = InOrder BY <1>9, QueueStays DEF vars, ring, Gone
  <2>2. QED BY <1>9, <2>1 DEF vars
<1>10. QED BY <1>1, <1>2, <1>3, <1>4, <1>5, <1>6, <1>7, <1>8, <1>9
           DEF Next, ProducerRuns, WriterRuns

\* The ring with its two threads is a queue that refuses what it cannot hold:
\* OfferFrame is its Offer, AdvanceHead its Put, Read its Get, and every other
\* step a stutter.
THEOREM Implements == Spec => ImplementsDropNew
<1>1. Init => Queue!Init
  <2> SUFFICES ASSUME Init PROVE Queue!Init
    OBVIOUS
  <2>1. Held = InOrder /\ Count - Gone \in 0 .. Size - 1 /\ InOrder \in Seq(Frames)
        /\ Len(InOrder) = Count - Gone
    BY InitIInv, InOrderIs
  <2>2. Count = 0 /\ Gone = 0
    BY InitIInv, PlacesAre, SizeAssumption DEF Init, IInv, Gone
  <2>3. Held = <<>> BY <2>1, <2>2, EmptySeq
  <2>4. QED BY <2>3 DEF Queue!Init, Init, NoFrame
<1>2. IInv /\ IInv' /\ Held = InOrder /\ (Held = InOrder)' /\ [Next]_vars
        => [Queue!Next]_(Queue!vars)
  BY StepIsQueueStep
<1>3. IInv => Held = InOrder BY InOrderIs
<1>4. QED BY <1>1, <1>2, <1>3, Invariance, PTL DEF Spec, Queue!Spec, ImplementsDropNew

-----------------------------------------------------------------------------
(* The destructor drains *)

\* Once running_ is cleared nothing is offered any more, and the writer leaves only
\* after that, having seen the queue empty.
Draining ==
  /\ producer \in {"join", "gone"} => ~running
  /\ ~running => producer \in {"join", "gone"} \/ writer = "none"
  /\ writer = "empty" => ~running
  /\ writer = "exit" => ~running /\ head = tail
  /\ producer = "gone" => writer \in {"none", "exit"}

\* When the writer object is gone, every frame it accepted has been handled.
THEOREM Drained == Spec => []DrainedWhenGone
<1>1. Init => Draining BY DEF Init, Draining
<1>2. IInv /\ Draining /\ [Next]_vars => Draining'
  <2> SUFFICES ASSUME IInv, Draining, [Next]_vars PROVE Draining'
    OBVIOUS
  <2> USE DEF Draining
  <2>1. CASE SkipFrame \/ OfferFrame \/ FlushCall \/ Destroy
    BY <2>1 DEF SkipFrame, OfferFrame, FlushCall, Destroy, Producer, ring
  <2>2. CASE ProducerRuns
    BY <2>2 DEF ProducerRuns, CheckFull, Fill, AdvanceHead, FlushPoll, DestroyJoins,
                Producer, ring
  <2>3. CASE WriterRuns
    BY <2>3 DEF WriterRuns, LoopTest, LoopTestEmpty, CheckEmpty, Read, AdvanceTail,
                Encode, Writer, ring
  <2>4. CASE UNCHANGED vars BY <2>4 DEF vars, ring
  <2>5. QED BY <2>1, <2>2, <2>3, <2>4 DEF Next
<1>3. IInv /\ Draining => DrainedWhenGone
  BY DEF Draining, DrainedWhenGone, IInv, AtWork
<1>4. QED BY <1>1, <1>2, <1>3, Invariance, PTL DEF Spec

-----------------------------------------------------------------------------
(* The order of the frames, from the abstract queue *)

\* s goes up, and starts above h.
Above(s, h) ==
  \A i \in 1 .. Len(s) : h < s[i] /\ \A j \in 1 .. Len(s) : j < i => s[j] < s[i]

\* Putting a larger element behind keeps the order.
LEMMA PutAbove ==
  ASSUME NEW s \in Seq(Frames), NEW h \in Frames, NEW e \in Frames, Above(s, h),
         h < e, \A i \in 1 .. Len(s) : s[i] < e
  PROVE  Above(Append(s, e), h)
<1>1. PICK t : t = Append(s, e) OBVIOUS
<1>2. /\ Len(s) \in Nat /\ Len(t) = Len(s) + 1 /\ t[Len(s) + 1] = e
      /\ \A i \in 1 .. Len(s) : t[i] = s[i]
  BY <1>1, AppendProperties, LenProperties
<1>3. ASSUME NEW i \in 1 .. Len(t)
      PROVE  h < t[i] /\ \A j \in 1 .. Len(t) : j < i => t[j] < t[i]
  <2>1. CASE i = Len(s) + 1
    <3>1. \A j \in 1 .. Len(t) : j < i => j \in 1 .. Len(s) BY <1>2, <2>1
    <3>2. QED BY <1>2, <2>1, <3>1
  <2>2. CASE i \in 1 .. Len(s)
    <3>1. \A j \in 1 .. Len(t) : j < i => j \in 1 .. Len(s) BY <1>2, <2>2
    <3>2. QED BY <1>2, <2>2, <3>1 DEF Above
  <2>3. QED BY <1>2, <2>1, <2>2
<1>4. QED BY <1>1, <1>3 DEF Above

\* Taking the first element leaves what is above it.
LEMMA GetAbove ==
  ASSUME NEW s \in Seq(Frames), s # <<>>, NEW h \in Frames, Above(s, h)
  PROVE  h < Head(s) /\ Above(Tail(s), Head(s))
<1>1. PICK t : t = Tail(s) OBVIOUS
<1>2. /\ Len(s) \in Nat \ {0} /\ Len(t) = Len(s) - 1 /\ Head(s) = s[1]
      /\ \A i \in 1 .. Len(t) : t[i] = s[i + 1]
  BY <1>1, HeadTailProperties, LenProperties, EmptySeq
<1>3. ASSUME NEW i \in 1 .. Len(t)
      PROVE  s[1] < t[i] /\ \A j \in 1 .. Len(t) : j < i => t[j] < t[i]
  <2>1. i + 1 \in 1 .. Len(s) /\ 1 \in 1 .. Len(s) /\ 1 < i + 1 BY <1>2
  <2>2. \A j \in 1 .. Len(t) : j < i => j + 1 \in 1 .. Len(s) /\ j + 1 < i + 1 BY <1>2
  <2>3. QED BY <1>2, <2>1, <2>2 DEF Above
<1>4. 1 \in 1 .. Len(s) BY <1>2
<1>5. QED BY <1>1, <1>2, <1>3, <1>4 DEF Above

\* The queue holds what comes after the last frame handed over; the one in hand comes
\* after the last one handled.
Ordered == Above(Held, Handed) /\ (item # NoFrame => handled < item)

\* The order is kept by each step, because the queue keeps it.
LEMMA OrderKept ==
  ASSUME IInv, IInv', Held = InOrder, (Held = InOrder)', Ordered, [Next]_vars
  PROVE  Ordered' /\ (handled' # handled => handled < handled')
<1>1. [Queue!Next]_(Queue!vars) BY StepIsQueueStep
<1>2. /\ Held \in Seq(Frames) /\ Handed \in Frames
      /\ offered \in Frames /\ offered' \in Frames
  BY InOrderIs DEF IInv, TypeOK, Handed
<1>3. Above(Held', Handed') /\ (Handed' = Handed \/ Queue!Get)
  <2>1. CASE Queue!Put
    <3>1. /\ Held' = Append(Held, offered) /\ Handed' = Handed /\ Handed < offered
          /\ \A i \in 1 .. Len(Held) : Held[i] < offered
      BY <2>1 DEF Queue!Put, Handed
    <3>2. QED BY <1>2, <3>1, PutAbove DEF Ordered
  <2>2. CASE Queue!Get
    <3>1. Held # <<>> /\ Handed' = Head(Held) /\ Held' = Tail(Held)
      BY <2>2 DEF Queue!Get, Handed
    <3>2. QED BY <1>2, <2>2, <3>1, GetAbove DEF Ordered
  <2>3. CASE Queue!Offer \/ UNCHANGED Queue!vars
    <3>1. Held' = Held /\ Handed' = Handed BY <2>3 DEF Queue!Offer, Queue!vars, Handed
    <3>2. QED BY <3>1 DEF Ordered
  <2>4. QED BY <1>1, <2>1, <2>2, <2>3 DEF Queue!Next
<1>4. CASE Read
  <2>1. /\ InOrder # <<>> /\ Handed' = Head(InOrder) BY <1>4, ReadGets
  <2>2. /\ item = NoFrame /\ handled' = handled BY <1>4 DEF Read, Writer, IInv, AtWork
  <2>3. item' # NoFrame
    BY <1>4 DEF Read, Writer, IInv, AtWork, TypeOK
  <2>4. handled < item'
    BY <1>2, <2>1, <2>2, <2>3, GetAbove DEF Ordered, Handed
  <2>5. QED BY <1>3, <2>2, <2>4 DEF Ordered
<1>5. CASE ~Read
  <2>1. item' = item \/ item' = NoFrame
    BY <1>5 DEF Next, SkipFrame, OfferFrame, FlushCall, Destroy, ProducerRuns, WriterRuns,
       CheckFull, Fill, AdvanceHead, FlushPoll, DestroyJoins, LoopTest, LoopTestEmpty,
       CheckEmpty, AdvanceTail, Encode, vars
  <2>2. handled' = handled \/ (handled' = item /\ item # NoFrame /\ item' = NoFrame)
    BY <1>5 DEF Next, SkipFrame, OfferFrame, FlushCall, Destroy, ProducerRuns, WriterRuns,
       CheckFull, Fill, AdvanceHead, FlushPoll, DestroyJoins, LoopTest, LoopTestEmpty,
       CheckEmpty, AdvanceTail, Encode, Writer, vars, IInv, AtWork
  <2>3. QED BY <1>3, <2>1, <2>2 DEF Ordered
<1>6. QED BY <1>4, <1>5

\* Frames are encoded in order, each at most once.
THEOREM InOrderToDisk == Spec => EncodedInOrder
<1>1. Init => Ordered
  <2> SUFFICES ASSUME Init PROVE Ordered
    OBVIOUS
  <2>1. Held = InOrder /\ Len(InOrder) = Count - Gone BY InitIInv, InOrderIs
  <2>2. Count = 0 /\ Gone = 0
    BY InitIInv, PlacesAre, SizeAssumption DEF Init, IInv, Gone
  <2>3. QED BY <2>1, <2>2 DEF Ordered, Above, Init
<1>2. IInv /\ IInv' /\ Held = InOrder /\ (Held = InOrder)' /\ Ordered /\ [Next]_vars
        => Ordered' /\ [handled' # handled => handled < handled']_vars
  BY OrderKept
<1>3. IInv => Held = InOrder BY InOrderIs
<1>4. QED BY <1>1, <1>2, <1>3, Invariance, PTL DEF Spec, EncodedInOrder
=============================================================================
