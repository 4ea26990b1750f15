------------------------- MODULE FrameMailbox_proofs -------------------------
(***************************************************************************)
(* For every number of frames: the mailbox never delivers a frame older    *)
(* than its call nor a frame twice, never loses the newest one, and        *)
(* implements LatestWins.                                                  *)
(***************************************************************************)
EXTENDS FrameMailbox, TLAPS

\* The strengthening.  Freshness alone is not inductive: it needs to know that
\* a frame leaves the buffer only by being taken (NewestNotLost), that taken
\* never runs ahead of stored, and that a frame is announced only once stored.
IInv ==
  /\ TypeOK
  /\ NewestNotLost
  /\ taken <= stored
  /\ buffer # NoFrame => taken < buffer
  /\ posted <= stored
  /\ due <= posted
  /\ FreshAtCall

\* The initial state satisfies the inductive invariant.
LEMMA InitIInv == Init => IInv
<1> SUFFICES ASSUME Init PROVE IInv
  OBVIOUS
<1>1. TypeOK BY DEF Init, TypeOK
<1>2. NewestNotLost /\ FreshAtCall BY DEF Init, NewestNotLost, FreshAtCall
<1>3. QED BY <1>1, <1>2 DEF Init, IInv, NoFrame

\* Every atomic access of postFrame and takeFrame preserves it.
LEMMA NextIInv == IInv /\ [Next]_vars => IInv'
<1> SUFFICES ASSUME IInv, [Next]_vars PROVE IInv'
  OBVIOUS
<1> USE MaxFramesAssumption
        DEF IInv, TypeOK, NewestNotLost, FreshAtCall, NoFrame, Frames
<1>1. CASE PostStore    BY <1>1 DEF PostStore
<1>2. CASE PostFlag     BY <1>2 DEF PostFlag
<1>3. CASE TakeEmpty    BY <1>3 DEF TakeEmpty
<1>4. CASE TakeCheck    BY <1>4 DEF TakeCheck
<1>5. CASE TakeExchange BY <1>5 DEF TakeExchange
<1>6. CASE TakeClear    BY <1>6 DEF TakeClear
<1>7. CASE UNCHANGED vars BY <1>7 DEF vars
<1>8. QED BY <1>1, <1>2, <1>3, <1>4, <1>5, <1>6, <1>7 DEF Next

\* The inductive invariant holds in every reachable state.
THEOREM Invariance == Spec => []IInv
  BY InitIInv, NextIInv, PTL DEF Spec

\* postFrame and takeFrame keep every variable in its type.
THEOREM TypeCorrect == Spec => []TypeOK
<1>1. IInv => TypeOK BY DEF IInv
<1>2. QED BY <1>1, Invariance, PTL

\* Freshness: what takeFrame hands out is never older than the newest frame
\* whose postFrame had returned when the call began.
THEOREM Freshness == Spec => []FreshAtCall
<1>1. IInv => FreshAtCall BY DEF IInv
<1>2. QED BY <1>1, Invariance, PTL

\* The newest frame is in the buffer or has been taken: it is never dropped.
THEOREM NewestKept == Spec => []NewestNotLost
<1>1. IInv => NewestNotLost BY DEF IInv
<1>2. QED BY <1>1, Invariance, PTL

-----------------------------------------------------------------------------
(* The slot behind the two atomics *)

\* Only two of the six atomic accesses touch the slot.  The store of buffer_ posts; the
\* exchange takes, unless a late flag sent the worker to an empty buffer; what loads or
\* stores has_frame_ moves no frame.
LEMMA StoreIsPost == PostStore => Abstract!Post
BY DEF PostStore, Abstract!Post

LEMMA ExchangeIsTake ==
  ASSUME TakeExchange
  PROVE  \/ Abstract!Take
         \/ buffer = NoFrame /\ UNCHANGED Abstract!vars
<1>1. CASE buffer = NoFrame BY <1>1 DEF TakeExchange, Abstract!vars
<1>2. CASE buffer # NoFrame BY <1>2 DEF TakeExchange, Abstract!Take, NoFrame, Abstract!NoFrame
<1>3. QED BY <1>1, <1>2

LEMMA FlagMovesNoFrame ==
  ASSUME [Next]_vars, ~PostStore, ~TakeExchange
  PROVE  UNCHANGED Abstract!vars
BY DEF Next, PostFlag, TakeEmpty, TakeCheck, TakeClear, vars, Abstract!vars

\* The two-atomics mailbox implements the one-slot hand-off.
THEOREM Implements == Spec => ImplementsLatestWins
<1>1. [Next]_vars => [Abstract!Next]_(Abstract!vars)
  BY StoreIsPost, ExchangeIsTake, FlagMovesNoFrame DEF Abstract!Next
<1>2. Init => Abstract!Init BY DEF Init, Abstract!Init, NoFrame, Abstract!NoFrame
<1>3. QED BY <1>1, <1>2, PTL DEF Spec, Abstract!Spec, ImplementsLatestWins

\* No frame is handed out twice, none after a newer one, and each is the newest: the
\* exchange alone hands out, and what it finds is newer than any taken and the last stored.
THEOREM NeverBack == Spec => FramesForward
<1>1. ASSUME IInv, [Next]_vars, taken' # taken
      PROVE  taken < taken' /\ taken' = stored
  <2>1. ~PostStore BY <1>1 DEF PostStore
  <2>2. TakeExchange BY <1>1, <2>1, FlagMovesNoFrame DEF Abstract!vars
  <2>3. buffer # NoFrame /\ taken' = buffer BY <1>1, <2>2 DEF TakeExchange
  <2>4. QED BY <1>1, <2>3 DEF IInv, NewestNotLost
<1>2. IInv /\ [Next]_vars => [taken' # taken => taken < taken' /\ taken' = stored]_vars
  BY <1>1
<1>3. QED BY <1>2, Invariance, PTL DEF Spec, FramesForward
=============================================================================
