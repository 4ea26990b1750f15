--------------------------- MODULE BoundedDropNew ---------------------------
(***************************************************************************)
(* What a bounded queue that refuses new items when it is full promises:   *)
(* every item it accepts comes out once, in the order it went in.  Items   *)
(* are numbered 1, 2, 3 ... as they are offered; a refused item is a step  *)
(* that changes offered only.                                              *)
(***************************************************************************)
EXTENDS Naturals, Sequences

CONSTANTS Capacity,  \* most items held
          MaxItems   \* bound on the items offered in a behaviour

VARIABLES held,     \* the items waiting, oldest first
          offered,  \* how many were offered
          handed    \* the last item handed over

vars == <<held, offered, handed>>

Init == held = <<>> /\ offered = 0 /\ handed = 0

Offer ==
  /\ offered < MaxItems
  /\ offered' = offered + 1
  /\ UNCHANGED <<held, handed>>

\* Accept the last item offered, which may be done later: not if it is full.
Put ==
  /\ Len(held) < Capacity
  /\ \A i \in 1 .. Len(held) : held[i] < offered
  /\ handed < offered
  /\ held' = Append(held, offered)
  /\ UNCHANGED <<offered, handed>>

Get ==
  /\ held # <<>>
  /\ handed' = Head(held)
  /\ held' = Tail(held)
  /\ UNCHANGED offered

Next == Offer \/ Put \/ Get

Spec == Init /\ [][Next]_vars
=============================================================================
