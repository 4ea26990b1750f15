--------------------------- MODULE BoundedDropOld ---------------------------
(***************************************************************************)
(* What a bounded queue with a drop-old policy promises, whatever lock or  *)
(* ring implements it: messages come out in the order they went in, none   *)
(* twice, and one is discarded only to make room for a newer one.          *)
(* Messages are numbered 1, 2, 3 ... as they are accepted.                 *)
(***************************************************************************)
EXTENDS Naturals, Sequences

CONSTANTS Capacity,     \* most messages held
          MaxMessages   \* bound on the messages accepted in a behaviour

VARIABLES held,      \* the messages waiting, oldest first
          accepted,  \* how many were accepted
          handed     \* the last message handed to the consumer

vars == <<held, accepted, handed>>

Init == held = <<>> /\ accepted = 0 /\ handed = 0

\* Accept a message; a full queue loses its oldest one.
Put ==
  /\ accepted < MaxMessages
  /\ accepted' = accepted + 1
  /\ held' = Append(IF Len(held) = Capacity THEN Tail(held) ELSE held, accepted + 1)
  /\ UNCHANGED handed

\* Hand over the oldest message held.
Get ==
  /\ held # <<>>
  /\ handed' = Head(held)
  /\ held' = Tail(held)
  /\ UNCHANGED accepted

Next == Put \/ Get

Spec == Init /\ [][Next]_vars
=============================================================================
