---------------------------- MODULE PipelineUse ----------------------------
(***************************************************************************)
(* What the life cycle of the pipeline promises about the objects that its *)
(* threads share (input_ and the model runners): a thread is launched only *)
(* when they are there and it is not running already, it uses them only    *)
(* while it runs, and they come and go only while no thread runs, so that  *)
(* nobody ever uses an object that is gone.                                *)
(***************************************************************************)

CONSTANT Threads     \* the capture thread and the model workers

VARIABLES there,     \* do the objects exist?
          running,   \* the threads that were launched and have not ended
          using      \* for each thread: "none", or "live" objects

vars == <<there, running, using>>

Init == there = FALSE /\ running = {} /\ using = [t \in Threads |-> "none"]

\* The objects are built or taken away.
Change == running = {} /\ there' = ~there /\ UNCHANGED <<running, using>>

Launch(t) ==
  /\ there /\ t \notin running
  /\ running' = running \cup {t}
  /\ UNCHANGED <<there, using>>

Enter(t) ==
  /\ there /\ t \in running
  /\ using' = [using EXCEPT ![t] = "live"]
  /\ UNCHANGED <<there, running>>

Leave(t) ==
  /\ t \in running
  /\ using' = [using EXCEPT ![t] = "none"]
  /\ UNCHANGED <<there, running>>

End(t) ==
  /\ t \in running
  /\ running' = running \ {t}
  /\ using' = [using EXCEPT ![t] = "none"]
  /\ UNCHANGED there

Next == Change \/ \E t \in Threads : Launch(t) \/ Enter(t) \/ Leave(t) \/ End(t)

Spec == Init /\ [][Next]_vars
=============================================================================
