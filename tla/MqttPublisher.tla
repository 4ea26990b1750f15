---------------------------- MODULE MqttPublisher ----------------------------
(***************************************************************************)
(* MqttPublisher (mqtt_publisher.cpp): the sink keeps the last result only *)
(* and a timer thread of its own sends it, again and again, until the next *)
(* one replaces it.                                                        *)
(*                                                                         *)
(* Three threads: the owner starts and stops the sink, the worker of the   *)
(* AsyncPublisher around it stores results, the timer sends them.  The     *)
(* mutex m_ keeps a result in one piece: its header (counts, times, frame  *)
(* rate) and its tracks are written and read as two steps here.  A result  *)
(* is the number of the call that stored it; telemetry shares the mutex    *)
(* and replaces metrics of the header only, and is left out.  libmosquitto *)
(* and the broker are a client that takes a message or refuses it.         *)
(***************************************************************************)
EXTENDS Naturals

CONSTANTS MaxResults,  \* bound on the results stored in a behaviour
          MaxStarts    \* bound on the calls of start()

ASSUME BoundsAssumption == MaxResults \in Nat /\ MaxStarts \in Nat

Results  == 0 .. MaxResults
Payloads == [header : Results, tracks : Results]
Nothing  == [header |-> 0, tracks |-> 0]

VARIABLES owner,    \* where the owner is in start() and stop()
          starts,   \* calls of start()
          client,   \* mq_ is there
          run,      \* run_
          tick,     \* where the timer thread is
          worker,   \* where the worker is in publish_result()
          m,        \* who holds m_
          last,     \* the result that is stored
          payload,  \* the message the timer has formatted
          sent      \* the last message the client took

timer == <<tick, payload, sent>>
vars  == <<owner, starts, client, run, timer, worker, m, last>>

TypeOK ==
  /\ owner \in {"off", "on", "join", "loop_stop"}
  /\ starts \in 0 .. MaxStarts
  /\ client \in BOOLEAN /\ run \in BOOLEAN
  /\ tick \in {"none", "test", "sleep", "lock", "body", "send", "exit"}
  /\ worker \in {"idle", "tracks"}
  /\ m \in {"free", "worker", "tick"}
  /\ last \in Payloads /\ payload \in Payloads /\ sent \in Payloads

Init ==
  /\ owner = "off" /\ starts = 0 /\ client = FALSE /\ run = FALSE
  /\ tick = "none" /\ worker = "idle" /\ m = "free"
  /\ last = Nothing /\ payload = Nothing /\ sent = Nothing

-----------------------------------------------------------------------------
(* Seeded faults: variants of definitions below that the properties must    *)
(* catch.                                                                   *)

\* stop() does not join the timer.
JoinSkipped ==
  /\ owner = "join" /\ owner' = "loop_stop"
  /\ UNCHANGED <<starts, client, run, timer, worker, m, last>>

\* A connection that is lost ends the timer.
RefusedEnds ==
  /\ tick = "send" /\ tick' = "exit"
  /\ UNCHANGED <<owner, starts, client, run, payload, sent, worker, m, last>>

\* The message is formatted without the mutex.
HeaderUnlocked ==
  /\ tick = "lock" /\ tick' = "body"
  /\ payload' = [payload EXCEPT !.header = last.header]
  /\ UNCHANGED <<owner, starts, client, run, sent, worker, m, last>>

-----------------------------------------------------------------------------
(* The owner *)

\* start(): connects, starts libmosquitto's thread and the timer; what fails is
\* undone.  No other thread is there to see the steps in between.
Start ==
  /\ owner = "off" /\ starts < MaxStarts
  /\ starts' = starts + 1
  /\ owner' = "on" /\ client' = TRUE /\ run' = TRUE /\ tick' = "test"
  /\ UNCHANGED <<payload, sent, worker, m, last>>

StartFails ==
  /\ owner = "off" /\ starts < MaxStarts
  /\ starts' = starts + 1
  /\ UNCHANGED <<owner, client, run, timer, worker, m, last>>

\* stop(), once the AsyncPublisher has joined its worker.
Stop ==
  /\ owner = "on" /\ worker = "idle"
  /\ owner' = "join" /\ run' = FALSE
  /\ UNCHANGED <<starts, client, timer, worker, m, last>>

StopJoin ==
  /\ owner = "join" /\ tick = "exit"
  /\ owner' = "loop_stop" /\ tick' = "none"
  /\ UNCHANGED <<starts, client, run, payload, sent, worker, m, last>>

\* mosquitto_loop_stop() returns, if it does; disconnect and destroy.
StopClient ==
  /\ owner = "loop_stop"
  /\ owner' = "off" /\ client' = FALSE
  /\ UNCHANGED <<starts, run, timer, worker, m, last>>

-----------------------------------------------------------------------------
(* The worker: publish_result(), while the AsyncPublisher is running *)

StoreHeader ==
  /\ owner = "on" /\ worker = "idle" /\ m = "free" /\ last.header < MaxResults
  /\ worker' = "tracks" /\ m' = "worker"
  /\ last' = [last EXCEPT !.header = @ + 1]
  /\ UNCHANGED <<owner, starts, client, run, timer>>

StoreTracks ==
  /\ worker = "tracks" /\ worker' = "idle" /\ m' = "free"
  /\ last' = [last EXCEPT !.tracks = last.header]
  /\ UNCHANGED <<owner, starts, client, run, timer>>

-----------------------------------------------------------------------------
(* The timer thread and tick_publish() *)

TickTest ==
  /\ tick = "test" /\ tick' = IF run THEN "sleep" ELSE "exit"
  /\ UNCHANGED <<owner, starts, client, run, payload, sent, worker, m, last>>

\* The period is over, whatever run_ has become meanwhile.
TickWake ==
  /\ tick = "sleep" /\ tick' = IF client THEN "lock" ELSE "test"
  /\ UNCHANGED <<owner, starts, client, run, payload, sent, worker, m, last>>

\* make_payload_locked()
CopyHeader ==
  /\ tick = "lock" /\ m = "free" /\ tick' = "body" /\ m' = "tick"
  /\ payload' = [payload EXCEPT !.header = last.header]
  /\ UNCHANGED <<owner, starts, client, run, sent, worker, last>>

CopyTracks ==
  /\ tick = "body" /\ tick' = "send" /\ m' = "free"
  /\ payload' = [payload EXCEPT !.tracks = last.tracks]
  /\ UNCHANGED <<owner, starts, client, run, sent, worker, last>>

\* mosquitto_publish() takes the message; or refuses it, which is logged.
SendTaken ==
  /\ tick = "send" /\ tick' = "test"
  /\ sent' = payload
  /\ UNCHANGED <<owner, starts, client, run, payload, worker, m, last>>

SendRefused ==
  /\ tick = "send" /\ tick' = "test"
  /\ UNCHANGED <<owner, starts, client, run, payload, sent, worker, m, last>>

-----------------------------------------------------------------------------

Owner == Start \/ StartFails \/ Stop \/ StopJoin \/ StopClient
Timer == TickTest \/ TickWake \/ CopyHeader \/ CopyTracks \/ SendTaken \/ SendRefused

Next == Owner \/ StoreHeader \/ StoreTracks \/ Timer

Spec == Init /\ [][Next]_vars

\* The threads run, the mutex is not withheld for ever, and the client does not
\* refuse for ever: libmosquitto's thread connects again.
FairSpec ==
  /\ Spec
  /\ WF_vars(StoreTracks) /\ WF_vars(Timer) /\ SF_vars(CopyHeader) /\ SF_vars(SendTaken)

-----------------------------------------------------------------------------
(* Correctness *)

\* A message is about one result, although it is formatted while the next result
\* may be stored: the counts of its header belong to its tracks.
MessageIsWhole ==
  /\ tick = "send" => payload.header = payload.tracks
  /\ sent.header = sent.tracks

\* The timer uses the client only while there is one, although stop() destroys it
\* from another thread and tick_publish() tests it without the mutex.
ClientOutlivesTimer ==
  /\ tick \in {"lock", "body", "send"} => client
  /\ owner \in {"off", "loop_stop"} => tick = "none"

\* Messages never go back in time, and never get ahead of what is stored, over any
\* number of refusals, stops and starts.
MessagesForward == [][sent.header <= sent'.header /\ sent'.header <= last.header]_vars

\* Messages go forward, and a result that stays the last one is sent in the end: no
\* refused message ends the timer.
LastIsSent ==
  /\ MessagesForward
  /\ \A n \in 1 .. MaxResults :
       worker = "idle" /\ last.header = n ~> sent.header >= n \/ ~run

-----------------------------------------------------------------------------
(* What a doc says and the code does not do *)

\* "No data loss for critical events" (TEST-STRATEGY.md): a result is not replaced
\* before it has been sent.
ResultsAreSent == [][StoreHeader => sent.header = last.header]_vars
=============================================================================
