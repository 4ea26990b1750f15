---------------------------- MODULE Orchestrator ----------------------------
(***************************************************************************)
(* The life cycle of the pipeline (src/orchestration/orchestrator.cpp) as  *)
(* main.cpp drives it: start, supervision and recovery, request_stop,      *)
(* join with its timeout, destruction.                                     *)
(*                                                                         *)
(* Threads: main; the supervisor; the capture thread and one worker thread *)
(* per enabled model, relaunched by every recovery; and the thread in      *)
(* which main.cpp calls Orchestrator::join().                              *)
(*                                                                         *)
(* Abstractions.  Frames are left to FrameMailbox and messages to          *)
(* AsyncPublisher.  The pipeline objects (input_, face_runner_,            *)
(* yolo_runner_) are created and destroyed together, so a thread that uses *)
(* them uses "live" or "freed" objects.  Whether a source opens, delivers  *)
(* a frame or lets a thread be created is the environment's choice.  Time  *)
(* is counted in ticks by saturating counters, so no behaviour is cut off. *)
(***************************************************************************)
EXTENDS Integers

CONSTANTS NumWorkers,       \* enabled models: face, yolo, or one of the two
          Grace,            \* ticks of the startup grace period
          HeartbeatTimeout, \* heartbeat_timeout_ms
          BackoffBase,      \* recovery_backoff_ms: its initial value (250 ms),
          BackoffAfterOk,   \*   after a successful recovery (2000 ms),
          BackoffMax,       \*   and its cap (8000 ms)
          LaunchMayFail,    \* std::thread's constructor may throw at start()
          JoinMayTimeOut    \* main.cpp's 10 s limit on join() may expire

ASSUME WorkersAssumption == NumWorkers \in Nat
ASSUME TimeAssumption ==
  /\ {Grace, HeartbeatTimeout} \subseteq Nat
  /\ {BackoffBase, BackoffAfterOk, BackoffMax} \subseteq Nat \ {0}
  /\ BackoffBase <= BackoffMax /\ BackoffAfterOk <= BackoffMax
ASSUME EnvironmentAssumption == {LaunchMayFail, JoinMayTimeOut} \subseteq BOOLEAN

Supervisor == 0             \* threads, in the order join() joins them
Capture    == 1
Last       == NumWorkers + 1
Workers    == 2 .. Last
Threads    == 1 .. Last     \* the ones stop_threads() stops, in its order
Never      == -1
NoOne      == "none"
Callers    == {"main", "sup", "joiner"}

VARIABLES state,     \* state_
          orchStop,  \* orchestrator_stop_
          stop,      \* stop_capture_, stop_face_, stop_yolo_
          broken,    \* HealthManager::broken_ of source_health_
          handle,    \* is the std::thread member joinable?
          joining,   \* who is blocked in pthread_join on that thread
          thr,       \* where each capture/worker thread is
          using,     \* the pipeline objects it uses: none, live or freed
          built,     \* input_ and the runners exist
          pc, at,    \* main, supervisor and joiner: step, and thread it is at
          grace,     \* ticks to startup_deadline_ns
          hbAge,     \* ticks since last_heartbeat_ns_
          since,     \* ticks since last_recovery_attempt_ns, Never when it is 0
          backoff,   \* recovery_backoff_ms
          sinceUp,   \* observation: ticks since the last successful recovery
          lastOk,    \* observation: the last fetch returned a frame
          over       \* how the process ended: "no", "exit", "terminate"

threadVars == <<handle, joining, thr, using>>
timeVars   == <<grace, hbAge, since, backoff, sinceUp>>
vars == <<state, orchStop, stop, broken, threadVars, built, pc, at, timeVars, lastOk, over>>

LeastOf(a, b) == IF a < b THEN a ELSE b

TypeOK ==
  /\ state \in {"Stopped", "Starting", "Running", "Recovering", "Error"}
  /\ {orchStop, broken, built, lastOk} \subseteq BOOLEAN
  /\ stop \in [Threads -> BOOLEAN]
  /\ handle \in [{Supervisor} \cup Threads -> BOOLEAN]
  /\ joining \in [{Supervisor} \cup Threads -> Callers \cup {NoOne}]
  /\ thr \in [Threads -> {"off", "new", "loop", "busy", "done"}]
  /\ using \in [Threads -> {"none", "live", "freed"}]
  /\ pc \in [Callers -> {"off", "build", "launch", "run", "wait", "top", "flags",
                         "join", "joining", "members", "exited"}]
  /\ at \in [Callers -> 0 .. Last + 1]
  /\ grace \in 0 .. Grace
  /\ hbAge \in 0 .. HeartbeatTimeout + 1
  /\ since \in {Never} \cup 0 .. BackoffMax
  /\ backoff \in 1 .. BackoffMax
  /\ sinceUp \in 0 .. BackoffAfterOk
  /\ over \in {"no", "exit", "terminate"}

Init ==
  /\ state = "Stopped" /\ orchStop = FALSE /\ broken = FALSE
  /\ stop = [t \in Threads |-> FALSE]
  /\ handle = [t \in {Supervisor} \cup Threads |-> FALSE]
  /\ joining = [t \in {Supervisor} \cup Threads |-> NoOne]
  /\ thr = [t \in Threads |-> "off"] /\ using = [t \in Threads |-> "none"]
  /\ built = FALSE
  /\ pc = [c \in Callers |-> IF c = "main" THEN "build" ELSE "off"]
  /\ at = [c \in Callers |-> 0]
  /\ grace = Grace /\ hbAge = 0 /\ since = Never
  /\ backoff = BackoffBase /\ sinceUp = BackoffAfterOk
  /\ lastOk = TRUE /\ over = "no"

\* The pipeline objects go away under whoever is still using them.
Freed == [t \in Threads |-> IF using[t] = "live" THEN "freed" ELSE using[t]]

\* While the process lives: caller c is at a step, thread t is in a state.
At(c, where) == over = "no" /\ pc[c] = where
In(t, where) == over = "no" /\ thr[t] = where

Goto(c, where) == pc' = [pc EXCEPT ![c] = where]
Advance(c) == at' = [at EXCEPT ![c] = @ + 1]

-----------------------------------------------------------------------------
(* Seeded faults: variants of definitions below that the properties must    *)
(* catch.                                                                   *)

\* stop_threads() gives up on a thread that has not ended.
EndedOrGivenUp(t) == TRUE

\* stop_threads() forgets the last worker.
JoinedButLast(c) == At(c, "join") /\ at[c] >= Last

\* A good frame clears broken, as health_manager.h suggests somebody could.
FetchOkClears ==
  /\ In(Capture, "busy")
  /\ thr' = [thr EXCEPT ![Capture] = "loop"] /\ using' = [using EXCEPT ![Capture] = "none"]
  /\ hbAge' = 0 /\ lastOk' = TRUE /\ broken' = FALSE
  /\ UNCHANGED <<state, orchStop, stop, handle, joining, built, pc, at,
                 grace, since, backoff, sinceUp, over>>

\* The backoff doubles without a cap.
RecoverFailsUncapped ==
  /\ \/ At("sup", "join") /\ at["sup"] = Last + 1
     \/ At("sup", "launch") /\ at["sup"] \in Threads
  /\ backoff' = 2 * backoff
  /\ Goto("sup", "top")
  /\ UNCHANGED <<state, orchStop, stop, broken, threadVars, built, at,
                 grace, hbAge, since, sinceUp, lastOk, over>>

\* The attempt keeps the time stamp taken before the teardown.
RecoverDoneOldStamp ==
  /\ At("sup", "launch") /\ at["sup"] = Last + 1
  /\ broken' = FALSE /\ hbAge' = 0 /\ state' = "Running"
  /\ backoff' = BackoffAfterOk /\ sinceUp' = 0
  /\ Goto("sup", "top")
  /\ UNCHANGED <<orchStop, stop, threadVars, built, at, grace, since, lastOk, over>>

\* stop_threads() stops the workers but forgets the capture thread.
StopFlagsNotCapture(c) ==
  /\ At(c, "flags")
  /\ stop' = [t \in Threads |-> t # Capture]
  /\ Goto(c, "join") /\ at' = [at EXCEPT ![c] = Capture]
  /\ UNCHANGED <<state, orchStop, broken, threadVars, built, timeVars, lastOk, over>>

\* The destructor does not stop the threads before it joins them.
StopFlagsNone(c) ==
  /\ At(c, "flags")
  /\ Goto(c, "join") /\ at' = [at EXCEPT ![c] = Capture]
  /\ UNCHANGED <<state, orchStop, stop, broken, threadVars, built, timeVars, lastOk, over>>

-----------------------------------------------------------------------------
(* start(), called by main.cpp *)

\* build_pipeline() succeeds: the input is open, the runners are loaded, the
\* health is reset and the heartbeat fresh.
StartBuild ==
  /\ At("main", "build")
  /\ state' = "Starting" /\ orchStop' = FALSE
  /\ broken' = FALSE /\ hbAge' = 0 /\ built' = TRUE
  /\ stop' = [t \in Threads |-> FALSE]
  /\ Goto("main", "launch") /\ at' = [at EXCEPT !["main"] = Capture]
  /\ UNCHANGED <<threadVars, grace, since, backoff, sinceUp, lastOk, over>>

\* The input does not open (source_health_.markBroken()) or a model does not
\* load; main.cpp returns, which destroys the orchestrator.
StartBuildFails ==
  /\ At("main", "build")
  /\ state' = "Error" /\ orchStop' = FALSE
  /\ broken' \in BOOLEAN
  /\ Goto("main", "flags")
  /\ UNCHANGED <<stop, threadVars, built, at, timeVars, lastOk, over>>

\* A std::thread is assigned to its member: fatal if the member is joinable.
Launch(t) ==
  IF handle[t]
  THEN over' = "terminate" /\ UNCHANGED <<handle, thr, using>>
  ELSE /\ handle' = [handle EXCEPT ![t] = TRUE]
       /\ thr' = [thr EXCEPT ![t] = "new"]
       /\ using' = [using EXCEPT ![t] = "none"]
       /\ UNCHANGED over

\* start_threads_after_build(): capture, then the enabled workers.
StartLaunch ==
  /\ At("main", "launch") /\ at["main"] \in Threads
  /\ Launch(at["main"])
  /\ Advance("main")
  /\ UNCHANGED <<state, orchStop, stop, broken, joining, built, pc, timeVars, lastOk>>

\* A launch throws: destroy_pipeline() at once, under the threads launched so
\* far; main.cpp returns, which destroys the orchestrator.
StartLaunchFails ==
  /\ LaunchMayFail
  /\ At("main", "launch") /\ at["main"] \in Threads
  /\ built' = FALSE /\ using' = Freed
  /\ state' = "Error"
  /\ Goto("main", "flags")
  /\ UNCHANGED <<orchStop, stop, broken, handle, joining, thr, at, timeVars, lastOk, over>>

\* supervisor_th_ starts, and with it the grace period.
StartSupervisor ==
  /\ At("main", "launch") /\ at["main"] = Last + 1
  /\ handle' = [handle EXCEPT ![Supervisor] = TRUE]
  /\ state' = "Running"
  /\ grace' = Grace
  /\ pc' = [pc EXCEPT !["main"] = "run", !["sup"] = "top"]
  /\ UNCHANGED <<orchStop, stop, broken, joining, thr, using, built, at,
                 hbAge, since, backoff, sinceUp, lastOk, over>>

-----------------------------------------------------------------------------
(* stop_threads(), called by recover_pipeline() and by the destructor.  The *)
(* 200 ms wait before the joins changes nothing and is left out.            *)

StopFlags(c) ==
  /\ At(c, "flags")
  /\ stop' = [t \in Threads |-> TRUE]
  /\ Goto(c, "join") /\ at' = [at EXCEPT ![c] = Capture]
  /\ UNCHANGED <<state, orchStop, broken, threadVars, built, timeVars, lastOk, over>>

\* join_if(), in stop_threads() and in join().  With a second thread already
\* blocked in pthread_join the call returns EINVAL and std::thread throws:
\* stop_threads() catches it and detaches, the noexcept join() terminates.
JoinBegin(c) ==
  LET t == at[c] IN
  /\ At(c, "join") /\ t <= Last
  /\ \/ /\ ~handle[t]
        /\ Advance(c) /\ UNCHANGED <<handle, joining, pc, over>>
     \/ /\ handle[t] /\ joining[t] = NoOne
        /\ joining' = [joining EXCEPT ![t] = c]
        /\ Goto(c, "joining") /\ UNCHANGED <<handle, at, over>>
     \/ /\ handle[t] /\ joining[t] # NoOne /\ c # "joiner"
        /\ handle' = [handle EXCEPT ![t] = FALSE]
        /\ Advance(c) /\ UNCHANGED <<joining, pc, over>>
     \/ /\ handle[t] /\ joining[t] # NoOne /\ c = "joiner"
        /\ over' = "terminate" /\ UNCHANGED <<handle, joining, pc, at>>
  /\ UNCHANGED <<state, orchStop, stop, broken, thr, using, built, timeVars, lastOk>>

Ended(t) == IF t = Supervisor THEN pc["sup"] = "exited" ELSE thr[t] = "done"

JoinEnd(c) ==
  LET t == at[c] IN
  /\ At(c, "joining") /\ Ended(t)
  /\ handle' = [handle EXCEPT ![t] = FALSE]
  /\ joining' = [joining EXCEPT ![t] = NoOne]
  /\ Goto(c, "join") /\ Advance(c)
  /\ UNCHANGED <<state, orchStop, stop, broken, thr, using, built, timeVars, lastOk, over>>

Joined(c) == At(c, "join") /\ at[c] = Last + 1

-----------------------------------------------------------------------------
(* supervisor_loop(), and recover_pipeline() which runs in it *)

\* One turn of the loop up to its recovery decision.
SupervisorTurn ==
  LET stale   == grace = 0 /\ hbAge > HeartbeatTimeout
      recover == (broken \/ stale) /\ grace = 0
      due     == since = Never \/ since >= backoff
  IN
  /\ At("sup", "top") /\ ~orchStop
  /\ broken' = (broken \/ stale)
  /\ IF recover
     THEN /\ state' = "Recovering" /\ UNCHANGED backoff
          /\ IF due THEN since' = 0 /\ Goto("sup", "flags") ELSE UNCHANGED <<since, pc>>
     ELSE /\ IF state = "Recovering"
             THEN state' = "Running" /\ backoff' = BackoffBase /\ since' = Never
             ELSE UNCHANGED <<state, backoff, since>>
          /\ UNCHANGED pc
  /\ UNCHANGED <<orchStop, stop, threadVars, built, at, grace, hbAge, sinceUp, lastOk, over>>

SupervisorExit ==
  /\ At("sup", "top") /\ orchStop
  /\ Goto("sup", "exited")
  /\ UNCHANGED <<state, orchStop, stop, broken, threadVars, built, at, timeVars, lastOk, over>>

\* The attempt fails: no device, open(), start() or load() fails, or a thread
\* cannot be created.  Everything stays as it is; the next attempt waits twice
\* as long.
RecoverFails ==
  /\ Joined("sup") \/ (At("sup", "launch") /\ at["sup"] \in Threads)
  /\ backoff' = LeastOf(BackoffMax, 2 * backoff)
  /\ Goto("sup", "top")
  /\ UNCHANGED <<state, orchStop, stop, broken, threadVars, built, at,
                 grace, hbAge, since, sinceUp, lastOk, over>>

\* The new input is open and the new models are loaded: they replace the old
\* objects, which dies with its last reference, and the stop flags are cleared.
RecoverPublish ==
  /\ Joined("sup")
  /\ built' = TRUE /\ using' = Freed
  /\ stop' = [t \in Threads |-> FALSE]
  /\ Goto("sup", "launch") /\ at' = [at EXCEPT !["sup"] = Capture]
  /\ UNCHANGED <<state, orchStop, broken, handle, joining, thr, timeVars, lastOk, over>>

RecoverLaunch ==
  /\ At("sup", "launch") /\ at["sup"] \in Threads
  /\ Launch(at["sup"])
  /\ Advance("sup")
  /\ UNCHANGED <<state, orchStop, stop, broken, joining, built, pc, timeVars, lastOk>>

\* "Mark healthy again only NOW", whatever the new threads reported meanwhile;
\* back in the loop, the next attempt is BackoffAfterOk away from now.
RecoverDone ==
  /\ At("sup", "launch") /\ at["sup"] = Last + 1
  /\ broken' = FALSE /\ hbAge' = 0 /\ state' = "Running"
  /\ since' = 0 /\ backoff' = BackoffAfterOk /\ sinceUp' = 0
  /\ Goto("sup", "top")
  /\ UNCHANGED <<orchStop, stop, threadVars, built, at, grace, lastOk, over>>

-----------------------------------------------------------------------------
(* capture_loop_threadfn() and the model workers *)

\* The thread runs.  A worker takes the runner now and leaves if there is none;
\* the capture thread dereferences input_ again at every turn.
ThreadStart(t) ==
  /\ In(t, "new")
  /\ IF t \in Workers /\ ~built
     THEN thr' = [thr EXCEPT ![t] = "done"] /\ UNCHANGED using
     ELSE /\ thr' = [thr EXCEPT ![t] = "loop"]
          /\ using' = [using EXCEPT ![t] = IF t \in Workers THEN "live" ELSE "none"]
  /\ UNCHANGED <<state, orchStop, stop, broken, handle, joining, built, pc, at, timeVars, lastOk, over>>

ThreadExit(t) ==
  /\ In(t, "loop") /\ stop[t]
  /\ thr' = [thr EXCEPT ![t] = "done"]
  /\ using' = [using EXCEPT ![t] = "none"]
  /\ UNCHANGED <<state, orchStop, stop, broken, handle, joining, built, pc, at, timeVars, lastOk, over>>

\* input_->tryFetch() is entered; a worker has a frame and runs the model.
ThreadEnter(t) ==
  /\ In(t, "loop") /\ ~stop[t]
  /\ thr' = [thr EXCEPT ![t] = "busy"]
  /\ using' = IF t \in Workers THEN using
              ELSE [using EXCEPT ![t] = IF built THEN "live" ELSE "freed"]
  /\ UNCHANGED <<state, orchStop, stop, broken, handle, joining, built, pc, at, timeVars, lastOk, over>>

\* The fetch returned a frame: post it, refresh the heartbeat.  The good frame
\* does not clear broken.
FetchOk ==
  /\ In(Capture, "busy")
  /\ thr' = [thr EXCEPT ![Capture] = "loop"] /\ using' = [using EXCEPT ![Capture] = "none"]
  /\ hbAge' = 0 /\ lastOk' = TRUE
  /\ UNCHANGED <<state, orchStop, stop, broken, handle, joining, built, pc, at,
                 grace, since, backoff, sinceUp, over>>

\* Any other status, one 200 ms timeout included: onBusError() marks broken.
FetchFails ==
  /\ In(Capture, "busy")
  /\ thr' = [thr EXCEPT ![Capture] = "loop"] /\ using' = [using EXCEPT ![Capture] = "none"]
  /\ broken' = TRUE /\ lastOk' = FALSE
  /\ UNCHANGED <<state, orchStop, stop, handle, joining, built, pc, at, timeVars, over>>

InferenceReturns(t) ==
  /\ t \in Workers /\ In(t, "busy")
  /\ thr' = [thr EXCEPT ![t] = "loop"]
  /\ UNCHANGED <<state, orchStop, stop, broken, handle, joining, using, built, pc, at, timeVars, lastOk, over>>

-----------------------------------------------------------------------------
(* Shutdown, in main.cpp *)

\* request_stop(), and a thread that calls join(): supervisor first.
RequestStop ==
  /\ At("main", "run")
  /\ orchStop' = TRUE
  /\ pc' = [pc EXCEPT !["main"] = "wait", !["joiner"] = "join"]
  /\ at' = [at EXCEPT !["joiner"] = Supervisor]
  /\ UNCHANGED <<state, stop, broken, threadVars, built, timeVars, lastOk, over>>

\* join() returned; main returns and the orchestrator is destroyed.
JoinReturns ==
  /\ At("main", "wait") /\ Joined("joiner")
  /\ pc' = [pc EXCEPT !["main"] = "flags", !["joiner"] = "exited"]
  /\ UNCHANGED <<state, orchStop, stop, broken, threadVars, built, at, timeVars, lastOk, over>>

\* 10 s have passed: "forcing exit".  The joiner is detached where it is.
JoinTimesOut ==
  /\ JoinMayTimeOut
  /\ At("main", "wait") /\ ~Joined("joiner")
  /\ Goto("main", "flags")
  /\ UNCHANGED <<state, orchStop, stop, broken, threadVars, built, at, timeVars, lastOk, over>>

\* The destructor: stop_threads(), then destroy_pipeline() ...
Destroy ==
  /\ Joined("main")
  /\ built' = FALSE /\ using' = Freed
  /\ Goto("main", "members")
  /\ UNCHANGED <<state, orchStop, stop, broken, handle, joining, thr, at, timeVars, lastOk, over>>

\* ... then the members, where a joinable std::thread terminates the process.
DestroyMembers ==
  /\ At("main", "members")
  /\ over' = IF \E t \in DOMAIN handle : handle[t] THEN "terminate" ELSE "exit"
  /\ Goto("main", "exited")
  /\ UNCHANGED <<state, orchStop, stop, broken, threadVars, built, at, timeVars, lastOk>>

-----------------------------------------------------------------------------

Tick ==
  /\ over = "no"
  /\ grace' = IF grace > 0 THEN grace - 1 ELSE 0
  /\ hbAge' = LeastOf(hbAge + 1, HeartbeatTimeout + 1)
  /\ since' = IF since = Never THEN Never ELSE LeastOf(since + 1, BackoffMax)
  /\ sinceUp' = LeastOf(sinceUp + 1, BackoffAfterOk)
  /\ UNCHANGED <<state, orchStop, stop, broken, threadVars, built, pc, at, backoff, lastOk, over>>

StartStep == StartBuild \/ StartBuildFails \/ StartLaunch \/ StartLaunchFails \/ StartSupervisor
StopThreadsStep(c) == StopFlags(c) \/ JoinBegin(c) \/ JoinEnd(c)
SupervisorStep == SupervisorTurn \/ SupervisorExit \/ StopThreadsStep("sup")
                  \/ RecoverFails \/ RecoverPublish \/ RecoverLaunch \/ RecoverDone
ThreadStep(t) == ThreadStart(t) \/ ThreadExit(t) \/ ThreadEnter(t) \/ InferenceReturns(t)
ShutdownStep == RequestStop \/ JoinReturns \/ JoinTimesOut \/ StopThreadsStep("main")
                \/ Destroy \/ DestroyMembers \/ StopThreadsStep("joiner")

ProcessOver == over # "no" /\ UNCHANGED vars

Next == \/ StartStep \/ SupervisorStep \/ ShutdownStep \/ Tick
        \/ FetchOk \/ FetchFails
        \/ \E t \in Threads : ThreadStep(t)
        \/ ProcessOver

Spec == Init /\ [][Next]_vars

-----------------------------------------------------------------------------
(* Correctness.  The first three hold while the shutdown completes within   *)
(* main.cpp's limit and start() can create its threads: see the README for  *)
(* the two ways in which UsesLive fails otherwise.                          *)

\* A thread that is inside tryFetch() or a model uses objects that exist:
\* recovery and destruction replace them only when nobody is inside.
UsesLive == \A t \in Threads : thr[t] = "busy" => using[t] = "live"

\* No std::thread is assigned or destroyed while joinable, after any number of
\* recoveries that failed half-way through their launches.
NoTerminate == over # "terminate"

\* "Running" is never reported over a pipeline that is down or half launched,
\* however many recoveries failed, whatever the capture thread reported.
RunningIsWhole ==
  state = "Running" /\ At("sup", "top") => \A t \in Threads : handle[t] /\ ~stop[t]

\* A pipeline that was just restored is left alone for BackoffAfterOk, counted
\* from the END of the recovery, even if it is reported broken at once.
TeardownBegins == pc["sup"] = "top" /\ pc'["sup"] = "flags"
PostRecoveryGrace == [][TeardownBegins => sinceUp >= BackoffAfterOk]_vars

\* Only the end of a recovery ends "Recovering", and the time of the last attempt is
\* never forgotten: no report of the capture thread gets the supervisor to the branch
\* that goes back to "Running" and to the initial backoff with no recovery done.
AttemptsRemembered ==
  [][ /\ state = "Recovering" /\ state' # state => pc["sup"] = "launch"
      /\ since # Never => since' # Never ]_vars

\* stop_threads(), which joins without a limit, waits only for a thread that has been
\* told to stop and has not been told otherwise since.
StopsBeforeJoins ==
  \A c \in {"main", "sup"} : At(c, "joining") => stop[at[c]]

\* The life cycle implements PipelineUse: the objects that the threads share come and
\* go only while no thread runs, a thread is launched only after its predecessor has
\* ended, and a recovery that replaces the objects leaves nobody with the old ones.
Running == {t \in Threads : thr[t] \in {"new", "loop", "busy"}}
Abstract == INSTANCE PipelineUse WITH there <- built, running <- Running
ImplementsPipelineUse == Abstract!Spec

\* main.cpp has given up on join(): the destructor runs beside the joiner.
GivenUp == /\ pc["main"] \in {"flags", "join", "joining", "members", "exited"}
           /\ pc["joiner"] \in {"join", "joining"}

-----------------------------------------------------------------------------
(* Liveness.  The kernel schedules every thread, tryFetch() returns (200 ms *)
(* for USB, about 1 s for RTSP) and time passes.                            *)

ThreadsScheduled ==
  /\ WF_vars(StartStep) /\ WF_vars(SupervisorStep) /\ WF_vars(Tick)
  /\ WF_vars(FetchOk \/ FetchFails)
  /\ \A t \in Threads : WF_vars(ThreadStart(t) \/ ThreadExit(t) \/ ThreadEnter(t))
  /\ WF_vars(JoinReturns) /\ WF_vars(JoinTimesOut)
  /\ WF_vars(StopThreadsStep("joiner"))
  /\ WF_vars(StopThreadsStep("main") \/ Destroy \/ DestroyMembers)

\* A model call returns.
InferenceIsBounded == \A t \in Workers : WF_vars(InferenceReturns(t))

\* The source comes back for good: attempts do not fail for ever.
SourceReturns ==
  /\ SF_vars(RecoverPublish)
  /\ \A t \in Threads : SF_vars(RecoverLaunch /\ at["sup"] = t)

FairSpec == Spec /\ ThreadsScheduled /\ InferenceIsBounded /\ SourceReturns

\* A source that is reported broken is recovered: the grace period, the backoff
\* after any number of failed attempts and the teardown all come to an end.
BrokenIsRecovered ==
  broken /\ At("sup", "top") ~> ~broken \/ orchStop \/ over # "no"

\* A shutdown ends, by main.cpp's time limit if not by the join, although the
\* destructor and the abandoned joiner then race for the same threads; provided
\* the destructor does not begin inside a recovery (see ShutdownForced).
ShutdownEnds ==
  (At("main", "wait") \/ At("main", "flags")) /\ pc["sup"] \in {"off", "top", "exited"}
  ~> over # "no"

-----------------------------------------------------------------------------
(* What the documentation says and the code does not do *)

\* main.cpp, when join() times out: "Let it run, we're exiting anyway".  A
\* recovery in progress then clears the stop flags the destructor has just set,
\* launches threads nobody stops, and the destructor joins them for ever.
ShutdownForced == orchStop ~> over # "no"

\* orchestrator.cpp, supervisor_loop(): the grace period "prevents false
\* "broken" detection".  A teardown should have a cause still present.
TeardownHasCause == [][TeardownBegins => ~lastOk \/ hbAge > HeartbeatTimeout]_vars
=============================================================================
