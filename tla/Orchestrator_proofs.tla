------------------------ MODULE Orchestrator_proofs ------------------------
(***************************************************************************)
(* Theorems about Orchestrator, for any number of workers and any time     *)
(* constants.                                                              *)
(***************************************************************************)
EXTENDS Orchestrator, TLAPS

-----------------------------------------------------------------------------
(* Type correctness *)

\* What the assumptions on the constants say, one by one.
LEMMA ConstantFacts ==
  /\ NumWorkers \in Nat /\ Grace \in Nat /\ HeartbeatTimeout \in Nat
  /\ BackoffBase \in Nat /\ BackoffAfterOk \in Nat /\ BackoffMax \in Nat
  /\ 1 <= BackoffBase /\ 1 <= BackoffAfterOk
  /\ BackoffBase <= BackoffMax /\ BackoffAfterOk <= BackoffMax
BY WorkersAssumption, TimeAssumption

\* TypeOK alone is not inductive: the end of a join advances the caller, which
\* must then be at a thread and not past the last one.
JoiningAtThread == \A c \in Callers : pc[c] = "joining" => at[c] <= Last

TypeInv == TypeOK /\ JoiningAtThread

\* The initial state is well typed.
LEMMA InitTypeInv == Init => TypeInv
<1> SUFFICES ASSUME Init PROVE TypeInv
  OBVIOUS
<1> USE ConstantFacts
        DEF Init, Supervisor, Capture, Last, Workers, Threads, Never, NoOne, Callers
<1>1. stop \in [Threads -> BOOLEAN] /\ thr \in [Threads -> {"off", "new", "loop", "busy", "done"}]
      /\ using \in [Threads -> {"none", "live", "freed"}]
  OBVIOUS
<1>2. handle \in [{Supervisor} \cup Threads -> BOOLEAN]
      /\ joining \in [{Supervisor} \cup Threads -> Callers \cup {NoOne}]
  OBVIOUS
<1>3. pc \in [Callers -> {"off", "build", "launch", "run", "wait", "top", "flags",
                         "join", "joining", "members", "exited"}]
      /\ at \in [Callers -> 0 .. Last + 1]
  OBVIOUS
<1>4. grace \in 0 .. Grace /\ hbAge \in 0 .. HeartbeatTimeout + 1
      /\ since \in {Never} \cup 0 .. BackoffMax
      /\ backoff \in 1 .. BackoffMax /\ sinceUp \in 0 .. BackoffAfterOk
  OBVIOUS
<1>5. TypeOK BY <1>1, <1>2, <1>3, <1>4 DEF TypeOK
<1>6. JoiningAtThread BY DEF JoiningAtThread
<1>7. QED BY <1>5, <1>6 DEF TypeInv

\* Assigning a std::thread keeps the thread variables in their types.
LEMMA LaunchTypes ==
  ASSUME TypeOK, NEW t \in Threads, Launch(t)
  PROVE  /\ handle' \in [{Supervisor} \cup Threads -> BOOLEAN]
         /\ thr' \in [Threads -> {"off", "new", "loop", "busy", "done"}]
         /\ using' \in [Threads -> {"none", "live", "freed"}]
         /\ over' \in {"no", "exit", "terminate"}
BY DEF TypeOK, Launch

\* Every step of every thread keeps the state well typed.
LEMMA NextTypeInv == TypeInv /\ [Next]_vars => TypeInv'
<1> SUFFICES ASSUME TypeInv, [Next]_vars PROVE TypeInv'
  OBVIOUS
<1> USE ConstantFacts
        DEF TypeInv, TypeOK, JoiningAtThread, threadVars, timeVars, At, In, Goto, Advance,
            Supervisor, Capture, Last, Workers, Threads, Never, NoOne, Callers
<1>1. CASE StartBuild
  <2>1. stop' \in [Threads -> BOOLEAN] BY <1>1 DEF StartBuild
  <2>2. pc' = [pc EXCEPT !["main"] = "launch"] /\ at' = [at EXCEPT !["main"] = Capture]
    BY <1>1 DEF StartBuild
  <2>3. /\ state' = "Starting" /\ orchStop' = FALSE /\ broken' = FALSE /\ hbAge' = 0 /\ built' = TRUE
        /\ UNCHANGED <<handle, joining, thr, using, grace, since, backoff, sinceUp, lastOk, over>>
    BY <1>1 DEF StartBuild
  <2>4. hbAge' \in 0 .. HeartbeatTimeout + 1 /\ at' \in [Callers -> 0 .. Last + 1]
    BY <2>2, <2>3
  <2>5. TypeOK' BY <2>1, <2>2, <2>3, <2>4
  <2>6. JoiningAtThread' BY <2>2
  <2>7. QED BY <2>5, <2>6
<1>2. CASE StartBuildFails BY <1>2 DEF StartBuildFails
<1>3. CASE StartLaunch
  <2>1. at["main"] \in Threads /\ Launch(at["main"]) /\ at' = [at EXCEPT !["main"] = @ + 1]
        /\ pc["main"] = "launch"
        /\ UNCHANGED <<state, orchStop, stop, broken, joining, built, pc, timeVars, lastOk>>
    BY <1>3 DEF StartLaunch
  <2>2. TypeOK' BY <2>1, LaunchTypes
  <2>3. JoiningAtThread' BY <2>1
  <2>4. QED BY <2>2, <2>3
<1>4. CASE StartLaunchFails BY <1>4 DEF StartLaunchFails, Freed
<1>5. CASE StartSupervisor BY <1>5 DEF StartSupervisor
<1>6. ASSUME NEW c \in Callers, StopFlags(c) PROVE TypeInv' BY <1>6 DEF StopFlags
<1>7. ASSUME NEW c \in Callers, JoinBegin(c) PROVE TypeInv'
  <2>1. at[c] \in {Supervisor} \cup Threads
        /\ UNCHANGED <<state, orchStop, stop, broken, thr, using, built, timeVars, lastOk>>
    BY <1>7 DEF JoinBegin
  <2>2. handle' \in [{Supervisor} \cup Threads -> BOOLEAN]
        /\ joining' \in [{Supervisor} \cup Threads -> Callers \cup {NoOne}]
        /\ over' \in {"no", "exit", "terminate"}
    BY <1>7, <2>1 DEF JoinBegin
  <2>3. \/ at' = [at EXCEPT ![c] = @ + 1] /\ pc' = pc
        \/ at' = at /\ pc' = [pc EXCEPT ![c] = "joining"]
        \/ at' = at /\ pc' = pc
    BY <1>7 DEF JoinBegin
  <2>4. pc[c] = "join" /\ at[c] <= Last BY <1>7 DEF JoinBegin
  <2>5. TypeOK' BY <2>1, <2>2, <2>3, <2>4
  <2>6. JoiningAtThread' BY <2>3, <2>4
  <2>7. QED BY <2>5, <2>6
<1>8. ASSUME NEW c \in Callers, JoinEnd(c) PROVE TypeInv' BY <1>8 DEF JoinEnd
<1>9. CASE SupervisorTurn BY <1>9 DEF SupervisorTurn
<1>10. CASE SupervisorExit BY <1>10 DEF SupervisorExit
<1>11. CASE RecoverFails BY <1>11 DEF RecoverFails, LeastOf
<1>12. CASE RecoverPublish BY <1>12 DEF RecoverPublish, Freed
<1>13. CASE RecoverLaunch
  <2>1. at["sup"] \in Threads /\ Launch(at["sup"]) /\ at' = [at EXCEPT !["sup"] = @ + 1]
        /\ pc["sup"] = "launch"
        /\ UNCHANGED <<state, orchStop, stop, broken, joining, built, pc, timeVars, lastOk>>
    BY <1>13 DEF RecoverLaunch
  <2>2. TypeOK' BY <2>1, LaunchTypes
  <2>3. JoiningAtThread' BY <2>1
  <2>4. QED BY <2>2, <2>3
<1>14. CASE RecoverDone
  <2>1. /\ hbAge' = 0 /\ since' = 0 /\ sinceUp' = 0 /\ backoff' = BackoffAfterOk
        /\ state' = "Running" /\ broken' = FALSE /\ pc' = [pc EXCEPT !["sup"] = "top"]
        /\ UNCHANGED <<orchStop, stop, handle, joining, thr, using, built, at, grace, lastOk, over>>
    BY <1>14 DEF RecoverDone
  <2>2. hbAge' \in 0 .. HeartbeatTimeout + 1 /\ since' \in 0 .. BackoffMax
        /\ backoff' \in 1 .. BackoffMax /\ sinceUp' \in 0 .. BackoffAfterOk
    BY <2>1
  <2>3. TypeOK' BY <2>1, <2>2
  <2>4. JoiningAtThread' BY <2>1
  <2>5. QED BY <2>3, <2>4
<1>15. ASSUME NEW t \in Threads, ThreadStart(t) PROVE TypeInv' BY <1>15 DEF ThreadStart
<1>16. ASSUME NEW t \in Threads, ThreadExit(t) PROVE TypeInv' BY <1>16 DEF ThreadExit
<1>17. ASSUME NEW t \in Threads, ThreadEnter(t) PROVE TypeInv' BY <1>17 DEF ThreadEnter
<1>18. ASSUME NEW t \in Threads, InferenceReturns(t) PROVE TypeInv' BY <1>18 DEF InferenceReturns
<1>19. CASE FetchOk BY <1>19 DEF FetchOk
<1>20. CASE FetchFails BY <1>20 DEF FetchFails
<1>21. CASE RequestStop BY <1>21 DEF RequestStop
<1>22. CASE JoinReturns BY <1>22 DEF JoinReturns
<1>23. CASE JoinTimesOut BY <1>23 DEF JoinTimesOut
<1>24. CASE Destroy BY <1>24 DEF Destroy, Freed
<1>25. CASE DestroyMembers BY <1>25 DEF DestroyMembers
<1>26. CASE Tick BY <1>26 DEF Tick, LeastOf
<1>27. CASE UNCHANGED vars BY <1>27 DEF vars
<1>28. QED
  BY <1>1, <1>2, <1>3, <1>4, <1>5, <1>6, <1>7, <1>8, <1>9, <1>10, <1>11, <1>12, <1>13, <1>14,
     <1>15, <1>16, <1>17, <1>18, <1>19, <1>20, <1>21, <1>22, <1>23, <1>24, <1>25, <1>26, <1>27
  DEF Next, StartStep, SupervisorStep, StopThreadsStep, ThreadStep, ShutdownStep, ProcessOver

\* Whatever fails and however often, no variable of the life cycle leaves its
\* type; in particular recovery_backoff_ms stays within 1 .. BackoffMax.
THEOREM TypeCorrect == Spec => []TypeOK
<1>1. TypeInv => TypeOK BY DEF TypeInv
<1>2. Spec => []TypeInv BY InitTypeInv, NextTypeInv, PTL DEF Spec
<1>3. QED BY <1>1, <1>2, PTL

-----------------------------------------------------------------------------
(* The grace after a recovery *)

\* A recovery goes on only after its grace; a "Recovering" pipeline stays broken
\* until the recovery is done, so the branch of supervisor_loop() that would
\* reset the time stamp and the backoff is never taken.
GraceInv ==
  /\ state = "Recovering" => broken /\ grace = 0
  /\ sinceUp < BackoffAfterOk => /\ since = sinceUp /\ backoff = BackoffAfterOk
                                 /\ pc["sup"] \in {"top", "exited"}

\* The initial state satisfies it.
LEMMA InitGraceInv == Init => GraceInv
BY ConstantFacts DEF Init, GraceInv

\* Every step preserves it, and none begins a teardown within the grace.
LEMMA NextGraceInv ==
  ASSUME TypeInv, GraceInv, [Next]_vars
  PROVE  GraceInv' /\ (TeardownBegins => sinceUp >= BackoffAfterOk)
<1> USE ConstantFacts
    DEF TypeInv, TypeOK, GraceInv, TeardownBegins, threadVars, timeVars, At, In, Goto, Advance,
        Callers, Never, Joined
<1>1. CASE StartStep
  BY <1>1 DEF StartStep, StartBuild, StartBuildFails, StartLaunch, StartLaunchFails, StartSupervisor
<1>2. ASSUME NEW c \in Callers, StopThreadsStep(c)
      PROVE  GraceInv' /\ (TeardownBegins => sinceUp >= BackoffAfterOk)
  BY <1>2 DEF StopThreadsStep, StopFlags, JoinBegin, JoinEnd
<1>3. CASE SupervisorTurn
  <2> DEFINE stale   == grace = 0 /\ hbAge > HeartbeatTimeout
             recover == (broken \/ stale) /\ grace = 0
             due     == since = Never \/ since >= backoff
  <2>1. pc["sup"] = "top" /\ broken' = (broken \/ stale) /\ grace' = grace /\ sinceUp' = sinceUp
    BY <1>3 DEF SupervisorTurn
  <2>2. CASE recover /\ due
    <3>1. backoff' = backoff /\ broken' = TRUE BY <1>3, <2>1, <2>2 DEF SupervisorTurn
    <3>2. sinceUp >= BackoffAfterOk BY <2>2
    <3>3. QED BY <2>1, <2>2, <3>1, <3>2
  <2>3. CASE recover /\ ~due
    <3>1. UNCHANGED <<since, pc, backoff>> /\ broken' = TRUE
      BY <1>3, <2>1, <2>3 DEF SupervisorTurn
    <3>2. QED BY <2>1, <2>3, <3>1
  <2>4. CASE ~recover
    <3>1. state # "Recovering" BY <2>4
    <3>2. UNCHANGED <<state, since, pc, backoff>> BY <1>3, <2>4, <3>1 DEF SupervisorTurn
    <3>3. QED BY <2>1, <3>1, <3>2
  <2>5. QED BY <2>2, <2>3, <2>4
<1>4. CASE SupervisorExit BY <1>4 DEF SupervisorExit
<1>5. CASE RecoverFails BY <1>5 DEF RecoverFails
<1>6. CASE RecoverPublish \/ RecoverLaunch BY <1>6 DEF RecoverPublish, RecoverLaunch
<1>7. CASE RecoverDone BY <1>7 DEF RecoverDone
<1>8. ASSUME NEW t \in Threads, ThreadStep(t)
      PROVE  GraceInv' /\ (TeardownBegins => sinceUp >= BackoffAfterOk)
  BY <1>8 DEF ThreadStep, ThreadStart, ThreadExit, ThreadEnter, InferenceReturns
<1>9. CASE FetchOk \/ FetchFails BY <1>9 DEF FetchOk, FetchFails
<1>10. CASE RequestStop \/ JoinReturns \/ JoinTimesOut \/ Destroy \/ DestroyMembers
  BY <1>10 DEF RequestStop, JoinReturns, JoinTimesOut, Destroy, DestroyMembers
<1>11. CASE Tick BY <1>11 DEF Tick, LeastOf
<1>12. CASE UNCHANGED vars BY <1>12 DEF vars
<1>13. QED
  BY <1>1, <1>2, <1>3, <1>4, <1>5, <1>6, <1>7, <1>8, <1>9, <1>10, <1>11, <1>12
  DEF Next, SupervisorStep, ShutdownStep, ProcessOver

\* supervisor_loop() never tears down a pipeline within BackoffAfterOk of its
\* restoration, whatever is reported about the source meanwhile.
THEOREM GraceKept == Spec => PostRecoveryGrace
<1>1. Spec => [](TypeInv /\ GraceInv)
  BY InitTypeInv, NextTypeInv, InitGraceInv, NextGraceInv, PTL DEF Spec
<1>2. TypeInv /\ GraceInv /\ [Next]_vars => [TeardownBegins => sinceUp >= BackoffAfterOk]_vars
  BY NextGraceInv
<1>3. QED BY <1>1, <1>2, PTL DEF Spec, PostRecoveryGrace

-----------------------------------------------------------------------------
(* The attempts are remembered *)

\* While main.cpp starts, it is alone and there is nothing to recover yet.
Starting ==
  pc["main"] \in {"build", "launch"} =>
    pc["sup"] = "off" /\ pc["joiner"] = "off" /\ state # "Recovering"

\* No step but the end of a recovery leaves "Recovering", and none forgets the time of
\* the last attempt.
LEMMA NextRemembered ==
  ASSUME TypeInv, GraceInv, Starting, [Next]_vars
  PROVE  /\ Starting'
         /\ state = "Recovering" /\ state' # state => pc["sup"] = "launch"
         /\ since # Never => since' # Never
<1> USE ConstantFacts
    DEF TypeInv, TypeOK, GraceInv, Starting, threadVars, timeVars, At, In, Goto, Advance,
        Callers, Never, Joined
<1>1. CASE StartStep
  BY <1>1 DEF StartStep, StartBuild, StartBuildFails, StartLaunch, StartLaunchFails, StartSupervisor
<1>2. ASSUME NEW c \in Callers, StopThreadsStep(c)
      PROVE  Starting' /\ UNCHANGED <<state, since>>
  BY <1>2 DEF StopThreadsStep, StopFlags, JoinBegin, JoinEnd
<1>3. CASE SupervisorTurn
  <2>1. pc["sup"] = "top" /\ (broken => broken') /\ grace' = grace BY <1>3 DEF SupervisorTurn
  <2>2. state = "Recovering" => broken /\ grace = 0 OBVIOUS
  <2>3. state # "Recovering" \/ state' = "Recovering" BY <1>3, <2>2 DEF SupervisorTurn
  <2>4. since # Never => since' # Never BY <1>3, <2>2 DEF SupervisorTurn
  <2>5. Starting' BY <1>3, <2>1 DEF SupervisorTurn
  <2>6. QED BY <2>3, <2>4, <2>5
<1>4. CASE SupervisorExit \/ RecoverFails
  BY <1>4 DEF SupervisorExit, RecoverFails
<1>5. CASE RecoverPublish \/ RecoverLaunch BY <1>5 DEF RecoverPublish, RecoverLaunch
<1>6. CASE RecoverDone BY <1>6 DEF RecoverDone
<1>7. ASSUME NEW t \in Threads, ThreadStep(t)
      PROVE  Starting' /\ UNCHANGED <<state, since>>
  BY <1>7 DEF ThreadStep, ThreadStart, ThreadExit, ThreadEnter, InferenceReturns
<1>8. CASE FetchOk \/ FetchFails BY <1>8 DEF FetchOk, FetchFails
<1>9. CASE RequestStop \/ JoinReturns \/ JoinTimesOut \/ Destroy \/ DestroyMembers
  BY <1>9 DEF RequestStop, JoinReturns, JoinTimesOut, Destroy, DestroyMembers
<1>10. CASE Tick BY <1>10 DEF Tick, LeastOf
<1>11. CASE UNCHANGED vars BY <1>11 DEF vars
<1>12. QED
  BY <1>1, <1>2, <1>3, <1>4, <1>5, <1>6, <1>7, <1>8, <1>9, <1>10, <1>11
  DEF Next, SupervisorStep, ShutdownStep, ProcessOver

\* The branch of supervisor_loop() that resets the backoff "when healthy" is never taken.
THEOREM ResetIsDead == Spec => AttemptsRemembered
<1>1. Init => Starting BY DEF Init, Starting, Callers
<1>2. Spec => [](TypeInv /\ GraceInv)
  BY InitTypeInv, NextTypeInv, InitGraceInv, NextGraceInv, PTL DEF Spec
<1>3. TypeInv /\ GraceInv /\ Starting /\ [Next]_vars
        => /\ Starting'
           /\ [ /\ state = "Recovering" /\ state' # state => pc["sup"] = "launch"
                /\ since # Never => since' # Never ]_vars
  BY NextRemembered
<1>4. QED BY <1>1, <1>2, <1>3, PTL DEF Spec, AttemptsRemembered

-----------------------------------------------------------------------------
(* Who may touch the threads, when main.cpp's limit on join() does not       *)
(* expire                                                                    *)

\* Main, supervisor and joiner take turns: the supervisor exists only between
\* start() and the join, and main destroys only after the joiner is done.
Phases ==
  /\ pc["main"] \in {"build", "launch", "run", "wait", "flags", "join", "joining",
                     "members", "exited"}
  /\ pc["sup"] \in {"off", "top", "flags", "join", "joining", "launch", "exited"}
  /\ pc["joiner"] \in {"off", "join", "joining", "exited"}
  /\ pc["main"] \in {"build", "launch"} => pc["sup"] = "off" /\ pc["joiner"] = "off"
  /\ pc["main"] = "run" => pc["sup"] # "off" /\ pc["joiner"] = "off"
  /\ pc["main"] = "wait" => pc["sup"] # "off" /\ pc["joiner"] \in {"join", "joining"}
  /\ pc["main"] \in {"flags", "join", "joining", "members", "exited"}
       => pc["sup"] = pc["joiner"] /\ pc["sup"] \in {"off", "exited"}

\* The supervisor is joinable while it runs, and join() goes past it only when
\* it has left its loop.
SupervisorFirst ==
  /\ pc["sup"] \notin {"off", "exited"} => handle[Supervisor]
  /\ pc["sup"] = "off" \/ pc["joiner"] = "exited" => ~handle[Supervisor]
  /\ pc["joiner"] \in {"join", "joining"} /\ at["joiner"] > Supervisor
       => pc["sup"] = "exited" /\ ~handle[Supervisor]

\* Whoever joins has joined every thread before the one it is at, and is alone
\* to wait for that one.
JoinsInOrder ==
  /\ \A c \in Callers : pc[c] \in {"join", "joining"} =>
       /\ c # "joiner" => at[c] > Supervisor
       /\ \A t \in Threads : t < at[c] => ~handle[t]
  /\ \A t \in {Supervisor} \cup Threads :
       joining[t] # NoOne => pc[joining[t]] = "joining" /\ at[joining[t]] = t

\* Whoever launches has launched exactly the threads before the one it is at.
LaunchesInOrder ==
  /\ pc["main"] \in {"build", "members"} => \A t \in Threads : ~handle[t]
  /\ \A c \in Callers : pc[c] = "launch" =>
       /\ at[c] > Supervisor
       /\ \A t \in Threads : (handle[t] <=> t < at[c]) /\ ~stop[t]

\* A thread that nobody can join any more has ended.
NoOrphans == \A t \in Threads : ~handle[t] => thr[t] \in {"off", "done"}

\* The state is "Recovering" from the first step of a recovery to its last.
RecoveringThroughout == pc["sup"] \in {"flags", "join", "joining", "launch"} => state = "Recovering"

\* RunningIsWhole, whether or not the process has ended.
Whole == state = "Running" /\ pc["sup"] = "top" => \A t \in Threads : handle[t] /\ ~stop[t]

TurnInv == /\ TypeInv /\ GraceInv /\ Phases /\ SupervisorFirst /\ JoinsInOrder
           /\ LaunchesInOrder /\ NoOrphans /\ RecoveringThroughout
           /\ NoTerminate /\ Whole

\* With launches that do not fail at start(): only live objects are used, and
\* there are objects whenever a thread may come to use them.
UsesInv ==
  /\ pc["main"] \in {"launch", "run", "wait"} => built
  /\ \A t \in Threads :
       /\ using[t] # "freed"
       /\ thr[t] \in {"off", "new", "done"} => using[t] = "none"
       /\ thr[t] \in {"new", "loop", "busy"} => built
       /\ thr[t] = "busy" \/ (t \in Workers /\ thr[t] = "loop") => using[t] = "live"
\* The rest of the invariant, as the steps preserve it.
Turn == Phases /\ SupervisorFirst /\ JoinsInOrder /\ LaunchesInOrder /\ NoOrphans
        /\ RecoveringThroughout /\ NoTerminate /\ Whole

\* The initial state satisfies it.
LEMMA InitTurn == Init => Turn /\ UsesInv
BY ConstantFacts DEF Init, Turn, Phases, SupervisorFirst, JoinsInOrder, LaunchesInOrder, NoOrphans,
   RecoveringThroughout, NoTerminate, Whole, UsesInv, Callers, Supervisor, Threads, Last, NoOne

\* Every step preserves it as long as main.cpp does not give up on join().
LEMMA NextTurn ==
  ASSUME TurnInv, [Next]_vars, ~JoinTimesOut
  PROVE  Turn'
<1> USE ConstantFacts
    DEF TurnInv, TypeInv, TypeOK, JoiningAtThread, Turn, Phases, SupervisorFirst, JoinsInOrder, LaunchesInOrder,
        NoOrphans, RecoveringThroughout, NoTerminate, Whole, GraceInv, threadVars, timeVars, At, In, Goto, Advance, Callers,
        Supervisor, Capture, Last, Threads, NoOne, Workers
<1>1. CASE StartBuild BY <1>1 DEF StartBuild
<1>2. CASE StartBuildFails BY <1>2 DEF StartBuildFails
<1>3. CASE StartLaunch
  <2>1. /\ over = "no" /\ pc["main"] = "launch" /\ at["main"] \in Threads
        /\ Launch(at["main"]) /\ at' = [at EXCEPT !["main"] = @ + 1]
        /\ UNCHANGED <<state, orchStop, stop, joining, pc>>
    BY <1>3 DEF StartLaunch
  <2>2. ~handle[at["main"]] BY <2>1
  <2>3. /\ handle' = [handle EXCEPT ![at["main"]] = TRUE]
        /\ thr' = [thr EXCEPT ![at["main"]] = "new"]
        /\ over' = over
    BY <2>1, <2>2 DEF Launch
  <2>4. Phases' /\ SupervisorFirst' /\ RecoveringThroughout' /\ NoTerminate' BY <2>1, <2>3
  <2>5. JoinsInOrder' BY <2>1, <2>3
  <2>6. LaunchesInOrder' BY <2>1, <2>3
  <2>7. NoOrphans' BY <2>1, <2>3
  <2>8. Whole' BY <2>1, <2>3
  <2>9. QED BY <2>4, <2>5, <2>6, <2>7, <2>8
<1>4. CASE StartLaunchFails BY <1>4 DEF StartLaunchFails
<1>5. CASE StartSupervisor BY <1>5 DEF StartSupervisor
<1>6. ASSUME NEW c \in Callers, StopFlags(c) PROVE Turn' BY <1>6 DEF StopFlags
<1>7. ASSUME NEW c \in Callers, JoinBegin(c) PROVE Turn'
  <2>1. /\ over = "no" /\ pc[c] = "join" /\ at[c] \in {Supervisor} \cup Threads
        /\ UNCHANGED <<state, stop, thr>>
    BY <1>7 DEF JoinBegin
  <2>2. joining[at[c]] = NoOne BY <2>1
  <2>3. CASE ~handle[at[c]]
    <3>1. at' = [at EXCEPT ![c] = @ + 1] /\ UNCHANGED <<handle, joining, pc, over>>
      BY <1>7, <2>3 DEF JoinBegin
    <3>2. JoinsInOrder' BY <2>1, <2>2, <2>3, <3>1
    <3>3. SupervisorFirst' BY <2>1, <2>3, <3>1
    <3>4. Phases' /\ LaunchesInOrder' /\ NoOrphans' /\ RecoveringThroughout' /\ NoTerminate' /\ Whole'
      BY <2>1, <2>3, <3>1
    <3>5. QED BY <3>2, <3>3, <3>4
  <2>4. CASE handle[at[c]]
    <3>1. /\ joining' = [joining EXCEPT ![at[c]] = c] /\ pc' = [pc EXCEPT ![c] = "joining"]
          /\ UNCHANGED <<handle, at, over>>
      BY <1>7, <2>2, <2>4 DEF JoinBegin
    <3>2. JoinsInOrder' BY <2>1, <2>2, <2>4, <3>1
    <3>3. QED BY <2>1, <2>4, <3>1, <3>2
  <2>5. QED BY <2>3, <2>4
<1>8. ASSUME NEW c \in Callers, JoinEnd(c) PROVE Turn' BY <1>8 DEF JoinEnd, Ended
<1>9. CASE SupervisorTurn BY <1>9 DEF SupervisorTurn
<1>10. CASE SupervisorExit BY <1>10 DEF SupervisorExit
<1>11. CASE RecoverFails BY <1>11 DEF RecoverFails, Joined
<1>12. CASE RecoverPublish BY <1>12 DEF RecoverPublish, Joined
<1>13. CASE RecoverLaunch
  <2>1. /\ over = "no" /\ pc["sup"] = "launch" /\ at["sup"] \in Threads
        /\ Launch(at["sup"]) /\ at' = [at EXCEPT !["sup"] = @ + 1]
        /\ UNCHANGED <<state, orchStop, stop, joining, pc>>
    BY <1>13 DEF RecoverLaunch
  <2>2. ~handle[at["sup"]] BY <2>1
  <2>3. /\ handle' = [handle EXCEPT ![at["sup"]] = TRUE]
        /\ thr' = [thr EXCEPT ![at["sup"]] = "new"]
        /\ over' = over
    BY <2>1, <2>2 DEF Launch
  <2>4. Phases' /\ SupervisorFirst' /\ RecoveringThroughout' /\ NoTerminate' BY <2>1, <2>3
  <2>5. JoinsInOrder' BY <2>1, <2>3
  <2>6. LaunchesInOrder' BY <2>1, <2>3
  <2>7. NoOrphans' BY <2>1, <2>3
  <2>8. Whole' BY <2>1, <2>3
  <2>9. QED BY <2>4, <2>5, <2>6, <2>7, <2>8
<1>14. CASE RecoverDone BY <1>14 DEF RecoverDone
<1>15. ASSUME NEW t \in Threads,
              \/ ThreadStep(t)
              \/ t = Capture /\ (FetchOk \/ FetchFails)
       PROVE  Turn'
  <2>1. thr[t] \in {"new", "loop", "busy"} /\ UNCHANGED <<state, stop, handle, joining, pc, at, over>>
    BY <1>15 DEF ThreadStep, ThreadStart, ThreadExit, ThreadEnter, InferenceReturns, FetchOk, FetchFails
  <2>2. \A u \in Threads \ {t} : thr'[u] = thr[u]
    BY <1>15 DEF ThreadStep, ThreadStart, ThreadExit, ThreadEnter, InferenceReturns, FetchOk, FetchFails
  <2>3. NoOrphans' BY <2>1, <2>2
  <2>4. Phases' /\ SupervisorFirst' /\ RecoveringThroughout' /\ NoTerminate' BY <2>1
  <2>5. JoinsInOrder' /\ LaunchesInOrder' /\ Whole' BY <2>1
  <2>6. QED BY <2>3, <2>4, <2>5
<1>16. CASE FetchOk \/ FetchFails
  <2>1. Capture \in Threads OBVIOUS
  <2>2. QED BY <1>15, <1>16, <2>1
<1>17. CASE RequestStop BY <1>17 DEF RequestStop
<1>18. CASE JoinReturns BY <1>18 DEF JoinReturns, Joined
<1>19. CASE JoinTimesOut BY <1>19
<1>20. CASE Destroy BY <1>20 DEF Destroy, Joined
<1>21. CASE DestroyMembers BY <1>21 DEF DestroyMembers
<1>22. CASE Tick BY <1>22 DEF Tick
<1>23. CASE UNCHANGED vars BY <1>23 DEF vars
<1>24. QED
  BY <1>1, <1>2, <1>3, <1>4, <1>5, <1>6, <1>7, <1>8, <1>9, <1>10, <1>11, <1>12, <1>13, <1>14, <1>15, <1>16, <1>17, <1>18, <1>19, <1>20, <1>21, <1>22, <1>23
  DEF Next, StartStep, SupervisorStep, StopThreadsStep, ShutdownStep, ProcessOver

\* As long as moreover no launch fails at start(), every step leaves the threads
\* with live objects: the two places that free them find every thread ended.
LEMMA NextUses ==
  ASSUME TurnInv, UsesInv, [Next]_vars, ~JoinTimesOut, ~StartLaunchFails
  PROVE  UsesInv'
<1> USE ConstantFacts
    DEF TurnInv, TypeInv, TypeOK, UsesInv, threadVars, timeVars, At, In, Goto, Advance, Callers,
        Supervisor, Capture, Last, Threads, Workers
<1>1. CASE StartBuild \/ StartBuildFails \/ StartSupervisor
  BY <1>1 DEF StartBuild, StartBuildFails, StartSupervisor, LaunchesInOrder, NoOrphans
<1>2. CASE StartLaunch \/ RecoverLaunch
  <2>1. PICK t \in Threads : Launch(t) /\ ~handle[t] /\ built' = built /\ pc' = pc
    BY <1>2 DEF StartLaunch, RecoverLaunch, LaunchesInOrder
  <2>2. thr' = [thr EXCEPT ![t] = "new"] /\ using' = [using EXCEPT ![t] = "none"]
    BY <2>1 DEF Launch
  <2>3. built BY <1>2 DEF StartLaunch, RecoverLaunch, Phases
  <2>4. QED BY <2>1, <2>2, <2>3
<1>3. ASSUME NEW c \in Callers, StopThreadsStep(c) PROVE UsesInv'
  BY <1>3 DEF StopThreadsStep, StopFlags, JoinBegin, JoinEnd, Phases
<1>4. CASE SupervisorTurn \/ SupervisorExit \/ RecoverFails \/ RecoverDone \/ RequestStop
           \/ JoinReturns \/ DestroyMembers \/ Tick \/ UNCHANGED vars
  BY <1>4 DEF SupervisorTurn, SupervisorExit, RecoverFails, RecoverDone, RequestStop,
              JoinReturns, DestroyMembers, Tick, vars
<1>5. CASE RecoverPublish \/ Destroy
  <2>1. /\ thr' = thr /\ using' = Freed
        /\ built' \/ pc'["main"] = "members"
        /\ \A t \in Threads : ~handle[t]
    BY <1>5 DEF RecoverPublish, Destroy, Joined, JoinsInOrder
  <2>2. \A t \in Threads : thr[t] \in {"off", "done"} /\ using[t] = "none"
    BY <2>1 DEF NoOrphans
  <2>3. QED BY <2>1, <2>2 DEF Freed
<1>6. ASSUME NEW t \in Threads, ThreadStep(t) PROVE UsesInv'
  BY <1>6 DEF ThreadStep, ThreadStart, ThreadExit, ThreadEnter, InferenceReturns
<1>7. CASE FetchOk \/ FetchFails BY <1>7 DEF FetchOk, FetchFails
<1>8. QED
  BY <1>1, <1>2, <1>3, <1>4, <1>5, <1>6, <1>7
  DEF Next, StartStep, SupervisorStep, ShutdownStep, ProcessOver

\* The invariant without the conditions on the launches.
LEMMA TurnInvariance == ASSUME JoinMayTimeOut = FALSE PROVE Spec => []TurnInv
<1>1. Init => TurnInv
  BY InitTypeInv, InitGraceInv, InitTurn DEF TurnInv, Turn
<1>2. TurnInv /\ [Next]_vars => TurnInv'
  BY NextTypeInv, NextGraceInv, NextTurn DEF TurnInv, Turn, JoinTimesOut
<1>3. QED BY <1>1, <1>2, PTL DEF Spec

\* While joins do not time out, no std::thread is assigned or destroyed while
\* joinable: whatever recoveries failed half-way, the process never terminates.
THEOREM NoThreadOverwritten == JoinMayTimeOut = FALSE => (Spec => []NoTerminate)
<1> SUFFICES ASSUME JoinMayTimeOut = FALSE PROVE Spec => []NoTerminate
  OBVIOUS
<1>1. TurnInv => NoTerminate BY DEF TurnInv
<1>2. QED BY <1>1, TurnInvariance, PTL

\* While joins do not time out, supervisor_loop() reports "Running" only over a
\* pipeline whose threads are all launched and none of them told to stop.
THEOREM RunningMeansRunning == JoinMayTimeOut = FALSE => (Spec => []RunningIsWhole)
<1> SUFFICES ASSUME JoinMayTimeOut = FALSE PROVE Spec => []RunningIsWhole
  OBVIOUS
<1>1. TurnInv => RunningIsWhole BY DEF TurnInv, Whole, RunningIsWhole, At
<1>2. QED BY <1>1, TurnInvariance, PTL

\* While joins do not time out and start() can launch its threads, recovery and
\* destruction never replace the pipeline objects under a thread inside them.
THEOREM NoUseAfterFree ==
  JoinMayTimeOut = FALSE /\ LaunchMayFail = FALSE => (Spec => []UsesLive)
<1> SUFFICES ASSUME JoinMayTimeOut = FALSE, LaunchMayFail = FALSE PROVE Spec => []UsesLive
  OBVIOUS
<1>1. Init => UsesInv BY InitTurn
<1>2. TurnInv /\ UsesInv /\ [Next]_vars => UsesInv'
  BY NextUses DEF JoinTimesOut, StartLaunchFails
<1>3. UsesInv => UsesLive BY DEF UsesInv, UsesLive
<1>4. QED BY <1>1, <1>2, <1>3, TurnInvariance, PTL DEF Spec

\* Every step of the life cycle is a step of PipelineUse or changes nothing of it.
LEMMA StepIsUse ==
  ASSUME TurnInv, UsesInv, [Next]_vars, ~JoinTimesOut, ~StartLaunchFails
  PROVE  [Abstract!Next]_(Abstract!vars)
<1> USE DEF Abstract!vars, Abstract!Next, Running
<1>1. /\ handle \in [{Supervisor} \cup Threads -> BOOLEAN]
      /\ thr \in [Threads -> {"off", "new", "loop", "busy", "done"}]
      /\ using \in [Threads -> {"none", "live", "freed"}]
      /\ built \in BOOLEAN
  BY DEF TurnInv, TypeInv, TypeOK
<1>2. CASE StartBuild
  <2>1. Running = {} BY <1>2 DEF StartBuild, At, TurnInv, LaunchesInOrder, NoOrphans
  <2>2. built' /\ UNCHANGED <<thr, using>> BY <1>2 DEF StartBuild, threadVars
  <2>3. Abstract!Change \/ built' = built BY <1>1, <2>1, <2>2 DEF Abstract!Change
  <2>4. QED BY <2>2, <2>3
<1>3. CASE StartLaunch \/ RecoverLaunch
  <2>1. PICK t \in Threads : Launch(t) /\ ~handle[t] /\ built' = built
    BY <1>3, ConstantFacts
    DEF StartLaunch, RecoverLaunch, At, TurnInv, LaunchesInOrder, Callers, Threads, Last
  <2>2. built BY <1>3 DEF StartLaunch, RecoverLaunch, At, TurnInv, Phases, UsesInv
  <2>3. thr[t] \in {"off", "done"} BY <2>1 DEF TurnInv, NoOrphans
  <2>4. using[t] = "none" BY <2>3 DEF UsesInv
  <2>5. thr' = [thr EXCEPT ![t] = "new"] /\ using' = using
    BY <1>1, <2>1, <2>4 DEF Launch
  <2>6. t \notin Running /\ Running' = Running \cup {t} BY <1>1, <2>3, <2>5
  <2>7. Abstract!Launch(t) BY <2>1, <2>2, <2>5, <2>6 DEF Abstract!Launch
  <2>8. QED BY <2>7
<1>4. CASE RecoverPublish \/ Destroy
  <2>1. /\ thr' = thr /\ using' = Freed /\ \A t \in Threads : ~handle[t]
    BY <1>4, ConstantFacts
    DEF RecoverPublish, Destroy, Joined, At, TurnInv, JoinsInOrder, Callers, Threads, Last,
        threadVars
  <2>2. \A t \in Threads : thr[t] \in {"off", "done"} /\ using[t] = "none"
    BY <2>1 DEF TurnInv, NoOrphans, UsesInv
  <2>3. Running = {} /\ UNCHANGED <<Running, using>> BY <1>1, <2>1, <2>2 DEF Freed
  <2>4. built' \in BOOLEAN BY <1>4 DEF RecoverPublish, Destroy
  <2>5. Abstract!Change \/ built' = built BY <1>1, <2>3, <2>4 DEF Abstract!Change
  <2>6. QED BY <2>3, <2>5
<1>5. ASSUME NEW t \in Threads, ThreadStart(t)
      PROVE  [Abstract!Next]_(Abstract!vars)
  <2>1. thr[t] = "new" /\ using[t] = "none" /\ built /\ built' = built
    BY <1>5 DEF ThreadStart, In, UsesInv
  <2>2. thr' = [thr EXCEPT ![t] = "loop"] /\ Running' = Running
    BY <1>1, <1>5, <2>1 DEF ThreadStart
  <2>3. CASE t \in Workers
    <3>1. using' = [using EXCEPT ![t] = "live"] BY <1>5, <2>1, <2>3 DEF ThreadStart
    <3>2. Abstract!Enter(t) BY <2>1, <2>2, <3>1 DEF Abstract!Enter
    <3>3. QED BY <3>2
  <2>4. CASE t \notin Workers
    <3>1. using' = using BY <1>1, <1>5, <2>1, <2>4 DEF ThreadStart
    <3>2. QED BY <2>1, <2>2, <3>1
  <2>5. QED BY <2>3, <2>4
<1>6. ASSUME NEW t \in Threads, ThreadExit(t)
      PROVE  [Abstract!Next]_(Abstract!vars)
  <2>1. t \in Running /\ Running' = Running \ {t} BY <1>1, <1>6 DEF ThreadExit, In
  <2>2. Abstract!End(t) BY <1>6, <2>1 DEF ThreadExit, Abstract!End
  <2>3. QED BY <2>2
<1>7. ASSUME NEW t \in Threads, ThreadEnter(t)
      PROVE  [Abstract!Next]_(Abstract!vars)
  <2>1. t \in Running /\ Running' = Running /\ built' = built /\ thr[t] = "loop"
    BY <1>1, <1>7 DEF ThreadEnter, In
  <2>2. CASE t \in Workers
    <3>1. using' = using BY <1>7, <2>2 DEF ThreadEnter
    <3>2. QED BY <2>1, <3>1
  <2>3. CASE t \notin Workers
    <3>1. t = Capture
      BY <2>3, ConstantFacts DEF Threads, Workers, Last, Capture
    <3>2. built BY <2>1 DEF UsesInv
    <3>3. using' = [using EXCEPT ![t] = "live"] BY <1>7, <2>3, <3>1, <3>2 DEF ThreadEnter
    <3>4. Abstract!Enter(t) BY <2>1, <3>2, <3>3 DEF Abstract!Enter
    <3>5. QED BY <3>4
  <2>4. QED BY <2>2, <2>3
<1>8. CASE FetchOk \/ FetchFails
  <2>1. Capture \in Threads BY ConstantFacts DEF Threads, Last, Capture
  <2>2. Capture \in Running /\ Running' = Running
    BY <1>1, <1>8, <2>1 DEF FetchOk, FetchFails, In
  <2>3. Abstract!Leave(Capture) BY <1>8, <2>2 DEF FetchOk, FetchFails, Abstract!Leave
  <2>4. QED BY <2>1, <2>3
<1>9. ASSUME NEW t \in Threads, InferenceReturns(t)
      PROVE  [Abstract!Next]_(Abstract!vars)
  BY <1>1, <1>9 DEF InferenceReturns, In
<1>10. CASE StartBuildFails \/ StartSupervisor \/ SupervisorTurn \/ SupervisorExit \/ RecoverFails
            \/ RecoverDone \/ RequestStop \/ JoinReturns \/ DestroyMembers \/ Tick \/ UNCHANGED vars
  BY <1>10 DEF StartBuildFails, StartSupervisor, SupervisorTurn, SupervisorExit, RecoverFails,
               RecoverDone, RequestStop, JoinReturns, DestroyMembers, Tick, vars, threadVars
<1>11. ASSUME NEW c \in Callers, StopThreadsStep(c)
       PROVE  [Abstract!Next]_(Abstract!vars)
  BY <1>11 DEF StopThreadsStep, StopFlags, JoinBegin, JoinEnd, threadVars
<1>12. QED
  BY <1>2, <1>3, <1>4, <1>5, <1>6, <1>7, <1>8, <1>9, <1>10, <1>11
  DEF Next, StartStep, SupervisorStep, ShutdownStep, ThreadStep, ProcessOver, Callers

\* Under the same two conditions the life cycle implements PipelineUse.
THEOREM Implements ==
  JoinMayTimeOut = FALSE /\ LaunchMayFail = FALSE => (Spec => ImplementsPipelineUse)
<1> SUFFICES ASSUME JoinMayTimeOut = FALSE, LaunchMayFail = FALSE
             PROVE  Spec => ImplementsPipelineUse
  OBVIOUS
<1>1. Init => UsesInv BY InitTurn
<1>2. Init => Abstract!Init BY DEF Init, Abstract!Init, Running
<1>3. TurnInv /\ UsesInv /\ [Next]_vars => UsesInv' /\ [Abstract!Next]_(Abstract!vars)
  BY NextUses, StepIsUse DEF JoinTimesOut, StartLaunchFails
<1>4. QED BY <1>1, <1>2, <1>3, TurnInvariance, PTL DEF Spec, Abstract!Spec, ImplementsPipelineUse

-----------------------------------------------------------------------------
(* The same with nothing assumed about the environment: what holds until    *)
(* main.cpp gives up on join(), and until start() fails half-way            *)

\* Once main.cpp has given up, the joiner is never waited for again.
LEMMA GivenUpStays ==
  ASSUME TypeInv, GivenUp, [Next]_vars
  PROVE  GivenUp'
<1> USE DEF TypeInv, TypeOK, GivenUp, threadVars, timeVars, At, In, Goto, Advance, Callers
<1>1. CASE StartStep
  BY <1>1 DEF StartStep, StartBuild, StartBuildFails, StartLaunch, StartLaunchFails, StartSupervisor
<1>2. ASSUME NEW c \in Callers, JoinBegin(c) \/ JoinEnd(c) PROVE GivenUp'
  BY <1>2 DEF JoinBegin, JoinEnd
<1>3. CASE StopFlags("sup") \/ StopFlags("main") BY <1>3 DEF StopFlags
<1>4. CASE StopFlags("joiner") BY <1>4 DEF StopFlags
<1>5. CASE SupervisorTurn \/ SupervisorExit \/ RecoverFails \/ RecoverPublish \/ RecoverLaunch
           \/ RecoverDone
  BY <1>5 DEF SupervisorTurn, SupervisorExit, RecoverFails, RecoverPublish, RecoverLaunch,
              RecoverDone
<1>6. ASSUME NEW t \in Threads, ThreadStep(t) PROVE GivenUp'
  BY <1>6 DEF ThreadStep, ThreadStart, ThreadExit, ThreadEnter, InferenceReturns
<1>7. CASE FetchOk \/ FetchFails \/ Tick \/ UNCHANGED vars BY <1>7 DEF FetchOk, FetchFails, Tick, vars
<1>8. CASE RequestStop \/ JoinReturns \/ JoinTimesOut \/ Destroy \/ DestroyMembers
  BY <1>8 DEF RequestStop, JoinReturns, JoinTimesOut, Destroy, DestroyMembers
<1>9. QED BY <1>1, <1>2, <1>3, <1>4, <1>5, <1>6, <1>7, <1>8
          DEF Next, SupervisorStep, StopThreadsStep, ShutdownStep, ProcessOver

\* Whoever joins in stop_threads() has told every thread to stop; nobody clears a flag
\* meanwhile.
Told == \A c \in {"main", "sup"} : pc[c] \in {"join", "joining"} => \A t \in Threads : stop[t]

\* Every step preserves it, as long as main.cpp does not give up.
LEMMA NextTold ==
  ASSUME TurnInv, Told, [Next]_vars, ~JoinTimesOut
  PROVE  Told'
<1> USE DEF TurnInv, TypeInv, TypeOK, Told, Phases, threadVars, timeVars, At, In, Goto, Advance, Callers
<1>1. CASE StartStep
  BY <1>1 DEF StartStep, StartBuild, StartBuildFails, StartLaunch, StartLaunchFails, StartSupervisor
<1>2. ASSUME NEW c \in Callers, StopThreadsStep(c) PROVE Told'
  BY <1>2 DEF StopThreadsStep, StopFlags, JoinBegin, JoinEnd
<1>3. CASE SupervisorTurn \/ SupervisorExit \/ RecoverFails \/ RecoverLaunch \/ RecoverDone
  BY <1>3 DEF SupervisorTurn, SupervisorExit, RecoverFails, RecoverLaunch, RecoverDone
<1>4. CASE RecoverPublish BY <1>4 DEF RecoverPublish, Joined
<1>5. ASSUME NEW t \in Threads, ThreadStep(t) PROVE Told'
  BY <1>5 DEF ThreadStep, ThreadStart, ThreadExit, ThreadEnter, InferenceReturns
<1>6. CASE FetchOk \/ FetchFails \/ Tick \/ UNCHANGED vars BY <1>6 DEF FetchOk, FetchFails, Tick, vars
<1>7. CASE RequestStop \/ JoinReturns \/ Destroy \/ DestroyMembers
  BY <1>7 DEF RequestStop, JoinReturns, Destroy, DestroyMembers
<1>8. QED BY <1>1, <1>2, <1>3, <1>4, <1>5, <1>6, <1>7
          DEF Next, SupervisorStep, ShutdownStep, ProcessOver

\* After a failed start() there is only the destructor.
Failed == state = "Error" =>
            /\ pc["main"] \in {"flags", "join", "joining", "members", "exited"}
            /\ pc["sup"] = "off" /\ pc["joiner"] = "off"

\* Every step preserves it, and a failure is final.
LEMMA NextFailed ==
  ASSUME TypeInv, Failed, Starting, [Next]_vars
  PROVE  Failed' /\ (state = "Error" => state' = "Error")
<1> USE DEF TypeInv, TypeOK, Failed, Starting, threadVars, timeVars, At, In, Goto, Advance, Callers
<1>1. CASE StartStep
  BY <1>1 DEF StartStep, StartBuild, StartBuildFails, StartLaunch, StartLaunchFails, StartSupervisor
<1>2. ASSUME NEW c \in Callers, StopThreadsStep(c)
      PROVE  Failed' /\ (state = "Error" => state' = "Error")
  BY <1>2 DEF StopThreadsStep, StopFlags, JoinBegin, JoinEnd
<1>3. CASE SupervisorTurn \/ SupervisorExit \/ RecoverFails \/ RecoverPublish \/ RecoverLaunch
           \/ RecoverDone
  BY <1>3 DEF SupervisorTurn, SupervisorExit, RecoverFails, RecoverPublish, RecoverLaunch,
              RecoverDone, Joined
<1>4. ASSUME NEW t \in Threads, ThreadStep(t)
      PROVE  Failed' /\ (state = "Error" => state' = "Error")
  BY <1>4 DEF ThreadStep, ThreadStart, ThreadExit, ThreadEnter, InferenceReturns
<1>5. CASE FetchOk \/ FetchFails \/ Tick \/ UNCHANGED vars BY <1>5 DEF FetchOk, FetchFails, Tick, vars
<1>6. CASE RequestStop \/ JoinReturns \/ JoinTimesOut \/ Destroy \/ DestroyMembers
  BY <1>6 DEF RequestStop, JoinReturns, JoinTimesOut, Destroy, DestroyMembers
<1>7. QED BY <1>1, <1>2, <1>3, <1>4, <1>5, <1>6
          DEF Next, SupervisorStep, ShutdownStep, ProcessOver

\* Whatever the environment does: the turn-taking holds until main.cpp gives up, and
\* the objects are safe until start() fails half-way.
AnyInv ==
  /\ TypeInv /\ GraceInv /\ Starting /\ Failed
  /\ GivenUp \/ (TurnInv /\ Told /\ (state = "Error" \/ UsesInv))

\* Initially, and after every step of every thread.
LEMMA AnyInvariance == Spec => []AnyInv
<1>1. Init => AnyInv
  <2> SUFFICES ASSUME Init PROVE AnyInv
    OBVIOUS
  <2>1. TurnInv /\ UsesInv
    BY InitTypeInv, InitGraceInv, InitTurn DEF TurnInv, Turn
  <2>2. Starting /\ Failed /\ Told BY DEF Init, Starting, Failed, Told, Callers
  <2>3. QED BY <2>1, <2>2 DEF AnyInv, TurnInv
<1>2. AnyInv /\ [Next]_vars => AnyInv'
  <2> SUFFICES ASSUME AnyInv, [Next]_vars PROVE AnyInv'
    OBVIOUS
  <2>1. TypeInv' /\ GraceInv' /\ Starting' BY NextTypeInv, NextGraceInv, NextRemembered DEF AnyInv
  <2>2. Failed' /\ (state = "Error" => state' = "Error") BY NextFailed DEF AnyInv
  <2>3. CASE GivenUp BY <2>1, <2>2, <2>3, GivenUpStays DEF AnyInv
  <2>4. CASE ~GivenUp /\ JoinTimesOut
    <3>1. Phases BY <2>4 DEF AnyInv, TurnInv
    <3>2. GivenUp'
      BY <2>1, <2>4, <3>1 DEF JoinTimesOut, GivenUp, Phases, At, Goto, TypeInv, TypeOK, Callers, AnyInv
    <3>3. QED BY <2>1, <2>2, <3>2 DEF AnyInv
  <2>5. CASE ~GivenUp /\ ~JoinTimesOut
    <3>1. TurnInv /\ Told /\ (state = "Error" \/ UsesInv) BY <2>5 DEF AnyInv
    <3>2. TurnInv' BY <2>1, <2>5, <3>1, NextTurn DEF TurnInv, Turn
    <3>3. Told' BY <2>5, <3>1, NextTold
    <3>4. state' = "Error" \/ UsesInv'
      <4>1. CASE StartLaunchFails BY <4>1 DEF StartLaunchFails
      <4>2. CASE state = "Error" BY <2>2, <4>2
      <4>3. CASE ~StartLaunchFails /\ state # "Error" BY <2>5, <3>1, <4>3, NextUses
      <4>4. QED BY <4>1, <4>2, <4>3
    <3>5. QED BY <2>1, <2>2, <3>2, <3>3, <3>4 DEF AnyInv
  <2>6. QED BY <2>3, <2>4, <2>5
<1>3. QED BY <1>1, <1>2, PTL DEF Spec

\* Until main.cpp gives up on join(), whatever fails: no thread is overwritten or
\* destroyed, "Running" means running, and stop_threads() waits for stopped threads only.
THEOREM OrderlyUntilGivenUp ==
  Spec => [](GivenUp \/ (NoTerminate /\ RunningIsWhole /\ StopsBeforeJoins))
<1>1. AnyInv => GivenUp \/ (NoTerminate /\ RunningIsWhole /\ StopsBeforeJoins)
  <2> SUFFICES ASSUME AnyInv, ~GivenUp
               PROVE  NoTerminate /\ RunningIsWhole /\ StopsBeforeJoins
    OBVIOUS
  <2>1. NoTerminate /\ Whole /\ Told /\ JoinsInOrder /\ TypeInv BY DEF AnyInv, TurnInv
  <2>2. RunningIsWhole BY <2>1 DEF Whole, RunningIsWhole, At
  <2>3. ASSUME NEW c \in {"main", "sup"}, At(c, "joining") PROVE stop[at[c]]
    <3>1. c \in Callers /\ c # "joiner" /\ pc[c] = "joining" BY <2>3 DEF At, Callers
    <3>2. at[c] \in Threads
      BY <2>1, <3>1, ConstantFacts
      DEF JoinsInOrder, TypeInv, TypeOK, JoiningAtThread, Threads, Last, Supervisor, Callers
    <3>3. QED BY <2>1, <3>1, <3>2 DEF Told
  <2>4. QED BY <2>1, <2>2, <2>3 DEF StopsBeforeJoins
<1>2. QED BY <1>1, AnyInvariance, PTL

\* Until main.cpp gives up on join() or start() has failed, no thread is inside an
\* object that recovery or destruction has taken away.
THEOREM NoUseAfterFreeUntil == Spec => [](GivenUp \/ state = "Error" \/ UsesLive)
<1>1. AnyInv => GivenUp \/ state = "Error" \/ UsesLive
  BY DEF AnyInv, UsesInv, UsesLive
<1>2. QED BY <1>1, AnyInvariance, PTL

\* While joins do not time out, stop_threads() waits only for threads told to stop.
THEOREM JoinsAreStopped == JoinMayTimeOut = FALSE => (Spec => []StopsBeforeJoins)
<1> SUFFICES ASSUME JoinMayTimeOut = FALSE PROVE Spec => []StopsBeforeJoins
  OBVIOUS
<1>1. Init => ~GivenUp BY DEF Init, GivenUp, Callers
<1>2. AnyInv /\ ~GivenUp /\ [Next]_vars => ~GivenUp'
  <2> SUFFICES ASSUME AnyInv, ~GivenUp, [Next]_vars PROVE ~GivenUp'
    OBVIOUS
  <2>1. TurnInv' BY NextTypeInv, NextGraceInv, NextTurn DEF AnyInv, TurnInv, Turn, JoinTimesOut
  <2>2. QED BY <2>1 DEF TurnInv, Phases, GivenUp
<1>3. QED BY <1>1, <1>2, AnyInvariance, OrderlyUntilGivenUp, PTL DEF Spec
=============================================================================
