---------------------------- MODULE BackendProofs ----------------------------
(***************************************************************************)
(* The chat backend.  First the child's supervision, for every set of       *)
(* models, every timing and any number of operator actions and mishaps; the *)
(* console drives the child only as LlamaProcess allows, so what is proved   *)
(* there holds here; and the label is true, for every order of the          *)
(* operator's actions.  Then the parser of the child's responses, for all    *)
(* responses and all the ways in which the network cuts them.               *)
(***************************************************************************)
EXTENDS Console, Sse, Induction, SequenceTheorems, FiniteSetTheorems, TLAPS

\* No probe outlives the tick that saw the child unready without the broadcast
\* having been told; and ready is only ever set by a tick.
ProbeToldDown == /\ probe # "idle" => ~readyBroadcast
                 /\ ready => readyBroadcast

DownClean == Down => ~child.doomed

IInv == /\ TypeOK
        /\ AskedExitsOnly
        /\ UnloadedStaysDown
        /\ DownClean
        /\ ProbeHasChild
        /\ ProbeToldDown
        /\ NoSilentFlip

Inner == ReapCrash \/ ReapAsked \/ ReapElsewhere \/ Spawn \/ AdvanceProbe \/ Rest

LEMMA InitIInv == Init => IInv
  <1> SUFFICES ASSUME Init PROVE IInv
    OBVIOUS
  <1>1. FlagsOK
    BY Zenon DEF Init, FlagsOK
  <1>2. DataOK
    BY ProcessAssumption DEF Init, DataOK, Child
  <1> QED
    BY <1>1, <1>2
    DEF Init, IInv, TypeOK, AskedExitsOnly, UnloadedStaysDown, DownClean, ProbeHasChild,
        ProbeToldDown, NoSilentFlip, Down

\* The flags stay Boolean.
LEMMA FlagsStep == ASSUME FlagsOK, Next PROVE FlagsOK'
  <1>1. CASE Tick
    <2>1. /\ ready' \in BOOLEAN /\ switching' \in BOOLEAN
          /\ restarting' \in BOOLEAN /\ missed' \in BOOLEAN /\ paused' \in BOOLEAN
      <3> USE DEF FlagsOK, flags
      <3>1. CASE ReapCrash
        BY <3>1, Zenon DEF ReapCrash
      <3>2. CASE ReapAsked
        BY <3>2, Zenon DEF ReapAsked, Collected, ForkOK, ForkFails, StayDown
      <3>6. CASE ReapElsewhere
        BY <3>6, Zenon DEF ReapElsewhere, Collected, ForkOK, ForkFails, StayDown
      <3>3. CASE Spawn
        BY <3>3, Zenon DEF Spawn, ForkOK, ForkFails
      <3>4. CASE AdvanceProbe
        BY <3>4, Zenon
        DEF AdvanceProbe, BeginProbe, ProbeExpires, ProbeConnects, ProbeReads
      <3>5. CASE Rest
        BY <3>5, Zenon DEF Rest
      <3> QED
        BY <1>1, <3>1, <3>2, <3>3, <3>4, <3>5, <3>6 DEF Tick
    <2>2. readyBroadcast' \in BOOLEAN /\ advertised' \in BOOLEAN /\ ticked' \in BOOLEAN
      BY <1>1, <2>1, Zenon DEF Tick, TellFlip, FlagsOK
    <2> QED
      BY <2>1, <2>2 DEF FlagsOK
  <1>2. CASE Restart
    BY <1>2, Zenon DEF Restart, RestartChild, Terminate, FlagsOK
  <1>3. CASE Unload
    BY <1>3, Zenon DEF Unload, Terminate, FlagsOK
  <1>4. ASSUME NEW m \in Models, SwitchModel(m) PROVE FlagsOK'
    BY <1>4, Zenon DEF SwitchModel, RestartChild, Terminate, FlagsOK
  <1>5. CASE ChildLoads \/ ChildStops \/ ChildCrashes \/ ChildAnswers
    BY <1>5, Zenon
    DEF ChildLoads, ChildStops, ChildCrashes, ChildAnswers, others, flags, FlagsOK
  <1>6. CASE TimePasses
    BY <1>6, Zenon DEF TimePasses, flags, FlagsOK
  <1>7. CASE Announce
    BY <1>7, Zenon DEF Announce, flags, FlagsOK
  <1> QED
    BY <1>1, <1>2, <1>3, <1>4, <1>5, <1>6, <1>7 DEF Next

\* The rest of the invariant.
Upkeep == /\ DataOK
         /\ AskedExitsOnly
         /\ UnloadedStaysDown
         /\ DownClean
         /\ ProbeHasChild

\* A tick that collects an exit leaves no child, or a new one if it was due.
LEMMA CollectedKeeps ==
  ASSUME IInv, NEW due \in BOOLEAN, NEW wait \in 0 .. Backoff, Collected(due, wait)
  PROVE  /\ DataOK' /\ DownClean' /\ ProbeHasChild'
         /\ child'.doomed = FALSE /\ ready' = FALSE /\ paused' = paused
         /\ ~due => Down'
  <1>1. /\ probe' = "idle" /\ reply' = "none" /\ deadlineIn' = 0
        /\ UNCHANGED <<cfg, paused, ops>>
        /\ ready' = FALSE
    BY Zenon DEF Collected, StayDown, ForkOK, ForkFails
  <1>2. /\ \/ Reaped
           \/ due /\ child' = [state |-> "loading", model |-> cfg, doomed |-> FALSE]
        /\ \/ mishaps' = mishaps
           \/ mishaps < MaxMishaps /\ mishaps' = mishaps + 1
        /\ spawnIn' \in {wait, 0, Backoff} /\ healthIn' \in {0, HealthInterval}
    <2>1. CASE due
      BY <2>1 DEF Collected, ForkOK, ForkFails
    <2>2. CASE ~due
      BY <2>2 DEF Collected, StayDown
    <2> QED
      BY <2>1, <2>2
  <1>3. /\ child' \in Child /\ child'.doomed = FALSE
        /\ ~due => Down'
    <2>1. child.model \in Models /\ cfg \in Models
      BY DEF Child, IInv, TypeOK, DataOK
    <2>2. CASE Reaped
      BY <2>1, <2>2 DEF Reaped, Child, Down
    <2>3. CASE due /\ child' = [state |-> "loading", model |-> cfg, doomed |-> FALSE]
      BY <2>1, <2>3 DEF Child
    <2> QED
      BY <1>2, <2>2, <2>3
  <1>4. DataOK'
    <2>1. /\ spawnIn' \in 0 .. Backoff /\ healthIn' \in 0 .. HealthInterval
          /\ deadlineIn' \in 0 .. ProbeTimeout
      BY <1>1, <1>2, ProcessAssumption
    <2>2. mishaps' \in 0 .. MaxMishaps
      BY <1>2, ProcessAssumption DEF DataOK, IInv, TypeOK
    <2>3. cfg' \in Models /\ ops' \in 0 .. MaxOps
      BY <1>1 DEF DataOK, IInv, TypeOK
    <2> QED
      BY <1>1, <1>3, <2>1, <2>2, <2>3 DEF DataOK
  <1> QED
    BY <1>1, <1>3, <1>4 DEF DownClean, ProbeHasChild

\* Whoever collects the exit, and whatever the operator had asked for.
LEMMA ReapKeeps ==
  ASSUME IInv, ReapAsked \/ ReapElsewhere
  PROVE  Upkeep' /\ ready' = FALSE
  <1>1. /\ DataOK' /\ DownClean' /\ ProbeHasChild' /\ child'.doomed = FALSE
        /\ ready' = FALSE /\ paused' = paused
        /\ paused => Down'
        /\ missed' = restarting'
    <2>1. CASE ReapAsked
      <3>1. (~paused) \in BOOLEAN /\ 0 \in 0 .. Backoff
        BY ProcessAssumption
      <3>2. Collected(~paused, 0) /\ restarting' = FALSE /\ missed' = FALSE
        BY <2>1 DEF ReapAsked
      <3> QED
        BY <3>1, <3>2, CollectedKeeps
    <2>2. CASE ReapElsewhere
      <3>1. SpawnDue \in BOOLEAN /\ spawnIn \in 0 .. Backoff
        BY DEF SpawnDue, IInv, TypeOK, DataOK
      <3>2. paused => ~SpawnDue
        BY DEF SpawnDue
      <3>3. Collected(SpawnDue, spawnIn) /\ restarting' = restarting /\ missed' = restarting
        BY <2>2 DEF ReapElsewhere
      <3> QED
        BY <3>1, <3>2, <3>3, CollectedKeeps
    <2> QED
      BY <2>1, <2>2
  <1>2. restarting' \in BOOLEAN /\ missed' \in BOOLEAN
    <2>1. restarting' \in BOOLEAN
      BY Zenon DEF ReapAsked, ReapElsewhere, IInv, TypeOK, FlagsOK
    <2> QED
      BY <1>1, <2>1
  <1>3. AskedExitsOnly' /\ UnloadedStaysDown'
    BY <1>1, <1>2 DEF AskedExitsOnly, UnloadedStaysDown
  <1> QED
    BY <1>1, <1>3 DEF Upkeep

\* What the process part of a tick preserves, before the broadcast.
LEMMA InnerKeeps ==
  ASSUME IInv, Inner
  PROVE  Upkeep' /\ (ready' => ready \/ ~readyBroadcast)
  <1> USE ProcessAssumption
      DEF IInv, TypeOK, FlagsOK, DataOK, Upkeep, AskedExitsOnly, UnloadedStaysDown,
          DownClean, ProbeHasChild, ProbeToldDown, Child, Down, flags, probed, counts
  <1>1. CASE ReapCrash
    BY <1>1 DEF ReapCrash, Reaped, ResetProbe
  <1>2. CASE ReapAsked \/ ReapElsewhere
    BY <1>2, ReapKeeps, Zenon
  <1>3. CASE Spawn
    <2>1. CASE ForkOK
      BY <1>3, <2>1 DEF Spawn, SpawnDue, ForkOK
    <2>2. CASE ForkFails(healthIn)
      BY <1>3, <2>2 DEF Spawn, ForkFails, Reaped
    <2> QED
      BY <1>3, <2>1, <2>2 DEF Spawn
  <1>4. CASE AdvanceProbe
    <2>1. CASE BeginProbe
      BY <1>4, <2>1 DEF AdvanceProbe, Probing, Running, BeginProbe, NoProbe
    <2>2. CASE ProbeExpires
      BY <1>4, <2>2 DEF AdvanceProbe, Probing, Running, ProbeExpires, ResetProbe
    <2>3. CASE ProbeConnects
      BY <1>4, <2>3 DEF AdvanceProbe, Probing, Running, ProbeConnects, ResetProbe
    <2>4. CASE ProbeReads
      BY <1>4, <2>4 DEF AdvanceProbe, Probing, Running, ProbeReads, ResetProbe
    <2> QED
      BY <1>4, <2>1, <2>2, <2>3, <2>4 DEF AdvanceProbe
  <1>5. CASE Rest
    BY <1>5 DEF Rest
  <1> QED
    BY <1>1, <1>2, <1>3, <1>4, <1>5 DEF Inner

\* A tick ends with the broadcast up to date.
LEMMA TickIInv == ASSUME IInv, Tick PROVE Upkeep' /\ ProbeToldDown' /\ NoSilentFlip'
  <1>1. Inner /\ TellFlip
    BY DEF Tick, Inner
  <1>2. Upkeep' /\ (ready' => ready \/ ~readyBroadcast)
    BY <1>1, InnerKeeps
  <1>3. FlagsOK'
    BY FlagsStep DEF Next, IInv, TypeOK
  <1>4. ProbeToldDown'
    BY <1>1, <1>2 DEF TellFlip, ProbeToldDown, ProbeHasChild, Upkeep
  <1>5. NoSilentFlip'
    BY <1>1, <1>2, <1>3
    DEF TellFlip, NoSilentFlip, ProbeToldDown, IInv, TypeOK, FlagsOK
  <1> QED
    BY <1>2, <1>4, <1>5

\* Telling everything is no change to the child.
LEMMA AnnounceIInv ==
  ASSUME IInv, Announce
  PROVE  Upkeep' /\ ProbeToldDown' /\ NoSilentFlip'
  BY DEF Announce, IInv, TypeOK, FlagsOK, DataOK, Upkeep, AskedExitsOnly,
     UnloadedStaysDown, DownClean, ProbeHasChild, ProbeToldDown, NoSilentFlip, Down,
     flags, probed, counts

\* An operator's action leaves the model unready and no probe open.
LEMMA OperatorIInv ==
  ASSUME IInv, Restart \/ Unload \/ \E m \in Models : SwitchModel(m)
  PROVE  Upkeep' /\ ProbeToldDown' /\ NoSilentFlip'
  <1>1. /\ Operate /\ Terminate /\ ResetProbe
        /\ ready' = FALSE
        /\ spawnIn' = spawnIn \/ spawnIn' = 0
        /\ cfg' \in Models
        /\ readyBroadcast' = readyBroadcast
        /\ advertised' = advertised \/ advertised' = FALSE
        /\ mishaps' = mishaps /\ missed' = missed
        /\ paused' \in BOOLEAN
    <2>1. CASE Restart \/ Unload
      BY <2>1 DEF Restart, Unload, RestartChild, IInv, TypeOK, DataOK
    <2>2. ASSUME NEW m \in Models, SwitchModel(m)
          PROVE  /\ RestartChild /\ Operate
                 /\ cfg' \in Models /\ readyBroadcast' = readyBroadcast
                 /\ advertised' = FALSE /\ mishaps' = mishaps /\ missed' = missed
      BY <2>2 DEF SwitchModel
    <2> QED
      BY <2>1, <2>2 DEF RestartChild
  <1>2. DataOK'
    <2>1. child' \in Child
      BY <1>1 DEF IInv, TypeOK, DataOK, Child, Terminate, Down
    <2>2. /\ spawnIn' \in 0 .. Backoff /\ ops' \in 0 .. MaxOps
          /\ mishaps' \in 0 .. MaxMishaps
      BY <1>1, ProcessAssumption DEF IInv, TypeOK, DataOK, Operate
    <2> QED
      BY <1>1, <2>1, <2>2, ProcessAssumption DEF DataOK, ResetProbe
  <1>3. AskedExitsOnly' /\ UnloadedStaysDown' /\ DownClean' /\ ProbeHasChild'
    BY <1>1
    DEF IInv, TypeOK, DataOK, Child, Terminate, ResetProbe, Down, AskedExitsOnly,
        UnloadedStaysDown, DownClean, ProbeHasChild
  <1>4. ProbeToldDown'
    BY <1>1, Zenon DEF ResetProbe, ProbeToldDown
  <1>5. NoSilentFlip'
    <2>1. CASE ready
      <3>1. readyBroadcast' = TRUE
        BY <1>1, <2>1, Zenon DEF IInv, TypeOK, FlagsOK, ProbeToldDown
      <3> QED
        BY <1>1, <3>1, Zenon DEF NoSilentFlip
    <2>2. CASE ~ready
      <3>1. ready = FALSE
        BY <2>2, Zenon DEF IInv, TypeOK, FlagsOK
      <3> QED
        BY <1>1, <3>1, Zenon DEF IInv, NoSilentFlip
    <2> QED
      BY <2>1, <2>2
  <1> QED
    BY <1>2, <1>3, <1>4, <1>5 DEF Upkeep

\* The child's own steps, and time.
LEMMA WorldIInv ==
  ASSUME IInv, ChildLoads \/ ChildStops \/ ChildCrashes \/ ChildAnswers \/ TimePasses
  PROVE  Upkeep' /\ ProbeToldDown' /\ NoSilentFlip'
  <1> USE ProcessAssumption
      DEF IInv, TypeOK, FlagsOK, DataOK, Upkeep, AskedExitsOnly, UnloadedStaysDown,
          DownClean, ProbeHasChild, ProbeToldDown, NoSilentFlip, Child, Down, Running, others,
          flags, probed, counts
  <1>1. CASE ChildLoads
    BY <1>1 DEF ChildLoads
  <1>2. CASE ChildStops
    BY <1>2 DEF ChildStops
  <1>3. CASE ChildCrashes
    BY <1>3 DEF ChildCrashes
  <1>4. CASE ChildAnswers
    BY <1>4 DEF ChildAnswers
  <1>5. CASE TimePasses
    BY <1>5 DEF TimePasses, Less
  <1> QED
    BY <1>1, <1>2, <1>3, <1>4, <1>5

LEMMA StepIInv == IInv /\ [Next]_vars => IInv'
  <1> SUFFICES ASSUME IInv, [Next]_vars PROVE IInv'
    OBVIOUS
  <1>1. CASE UNCHANGED vars
    BY <1>1 DEF vars, flags, probed, counts, IInv, TypeOK, FlagsOK, DataOK,
       AskedExitsOnly, UnloadedStaysDown, DownClean, ProbeHasChild, ProbeToldDown,
       NoSilentFlip, Down
  <1>2. CASE Next
    <2>1. Upkeep' /\ ProbeToldDown' /\ NoSilentFlip'
      BY <1>2, TickIInv, OperatorIInv, AnnounceIInv, WorldIInv DEF Next
    <2>2. FlagsOK'
      BY <1>2, FlagsStep DEF IInv, TypeOK
    <2> QED
      BY <2>1, <2>2 DEF IInv, TypeOK, Upkeep
  <1> QED
    BY <1>1, <1>2

\* The strengthened invariant holds of every behaviour.
THEOREM ProcessInvariant == Spec => []IInv
  BY InitIInv, StepIInv, PTL DEF Spec

\* Every value stays in its type: no deadline is set beyond its constant.
THEOREM ProcessTypes == Spec => []TypeOK
  BY ProcessInvariant, PTL DEF IInv

\* restarting_ is set exactly while a child that was sent SIGTERM is unreaped, or
\* since the exit of such a child was collected elsewhere.
THEOREM ProcessAskedExitsOnly == Spec => []AskedExitsOnly
  BY ProcessInvariant, PTL DEF IInv

\* The poll set holds a probe only of an unready child.
THEOREM ProcessProbeHasChild == Spec => []ProbeHasChild
  BY ProcessInvariant, PTL DEF IInv

\* No change of readiness is lost on the clients.
THEOREM ProcessNoSilentFlip == Spec => []NoSilentFlip
  BY ProcessInvariant, PTL DEF IInv

\* An unloaded model has no child but one on its way out, whichever of a crash,
\* an exit that was asked for and a backoff the loop comes from.
THEOREM ProcessUnloadedStaysDown == Spec => []UnloadedStaysDown
  BY ProcessInvariant, PTL DEF IInv

-----------------------------------------------------------------------------
(* The console.                                                            *)

\* A child that was not told to exit runs what is configured.
Served == /\ ready => ~Down
          /\ ~Down /\ ~child.doomed => child.model = cfg

\* What the host shows is what it configured, and what it has told.
Shown == /\ pending \in Models
         /\ cfg = model /\ told.model = model
         /\ ~dragging => told.context = context /\ nextContext = context

CInv == IInv /\ Served /\ Shown

LEMMA InitCInv == ConsoleInit => CInv
  <1> SUFFICES ASSUME ConsoleInit PROVE CInv
    OBVIOUS
  <1>1. IInv
    BY InitIInv DEF ConsoleInit
  <1>2. Served
    BY DEF ConsoleInit, Init, Served, Down
  <1>3. Shown
    BY DEF ConsoleInit, Init, Shown, Config
  <1> QED
    BY <1>1, <1>2, <1>3 DEF CInv

\* A step of the console is a step of the child's supervision, or none of it.
LEMMA ConsoleStep == ASSUME CInv, [ConsoleNext]_allVars PROVE [Next]_vars
  <1>1. CASE UNCHANGED allVars
    BY <1>1 DEF allVars
  <1>2. CASE TickAndTell
    BY <1>2 DEF TickAndTell, Next
  <1>3. CASE LoadPending \/ CycleModel
    <2>1. PICK m \in Models : SwitchModel(m)
      BY <1>3 DEF LoadPending, CycleModel, Load, CInv, Shown
    <2> QED
      BY <2>1 DEF Next
  <1>4. CASE PressRestart \/ PressUnload
    BY <1>4 DEF PressRestart, PressUnload, Next
  <1>5. CASE \/ \E m \in Models : Pick(m)
             \/ \E n \in Contexts : DragContext(n)
    BY <1>5 DEF Pick, DragContext
  <1>7. CASE ReleaseContext
    BY <1>7 DEF ReleaseContext, Next
  <1>6. CASE World(ChildLoads) \/ World(ChildStops) \/ World(ChildCrashes)
               \/ World(ChildAnswers) \/ World(TimePasses)
    BY <1>6 DEF World, Next
  <1> QED
    BY <1>1, <1>2, <1>3, <1>4, <1>5, <1>6, <1>7 DEF ConsoleNext

\* A tick leaves an undoomed child on the configured model.
LEMMA TickServed == ASSUME IInv, Served, Tick PROVE Served' /\ UNCHANGED cfg
  <1> USE DEF Served, Down, flags, probed, counts
  <1>1. child \in Child
    BY DEF IInv, TypeOK, DataOK
  <1>2. CASE ReapCrash
    BY <1>2 DEF ReapCrash, Reaped
  <1>3. CASE ReapAsked \/ ReapElsewhere
    <2>1. /\ ForkOK \/ (Reaped /\ ready' = FALSE)
          /\ cfg' = cfg
      BY <1>3 DEF ReapAsked, ReapElsewhere, Collected, StayDown, ForkFails
    <2> QED
      BY <2>1 DEF Reaped, ForkOK
  <1>4. CASE Spawn
    BY <1>4 DEF Spawn, ForkOK, ForkFails, Reaped
  <1>5. CASE AdvanceProbe
    <2>1. UNCHANGED <<child, cfg>> /\ ~Down
      BY <1>5, <1>1 DEF AdvanceProbe, Probing, Running
    <2> QED
      BY <2>1
  <1>6. CASE Rest
    BY <1>6 DEF Rest
  <1> QED
    BY <1>2, <1>3, <1>4, <1>5, <1>6 DEF Tick

\* An action of the operator on the child dooms it, if there is one.
LEMMA DoomedServed ==
  ASSUME IInv, Terminate, ready' = FALSE
  PROVE  Served'
  <1>1. child \in Child
    BY DEF IInv, TypeOK, DataOK
  <1> QED
    BY <1>1 DEF Terminate, Served, Down, Child

LEMMA LoadKeeps ==
  ASSUME CInv, NEW m \in Models, Load(m)
  PROVE  Served' /\ Shown'
  <1>1. Served'
    BY DoomedServed DEF CInv, Load, SwitchModel, RestartChild
  <1>2. Shown'
    BY DEF CInv, Shown, Load, SwitchModel, Config
  <1> QED
    BY <1>1, <1>2

LEMMA StepCInv == CInv /\ [ConsoleNext]_allVars => CInv'
  <1> SUFFICES ASSUME CInv, [ConsoleNext]_allVars PROVE CInv'
    OBVIOUS
  <1>1. IInv'
    BY ConsoleStep, StepIInv DEF CInv
  <1>2. Served' /\ Shown'
    <2>1. CASE UNCHANGED allVars
      BY <2>1 DEF allVars, vars, consoleVars, flags, CInv, Served, Shown, Down
    <2>2. CASE TickAndTell
      <3>1. Served' /\ UNCHANGED cfg
        BY <2>2, TickServed DEF CInv, TickAndTell
      <3>2. Shown'
        BY <2>2, <3>1 DEF CInv, Shown, TickAndTell, Config
      <3> QED
        BY <3>1, <3>2
    <2>3. CASE LoadPending \/ CycleModel
      <3>1. PICK m \in Models : Load(m)
        BY <2>3 DEF LoadPending, CycleModel, CInv, Shown
      <3> QED
        BY <3>1, LoadKeeps
    <2>4. CASE PressRestart \/ PressUnload
      <3>1. Served'
        BY <2>4, DoomedServed
        DEF CInv, PressRestart, PressUnload, Restart, RestartChild, Unload
      <3>2. Shown'
        BY <2>4 DEF CInv, Shown, PressRestart, PressUnload, Restart, Unload, consoleVars
      <3> QED
        BY <3>1, <3>2
    <2>5. CASE \/ \E m \in Models : Pick(m)
               \/ \E n \in Contexts : DragContext(n)
               \/ ReleaseContext
      BY <2>5 DEF Pick, DragContext, ReleaseContext, Announce, Config, vars, flags, CInv,
         Served, Shown, Down
    <2>6. CASE World(ChildLoads) \/ World(ChildStops) \/ World(ChildCrashes)
                 \/ World(ChildAnswers) \/ World(TimePasses)
      <3>1. UNCHANGED <<cfg, ready, consoleVars>>
        BY <2>6 DEF World, ChildLoads, ChildStops, ChildCrashes, ChildAnswers,
           TimePasses, others, flags
      <3>2. child' = child \/ \E s \in {"serving", "exited"} :
                                child' = [child EXCEPT !.state = s] /\ ~Down
        BY <2>6 DEF World, ChildLoads, ChildStops, ChildCrashes, ChildAnswers,
           TimePasses, Running, Down
      <3>3. child \in Child
        BY DEF CInv, IInv, TypeOK, DataOK
      <3>4. Served'
        BY <3>1, <3>2, <3>3 DEF CInv, Served, Down, Child
      <3> QED
        BY <3>1, <3>4 DEF CInv, Shown, consoleVars
    <2> QED
      BY <2>1, <2>2, <2>3, <2>4, <2>5, <2>6 DEF ConsoleNext
  <1> QED
    BY <1>1, <1>2 DEF CInv

\* The console implements the supervision of the child: whatever the operator
\* does is a behaviour of LlamaProcess, and its safety theorems hold of it.
THEOREM ConsoleImplementsProcess ==
  ConsoleInit /\ [][ConsoleNext]_allVars => Init /\ [][Next]_vars
  <1>1. CInv /\ [ConsoleNext]_allVars => [Next]_vars
    BY ConsoleStep
  <1>2. ConsoleInit => Init
    BY DEF ConsoleInit
  <1> QED
    BY <1>1, <1>2, InitCInv, StepCInv, PTL

\* The model a ready child serves is the one the clients were told of, and the
\* context window they were told of is the one that is configured.
THEOREM ConsoleLabelTrue == ConsoleSpec => []LabelTrue
  <1>1. CInv => LabelTrue
    BY DEF CInv, Served, Shown, LabelTrue
  <1> QED
    BY <1>1, InitCInv, StepCInv, PTL DEF ConsoleSpec

-----------------------------------------------------------------------------
(* The parser of a response.  Its data are sequences of bytes, so first      *)
(* what sequences, and the loops over them, are known to do.               *)

-----------------------------------------------------------------------------
(* Sequences.                                                              *)

\* A sequence begins as another does; the rest of it goes with what follows.
Split(S, a, b, c, d) ==
  LET rest == From(a, Len(c) + 1)
  IN /\ rest \in Seq(S) /\ Len(rest) = Len(a) - Len(c)
     /\ a = c \o rest /\ rest \o b = d /\ SubSeq(a, 1, Len(c)) = c

LEMMA Splits ==
  ASSUME NEW S, NEW a \in Seq(S), NEW b \in Seq(S), NEW c \in Seq(S), NEW d \in Seq(S),
         a \o b = c \o d, Len(c) <= Len(a)
  PROVE  Split(S, a, b, c, d)
<1> DEFINE n == Len(c)
           e == SubSeq(a, n + 1, Len(a))
<1>0. n \in Nat /\ Len(a) \in Nat /\ n <= Len(a)
  OBVIOUS
<1>1. /\ e \in Seq(S) /\ Len(e) = Len(a) - n
      /\ \A i \in 1 .. Len(a) - n : e[i] = a[n + i]
  <2>1. \A i \in n + 1 .. Len(a) : a[i] \in S
    BY <1>0
  <2>2. n + 1 \in Int /\ Len(a) \in Int
    BY <1>0
  <2> HIDE DEF n
  <2>3. /\ e \in Seq(S)
        /\ Len(e) = IF n + 1 <= Len(a) THEN Len(a) - (n + 1) + 1 ELSE 0
        /\ \A i \in 1 .. Len(a) - (n + 1) + 1 : e[i] = a[n + 1 + i - 1]
    BY <2>1, <2>2, SubSeqProperties
  <2> HIDE DEF e
  <2>4. \A i \in 1 .. Len(a) - n : n + 1 + i - 1 = n + i /\ i \in 1 .. Len(a) - (n + 1) + 1
    BY <1>0
  <2>5. Len(e) = Len(a) - n
    BY <1>0, <2>3
  <2> QED BY <2>3, <2>4, <2>5
<1>2. \A i \in 1 .. n : a[i] = c[i]
  <2>1. ASSUME NEW i \in 1 .. n PROVE a[i] = c[i]
    <3>1. i \in 1 .. Len(a) + Len(b) /\ i \in 1 .. Len(c) + Len(d) /\ i <= Len(a) /\ i <= Len(c)
      BY <1>0
    <3>2. (a \o b)[i] = a[i]
      BY <3>1, ConcatProperties
    <3>3. (c \o d)[i] = c[i]
      BY <3>1, ConcatProperties
    <3> QED BY <3>2, <3>3
  <2> QED BY <2>1
<1> HIDE DEF n, e
<1>3. a = c \o e
  <2>1. c \o e \in Seq(S) /\ Len(c \o e) = Len(a)
    BY <1>0, <1>1, ConcatProperties DEF n
  <2>2. ASSUME NEW i \in 1 .. Len(a) PROVE a[i] = (c \o e)[i]
    <3>1. (c \o e)[i] = IF i <= n THEN c[i] ELSE e[i - n]
      <4>1. i \in 1 .. Len(c) + Len(e)
        BY <1>0, <1>1 DEF n
      <4> QED BY <4>1, <1>1, ConcatProperties DEF n
    <3>2. CASE i <= n
      BY <1>0, <1>2, <3>1, <3>2
    <3>3. CASE i > n
      <4>1. i - n \in 1 .. Len(a) - n /\ n + (i - n) = i
        BY <1>0, <3>3
      <4> QED BY <1>0, <1>1, <3>1, <3>3, <4>1
    <3>4. i <= n \/ i > n
      BY <1>0
    <3> QED BY <3>2, <3>3, <3>4
  <2> QED BY <2>1, <2>2, SeqEqual
<1>4. c \o (e \o b) = c \o d
  <2>1. (c \o e) \o b = c \o (e \o b)
    <3>1. \A q \in Seq(S) : (c \o q) \o b = c \o (q \o b)
      BY ConcatAssociative
    <3> QED BY <1>1, <3>1
  <2>2. (c \o e) \o b = c \o d
    BY <1>3
  <2> QED BY <2>1, <2>2
<1>5. e \o b \in Seq(S)
  BY <1>1, ConcatProperties
<1>6. e \o b = d
  BY <1>4, <1>5, ConcatSimplifications
<1>7. SubSeq(a, 1, n) = c
  <2>1. \A i \in 1 .. n : a[i] \in S
    BY <1>0
  <2>2. /\ SubSeq(a, 1, n) \in Seq(S)
        /\ Len(SubSeq(a, 1, n)) = IF 1 <= n THEN n - 1 + 1 ELSE 0
        /\ \A i \in 1 .. n - 1 + 1 : SubSeq(a, 1, n)[i] = a[1 + i - 1]
    BY <1>0, <2>1, SubSeqProperties
  <2>3. Len(SubSeq(a, 1, n)) = n
    BY <1>0, <2>2
  <2>4. \A i \in 1 .. n : SubSeq(a, 1, n)[i] = c[i]
    <3>1. \A i \in 1 .. n : i \in 1 .. n - 1 + 1 /\ 1 + i - 1 = i
      BY <1>0
    <3> QED BY <1>2, <2>2, <3>1
  <2> QED BY <2>2, <2>3, <2>4, SeqEqual DEF n
<1> QED BY <1>1, <1>3, <1>6, <1>7 DEF n, e, From, Split

\* Two sequences of a set make one.
LEMMA Joins ==
  ASSUME NEW S, NEW s \in Seq(S), NEW t \in Seq(S)
  PROVE  s \o t \in Seq(S) /\ Len(s \o t) = Len(s) + Len(t)
BY ConcatProperties

\* Append, as a sequence of the set.
LEMMA Chained ==
  ASSUME NEW S, NEW a \in Seq(S), NEW e \in S
  PROVE  /\ Append(a, e) \in Seq(S)
         /\ Len(Append(a, e)) = Len(a) + 1
         /\ Len(a) \in Nat
BY AppendProperties

-----------------------------------------------------------------------------
(* FlattenSeq.                                                             *)

Joined(s, f) == /\ f[1] = s[1]
                /\ \A i \in 2 .. Len(s) : f[i] = f[i - 1] \o s[i]

\* FlattenSeq is the last of the sums of its first elements.
LEMMA FlatIs ==
  ASSUME NEW S, NEW s \in Seq(Seq(S)), s # <<>>
  PROVE  \E f \in [1 .. Len(s) -> Seq(S)] : Joined(s, f) /\ FlattenSeq(s) = f[Len(s)]
<1> DEFINE N == Len(s)
           R == Seq(S)
           step == [i \in 1 .. N |-> [x \in R |-> x \o s[i]]]
           Rule(f) == [i \in 1 .. N |-> IF i = 1 THEN s[i] ELSE f[i - 1] \o s[i]]
           c == CHOOSE f : f = Rule(f)
<1>0. N \in Nat /\ N # 0 /\ \A i \in 1 .. N : s[i] \in R
  BY EmptySeq
<1>1. FlattenSeq(s) = c[N]
  BY <1>0 DEF FlattenSeq
<1>2. <<>> \in R
  OBVIOUS
<1>3. step \in [1 .. N -> [R -> R]]
  BY <1>0, ConcatProperties
<1>4. \A i \in 1 .. N, x \in R : step[i][x] = x \o s[i]
  OBVIOUS
<1> HIDE DEF step
<1>5. PICK f \in [0 .. N -> R] : Follows(f, <<>>, step, N)
  BY <1>0, <1>2, <1>3, Iterated
<1> DEFINE g == [i \in 1 .. N |-> f[i]]
<1>6. ASSUME NEW i \in 1 .. N PROVE g[i] = IF i = 1 THEN s[i] ELSE g[i - 1] \o s[i]
  <2>1. i - 1 \in 0 .. N /\ f[i - 1] \in R
    <3> HIDE DEF N, R
    <3>1. i - 1 \in 0 .. N
      BY <1>0
    <3> QED BY <3>1
  <2>2. f[i] = f[i - 1] \o s[i]
    BY <1>4, <1>5, <2>1 DEF Follows
  <2>3. CASE i = 1
    <3>1. f[i - 1] = <<>>
      BY <1>5, <2>3 DEF Follows
    <3>2. <<>> \o s[i] = s[i]
      BY <1>0, ConcatEmptySeq
    <3> QED BY <2>2, <2>3, <3>1, <3>2
  <2>4. CASE i # 1
    <3>1. i - 1 \in 1 .. N
      BY <1>0, <2>4
    <3> QED BY <2>2, <2>4, <3>1
  <2> QED BY <2>3, <2>4
<1>7. g = Rule(g)
  BY <1>6
<1>8. c = Rule(c)
  <2> HIDE DEF g, Rule
  <2> QED BY <1>7
<1> HIDE DEF c
<1>9. \A i \in 1 .. N : c[i] = IF i = 1 THEN s[i] ELSE c[i - 1] \o s[i]
  BY <1>8
<1> HIDE DEF Rule
<1>10. \A i \in 1 .. N : c[i] \in R
  <2> DEFINE K == {i \in Nat : i = 0 \/ (i <= N => c[i] \in R)}
  <2>1. 0 \in K
    OBVIOUS
  <2>2. ASSUME NEW i \in Nat, i \in K PROVE i + 1 \in K
    <3>0. SUFFICES ASSUME i + 1 <= N PROVE c[i + 1] \in R
      OBVIOUS
    <3>1. i + 1 \in 1 .. N /\ s[i + 1] \in R
      BY <1>0, <3>0
    <3>2. CASE i = 0
      BY <1>9, <3>1, <3>2
    <3>3. CASE i # 0
      <4>1. c[i] \in R
        BY <2>2, <3>0, <3>3
      <4>2. c[i + 1] = c[(i + 1) - 1] \o s[i + 1] /\ (i + 1) - 1 = i
        <5>1. i + 1 # 1 /\ (i + 1) - 1 = i
          BY <3>3
        <5> QED BY <1>9, <3>1, <5>1
      <4>3. c[i] \o s[i + 1] \in R
        BY <3>1, <4>1, ConcatProperties
      <4> QED BY <4>2, <4>3
    <3> QED BY <3>2, <3>3
  <2> HIDE DEF K
  <2>3. Nat \subseteq K
    BY <2>1, <2>2, SetInduction
  <2>4. ASSUME NEW i \in 1 .. N PROVE c[i] \in R
    <3>1. i \in Nat /\ i # 0 /\ i <= N /\ i \in K
      BY <2>3
    <3> QED BY <3>1 DEF K
  <2> QED BY <2>4
<1>11. c \in [1 .. N -> R]
  <2>1. c = [i \in 1 .. N |-> c[i]]
    BY <1>8 DEF Rule
  <2> QED BY <2>1, <1>10
<1>12. Joined(s, c)
  <2>1. c[1] = s[1]
    BY <1>0, <1>9
  <2>2. \A i \in 2 .. N : i \in 1 .. N /\ i # 1
    BY <1>0
  <2>3. \A i \in 2 .. N : c[i] = c[i - 1] \o s[i]
    BY <1>9, <2>2
  <2> QED BY <2>1, <2>3 DEF Joined
<1> QED BY <1>1, <1>11, <1>12

LEMMA FlatEmpty == FlattenSeq(<<>>) = <<>>
BY EmptySeq DEF FlattenSeq

\* ... and takes an element at its end,
LEMMA FlatAppend ==
  ASSUME NEW S, NEW s \in Seq(Seq(S)), NEW z \in Seq(S)
  PROVE  /\ FlattenSeq(s) \in Seq(S)
         /\ Append(s, z) \in Seq(Seq(S))
         /\ FlattenSeq(Append(s, z)) = FlattenSeq(s) \o z
<1> DEFINE t == Append(s, z)
           N == Len(s)
           R == Seq(S)
<1>1. t \in Seq(R) /\ Len(t) = N + 1 /\ t # <<>> /\ t[N + 1] = z /\ N \in Nat
      /\ \A i \in 1 .. N : t[i] = s[i]
  BY AppendProperties, LenProperties
<1> HIDE DEF t
<1>2. PICK g \in [1 .. N + 1 -> R] : Joined(t, g) /\ FlattenSeq(t) = g[N + 1]
  BY <1>1, FlatIs
<1>3. CASE s = <<>>
  <2>1. N = 0 /\ N + 1 = 1
    BY <1>3
  <2>2. FlattenSeq(t) = z
    BY <1>1, <1>2, <2>1 DEF Joined
  <2>3. FlattenSeq(s) = <<>> /\ <<>> \in Seq(S) /\ <<>> \o z = z
    BY <1>3, FlatEmpty, ConcatEmptySeq
  <2> QED BY <1>1, <2>2, <2>3 DEF t
<1>4. CASE s # <<>>
  <2>1. PICK f \in [1 .. N -> R] : Joined(s, f) /\ FlattenSeq(s) = f[N]
    BY <1>4, FlatIs
  <2>2. N # 0
    BY <1>4, EmptySeq
  <2> DEFINE K == {i \in Nat : i = 0 \/ (i <= N => f[i] = g[i])}
  <2>3. 0 \in K
    OBVIOUS
  <2>4. ASSUME NEW i \in Nat, i \in K PROVE i + 1 \in K
    <3>0. SUFFICES ASSUME i + 1 <= N PROVE f[i + 1] = g[i + 1]
      OBVIOUS
    <3>1. CASE i = 0
      BY <1>1, <1>2, <2>1, <3>0, <3>1 DEF Joined
    <3>2. CASE i # 0
      <4>1. f[i] = g[i]
        BY <2>4, <3>0, <3>2
      <4>2. i + 1 \in 2 .. N /\ i + 1 \in 2 .. Len(t) /\ (i + 1) - 1 = i /\ t[i + 1] = s[i + 1]
        BY <1>1, <3>0, <3>2
      <4>3. f[i + 1] = f[i] \o s[i + 1]
        BY <2>1, <4>2 DEF Joined
      <4>4. g[i + 1] = g[i] \o t[i + 1]
        BY <1>2, <4>2 DEF Joined
      <4> QED BY <4>1, <4>2, <4>3, <4>4
    <3> QED BY <3>1, <3>2
  <2> HIDE DEF K
  <2>5. Nat \subseteq K
    BY <2>3, <2>4, SetInduction
  <2>6. f[N] = g[N]
    <3>1. N \in K
      BY <1>1, <2>5
    <3> QED BY <2>2, <1>1, <3>1 DEF K
  <2>7. g[N + 1] = g[N] \o z
    <3>1. N + 1 \in 2 .. Len(t) /\ (N + 1) - 1 = N
      BY <1>1, <2>2
    <3> QED BY <1>1, <1>2, <3>1 DEF Joined
  <2>8. f[N] \in R
    BY <1>1, <2>2
  <2> QED BY <1>1, <1>2, <2>1, <2>6, <2>7, <2>8 DEF t
<1> QED BY <1>3, <1>4

\* Append goes through a concatenation.
LEMMA AppendLast ==
  ASSUME NEW S, NEW x \in Seq(S), NEW o \in Seq(S), NEW z \in S
  PROVE  x \o Append(o, z) = Append(x \o o, z)
<1>1. Append(o, z) = o \o <<z>>
  BY AppendIsConcat
<1>2. x \o o \in Seq(S)
  BY ConcatProperties
<1>3. Append(x \o o, z) = (x \o o) \o <<z>>
  BY <1>2, AppendIsConcat
<1>4. <<z>> \in Seq(S)
  OBVIOUS
<1>5. (x \o o) \o <<z>> = x \o (o \o <<z>>)
  BY <1>4, ConcatAssociative
<1> QED BY <1>1, <1>3, <1>5

\* ... or at its head.
LEMMA FlatHead ==
  ASSUME NEW S, NEW h \in Seq(S), NEW t \in Seq(Seq(S))
  PROVE  FlattenSeq(<<h>> \o t) = h \o FlattenSeq(t)
<1> DEFINE R == Seq(S)
           K == {n \in Nat : \A u \in Seq(R) : Len(u) = n => FlattenSeq(<<h>> \o u) = h \o FlattenSeq(u)}
<1>0. <<h>> \in Seq(R)
  OBVIOUS
<1>1. 0 \in K
  <2>1. SUFFICES ASSUME NEW u \in Seq(R), Len(u) = 0
                 PROVE  FlattenSeq(<<h>> \o u) = h \o FlattenSeq(u)
    OBVIOUS
  <2>2. u = <<>>
    BY <2>1, EmptySeq
  <2>3. <<h>> \o u = <<h>> /\ <<h>> = Append(<<>>, h) /\ <<>> \in Seq(R)
    BY <1>0, <2>2, ConcatEmptySeq
  <2>4. FlattenSeq(<<h>>) = <<>> \o h
    BY <2>3, FlatAppend, FlatEmpty
  <2>5. <<>> \o h = h /\ h \o <<>> = h
    BY ConcatEmptySeq
  <2> QED BY <2>2, <2>3, <2>4, <2>5, FlatEmpty
<1>2. ASSUME NEW n \in Nat, n \in K PROVE n + 1 \in K
  <2>0. n + 1 \in Nat
    OBVIOUS
  <2>1. SUFFICES ASSUME NEW u \in Seq(R), Len(u) = n + 1
                 PROVE  FlattenSeq(<<h>> \o u) = h \o FlattenSeq(u)
    BY <2>0, Zenon
  <2>2. u # <<>>
    BY <2>1, EmptySeq
  <2>3. PICK v \in Seq(R), z \in R : u = Append(v, z)
    BY <2>2, SequenceEmptyOrAppend
  <2>4. Len(v) = n
    <3>1. Len(u) = Len(v) + 1 /\ Len(v) \in Nat
      BY <2>3, AppendProperties, LenProperties
    <3> QED BY <2>1, <3>1
  <2>5. FlattenSeq(<<h>> \o v) = h \o FlattenSeq(v)
    BY <1>2, <2>4
  <2>6. <<h>> \o u = Append(<<h>> \o v, z)
    <3>1. <<h>> \o Append(v, z) = Append(<<h>> \o v, z)
      BY <1>0, AppendLast
    <3> QED BY <2>3, <3>1
  <2>7. FlattenSeq(<<h>> \o u) = FlattenSeq(<<h>> \o v) \o z
    <3>1. <<h>> \o v \in Seq(R)
      BY <1>0, ConcatProperties
    <3> QED BY <2>6, <3>1, FlatAppend
  <2>8. FlattenSeq(v) \in R /\ FlattenSeq(u) = FlattenSeq(v) \o z
    BY <2>3, FlatAppend
  <2>9. (h \o FlattenSeq(v)) \o z = h \o (FlattenSeq(v) \o z)
    <3>1. \A q \in Seq(S) : (h \o q) \o z = h \o (q \o z)
      BY ConcatAssociative
    <3> QED BY <2>8, <3>1
  <2> QED BY <2>5, <2>7, <2>8, <2>9
<1> HIDE DEF K
<1>3. Nat \subseteq K
  BY <1>1, <1>2, SetInduction
<1>4. Len(t) \in K
  <2>1. Len(t) \in Nat
    BY LenProperties
  <2> QED BY <1>3, <2>1
<1> QED BY <1>4 DEF K

\* What is left of the parcels after the first k.
After(s, k) == FlattenSeq(From(s, k + 1))

\* What is left after k elements, from all of it to nothing.
LEMMA AfterIs ==
  ASSUME NEW S, NEW s \in Seq(Seq(S))
  PROVE  /\ After(s, 0) = FlattenSeq(s)
         /\ After(s, Len(s)) = <<>>
         /\ \A k \in 0 .. Len(s) : After(s, k) \in Seq(S)
         /\ \A k \in 0 .. Len(s) - 1 : After(s, k) = s[k + 1] \o After(s, k + 1)
<1> DEFINE N == Len(s)
           R == Seq(S)
<1>0. N \in Nat /\ \A i \in 1 .. N : s[i] \in R
  BY LenProperties
<1>1. After(s, 0) = FlattenSeq(s)
  <2>1. SubSeq(s, 0 + 1, N) = s
    BY SubSeqFull
  <2>2. FlattenSeq(SubSeq(s, 0 + 1, N)) = FlattenSeq(s)
    BY <2>1
  <2> QED BY <2>2, Zenon DEF After, From
<1>2. After(s, N) = <<>>
  <2>1. SubSeq(s, N + 1, N) = <<>>
    <3> HIDE DEF N
    <3>1. N + 1 \in Int /\ N \in Int /\ N < N + 1
      BY <1>0
    <3> QED BY <3>1, SubSeqEmpty
  <2> QED BY <2>1, FlatEmpty DEF After, From
<1>3. ASSUME NEW k \in 0 .. N PROVE From(s, k + 1) \in Seq(R)
  <2>1. \A i \in k + 1 .. N : s[i] \in R
    <3> HIDE DEF N
    <3> QED BY <1>0
  <2>2. k + 1 \in Int /\ N \in Int
    BY <1>0
  <2>3. SubSeq(s, k + 1, N) \in Seq(R)
    <3> HIDE DEF N, R
    <3> QED BY <2>1, <2>2, SubSeqProperties
  <2> QED BY <2>3 DEF From
<1>4. \A k \in 0 .. N : After(s, k) \in Seq(S)
  <2>1. SUFFICES ASSUME NEW k \in 0 .. N PROVE After(s, k) \in Seq(S)
    OBVIOUS
  <2>2. From(s, k + 1) \in Seq(R)
    BY <1>3
  <2> QED BY <2>2, FlatAppend DEF After
<1>5. ASSUME NEW k \in 0 .. N - 1 PROVE After(s, k) = s[k + 1] \o After(s, k + 1)
  <2>1. k + 1 \in 1 .. N /\ N \in k + 1 .. N /\ k + 1 \in 0 .. N
    BY <1>0
  <2>2. SubSeq(s, k + 1, N) = <<s[k + 1]>> \o SubSeq(s, (k + 1) + 1, N)
    BY <2>1, SubSeqRecursiveFirst
  <2>3. From(s, (k + 1) + 1) \in Seq(R) /\ s[k + 1] \in R
    BY <1>0, <1>3, <2>1
  <2>4. FlattenSeq(<<s[k + 1]>> \o From(s, (k + 1) + 1)) = s[k + 1] \o FlattenSeq(From(s, (k + 1) + 1))
    BY <2>3, FlatHead
  <2> QED BY <2>2, <2>4 DEF After, From
<1> QED BY <1>1, <1>2, <1>4, <1>5

-----------------------------------------------------------------------------
(* What is sent, as tapes: the lines and the chunks still to come.         *)

TextBytes == {Text(t) : t \in Texts \cup {0}}
Bytes == TextBytes \cup {Byte("data:"), Byte("junk"), CR, LF} \cup {Size(n) : n \in Nat}
           \cup {[is |-> h, n |-> k] : h \in {"chunked", "plain"}, k \in {200, 500}}

\* The bytes are told apart by what they are.
LEMMA BytesAre ==
  /\ CR \in Bytes /\ LF \in Bytes /\ Byte("data:") \in Bytes /\ Byte("junk") \in Bytes
  /\ CR # LF /\ Byte("data:") # LF /\ Byte("data:") # CR /\ Byte("junk") # CR
  /\ Byte("junk").is # "size" /\ Byte("data:").is = "data:"
  /\ \A t \in TextBytes : t \in Bytes /\ t # LF /\ t # CR
  /\ \A n \in Nat : Size(n) \in Bytes /\ Size(n).is = "size" /\ Size(n).n = n /\ Size(n) # CR
  /\ \A x \in Bytes : x.is = "size" => x.n \in Nat
  /\ \A h \in {"chunked", "plain"}, k \in {200, 500} :
       [is |-> h, n |-> k] \in Bytes /\ [is |-> h, n |-> k] # CR
  /\ Stop \in TextBytes
<1>1. /\ CR # LF /\ Byte("data:") # LF /\ Byte("data:") # CR /\ Byte("junk") # CR
      /\ Byte("junk").is # "size" /\ Byte("data:").is = "data:"
  BY DEF CR, LF, Byte
<1>2. \A t \in TextBytes : t \in Bytes /\ t # LF /\ t # CR
  <2>1. ASSUME NEW t \in TextBytes PROVE t # LF /\ t # CR
    <3>1. t.is = "text" /\ LF.is = "LF" /\ CR.is = "CR"
      BY DEF TextBytes, CR, LF, Byte, Text
    <3> QED BY <3>1
  <2> QED BY <2>1 DEF Bytes
<1>3. \A n \in Nat : Size(n) \in Bytes /\ Size(n).is = "size" /\ Size(n).n = n /\ Size(n) # CR
  <2>1. ASSUME NEW n \in Nat PROVE Size(n).is = "size" /\ Size(n).n = n /\ Size(n) # CR
    <3>1. Size(n).is = "size" /\ Size(n).n = n /\ CR.is = "CR"
      BY DEF CR, Byte, Size
    <3> QED BY <3>1
  <2> QED BY <2>1 DEF Bytes
<1>4. \A x \in Bytes : x.is = "size" => x.n \in Nat
  BY DEF Bytes, TextBytes, CR, LF, Byte, Text, Size
<1>5. ASSUME NEW h \in {"chunked", "plain"}, NEW k \in {200, 500}
      PROVE  [is |-> h, n |-> k] \in Bytes /\ [is |-> h, n |-> k] # CR
  <2>1. [is |-> h, n |-> k].is = h /\ CR.is = "CR"
    BY DEF CR, Byte
  <2> QED BY <2>1 DEF Bytes
<1>6. /\ CR \in Bytes /\ LF \in Bytes /\ Byte("data:") \in Bytes /\ Byte("junk") \in Bytes
      /\ Stop \in TextBytes
  BY DEF Bytes, TextBytes, Stop
<1> QED BY <1>1, <1>2, <1>3, <1>4, <1>5, <1>6

\* What a server may mean.
Meant(r) == r \in Responses /\ (r.bad => r.size > 0) /\ (r.status # 200 => r.events = <<>>)

\* No event of a server is [DONE].
LEMMA EventsAre ==
  /\ \A e \in Events : e \in Seq(TextBytes) /\ e # <<>> /\ e # <<Stop>>
  /\ <<Stop>> \in Seq(TextBytes) /\ <<Stop>> # <<>>
<1> DEFINE said == {Text(t) : t \in Texts}
<1>1. said \subseteq TextBytes /\ Stop \notin said
  <2>1. ASSUME NEW t \in Texts
        PROVE  Text(t) \in TextBytes /\ Text(t) # Stop
    <3>1. Text(t).n = t /\ Stop.n = 0 /\ t # 0
      BY SseAssumption DEF Text, Stop
    <3>2. Text(t) # Stop
      BY <3>1
    <3> QED BY <3>2 DEF TextBytes
  <2> QED BY <2>1
<1>2. <<Stop>> \in Seq(TextBytes) /\ <<Stop>> # <<>>
  BY BytesAre
<1>3. ASSUME NEW e \in Events
      PROVE  e \in Seq(TextBytes) /\ e # <<>> /\ e # <<Stop>>
  <2>1. e # <<>> /\ e \in BoundedSeq(said, MaxLines)
    BY DEF Events
  <2>2. PICK m \in 0 .. MaxLines : e \in [1 .. m -> said]
    BY <2>1 DEF BoundedSeq, SeqOf
  <2>3. m \in Nat
    BY SseAssumption
  <2> HIDE DEF said
  <2>4. e \in Seq(said) /\ Len(e) = m
    BY <2>2, <2>3
  <2>5. \A i \in 1 .. m : e[i] \in said
    BY <2>2
  <2>6. e \in Seq(TextBytes)
    BY <2>4, <1>1
  <2>7. CASE e = <<Stop>>
    <3>1. Len(e) = 1 /\ e[1] = Stop
      BY <2>7
    <3> QED BY <3>1, <2>3, <2>4, <2>5, <1>1
  <2> QED BY <2>1, <2>6, <2>7
<1> QED BY <1>2, <1>3

\* What a response says: its events, and [DONE] if it stops by that.
LEMMA AllIs ==
  ASSUME NEW r, Meant(r)
  PROVE  /\ r.events \in Seq(Events) /\ Len(r.events) \in Nat
         /\ All(r) \in Seq(Seq(TextBytes))
         /\ r.stop => Len(All(r)) = Len(r.events) + 1
         /\ ~r.stop => Len(All(r)) = Len(r.events)
         /\ \A i \in 1 .. Len(r.events) : All(r)[i] = r.events[i] /\ r.events[i] # <<Stop>>
         /\ r.stop => All(r)[Len(r.events) + 1] = <<Stop>>
         /\ \A i \in 1 .. Len(All(r)) : All(r)[i] \in Seq(TextBytes) /\ All(r)[i] # <<>>
         /\ r.eol \in {<<LF>>, <<CR, LF>>} /\ r.stop \in BOOLEAN /\ r.bad \in BOOLEAN
         /\ r.size \in Nat /\ r.status \in {200, 500}
<1> DEFINE ev == r.events
           n == Len(ev)
           T == Seq(TextBytes)
           more == IF r.stop THEN <<<<Stop>>>> ELSE <<>>
<1>1. /\ r.eol \in {<<LF>>, <<CR, LF>>} /\ r.stop \in BOOLEAN /\ r.bad \in BOOLEAN
      /\ r.size \in Nat /\ r.status \in {200, 500}
  BY SseAssumption DEF Meant, Responses
<1>2. ev \in Seq(Events)
  <2>1. ev \in BoundedSeq(Events, MaxEvents)
    BY DEF Meant, Responses
  <2>2. PICK m \in 0 .. MaxEvents : ev \in [1 .. m -> Events]
    BY <2>1 DEF BoundedSeq, SeqOf
  <2>3. m \in Nat
    BY SseAssumption
  <2> QED BY <2>2, <2>3
<1>3. /\ n \in Nat /\ \A i \in 1 .. n : ev[i] \in Events
  BY <1>2, LenProperties
<1>4. ev \in Seq(T)
  <2>1. Events \subseteq T
    BY EventsAre
  <2> QED BY <1>2, <2>1, SeqMonotonic
<1>5. more \in Seq(T) /\ Len(more) = (IF r.stop THEN 1 ELSE 0) /\ (r.stop => more[1] = <<Stop>>)
  <2>1. <<Stop>> \in T
    BY EventsAre
  <2> HIDE DEF T
  <2> QED BY <2>1
<1>6. All(r) = ev \o more
  BY DEF All
<1> HIDE DEF ev, T, more
<1>7. /\ All(r) \in Seq(T) /\ Len(All(r)) = n + Len(more)
      /\ \A i \in 1 .. n + Len(more) : All(r)[i] = IF i <= n THEN ev[i] ELSE more[i - n]
  BY <1>4, <1>5, <1>6, ConcatProperties
<1>8. \A i \in 1 .. n : All(r)[i] = ev[i] /\ ev[i] # <<Stop>>
  <2>1. \A i \in 1 .. n : i \in 1 .. n + Len(more) /\ i <= n
    BY <1>3, <1>5
  <2> QED BY <1>3, <1>7, <2>1, EventsAre
<1>9. r.stop => All(r)[n + 1] = <<Stop>>
  <2>1. r.stop => n + 1 \in 1 .. n + Len(more) /\ ~(n + 1 <= n) /\ (n + 1) - n = 1
    BY <1>3, <1>5
  <2> QED BY <1>5, <1>7, <2>1
<1>10. ASSUME NEW i \in 1 .. Len(All(r)) PROVE All(r)[i] \in T /\ All(r)[i] # <<>>
  <2>1. CASE i <= n
    <3>1. i \in 1 .. n /\ ev[i] \in Events
      BY <1>3, <1>7, <2>1
    <3> QED BY <1>8, <3>1, EventsAre DEF T
  <2>2. CASE i > n
    <3>1. r.stop /\ i = n + 1
      BY <1>3, <1>5, <1>7, <2>2
    <3> QED BY <1>9, <3>1, EventsAre DEF T
  <2> QED BY <1>3, <1>7, <2>1, <2>2
<1>11. (r.stop => Len(All(r)) = n + 1) /\ (~r.stop => Len(All(r)) = n)
  BY <1>3, <1>5, <1>7
<1> HIDE DEF n
<1> QED BY <1>1, <1>2, <1>3, <1>7, <1>8, <1>9, <1>10, <1>11 DEF ev, T, n

\* The lines of an event.
LEMMA LinesAre ==
  ASSUME NEW e \in Seq(TextBytes), NEW eol \in {<<LF>>, <<CR, LF>>}
  PROVE  /\ eol \in Seq(Bytes)
         /\ \A t \in TextBytes : Line(t, eol) \in Seq(Bytes)
         /\ Lines(e, eol) \in Seq(Seq(Bytes)) /\ Len(Lines(e, eol)) = Len(e) /\ Len(e) \in Nat
         /\ \A l \in 1 .. Len(e) : e[l] \in TextBytes /\ Lines(e, eol)[l] = Line(e[l], eol)
         /\ Written(e, eol) = FlattenSeq(Lines(e, eol)) \o eol
         /\ Written(e, eol) \in Seq(Bytes)
<1>1. eol \in Seq(Bytes)
  <2>1. <<LF>> \in Seq(Bytes) /\ <<CR, LF>> \in Seq(Bytes)
    <3>1. CR \in Bytes /\ LF \in Bytes
      BY BytesAre
    <3> QED BY <3>1
  <2> QED BY <2>1
<1>2. ASSUME NEW t \in TextBytes PROVE Line(t, eol) \in Seq(Bytes)
  <2>1. <<Byte("data:"), t>> \in Seq(Bytes)
    BY BytesAre
  <2> QED BY <1>1, <2>1, ConcatProperties DEF Line
<1>3. Len(e) \in Nat /\ DOMAIN e = 1 .. Len(e) /\ \A l \in 1 .. Len(e) : e[l] \in TextBytes
  BY LenProperties
<1>4. /\ Lines(e, eol) \in Seq(Seq(Bytes)) /\ Len(Lines(e, eol)) = Len(e)
      /\ \A l \in 1 .. Len(e) : Lines(e, eol)[l] = Line(e[l], eol)
  BY <1>2, <1>3 DEF Lines
<1>5. FlattenSeq(Lines(e, eol)) \in Seq(Bytes)
  <2>1. <<>> \in Seq(Bytes)
    OBVIOUS
  <2> QED BY <1>4, <2>1, FlatAppend
<1> QED BY <1>1, <1>2, <1>3, <1>4, <1>5, ConcatProperties DEF Written

\* Each thing that is said has a line.
LEMMA SaidIs ==
  ASSUME NEW r, Meant(r), NEW i \in 1 .. Len(All(r))
  PROVE  /\ All(r)[i] \in Seq(TextBytes) /\ All(r)[i] # <<>>
         /\ r.eol \in {<<LF>>, <<CR, LF>>}
<1>1. \A k \in 1 .. Len(All(r)) : All(r)[k] \in Seq(TextBytes) /\ All(r)[k] # <<>>
  BY AllIs
<1>2. r.eol \in {<<LF>>, <<CR, LF>>}
  BY AllIs
<1> QED BY <1>1, <1>2, Zenon

\* The events as they are written.
LEMMA ParcelsAre ==
  ASSUME NEW r, Meant(r)
  PROVE  /\ Parcels(r) \in Seq(Seq(Bytes)) /\ Len(Parcels(r)) = Len(All(r)) /\ Len(All(r)) \in Nat
         /\ \A i \in 1 .. Len(All(r)) : Parcels(r)[i] = Written(All(r)[i], r.eol)
         /\ BodyOf(r) = FlattenSeq(Parcels(r)) /\ BodyOf(r) \in Seq(Bytes)
<1> DEFINE N == Len(All(r))
<1>1. N \in Nat /\ DOMAIN All(r) = 1 .. N
  BY AllIs, LenProperties
<1>2. \A i \in 1 .. N : Written(All(r)[i], r.eol) \in Seq(Bytes)
  <2>1. ASSUME NEW i \in 1 .. N PROVE Written(All(r)[i], r.eol) \in Seq(Bytes)
    <3>1. All(r)[i] \in Seq(TextBytes) /\ r.eol \in {<<LF>>, <<CR, LF>>}
      BY SaidIs
    <3> QED BY <3>1, LinesAre
  <2> QED BY <2>1
<1>3. /\ Parcels(r) \in Seq(Seq(Bytes)) /\ Len(Parcels(r)) = N
      /\ \A i \in 1 .. N : Parcels(r)[i] = Written(All(r)[i], r.eol)
  BY <1>1, <1>2 DEF Parcels
<1>4. FlattenSeq(Parcels(r)) \in Seq(Bytes)
  <2>1. <<>> \in Seq(Bytes)
    OBVIOUS
  <2> QED BY <1>3, <2>1, FlatAppend
<1> QED BY <1>1, <1>3, <1>4 DEF BodyOf

\* What is left of the body after i events, and l lines of the next.
LineTape(r, i, l) ==
  IF i = Len(All(r)) THEN <<>>
  ELSE After(Lines(All(r)[i + 1], r.eol), l) \o (r.eol \o After(Parcels(r), i + 1))

\* A place in a body: i events, and l lines of the next.
Place(r, i, l) == /\ i \in 0 .. Len(All(r)) /\ l \in Nat
                  /\ i = Len(All(r)) => l = 0
                  /\ i # Len(All(r)) => l <= Len(All(r)[i + 1])

\* From a place in the body the next line leads to the next place.
LEMMA TapeIs ==
  ASSUME NEW r, Meant(r), NEW i, NEW l, Place(r, i, l)
  PROVE  /\ LineTape(r, i, l) \in Seq(Bytes)
         /\ i = Len(All(r)) => LineTape(r, i, l) = <<>>
         /\ l = 0 => LineTape(r, i, l) = After(Parcels(r), i)
         /\ i # Len(All(r)) /\ l # Len(All(r)[i + 1]) =>
              /\ Place(r, i, l + 1) /\ All(r)[i + 1][l + 1] \in TextBytes
              /\ LineTape(r, i, l) = Line(All(r)[i + 1][l + 1], r.eol) \o LineTape(r, i, l + 1)
         /\ i # Len(All(r)) /\ l = Len(All(r)[i + 1]) =>
              /\ Place(r, i + 1, 0)
              /\ LineTape(r, i, l) = r.eol \o LineTape(r, i + 1, 0)
<1> DEFINE N == Len(All(r))
           eol == r.eol
           S == Seq(Bytes)
           Coming(k) == After(Parcels(r), k)
<1>0. N \in Nat /\ i \in 0 .. N /\ l \in Nat
  BY ParcelsAre DEF Place
<1>1. /\ Coming(N) = <<>> /\ \A k \in 0 .. N : Coming(k) \in S
      /\ \A k \in 0 .. N - 1 : Coming(k) = Parcels(r)[k + 1] \o Coming(k + 1)
  BY ParcelsAre, AfterIs
<1>2. CASE i = N
  BY <1>0, <1>1, <1>2 DEF LineTape, Place
<1>3. CASE i # N
  <2> DEFINE e == All(r)[i + 1]
             n == Len(e)
             Left(k) == After(Lines(e, eol), k)
             tail == eol \o Coming(i + 1)
  <2>0. i + 1 \in 1 .. N /\ i \in 0 .. N - 1 /\ i + 1 \in 0 .. N
    BY <1>0, <1>3
  <2>1. e \in Seq(TextBytes) /\ eol \in {<<LF>>, <<CR, LF>>} /\ e # <<>>
    BY <2>0, SaidIs
  <2>2. n \in Nat /\ n # 0 /\ l <= n
    BY <2>1, <1>3, EmptySeq DEF Place
  <2> HIDE DEF e
  <2>3. /\ eol \in S /\ Written(e, eol) = FlattenSeq(Lines(e, eol)) \o eol
        /\ \A k \in 1 .. n : e[k] \in TextBytes /\ Lines(e, eol)[k] = Line(e[k], eol)
        /\ \A t \in TextBytes : Line(t, eol) \in S
        /\ Lines(e, eol) \in Seq(S) /\ Len(Lines(e, eol)) = n
    BY <2>1, LinesAre
  <2>4. /\ Left(0) = FlattenSeq(Lines(e, eol)) /\ Left(n) = <<>>
        /\ \A k \in 0 .. n : Left(k) \in S
        /\ \A k \in 0 .. n - 1 : Left(k) = Lines(e, eol)[k + 1] \o Left(k + 1)
    BY <2>3, AfterIs
  <2> HIDE DEF Left, eol, n
  <2>5. Coming(i + 1) \in S
    BY <1>1, <2>0
  <2> HIDE DEF Coming
  <2>6. tail \in S
    BY <2>3, <2>5, ConcatProperties
  <2>7. \A k \in Nat : LineTape(r, i, k) = Left(k) \o tail
    BY <1>3 DEF LineTape, Left, Coming, eol, e
  <2>8. l \in 0 .. n /\ Left(l) \in S
    BY <1>0, <2>2, <2>4
  <2> HIDE DEF tail
  <2>9. LineTape(r, i, l) \in S
    BY <1>0, <2>6, <2>7, <2>8, ConcatProperties
  <2>10. ASSUME l = 0 PROVE LineTape(r, i, l) = Coming(i)
    <3>1. LineTape(r, i, l) = FlattenSeq(Lines(e, eol)) \o (eol \o Coming(i + 1))
      BY <1>0, <2>4, <2>7, <2>10 DEF tail
    <3>2. Left(0) \in S
      BY <2>2, <2>4
    <3>3. \A a \in S : (a \o eol) \o Coming(i + 1) = a \o (eol \o Coming(i + 1))
      BY <2>3, <2>5, ConcatAssociative DEF Coming
    <3>4. LineTape(r, i, l) = (FlattenSeq(Lines(e, eol)) \o eol) \o Coming(i + 1)
      BY <2>4, <3>1, <3>2, <3>3, Zenon
    <3>5. Parcels(r)[i + 1] = Written(e, eol)
      BY <2>0, ParcelsAre DEF e, eol
    <3>6. Coming(i) = Parcels(r)[i + 1] \o Coming(i + 1)
      BY <1>1, <2>0 DEF Coming
    <3> QED BY <2>3, <3>4, <3>5, <3>6
  <2>11. ASSUME l # n
         PROVE  /\ Place(r, i, l + 1) /\ e[l + 1] \in TextBytes
                /\ LineTape(r, i, l) = Line(e[l + 1], eol) \o LineTape(r, i, l + 1)
    <3>1. l \in 0 .. n - 1 /\ l + 1 \in 1 .. n /\ l + 1 \in Nat /\ l + 1 <= n /\ l + 1 \in 0 .. n
      BY <1>0, <2>2, <2>11
    <3>2. Left(l) = Line(e[l + 1], eol) \o Left(l + 1) /\ e[l + 1] \in TextBytes
      BY <2>3, <2>4, <3>1
    <3>3. Left(l + 1) \in S /\ Line(e[l + 1], eol) \in S
      BY <2>3, <2>4, <3>1, <3>2
    <3>4. \A a, b \in S : (a \o b) \o tail = a \o (b \o tail)
      BY <2>6, ConcatAssociative
    <3>5. LineTape(r, i, l) = Line(e[l + 1], eol) \o (Left(l + 1) \o tail)
      BY <1>0, <2>7, <3>2, <3>3, <3>4, Zenon
    <3>6. LineTape(r, i, l + 1) = Left(l + 1) \o tail
      BY <2>7, <3>1
    <3>7. Place(r, i, l + 1)
      BY <1>0, <1>3, <3>1 DEF Place, n, e
    <3> QED BY <3>2, <3>5, <3>6, <3>7
  <2>12. ASSUME l = n
         PROVE  Place(r, i + 1, 0) /\ LineTape(r, i, l) = eol \o LineTape(r, i + 1, 0)
    <3>1. Place(r, i + 1, 0)
      BY <2>0 DEF Place
    <3>2. LineTape(r, i, l) = tail
      <4>1. <<>> \o tail = tail
        BY <2>6, ConcatEmptySeq
      <4> QED BY <1>0, <2>4, <2>7, <2>12, <4>1
    <3>3. LineTape(r, i + 1, 0) = Coming(i + 1)
      <4>1. CASE i + 1 = N
        BY <1>1, <4>1 DEF LineTape, Coming
      <4>2. CASE i + 1 # N
        <5> DEFINE f == All(r)[(i + 1) + 1]
        <5>1. (i + 1) + 1 \in 1 .. N /\ i + 1 \in 0 .. N - 1
          BY <2>0, <4>2
        <5>2. f \in Seq(TextBytes) /\ r.eol \in {<<LF>>, <<CR, LF>>}
          BY <5>1, SaidIs
        <5>3. Parcels(r)[(i + 1) + 1] = Written(f, r.eol)
          BY <5>1, ParcelsAre
        <5>4. Coming(i + 1) = Written(f, r.eol) \o Coming((i + 1) + 1) /\ Coming((i + 1) + 1) \in S
          <6>1. (i + 1) + 1 \in 0 .. N
            BY <1>0, <5>1
          <6> HIDE DEF f
          <6> QED BY <1>1, <5>1, <5>3, <6>1 DEF Coming
        <5> HIDE DEF f
        <5>5. /\ Written(f, r.eol) = FlattenSeq(Lines(f, r.eol)) \o r.eol /\ r.eol \in S
              /\ Lines(f, r.eol) \in Seq(S)
          BY <5>2, LinesAre
        <5>6. After(Lines(f, r.eol), 0) = FlattenSeq(Lines(f, r.eol)) /\ FlattenSeq(Lines(f, r.eol)) \in S
          <6>1. <<>> \in S
            OBVIOUS
          <6> QED BY <5>5, <6>1, AfterIs, FlatAppend
        <5>7. \A a, b, c \in S : (a \o b) \o c = a \o (b \o c)
          BY ConcatAssociative
        <5>8. Coming(i + 1) = FlattenSeq(Lines(f, r.eol)) \o (r.eol \o Coming((i + 1) + 1))
          <6> DEFINE F == FlattenSeq(Lines(f, r.eol))
                     w == Coming((i + 1) + 1)
          <6>1. F \in S /\ w \in S /\ Coming(i + 1) = (F \o r.eol) \o w
            BY <5>4, <5>5, <5>6
          <6> HIDE DEF F, w
          <6>2. (F \o r.eol) \o w = F \o (r.eol \o w)
            BY <5>5, <5>7, <6>1
          <6> QED BY <6>1, <6>2 DEF F, w
        <5>9. LineTape(r, i + 1, 0) = After(Lines(f, r.eol), 0) \o (r.eol \o Coming((i + 1) + 1))
          BY <4>2 DEF LineTape, Coming, f
        <5> QED BY <5>6, <5>8, <5>9
      <4> QED BY <4>1, <4>2
    <3> QED BY <3>1, <3>2, <3>3 DEF tail
  <2> QED BY <1>3, <2>9, <2>10, <2>11, <2>12 DEF n, e, eol, Coming
<1> QED BY <1>2, <1>3

-----------------------------------------------------------------------------
(* The first line of what has arrived.                                     *)

\* The first of a set of places.
LEMMA MinIs ==
  ASSUME NEW T \in SUBSET Nat, T # {}
  PROVE  Min(T) \in T /\ \A m \in T : Min(T) <= m
<1>1. \E n \in T : \A m \in T : n <= m
  BY LeastNumber
<1> QED BY <1>1 DEF Min

Stripped(full) == IF full # <<>> /\ Last(full) = CR THEN Front(full) ELSE full

\* A line as it comes: no end of line but at its end, and what it says.
Comes(w, v, says) == /\ v \in Seq(Bytes) /\ \A i \in 1 .. Len(v) : v[i] # LF
                     /\ w = v \o <<LF>> /\ Stripped(v) = says

Leads(s, u, says, rest) ==
  LET m == Min(Lfs(s))
  IN /\ m \in Lfs(s) /\ Stripped(SubSeq(s, 1, m - 1)) = says /\ From(s, m + 1) \o u = rest

\* If an end of line has arrived, what is before the first is the first line
\* sent.
LEMMA FirstLine ==
  ASSUME NEW s \in Seq(Bytes), NEW u \in Seq(Bytes), NEW rest \in Seq(Bytes),
         NEW w, NEW v, NEW says, Comes(w, v, says), s \o u = w \o rest, Lfs(s) # {}
  PROVE  Leads(s, u, says, rest)
<1> DEFINE n == Len(v)
<1>0. n \in Nat /\ Len(s) \in Nat /\ LF \in Bytes /\ v \in Seq(Bytes)
  BY LenProperties, BytesAre DEF Comes
<1>1. w = v \o <<LF>> /\ <<LF>> \in Seq(Bytes) /\ Len(<<LF>>) = 1 /\ <<LF>>[1] = LF
  BY <1>0 DEF Comes
<1>2. w \in Seq(Bytes) /\ Len(w) = n + 1 /\ w[n + 1] = LF /\ \A i \in 1 .. n : w[i] = v[i]
  <2>1. n + 1 \in 1 .. n + 1 /\ ~(n + 1 <= n) /\ (n + 1) - n = 1
        /\ \A i \in 1 .. n : i \in 1 .. n + 1 /\ i <= n
    BY <1>0
  <2> HIDE DEF n
  <2>2. /\ w \in Seq(Bytes) /\ Len(w) = n + 1
        /\ \A i \in 1 .. n + 1 : w[i] = IF i <= n THEN v[i] ELSE <<LF>>[i - n]
    BY <1>0, <1>1, ConcatProperties DEF n
  <2> QED BY <1>1, <2>1, <2>2
<1>3. Lfs(s) \subseteq 1 .. Len(s) /\ Lfs(s) \in SUBSET Nat
  BY LenProperties DEF Lfs
<1>4. Min(Lfs(s)) \in Lfs(s) /\ \A m \in Lfs(s) : Min(Lfs(s)) <= m
  BY <1>3, MinIs
<1>5. \A i \in 1 .. Len(s) : i <= n + 1 => s[i] = w[i]
  <2>1. ASSUME NEW i \in 1 .. Len(s), i <= n + 1 PROVE s[i] = w[i]
    <3>1. i \in 1 .. Len(s) + Len(u) /\ i \in 1 .. Len(w) + Len(rest) /\ i <= Len(w) /\ i <= Len(s)
      BY <1>0, <1>2, <2>1, LenProperties
    <3>2. (s \o u)[i] = s[i]
      BY <3>1, ConcatProperties
    <3>3. (w \o rest)[i] = w[i]
      BY <1>2, <3>1, ConcatProperties
    <3> QED BY <3>2, <3>3
  <2> QED BY <2>1
<1>6. \A m \in Lfs(s) : m >= n + 1
  <2>1. ASSUME NEW m \in Lfs(s), m < n + 1 PROVE FALSE
    <3>1. m \in 1 .. Len(s) /\ m \in 1 .. n /\ s[m] = LF
      BY <1>0, <1>3, <2>1 DEF Lfs
    <3>2. s[m] = v[m] /\ v[m] # LF
      BY <1>2, <1>5, <2>1, <3>1 DEF Comes
    <3> QED BY <3>1, <3>2
  <2>2. \A m \in Lfs(s) : m \in Nat
    BY <1>3
  <2> QED BY <1>0, <2>1, <2>2
<1>7. n + 1 \in Lfs(s) /\ n + 1 <= Len(s)
  <2>1. n + 1 \in 1 .. Len(s)
    BY <1>0, <1>3, <1>6
  <2>2. s[n + 1] = LF
    BY <1>0, <1>2, <1>5, <2>1
  <2> QED BY <1>0, <2>1, <2>2, LenProperties DEF Lfs
<1>8. Min(Lfs(s)) = n + 1
  BY <1>0, <1>3, <1>4, <1>6, <1>7
<1>9. From(s, n + 2) \in Seq(Bytes) /\ From(s, n + 2) \o u = rest
  <2>1. From(s, Len(w) + 1) \in Seq(Bytes) /\ From(s, Len(w) + 1) \o u = rest
    <3>1. Len(w) <= Len(s)
      BY <1>2, <1>7
    <3>2. w \in Seq(Bytes)
      BY <1>2
    <3>3. Split(Bytes, s, u, w, rest)
      BY <3>1, <3>2, Splits
    <3> QED BY <3>3, Zenon DEF Split
  <2>2. Len(w) + 1 = n + 2
    BY <1>0, <1>2
  <2> QED BY <2>1, <2>2
<1>10. SubSeq(s, 1, n) = v
  <2>1. w \o rest = v \o (<<LF>> \o rest)
    BY <1>0, <1>1, ConcatAssociative
  <2>2. <<LF>> \o rest \in Seq(Bytes)
    BY <1>1, ConcatProperties
  <2>3. n <= Len(s)
    BY <1>0, <1>7
  <2>4. Split(Bytes, s, u, v, <<LF>> \o rest)
    BY <1>0, <2>1, <2>2, <2>3, Splits
  <2> QED BY <2>4 DEF Split
<1>11. (n + 1) + 1 = n + 2 /\ (n + 1) - 1 = n
  BY <1>0
<1> QED BY <1>0, <1>3, <1>4, <1>8, <1>9, <1>10, <1>11 DEF Comes, Leads

\* Front and Last undo Append.
LEMMA FrontIs ==
  ASSUME NEW S, NEW v \in Seq(S), NEW z \in S
  PROVE  /\ Append(v, z) # <<>> /\ Last(Append(v, z)) = z /\ Front(Append(v, z)) = v
<1> DEFINE a == Append(v, z)
<1>1. a \in Seq(S) /\ Len(a) = Len(v) + 1 /\ a[Len(v) + 1] = z /\ Len(v) \in Nat /\ a = v \o <<z>>
  BY AppendProperties, LenProperties, AppendIsConcat
<1>2. <<z>> \in Seq(S) /\ <<>> \in Seq(S)
  OBVIOUS
<1> HIDE DEF a
<1>3. a \o <<>> = v \o <<z>>
  BY <1>1, ConcatEmptySeq
<1>4. SubSeq(a, 1, Len(v)) = v
  <2>1. Len(v) <= Len(a)
    BY <1>1
  <2>2. Split(S, a, <<>>, v, <<z>>)
    BY <1>1, <1>2, <1>3, <2>1, Splits
  <2> QED BY <2>2 DEF Split
<1>5. Len(a) - 1 = Len(v) /\ Len(a) # 0
  BY <1>1
<1>6. a # <<>>
  BY <1>5, EmptySeq
<1> QED BY <1>1, <1>4, <1>5, <1>6 DEF a, Front, Last

\* The lines that are sent.
LEMMA SentLines ==
  ASSUME NEW eol \in {<<LF>>, <<CR, LF>>}, NEW t \in TextBytes
  PROVE  /\ \E v : Comes(Line(t, eol), v, <<Byte("data:"), t>>)
         /\ \E v : Comes(eol, v, <<>>)
<1> DEFINE d == Byte("data:")
<1>0. /\ CR \in Bytes /\ LF \in Bytes /\ CR # LF /\ d # LF /\ t # LF /\ t # CR /\ d \in Bytes /\ t \in Bytes
  BY BytesAre
<1> HIDE DEF d
<1>1. CASE eol = <<LF>>
  <2>1. Comes(<<d, t>> \o <<LF>>, <<d, t>>, <<d, t>>)
    <3>1. Len(<<d, t>>) = 2 /\ <<d, t>>[1] = d /\ <<d, t>>[2] = t
      OBVIOUS
    <3>2. Last(<<d, t>>) = t
      BY DEF Last
    <3> QED BY <1>0, <3>1, <3>2 DEF Comes, Stripped
  <2>2. Comes(<<LF>>, <<>>, <<>>)
    <3>1. <<>> \o <<LF>> = <<LF>> /\ <<>> \in Seq(Bytes) /\ Len(<<>>) = 0
      OBVIOUS
    <3> QED BY <3>1 DEF Comes, Stripped
  <2> QED BY <1>1, <2>1, <2>2 DEF Line, d
<1>2. CASE eol = <<CR, LF>>
  <2>1. Comes(<<d, t>> \o <<CR, LF>>, <<d, t, CR>>, <<d, t>>)
    <3>1. Len(<<d, t, CR>>) = 3 /\ <<d, t, CR>>[1] = d /\ <<d, t, CR>>[2] = t /\ <<d, t, CR>>[3] = CR
          /\ <<d, t, CR>> # <<>>
      OBVIOUS
    <3>2. <<d, t, CR>> = Append(<<d, t>>, CR) /\ <<d, t>> \in Seq(Bytes)
      BY <1>0
    <3>3. Last(<<d, t, CR>>) = CR /\ Front(<<d, t, CR>>) = <<d, t>>
      <4>1. \A v \in Seq(Bytes) : Last(Append(v, CR)) = CR /\ Front(Append(v, CR)) = v
        BY <1>0, FrontIs
      <4> QED BY <3>2, <4>1, Zenon
    <3>4. <<d, t>> \o <<CR, LF>> = <<d, t, CR>> \o <<LF>>
      OBVIOUS
    <3>5. <<d, t, CR>> \in Seq(Bytes) /\ \A i \in 1 .. 3 : <<d, t, CR>>[i] # LF
      BY <1>0, <3>1
    <3> QED BY <3>1, <3>2, <3>3, <3>4, <3>5 DEF Comes, Stripped
  <2>2. Comes(<<CR, LF>>, <<CR>>, <<>>)
    <3>0. <<CR>> \o <<LF>> = <<CR, LF>>
      <4>1. <<CR>> \in Seq(Bytes)
        BY <1>0
      <4>3. <<CR, LF>> = Append(<<CR>>, LF)
        OBVIOUS
      <4>2. \A s \in Seq(Bytes) : Append(s, LF) = s \o <<LF>>
        BY <1>0, AppendIsConcat
      <4> QED BY <4>1, <4>2, <4>3, Zenon
    <3>1. Len(<<CR>>) = 1 /\ <<CR>>[1] = CR
      OBVIOUS
    <3>2. <<CR>> \in Seq(Bytes) /\ <<CR>> = Append(<<>>, CR) /\ <<>> \in Seq(Bytes)
      BY <1>0
    <3>3. <<CR>> # <<>> /\ Last(<<CR>>) = CR /\ Front(<<CR>>) = <<>>
      <4>1. \A v \in Seq(Bytes) : /\ Append(v, CR) # <<>>
                                  /\ Last(Append(v, CR)) = CR /\ Front(Append(v, CR)) = v
        BY <1>0, FrontIs
      <4> QED BY <3>2, <4>1, Zenon
    <3>4. \A i \in 1 .. 1 : <<CR>>[i] # LF
      BY <1>0, <3>1
    <3>5. Stripped(<<CR>>) = <<>>
      BY <3>3 DEF Stripped
    <3> QED BY <3>0, <3>1, <3>2, <3>4, <3>5 DEF Comes
  <2> QED BY <1>2, <2>1, <2>2 DEF Line, d
<1> QED BY <1>1, <1>2

-----------------------------------------------------------------------------
(* The steps of the parser, field by field.                                *)

Kinds == {"headers", "data", "error", "done"}
Items == [kind : Kinds, event : Seq(Bytes)]
Fields == [phase : {"headers", "body"}, buf : Seq(Bytes), sse : Seq(Bytes), event : Seq(Bytes),
      chunked : BOOLEAN, ended : BOOLEAN, done : BOOLEAN]
Steps == [p : Fields, out : Seq(Items), on : BOOLEAN]

\* The types of a step's fields.
LEMMA Typed ==
  /\ \A x \in Steps : /\ x.p \in Fields /\ x.out \in Seq(Items) /\ x.on \in BOOLEAN
                  /\ x.p.phase \in {"headers", "body"} /\ x.p.buf \in Seq(Bytes)
                  /\ x.p.sse \in Seq(Bytes) /\ x.p.event \in Seq(Bytes)
                  /\ x.p.chunked \in BOOLEAN /\ x.p.ended \in BOOLEAN /\ x.p.done \in BOOLEAN
  /\ \A ev \in Seq(Bytes), k \in Kinds : Item(k, ev) \in Items /\ Item(k, ev).kind = k /\ Item(k, ev).event = ev
  /\ <<>> \in Seq(Bytes)
BY DEF Steps, Fields, Items, Item

\* What the lines of the body leave alone.
Kept(x, y) == /\ y.p.phase = x.p.phase /\ y.p.buf = x.p.buf
              /\ y.p.chunked = x.p.chunked /\ y.p.ended = x.p.ended

Flushed(x, y) ==
  /\ y \in Steps /\ Kept(x, y) /\ y.p.sse = x.p.sse /\ y.on = x.on /\ y.p.event = <<>>
  /\ x.p.event = <<>> => y.out = x.out /\ y.p.done = x.p.done
  /\ x.p.event = <<Stop>> => y.out = Append(x.out, Item("done", <<>>)) /\ y.p.done
  /\ x.p.event \notin {<<>>, <<Stop>>} =>
       y.out = Append(x.out, Item("data", x.p.event)) /\ y.p.done = x.p.done

LEMMA EmitIs ==
  ASSUME NEW x \in Steps, NEW item \in Items
  PROVE  /\ Emit(x, item) \in Steps /\ Emit(x, item).p = x.p /\ Emit(x, item).on = x.on
         /\ Emit(x, item).out = Append(x.out, item)
<1>1. Append(x.out, item) \in Seq(Items)
  BY Typed, AppendProperties
<1>2. Emit(x, item) \in Steps
  BY <1>1 DEF Emit, Steps
<1> QED BY <1>2 DEF Emit, Steps

LEMMA FlushEventIs ==
  ASSUME NEW x \in Steps
  PROVE  Flushed(x, FlushEvent(x))
<1> DEFINE y == FlushEvent(x)
<1>0. /\ x.p \in Fields /\ x.out \in Seq(Items) /\ x.p.event \in Seq(Bytes) /\ <<>> \in Seq(Bytes)
      /\ Item("done", <<>>) \in Items /\ Item("data", x.p.event) \in Items
  BY Typed DEF Kinds
<1>1. CASE x.p.event = <<>>
  <2>1. y = x
    BY <1>1 DEF FlushEvent
  <2>2. <<>> # <<Stop>>
    BY EventsAre
  <2> QED BY <1>1, <2>1, <2>2 DEF Flushed, Kept
<1>2. CASE x.p.event = <<Stop>>
  <2> DEFINE z == [x EXCEPT !.p.done = TRUE, !.p.event = <<>>]
             item == Item("done", <<>>)
  <2>1. x.p.event # <<>>
    BY <1>2, EventsAre
  <2>2. y = Emit(z, item)
    BY <1>2, <2>1 DEF FlushEvent
  <2>3. z \in Steps
    BY <1>0 DEF Steps, Fields
  <2>4. z.p.sse = x.p.sse /\ z.on = x.on /\ z.p.event = <<>> /\ z.p.done /\ z.out = x.out
    BY DEF Steps, Fields
  <2>5. Kept(x, z)
    BY DEF Steps, Fields, Kept
  <2> HIDE DEF z, item
  <2>6. y \in Steps /\ y.p = z.p /\ y.on = z.on /\ y.out = Append(z.out, item)
    BY <1>0, <2>2, <2>3, EmitIs DEF item
  <2> HIDE DEF y
  <2>7. Kept(x, y)
    BY <2>5, <2>6 DEF Kept
  <2> QED BY <1>2, <2>1, <2>4, <2>6, <2>7 DEF Flushed, item, y
<1>3. CASE x.p.event \notin {<<>>, <<Stop>>}
  <2> DEFINE z == [x EXCEPT !.p.event = <<>>]
             item == Item("data", x.p.event)
  <2>2. y = Emit(z, item)
    BY <1>3 DEF FlushEvent
  <2>3. z \in Steps
    BY <1>0 DEF Steps, Fields
  <2>4. z.p.sse = x.p.sse /\ z.on = x.on /\ z.p.event = <<>> /\ z.p.done = x.p.done /\ z.out = x.out
    BY DEF Steps, Fields
  <2>5. Kept(x, z)
    BY DEF Steps, Fields, Kept
  <2> HIDE DEF z, item
  <2>6. y \in Steps /\ y.p = z.p /\ y.on = z.on /\ y.out = Append(z.out, item)
    BY <1>0, <2>2, <2>3, EmitIs DEF item
  <2> HIDE DEF y
  <2>7. Kept(x, y)
    BY <2>5, <2>6 DEF Kept
  <2> QED BY <1>3, <2>4, <2>6, <2>7 DEF Flushed, item, y
<1> QED BY <1>1, <1>2, <1>3

\* One complete line.
LineRead(x, y, says, rest) ==
  /\ y \in Steps /\ Kept(x, y) /\ y.p.sse = rest
  /\ says = <<>> =>
       /\ y.p.event = <<>> /\ y.on = ~y.p.done
       /\ x.p.event = <<>> => y.out = x.out /\ y.p.done = x.p.done
       /\ x.p.event = <<Stop>> => y.out = Append(x.out, Item("done", <<>>)) /\ y.p.done
       /\ x.p.event \notin {<<>>, <<Stop>>} =>
            y.out = Append(x.out, Item("data", x.p.event)) /\ y.p.done = x.p.done
  /\ says # <<>> /\ says[1] = Byte("data:") =>
       y.p.event = x.p.event \o Tail(says) /\ y.out = x.out /\ y.on = x.on /\ y.p.done = x.p.done

\* A part of a sequence is one of the set.
LEMMA PartIs ==
  ASSUME NEW S, NEW s \in Seq(S), NEW m \in Nat, NEW n \in Nat, m >= 1, n <= Len(s)
  PROVE  SubSeq(s, m, n) \in Seq(S)
<1>1. \A i \in m .. n : s[i] \in S
  BY LenProperties
<1>2. m \in Int /\ n \in Int
  OBVIOUS
<1> QED BY <1>1, <1>2, SubSeqProperties

LEMMA LineStepIs ==
  ASSUME NEW x \in Steps, x.on, Lfs(x.p.sse) # {}
  PROVE  LineRead(x, LineStep(x), Stripped(SubSeq(x.p.sse, 1, Min(Lfs(x.p.sse)) - 1)),
                  From(x.p.sse, Min(Lfs(x.p.sse)) + 1))
<1> DEFINE s == x.p.sse
           m == Min(Lfs(s))
           full == SubSeq(s, 1, m - 1)
           says == Stripped(full)
           left == From(s, m + 1)
           z == [x EXCEPT !.p.sse = left]
           over == FlushEvent(z)
           y == LineStep(x)
<1>0. s \in Seq(Bytes) /\ x.p \in Fields /\ x.p.event \in Seq(Bytes) /\ Len(s) \in Nat
  BY Typed, LenProperties
<1>1. m \in 1 .. Len(s)
  <2>1. Lfs(s) \subseteq 1 .. Len(s) /\ Lfs(s) \in SUBSET Nat
    BY <1>0, LenProperties DEF Lfs
  <2>2. m \in Lfs(s)
    BY <2>1, MinIs
  <2> QED BY <2>1, <2>2
<1>2. full \in Seq(Bytes) /\ left \in Seq(Bytes)
  <2>1. m - 1 \in Nat /\ m - 1 <= Len(s) /\ m + 1 \in Nat /\ m + 1 >= 1
    BY <1>0, <1>1
  <2> HIDE DEF m, s
  <2>2. SubSeq(s, 1, m - 1) \in Seq(Bytes)
    BY <1>0, <2>1, PartIs
  <2>3. SubSeq(s, m + 1, Len(s)) \in Seq(Bytes)
    BY <1>0, <2>1, PartIs
  <2> QED BY <2>2, <2>3 DEF From
<1>3. says \in Seq(Bytes)
  <2>1. CASE full # <<>>
    <3>1. PICK v \in Seq(Bytes), e \in Bytes : full = Append(v, e)
      BY <1>2, <2>1, SequenceEmptyOrAppend
    <3>2. Front(full) = v
      BY <3>1, FrontIs
    <3> HIDE DEF full
    <3> QED BY <1>2, <3>1, <3>2 DEF Stripped
  <2>2. CASE full = <<>>
    BY <1>2, <2>2 DEF Stripped
  <2> QED BY <2>1, <2>2
<1>4. z = [x EXCEPT !.p.sse = From(@, m + 1)]
  BY DEF Steps, Fields
<1>5. y = IF says = <<>> THEN [over EXCEPT !.on = ~over.p.done]
          ELSE IF says[1] = Byte("data:") THEN [z EXCEPT !.p.event = @ \o Tail(says)]
          ELSE z
  BY <1>4 DEF LineStep, Stripped
<1> HIDE DEF left, says, full, m, s, y
<1>6. z \in Steps
  BY <1>2 DEF Steps, Fields
<1>7. z.p.sse = left /\ z.p.event = x.p.event /\ z.p.done = x.p.done /\ z.out = x.out /\ z.on = x.on
  BY DEF Steps, Fields
<1>8. Kept(x, z)
  BY DEF Steps, Fields, Kept
<1> HIDE DEF z
<1>9. CASE says = <<>>
  <2>1. y = [over EXCEPT !.on = ~over.p.done]
    BY <1>5, <1>9
  <2>2. Flushed(z, over)
    BY <1>6, FlushEventIs
  <2> HIDE DEF over
  <2>3. over \in Steps
    BY <2>2 DEF Flushed
  <2>4. (~over.p.done) \in BOOLEAN
    OBVIOUS
  <2>5. y \in Steps
    BY <2>1, <2>3, <2>4 DEF Steps
  <2>6. y.p = over.p /\ y.out = over.out /\ y.on = ~over.p.done
    BY <2>1, <2>3 DEF Steps
  <2>7. Kept(x, y)
    BY <1>8, <2>2, <2>6 DEF Kept, Flushed
  <2>8. /\ y.p.sse = left /\ y.p.event = <<>> /\ y.on = ~y.p.done
        /\ x.p.event = <<>> => y.out = x.out /\ y.p.done = x.p.done
        /\ x.p.event = <<Stop>> => y.out = Append(x.out, Item("done", <<>>)) /\ y.p.done
        /\ x.p.event \notin {<<>>, <<Stop>>} =>
             y.out = Append(x.out, Item("data", x.p.event)) /\ y.p.done = x.p.done
    BY <1>7, <2>2, <2>6 DEF Flushed
  <2> QED BY <1>9, <2>5, <2>7, <2>8 DEF LineRead, left, says, full, m, s, y
<1>10. CASE says # <<>> /\ says[1] = Byte("data:")
  <2>1. y = [z EXCEPT !.p.event = @ \o Tail(says)]
    BY <1>5, <1>10
  <2> DEFINE more == x.p.event \o Tail(says)
  <2>2. more \in Seq(Bytes)
    <3>1. Tail(says) \in Seq(Bytes)
      BY <1>3, <1>10, HeadTailProperties
    <3> QED BY <1>0, <3>1, ConcatProperties
  <2>3. y = [z EXCEPT !.p.event = more]
    BY <1>6, <1>7, <2>1 DEF Steps, Fields
  <2> HIDE DEF more
  <2>4. y \in Steps
    BY <1>6, <2>2, <2>3 DEF Steps, Fields
  <2>5. y.p.sse = z.p.sse /\ y.p.event = more /\ y.p.done = z.p.done /\ y.out = z.out /\ y.on = z.on
    BY <1>6, <2>3 DEF Steps, Fields
  <2>6. Kept(z, y)
    BY <1>6, <2>3 DEF Steps, Fields, Kept
  <2>7. Kept(x, y)
    BY <1>8, <2>6 DEF Kept
  <2> QED BY <1>7, <1>10, <2>4, <2>5, <2>7 DEF LineRead, left, says, full, m, s, y, more
<1>11. CASE says # <<>> /\ says[1] # Byte("data:")
  <2>1. y = z
    BY <1>5, <1>11
  <2> QED BY <1>6, <1>7, <1>8, <1>11, <2>1 DEF LineRead, left, says, full, m, s, y
<1> QED BY <1>9, <1>10, <1>11

\* A round of parseSse keeps the types, and takes a line or changes nothing.
LEMMA LineStepTyped ==
  ASSUME NEW x \in Steps
  PROVE  /\ LineStep(x) \in Steps
         /\ ~x.on \/ Lfs(x.p.sse) = {} => LineStep(x) = x
<1>1. ~x.on \/ Lfs(x.p.sse) = {} => LineStep(x) = x
  BY DEF LineStep
<1>2. x.on /\ Lfs(x.p.sse) # {} => LineStep(x) \in Steps
  BY LineStepIs DEF LineRead
<1> QED BY <1>1, <1>2

-----------------------------------------------------------------------------
(* A line of the parser is a line of what is sent.                         *)

EventAt(r, i, l) == IF i = Len(All(r)) THEN <<>> ELSE SubSeq(All(r)[i + 1], 1, l)

\* The parser has read i events and l lines of the next, and u is to come.
Sits(r, x, i, l, u) == /\ Place(r, i, l) /\ u \in Seq(Bytes)
                       /\ x.p.event = EventAt(r, i, l)
                       /\ x.p.sse \o u = LineTape(r, i, l)

\* The blank line after event i + 1.
Ends(r, x, y, i) == /\ y.on = ~y.p.done
                    /\ i < Len(r.events) => /\ y.out = Append(x.out, Item("data", r.events[i + 1]))
                                            /\ y.p.done = x.p.done
                    /\ i >= Len(r.events) => y.out = Append(x.out, Item("done", <<>>)) /\ y.p.done

Moves(r, x, y, i, l, u) ==
  \/ Sits(r, y, i, l + 1, u) /\ y.out = x.out /\ y.on = x.on /\ y.p.done = x.p.done
  \/ i # Len(All(r)) /\ Sits(r, y, i + 1, 0, u) /\ Ends(r, x, y, i)

LEMMA LineMoves ==
  ASSUME NEW r, Meant(r), NEW x \in Steps, x.on, NEW i, NEW l, NEW u, Sits(r, x, i, l, u),
         Lfs(x.p.sse) # {}
  PROVE  /\ LineStep(x) \in Steps /\ Kept(x, LineStep(x))
         /\ LineStep(x).p.sse = From(x.p.sse, Min(Lfs(x.p.sse)) + 1)
         /\ Moves(r, x, LineStep(x), i, l, u)
<1> DEFINE N == Len(All(r))
           n == Len(r.events)
           e == All(r)[i + 1]
           s == x.p.sse
           y == LineStep(x)
           left == From(s, Min(Lfs(s)) + 1)
           says == Stripped(SubSeq(s, 1, Min(Lfs(s)) - 1))
<1>0. /\ s \in Seq(Bytes) /\ u \in Seq(Bytes) /\ N \in Nat /\ i \in 0 .. N /\ l \in Nat
      /\ Place(r, i, l) /\ s \o u = LineTape(r, i, l)
  BY Typed, ParcelsAre DEF Sits, Place
<1>1. LineRead(x, y, says, left)
  BY LineStepIs
<1>2. y \in Steps /\ Kept(x, y) /\ y.p.sse = left
  BY <1>1 DEF LineRead
<1>3. i # N
  <2>1. SUFFICES ASSUME i = N PROVE FALSE
    OBVIOUS
  <2>2. s \o u = <<>>
    BY <1>0, <2>1, TapeIs
  <2>3. s = <<>>
    <3> HIDE DEF s
    <3> QED BY <1>0, <2>2, ConcatEqualIffEmpty
  <2>4. Lfs(s) = {}
    BY <2>3 DEF Lfs
  <2> QED BY <2>4
<1>4. i + 1 \in 1 .. N
  BY <1>0, <1>3
<1>5. e \in Seq(TextBytes) /\ e # <<>> /\ r.eol \in {<<LF>>, <<CR, LF>>} /\ Len(e) \in Nat /\ l <= Len(e)
  <2>1. e \in Seq(TextBytes) /\ e # <<>> /\ r.eol \in {<<LF>>, <<CR, LF>>}
    BY <1>4, SaidIs
  <2>2. l <= Len(e)
    BY <1>0, <1>3 DEF Place
  <2> QED BY <2>1, <2>2, LenProperties
<1>6. x.p.event = SubSeq(e, 1, l)
  BY <1>3 DEF Sits, EventAt
<1>7. CASE l # Len(e)
  <2> DEFINE t == e[l + 1]
             tape == LineTape(r, i, l + 1)
  <2>1. Place(r, i, l + 1) /\ t \in TextBytes /\ s \o u = Line(t, r.eol) \o tape
    BY <1>0, <1>3, <1>7, TapeIs
  <2>2. tape \in Seq(Bytes)
    BY <2>1, TapeIs
  <2>3. PICK v : Comes(Line(t, r.eol), v, <<Byte("data:"), t>>)
    BY <1>5, <2>1, SentLines
  <2> HIDE DEF t, tape
  <2>4. says = <<Byte("data:"), t>> /\ left \o u = tape
    <3>1. Leads(s, u, <<Byte("data:"), t>>, tape)
      <4> HIDE DEF s
      <4>1. Lfs(s) # {}
        BY DEF s
      <4> QED BY <1>0, <2>1, <2>2, <2>3, <4>1, FirstLine
    <3> QED BY <3>1 DEF Leads
  <2>5. says # <<>> /\ says[1] = Byte("data:") /\ Tail(says) = <<t>>
    <3>1. <<t>> = Tail(<<Byte("data:"), t>>) /\ <<Byte("data:"), t>>[1] = Byte("data:")
          /\ Len(<<Byte("data:"), t>>) = 2
      OBVIOUS
    <3>2. <<Byte("data:"), t>> # <<>>
      BY <3>1
    <3> HIDE DEF says
    <3> QED BY <2>4, <3>1, <3>2
  <2> HIDE DEF says, left
  <2>6. y.p.event = x.p.event \o <<t>> /\ y.out = x.out /\ y.on = x.on /\ y.p.done = x.p.done
    BY <1>1, <2>5 DEF LineRead
  <2>7. SubSeq(e, 1, l + 1) = SubSeq(e, 1, l) \o <<t>>
    <3>1. l + 1 \in 1 .. Len(e) /\ (l + 1) - 1 = l
      BY <1>0, <1>5, <1>7
    <3> HIDE DEF e
    <3>2. 1 \in 1 .. Len(e) /\ l + 1 \in 1 .. Len(e)
      BY <1>5, <3>1
    <3>3. SubSeq(e, 1, l + 1) = SubSeq(e, 1, (l + 1) - 1) \o <<e[l + 1]>>
      BY <1>5, <3>2, SubSeqRecursiveSecond
    <3> QED BY <3>1, <3>3 DEF t
  <2>8. y.p.event = EventAt(r, i, l + 1)
    BY <1>3, <1>6, <2>6, <2>7 DEF EventAt
  <2>9. y.p.sse \o u = tape
    BY <1>2, <2>4
  <2>10. Sits(r, y, i, l + 1, u)
    BY <1>0, <2>1, <2>8, <2>9 DEF Sits, tape
  <2> QED BY <1>2, <2>6, <2>10 DEF Moves, left, s
<1>8. CASE l = Len(e)
  <2> DEFINE tape == LineTape(r, i + 1, 0)
  <2>1. Place(r, i + 1, 0) /\ s \o u = r.eol \o tape
    BY <1>0, <1>3, <1>8, TapeIs
  <2>2. tape \in Seq(Bytes)
    BY <2>1, TapeIs
  <2>3. PICK v : Comes(r.eol, v, <<>>)
    <3>1. Stop \in TextBytes
      BY BytesAre
    <3> QED BY <1>5, <3>1, SentLines
  <2> HIDE DEF tape
  <2>4. says = <<>> /\ left \o u = tape
    <3>1. Leads(s, u, <<>>, tape)
      <4> HIDE DEF s
      <4>1. Lfs(s) # {}
        BY DEF s
      <4> QED BY <1>0, <2>1, <2>2, <2>3, <4>1, FirstLine
    <3> QED BY <3>1 DEF Leads
  <2>5. x.p.event = e
    <3> HIDE DEF e
    <3>1. SubSeq(e, 1, Len(e)) = e
      BY <1>5, SubSeqFull
    <3> QED BY <1>6, <1>8, <3>1
  <2> HIDE DEF says, left
  <2>6. y.p.event = <<>> /\ y.on = ~y.p.done
    BY <1>1, <2>4 DEF LineRead
  <2>7. Ends(r, x, y, i)
    <3>0. n \in Nat
      BY AllIs
    <3>1. ASSUME i < n
          PROVE  y.out = Append(x.out, Item("data", r.events[i + 1])) /\ y.p.done = x.p.done
      <4>1. i + 1 \in 1 .. n
        BY <1>0, <3>0, <3>1
      <4>2. e = r.events[i + 1] /\ e # <<Stop>>
        BY <4>1, AllIs
      <4> HIDE DEF e
      <4> QED BY <1>1, <1>5, <2>4, <2>5, <4>2 DEF LineRead
    <3>2. ASSUME i >= n PROVE y.out = Append(x.out, Item("done", <<>>)) /\ y.p.done
      <4>1. r.stop => N = n + 1
        BY AllIs
      <4>2. ~r.stop => N = n
        BY AllIs
      <4>3. r.stop /\ i = n
        BY <1>0, <1>4, <3>0, <3>2, <4>1, <4>2
      <4>4. e = <<Stop>>
        BY <4>3, AllIs
      <4> HIDE DEF e
      <4> QED BY <1>1, <2>4, <2>5, <4>4 DEF LineRead
    <3> QED BY <2>6, <3>1, <3>2 DEF Ends
  <2>8. y.p.event = EventAt(r, i + 1, 0)
    <3>1. SubSeq(All(r)[(i + 1) + 1], 1, 0) = <<>>
      BY SubSeqEmpty
    <3> QED BY <2>6, <3>1 DEF EventAt
  <2>9. y.p.sse \o u = tape
    BY <1>2, <2>4
  <2>10. Sits(r, y, i + 1, 0, u)
    BY <1>0, <2>1, <2>8, <2>9 DEF Sits, tape
  <2> QED BY <1>2, <1>3, <2>7, <2>10 DEF Moves, left, s
<1> QED BY <1>7, <1>8

-----------------------------------------------------------------------------
(* The loops: each round takes a line or a chunk, so that there are never   *)
(* more of them than ends of a line, and the last one changes nothing.     *)

\* What is left of a buffer has fewer ends of a line than the whole.
LEMMA Fewer ==
  ASSUME NEW A \in SUBSET Nat, IsFiniteSet(A), NEW B \in SUBSET Nat, NEW m \in Nat, NEW a \in A,
         \A q \in B : q + m \in A \ {a}
  PROVE  IsFiniteSet(B) /\ Cardinality(B) < Cardinality(A)
<1> DEFINE D == A \ {a}
           f == [q \in B |-> q + m]
<1>1. IsFiniteSet(D) /\ Cardinality(D) = Cardinality(A) - 1
  BY FS_RemoveElement
<1>2. f \in [B -> D] /\ \A q \in B : f[q] = q + m
  OBVIOUS
<1>3. \A p, q \in B : f[p] = f[q] => p = q
  <2>1. \A p, q \in B : p \in Nat /\ q \in Nat
    OBVIOUS
  <2> HIDE DEF f
  <2> QED BY <1>2, <2>1
<1> HIDE DEF f, D
<1>4. f \in Injection(B, D)
  <2>1. DOMAIN f = B
    BY <1>2
  <2> QED BY <1>2, <1>3, <2>1 DEF Injection, IsInjective
<1>5. IsFiniteSet(B) /\ Cardinality(B) <= Cardinality(D)
  BY <1>1, <1>4, FS_Injection
<1>6. Cardinality(B) \in Nat /\ Cardinality(A) \in Nat
  BY <1>5, FS_CardinalityType
<1> QED BY <1>1, <1>5, <1>6

\* What is left after the first m bytes.
LEMMA LeftIs ==
  ASSUME NEW s \in Seq(Bytes), NEW m \in 0 .. Len(s)
  PROVE  /\ From(s, m + 1) \in Seq(Bytes) /\ Len(From(s, m + 1)) = Len(s) - m /\ Len(s) \in Nat
         /\ \A i \in 1 .. Len(s) - m : From(s, m + 1)[i] = s[m + i]
<1>0. Len(s) \in Nat /\ \A i \in m + 1 .. Len(s) : s[i] \in Bytes
  BY LenProperties
<1>1. m + 1 \in Int /\ Len(s) \in Int
  BY <1>0
<1>2. /\ From(s, m + 1) \in Seq(Bytes)
      /\ Len(From(s, m + 1)) = IF m + 1 <= Len(s) THEN Len(s) - (m + 1) + 1 ELSE 0
      /\ \A i \in 1 .. Len(s) - (m + 1) + 1 : From(s, m + 1)[i] = s[m + 1 + i - 1]
  BY <1>0, <1>1, SubSeqProperties DEF From
<1>3. \A i \in 1 .. Len(s) - m : i \in 1 .. Len(s) - (m + 1) + 1 /\ m + 1 + i - 1 = m + i
  BY <1>0
<1>4. Len(From(s, m + 1)) = Len(s) - m
  BY <1>0, <1>2
<1> QED BY <1>0, <1>2, <1>3, <1>4

\* The ends of a line are finitely many.
LEMMA EndsOfLines ==
  ASSUME NEW s \in Seq(Bytes)
  PROVE  /\ Lfs(s) \in SUBSET Nat /\ Crlfs(s) \in SUBSET Nat
         /\ Lfs(s) \subseteq 1 .. Len(s) /\ Crlfs(s) \subseteq 1 .. Len(s) /\ Len(s) \in Nat
         /\ IsFiniteSet(Lfs(s)) /\ Cardinality(Lfs(s)) \in Nat
         /\ IsFiniteSet(Crlfs(s)) /\ Cardinality(Crlfs(s)) \in Nat
         /\ \A m \in 0 .. Len(s) : \A a \in Lfs(s) :
              a <= m => Cardinality(Lfs(From(s, m + 1))) < Cardinality(Lfs(s))
         /\ \A m \in 0 .. Len(s) : \A a \in Crlfs(s) :
              a <= m => Cardinality(Crlfs(From(s, m + 1))) < Cardinality(Crlfs(s))
<1>1. /\ Len(s) \in Nat /\ Lfs(s) \subseteq 1 .. Len(s) /\ Crlfs(s) \subseteq 1 .. Len(s)
      /\ Lfs(s) \in SUBSET Nat /\ Crlfs(s) \in SUBSET Nat
  <2>1. Len(s) \in Nat /\ DOMAIN s = 1 .. Len(s)
    BY LenProperties
  <2> QED BY <2>1 DEF Lfs, Crlfs
<1>2. /\ IsFiniteSet(Lfs(s)) /\ Cardinality(Lfs(s)) \in Nat
      /\ IsFiniteSet(Crlfs(s)) /\ Cardinality(Crlfs(s)) \in Nat
  <2>1. IsFiniteSet(1 .. Len(s))
    BY <1>1, FS_Interval
  <2>2. IsFiniteSet(Lfs(s)) /\ IsFiniteSet(Crlfs(s))
    BY <1>1, <2>1, FS_Subset
  <2> QED BY <2>2, FS_CardinalityType
<1>3. ASSUME NEW m \in 0 .. Len(s), NEW a \in Lfs(s), a <= m
      PROVE  Cardinality(Lfs(From(s, m + 1))) < Cardinality(Lfs(s))
  <2> DEFINE t == From(s, m + 1)
  <2>1. t \in Seq(Bytes) /\ Len(t) = Len(s) - m /\ \A i \in 1 .. Len(s) - m : t[i] = s[m + i]
    BY LeftIs
  <2> HIDE DEF t
  <2>2. DOMAIN t = 1 .. Len(s) - m /\ DOMAIN s = 1 .. Len(s)
    BY <2>1, LenProperties
  <2>3. Lfs(t) \in SUBSET Nat
    BY <2>2 DEF Lfs
  <2>4. ASSUME NEW q \in Lfs(t) PROVE q + m \in Lfs(s) \ {a}
    <3>1. q \in 1 .. Len(s) - m /\ t[q] = LF
      BY <2>2, <2>4 DEF Lfs
    <3>2. q + m = m + q /\ q + m \in 1 .. Len(s) /\ q + m # a
      BY <1>1, <1>3, <3>1
    <3>3. s[q + m] = LF
      BY <2>1, <3>1, <3>2
    <3> QED BY <2>2, <3>2, <3>3 DEF Lfs
  <2>5. Cardinality(Lfs(t)) < Cardinality(Lfs(s))
    <3>1. m \in Nat
      BY <1>1
    <3> QED BY <1>1, <1>2, <2>3, <2>4, <3>1, Fewer
  <2> QED BY <2>5 DEF t
<1>4. ASSUME NEW m \in 0 .. Len(s), NEW a \in Crlfs(s), a <= m
      PROVE  Cardinality(Crlfs(From(s, m + 1))) < Cardinality(Crlfs(s))
  <2> DEFINE t == From(s, m + 1)
  <2>1. t \in Seq(Bytes) /\ Len(t) = Len(s) - m /\ \A i \in 1 .. Len(s) - m : t[i] = s[m + i]
    BY LeftIs
  <2> HIDE DEF t
  <2>3. Crlfs(t) \in SUBSET Nat
    BY <1>1, <2>1 DEF Crlfs
  <2>4. ASSUME NEW q \in Crlfs(t) PROVE q + m \in Crlfs(s) \ {a}
    <3>1. q \in 1 .. Len(s) - m - 1 /\ t[q] = CR /\ t[q + 1] = LF
      BY <1>1, <2>1, <2>4 DEF Crlfs
    <3>2. /\ q + m = m + q /\ q + m \in 1 .. Len(s) - 1 /\ q + m # a
          /\ (q + m) + 1 = m + (q + 1) /\ q \in 1 .. Len(s) - m /\ q + 1 \in 1 .. Len(s) - m
      BY <1>1, <1>4, <3>1
    <3>3. s[q + m] = CR /\ s[(q + m) + 1] = LF
      BY <2>1, <3>1, <3>2
    <3> QED BY <3>2, <3>3 DEF Crlfs
  <2>5. Cardinality(Crlfs(t)) < Cardinality(Crlfs(s))
    <3>1. m \in Nat
      BY <1>1
    <3> QED BY <1>1, <1>2, <2>3, <2>4, <3>1, Fewer
  <2> QED BY <2>5 DEF t
<1> QED BY <1>1, <1>2, <1>3, <1>4

\* c are the rounds of a loop over S, and each that changes something brings it
\* nearer to its end.
Runs(c, S, step, size, x) ==
  /\ c[0] = x /\ \A n \in 1 .. size[x] : c[n - 1] \in S => c[n] = step[c[n - 1]]
  /\ \A y \in S : step[y] = y \/ size[step[y]] < size[y]

Rests(y, S, step) == y \in S /\ step[y] = y

\* After as many rounds as its size a loop has ended.
LEMMA LoopEnds ==
  ASSUME NEW S, NEW step \in [S -> S], NEW size \in [S -> Nat], NEW x \in S, NEW c,
         Runs(c, S, step, size, x)
  PROVE  Rests(c[size[x]], S, step)
<1> DEFINE N == size[x]
           K == {n \in Nat : n <= N => /\ c[n] \in S
                                       /\ step[c[n]] = c[n] \/ size[c[n]] + n <= N}
<1>0. /\ N \in Nat /\ \A y \in S : size[y] \in Nat /\ step[y] \in S
      /\ c[0] = x /\ \A n \in 1 .. N : c[n - 1] \in S => c[n] = step[c[n - 1]]
      /\ \A y \in S : step[y] = y \/ size[step[y]] < size[y]
  BY DEF Runs
<1>1. 0 \in K
  <2>1. size[c[0]] + 0 <= N /\ c[0] \in S
    BY <1>0
  <2> QED BY <2>1
<1>2. ASSUME NEW n \in Nat, n \in K PROVE n + 1 \in K
  <2>0. SUFFICES ASSUME n + 1 <= N
                 PROVE  /\ c[n + 1] \in S
                        /\ step[c[n + 1]] = c[n + 1] \/ size[c[n + 1]] + (n + 1) <= N
    OBVIOUS
  <2>1. c[n] \in S /\ (step[c[n]] = c[n] \/ size[c[n]] + n <= N)
    BY <1>0, <1>2, <2>0
  <2>2. n + 1 \in 1 .. N /\ (n + 1) - 1 = n
    BY <1>0, <2>0
  <2>3. c[n + 1] = step[c[n]]
    BY <1>0, <2>1, <2>2
  <2> HIDE DEF K, N
  <2>4. c[n + 1] \in S
    BY <1>0, <2>1, <2>3
  <2>5. CASE step[c[n]] = c[n]
    BY <2>3, <2>4, <2>5
  <2>6. CASE step[c[n]] # c[n]
    <3>1. size[c[n]] + n <= N /\ size[c[n + 1]] < size[c[n]]
      BY <1>0, <2>1, <2>3, <2>6
    <3>2. size[c[n]] \in Nat /\ size[c[n + 1]] \in Nat
      BY <1>0, <2>1, <2>4
    <3>3. size[c[n + 1]] + (n + 1) <= N
      BY <1>0, <3>1, <3>2
    <3> QED BY <2>4, <3>3
  <2> QED BY <2>5, <2>6
<1> HIDE DEF K
<1>3. N \in K
  <2> HIDE DEF N
  <2>1. Nat \subseteq K
    BY <1>1, <1>2, SetInduction
  <2> QED BY <1>0, <2>1
<1>4. c[N] \in S /\ (step[c[N]] = c[N] \/ size[c[N]] + N <= N)
  <2> HIDE DEF N
  <2> QED BY <1>0, <1>3 DEF K
<1>5. step[c[N]] = c[N]
  <2>1. SUFFICES ASSUME step[c[N]] # c[N] PROVE FALSE
    OBVIOUS
  <2>2. size[step[c[N]]] < size[c[N]] /\ size[c[N]] + N <= N
    BY <1>0, <1>4, <2>1
  <2>3. size[step[c[N]]] \in Nat /\ size[c[N]] \in Nat
    BY <1>0, <1>4
  <2> HIDE DEF N
  <2> QED BY <1>0, <2>2, <2>3
<1> QED BY <1>4, <1>5 DEF Rests

Round(f, S, step, x, N) ==
  f[0] = x /\ \A n \in 1 .. N : f[n] = step[f[n - 1]] /\ f[n - 1] \in S

\* A function that goes on by steps exists, as the rounds of a loop do.
LEMMA Rounds ==
  ASSUME NEW S, NEW step \in [S -> S], NEW x \in S, NEW N \in Nat
  PROVE  \E f \in [0 .. N -> S] : Round(f, S, step, x, N)
<1> DEFINE steps == [n \in 1 .. N |-> step]
<1>1. steps \in [1 .. N -> [S -> S]] /\ \A n \in 1 .. N : steps[n] = step
  OBVIOUS
<1> HIDE DEF steps
<1>2. PICK f \in [0 .. N -> S] : Follows(f, x, steps, N)
  BY <1>1, Iterated
<1>3. \A n \in 1 .. N : n - 1 \in 0 .. N
  OBVIOUS
<1> QED BY <1>1, <1>2, <1>3 DEF Follows, Round

\* What a chunk leaves alone.
Aside(x, y) == /\ y.p.phase = x.p.phase /\ y.p.event = x.p.event /\ y.p.chunked = x.p.chunked
               /\ y.on = x.on

ChunkRead(x, y) ==
  LET buf  == x.p.buf
      crlf == Min(Crlfs(buf))
      size == buf[1].n
  IN /\ y \in Steps /\ Aside(x, y)
     /\ buf[1].is # "size" =>
          /\ y.out = Append(x.out, Item("error", <<>>)) /\ y.p.done
          /\ y.p.buf = buf /\ y.p.sse = x.p.sse /\ y.p.ended = x.p.ended
     /\ buf[1].is = "size" => y.out = x.out /\ y.p.done = x.p.done
     /\ buf[1].is = "size" /\ size = 0 => y.p.buf = <<>> /\ y.p.ended /\ y.p.sse = x.p.sse
     /\ buf[1].is = "size" /\ size # 0 /\ Len(buf) < crlf + 3 + size => y = x
     /\ buf[1].is = "size" /\ size # 0 /\ ~(Len(buf) < crlf + 3 + size) =>
          /\ y.p.sse = x.p.sse \o SubSeq(buf, crlf + 2, crlf + 1 + size)
          /\ y.p.buf = From(buf, crlf + size + 4) /\ y.p.ended = x.p.ended

LEMMA ChunkStepIs ==
  ASSUME NEW x \in Steps, ~x.p.done, Crlfs(x.p.buf) # {}
  PROVE  ChunkRead(x, ChunkStep(x))
<1> DEFINE buf  == x.p.buf
           crlf == Min(Crlfs(buf))
           size == buf[1].n
           y == ChunkStep(x)
           item == Item("error", <<>>)
<1>0. /\ buf \in Seq(Bytes) /\ x.p \in Fields /\ x.p.sse \in Seq(Bytes) /\ Len(buf) \in Nat
      /\ <<>> \in Seq(Bytes) /\ item \in Items
  BY Typed, LenProperties DEF Kinds
<1>1. crlf \in 1 .. Len(buf) - 1 /\ crlf \in Nat /\ crlf + 1 <= Len(buf)
  <2> HIDE DEF buf
  <2>1. Crlfs(buf) \subseteq 1 .. Len(buf) - 1 /\ Crlfs(buf) \in SUBSET Nat
    BY <1>0 DEF Crlfs
  <2>2. crlf \in Crlfs(buf)
    BY <2>1, MinIs DEF buf
  <2> HIDE DEF crlf
  <2> QED BY <1>0, <2>1, <2>2
<1>2. buf[1] \in Bytes /\ (buf[1].is = "size" => size \in Nat)
  <2>1. 1 \in 1 .. Len(buf)
    BY <1>0, <1>1
  <2> HIDE DEF buf
  <2>2. buf[1] \in Bytes
    BY <1>0, <2>1, LenProperties
  <2> QED BY <2>2, BytesAre
<1>3. CASE buf[1].is # "size"
  <2> DEFINE z == [x EXCEPT !.p.done = TRUE]
  <2>1. y = Emit(z, item)
    BY <1>3 DEF ChunkStep
  <2>2. z \in Steps
    BY DEF Steps, Fields
  <2>3. /\ z.p.done /\ z.p.buf = buf /\ z.p.sse = x.p.sse /\ z.p.ended = x.p.ended
        /\ z.out = x.out
    BY DEF Steps, Fields
  <2>4. Aside(x, z)
    BY DEF Steps, Fields, Aside
  <2> HIDE DEF z, item
  <2>5. y \in Steps /\ y.p = z.p /\ y.on = z.on /\ y.out = Append(z.out, item)
    BY <1>0, <2>1, <2>2, EmitIs
  <2> HIDE DEF y
  <2>6. Aside(x, y)
    BY <2>4, <2>5 DEF Aside
  <2> HIDE DEF buf, size, crlf
  <2> QED BY <1>3, <2>3, <2>5, <2>6 DEF ChunkRead, buf, size, crlf, y, item
<1>4. CASE buf[1].is = "size" /\ size = 0
  <2>1. y = [x EXCEPT !.p.buf = <<>>, !.p.ended = TRUE]
    BY <1>4 DEF ChunkStep
  <2> HIDE DEF y
  <2>2. y \in Steps
    BY <1>0, <2>1 DEF Steps, Fields
  <2>3. /\ y.p.done = x.p.done /\ y.p.buf = <<>> /\ y.p.sse = x.p.sse /\ y.p.ended
        /\ y.out = x.out
    BY <2>1 DEF Steps, Fields
  <2>4. Aside(x, y)
    BY <2>1 DEF Steps, Fields, Aside
  <2> HIDE DEF buf, size, crlf
  <2> QED BY <1>4, <2>2, <2>3, <2>4 DEF ChunkRead, buf, size, crlf, y
<1>5. CASE buf[1].is = "size" /\ size # 0 /\ Len(buf) < crlf + 3 + size
  <2>1. y = x
    BY <1>5 DEF ChunkStep
  <2> HIDE DEF y
  <2>2. Aside(x, y)
    BY <2>1 DEF Aside
  <2> HIDE DEF buf, size, crlf
  <2> QED BY <1>5, <2>1, <2>2 DEF ChunkRead, buf, size, crlf, y
<1>6. CASE buf[1].is = "size" /\ size # 0 /\ ~(Len(buf) < crlf + 3 + size)
  <2> DEFINE part == SubSeq(buf, crlf + 2, crlf + 1 + size)
             more == x.p.sse \o part
             left == From(buf, crlf + size + 4)
  <2>1. y = [x EXCEPT !.p.sse = @ \o part, !.p.buf = left]
    BY <1>6 DEF ChunkStep
  <2>2. part \in Seq(Bytes) /\ left \in Seq(Bytes)
    <3>0. size \in Nat /\ ~(Len(buf) < crlf + 3 + size)
      BY <1>2, <1>6
    <3> HIDE DEF buf, crlf, size
    <3>1. /\ crlf + 2 \in Nat /\ crlf + 1 + size \in Nat /\ crlf + 2 >= 1 /\ crlf + 1 + size <= Len(buf)
          /\ crlf + size + 4 \in Nat /\ crlf + size + 4 >= 1
      BY <1>0, <1>1, <3>0
    <3>2. part \in Seq(Bytes)
      BY <1>0, <3>1, PartIs
    <3>3. SubSeq(buf, crlf + size + 4, Len(buf)) \in Seq(Bytes)
      BY <1>0, <3>1, PartIs
    <3> QED BY <3>2, <3>3 DEF From
  <2> HIDE DEF part, left, y
  <2>3. more \in Seq(Bytes)
    BY <1>0, <2>2, ConcatProperties
  <2>4. y = [x EXCEPT !.p.sse = more, !.p.buf = left]
    BY <2>1 DEF Steps, Fields
  <2> HIDE DEF more
  <2>5. y \in Steps
    BY <2>2, <2>3, <2>4 DEF Steps, Fields
  <2>6. /\ y.p.done = x.p.done /\ y.p.buf = left /\ y.p.sse = more /\ y.p.ended = x.p.ended
        /\ y.out = x.out
    BY <2>4 DEF Steps, Fields
  <2>7. Aside(x, y)
    BY <2>4 DEF Steps, Fields, Aside
  <2> HIDE DEF buf, size, crlf
  <2> QED BY <1>6, <2>5, <2>6, <2>7 DEF ChunkRead, buf, size, crlf, y, more, left, part
<1> QED BY <1>3, <1>4, <1>5, <1>6

\* A round of decodeBody keeps the types, and takes a chunk or changes
\* nothing.
LEMMA ChunkStepTyped ==
  ASSUME NEW x \in Steps
  PROVE  /\ ChunkStep(x) \in Steps
         /\ x.p.done \/ Crlfs(x.p.buf) = {} => ChunkStep(x) = x
<1>1. x.p.done \/ Crlfs(x.p.buf) = {} => ChunkStep(x) = x
  BY DEF ChunkStep
<1>2. ~x.p.done /\ Crlfs(x.p.buf) # {} => ChunkStep(x) \in Steps
  BY ChunkStepIs DEF ChunkRead
<1> QED BY <1>1, <1>2

-----------------------------------------------------------------------------
\* The loops keep what a step keeps, and end where a step does nothing.
Settled(I, y) == y \in I /\ (~y.on \/ Lfs(y.p.sse) = {})
Emptied(I, y) == y \in I /\ ChunkStep(y) = y

\* The loop of parseSse keeps what a line keeps, and ends where no line is left.
LEMMA ParseEnds ==
  ASSUME NEW I \in SUBSET Steps, NEW x \in I, \A y \in I : LineStep(y) \in I
  PROVE  Settled(I, ParseSse(x))
<1> DEFINE N == Cardinality(Lfs(x.p.sse))
           step == [y \in I |-> LineStep(y)]
           size == [y \in I |-> Cardinality(Lfs(y.p.sse))]
           Rule(f) == [n \in 0 .. N |-> IF n = 0 THEN x ELSE LineStep(f[n - 1])]
           c == CHOOSE f : f = Rule(f)
<1>0. \A y \in I : y \in Steps /\ y.p.sse \in Seq(Bytes)
  BY Typed
<1>1. step \in [I -> I] /\ \A y \in I : step[y] = LineStep(y)
  OBVIOUS
<1>2. size \in [I -> Nat] /\ \A y \in I : size[y] = Cardinality(Lfs(y.p.sse))
  <2>1. \A y \in I : Cardinality(Lfs(y.p.sse)) \in Nat
    BY <1>0, EndsOfLines
  <2> QED BY <2>1
<1>3. N \in Nat /\ N = size[x]
  BY <1>0, <1>2
<1> HIDE DEF step, size
<1>4. ASSUME NEW y \in I, y.on, Lfs(y.p.sse) # {} PROVE size[step[y]] < size[y]
  <2> DEFINE s == y.p.sse
             m == Min(Lfs(s))
  <2>1. s \in Seq(Bytes) /\ step[y] = LineStep(y) /\ step[y] \in I
    BY <1>0, <1>1
  <2>2. LineStep(y).p.sse = From(s, m + 1)
    BY <1>0, <1>4, LineStepIs DEF LineRead
  <2>3. m \in Lfs(s)
    <3>1. Lfs(s) \in SUBSET Nat
      BY <2>1, EndsOfLines
    <3> QED BY <1>4, <3>1, MinIs
  <2> HIDE DEF m
  <2>4. m \in 0 .. Len(s) /\ m <= m
    <3> HIDE DEF s
    <3>1. Lfs(s) \subseteq 1 .. Len(s) /\ Len(s) \in Nat
      BY <2>1, EndsOfLines
    <3> QED BY <2>3, <3>1
  <2>5. Cardinality(Lfs(From(s, m + 1))) < Cardinality(Lfs(s))
    BY <2>1, <2>3, <2>4, EndsOfLines
  <2> QED BY <1>2, <2>1, <2>2, <2>5
<1>5. \A y \in I : step[y] = y \/ size[step[y]] < size[y]
  <2>1. ASSUME NEW y \in I, ~y.on \/ Lfs(y.p.sse) = {} PROVE step[y] = y
    BY <1>0, <1>1, <2>1, LineStepTyped
  <2> QED BY <1>4, <2>1
<1>6. PICK f \in [0 .. N -> I] : Round(f, I, step, x, N)
  <2> HIDE DEF N
  <2> QED BY <1>1, <1>3, Rounds
<1>7. f = Rule(f)
  <2>1. ASSUME NEW n \in 0 .. N PROVE f[n] = IF n = 0 THEN x ELSE LineStep(f[n - 1])
    <3>1. CASE n = 0
      BY <1>6, <3>1 DEF Round
    <3>2. CASE n # 0
      <4>1. n \in 1 .. N
        BY <1>3, <3>2
      <4> QED BY <1>1, <1>6, <3>2, <4>1 DEF Round
    <3> QED BY <3>1, <3>2
  <2> HIDE DEF N
  <2> QED BY <2>1
<1>8. c = Rule(c)
  <2> HIDE DEF Rule
  <2> QED BY <1>7
<1>9. ParseSse(x) = c[N]
  BY DEF ParseSse
<1> HIDE DEF c, N
<1>10. c[0] = x /\ \A n \in 1 .. N : c[n] = LineStep(c[n - 1])
  <2>1. \A n \in 0 .. N : c[n] = IF n = 0 THEN x ELSE LineStep(c[n - 1])
    BY <1>8
  <2>2. 0 \in 0 .. N /\ \A n \in 1 .. N : n \in 0 .. N /\ n # 0
    BY <1>3
  <2> HIDE DEF Rule
  <2> QED BY <2>1, <2>2
<1>11. c[size[x]] \in I /\ step[c[size[x]]] = c[size[x]]
  <2>1. \A n \in 1 .. size[x] : c[n - 1] \in I => c[n] = step[c[n - 1]]
    BY <1>1, <1>3, <1>10
  <2>2. c[0] = x
    BY <1>10
  <2>3. step \in [I -> I] /\ size \in [I -> Nat]
    BY <1>1, <1>2
  <2>4. Runs(c, I, step, size, x)
    BY <1>5, <2>1, <2>2 DEF Runs
  <2> HIDE DEF Rule
  <2>5. Rests(c[size[x]], I, step)
    BY <2>3, <2>4, LoopEnds
  <2> QED BY <2>5 DEF Rests
<1>12. ~c[N].on \/ Lfs(c[N].p.sse) = {}
  <2>1. SUFFICES ASSUME c[N].on, Lfs(c[N].p.sse) # {} PROVE FALSE
    OBVIOUS
  <2>2. c[N] \in I /\ step[c[N]] = c[N]
    BY <1>3, <1>11
  <2>3. size[c[N]] < size[c[N]] /\ size[c[N]] \in Nat
    <3>1. size[step[c[N]]] < size[c[N]]
      BY <1>4, <2>1, <2>2
    <3>2. size[c[N]] \in Nat
      BY <1>2, <2>2
    <3> QED BY <2>2, <3>1, <3>2
  <2> QED BY <2>3
<1>13. c[N] \in I
  BY <1>3, <1>11
<1>14. Settled(I, c[N])
  BY <1>12, <1>13 DEF Settled
<1> QED BY <1>9, <1>14

\* The loop of decodeBody, likewise.
LEMMA DechunkEnds ==
  ASSUME NEW I \in SUBSET Steps, NEW x \in I, ~x.p.done, \A y \in I : ChunkStep(y) \in I
  PROVE  Emptied(I, Dechunk(x))
<1> DEFINE N == Cardinality(Crlfs(x.p.buf))
           step == [y \in I |-> ChunkStep(y)]
           size == [y \in I |-> IF y.p.done THEN 0 ELSE Cardinality(Crlfs(y.p.buf))]
           Rule(f) == [n \in 0 .. N |-> IF n = 0 THEN x ELSE ChunkStep(f[n - 1])]
           c == CHOOSE f : f = Rule(f)
<1>0. \A y \in I : y \in Steps /\ y.p.buf \in Seq(Bytes)
  BY Typed
<1>1. step \in [I -> I] /\ \A y \in I : step[y] = ChunkStep(y)
  OBVIOUS
<1>2. size \in [I -> Nat] /\ \A y \in I : size[y] = IF y.p.done THEN 0 ELSE Cardinality(Crlfs(y.p.buf))
  <2>1. \A y \in I : Cardinality(Crlfs(y.p.buf)) \in Nat
    BY <1>0, EndsOfLines
  <2> QED BY <2>1
<1>3. N \in Nat /\ N = size[x]
  BY <1>0, <1>2
<1> HIDE DEF step, size
<1>5. \A y \in I : step[y] = y \/ size[step[y]] < size[y]
  <2> SUFFICES ASSUME NEW y \in I, step[y] # y PROVE size[step[y]] < size[y]
    OBVIOUS
  <2> DEFINE s == y.p.buf
             m == Min(Crlfs(s))
             z == ChunkStep(y)
  <2>1. s \in Seq(Bytes) /\ step[y] = z /\ z \in I /\ y \in Steps /\ z # y
    BY <1>0, <1>1
  <2>2. ~y.p.done /\ Crlfs(s) # {}
    BY <2>1, ChunkStepTyped
  <2>3. \/ z.p.done \/ z.p.buf = <<>>
        \/ /\ s[1].is = "size" /\ ~(Len(s) < m + 3 + s[1].n)
           /\ z.p.buf = From(s, m + s[1].n + 4)
    BY <2>1, <2>2, ChunkStepIs DEF ChunkRead
  <2>4. /\ Len(s) \in Nat /\ Crlfs(s) \subseteq 1 .. Len(s) /\ Crlfs(s) \in SUBSET Nat
        /\ Cardinality(Crlfs(s)) \in Nat /\ IsFiniteSet(Crlfs(s))
    <3> HIDE DEF s
    <3> QED BY <2>1, EndsOfLines
  <2>5. m \in Crlfs(s)
    BY <2>2, <2>4, MinIs
  <2>6. size[y] = Cardinality(Crlfs(s)) /\ size[y] # 0
    <3>1. Cardinality(Crlfs(s)) # 0
      BY <2>2, <2>4, FS_EmptySet
    <3> QED BY <1>2, <2>2, <3>1
  <2>7. CASE z.p.done
    BY <1>2, <2>1, <2>4, <2>6, <2>7
  <2>8. CASE ~z.p.done /\ z.p.buf = <<>>
    <3>1. Crlfs(<<>>) = {}
      BY DEF Crlfs
    <3>2. size[z] = 0
      BY <1>2, <2>1, <2>8, <3>1, FS_EmptySet
    <3> QED BY <2>1, <2>4, <2>6, <3>2
  <2>9. CASE ~z.p.done /\ z.p.buf # <<>>
    <3>1. s[1].n \in Nat
      <4>1. 1 \in 1 .. Len(s)
        BY <2>4, <2>5
      <4>2. s[1] \in Bytes
        <5> HIDE DEF s
        <5> QED BY <2>1, <4>1, LenProperties
      <4> QED BY <2>3, <2>9, <4>2, BytesAre
    <3>2. ~(Len(s) < m + 3 + s[1].n) /\ z.p.buf = From(s, m + s[1].n + 4)
      BY <2>3, <2>9
    <3> DEFINE b == m + 3 + s[1].n
    <3>3. b \in 0 .. Len(s) /\ m <= b /\ m + s[1].n + 4 = b + 1
      <4> DEFINE h == s[1].n
      <4> HIDE DEF h, s, m
      <4>1. m \in Nat /\ h \in Nat /\ ~(Len(s) < m + 3 + h)
        BY <2>4, <2>5, <3>1, <3>2 DEF h
      <4>2. m + 3 + h \in 0 .. Len(s) /\ m <= m + 3 + h /\ m + h + 4 = (m + 3 + h) + 1
        BY <2>4, <4>1
      <4> QED BY <4>2 DEF h
    <3> HIDE DEF b
    <3>4. z.p.buf = From(s, b + 1)
      BY <3>2, <3>3
    <3>5. Cardinality(Crlfs(From(s, b + 1))) < Cardinality(Crlfs(s))
      <4> HIDE DEF s, m
      <4> QED BY <2>1, <2>5, <3>3, EndsOfLines
    <3>6. size[z] = Cardinality(Crlfs(z.p.buf))
      BY <1>2, <2>1, <2>9
    <3> QED BY <2>1, <2>6, <3>4, <3>5, <3>6
  <2> QED BY <2>7, <2>8, <2>9
<1>6. PICK f \in [0 .. N -> I] : Round(f, I, step, x, N)
  <2> HIDE DEF N
  <2> QED BY <1>1, <1>3, Rounds
<1>7. f = Rule(f)
  <2>1. ASSUME NEW n \in 0 .. N PROVE f[n] = IF n = 0 THEN x ELSE ChunkStep(f[n - 1])
    <3>1. CASE n = 0
      BY <1>6, <3>1 DEF Round
    <3>2. CASE n # 0
      <4>1. n \in 1 .. N
        BY <1>3, <3>2
      <4> QED BY <1>1, <1>6, <3>2, <4>1 DEF Round
    <3> QED BY <3>1, <3>2
  <2> HIDE DEF N
  <2> QED BY <2>1
<1>8. c = Rule(c)
  <2> HIDE DEF Rule
  <2> QED BY <1>7
<1>9. Dechunk(x) = c[N]
  BY DEF Dechunk
<1> HIDE DEF c, N
<1>10. c[0] = x /\ \A n \in 1 .. N : c[n] = ChunkStep(c[n - 1])
  <2>1. \A n \in 0 .. N : c[n] = IF n = 0 THEN x ELSE ChunkStep(c[n - 1])
    BY <1>8
  <2>2. 0 \in 0 .. N /\ \A n \in 1 .. N : n \in 0 .. N /\ n # 0
    BY <1>3
  <2> HIDE DEF Rule
  <2> QED BY <2>1, <2>2
<1>11. c[size[x]] \in I /\ step[c[size[x]]] = c[size[x]]
  <2>1. \A n \in 1 .. size[x] : c[n - 1] \in I => c[n] = step[c[n - 1]]
    BY <1>1, <1>3, <1>10
  <2>2. c[0] = x
    BY <1>10
  <2>3. step \in [I -> I] /\ size \in [I -> Nat]
    BY <1>1, <1>2
  <2>4. Runs(c, I, step, size, x)
    BY <1>5, <2>1, <2>2 DEF Runs
  <2> HIDE DEF Rule
  <2>5. Rests(c[size[x]], I, step)
    BY <2>3, <2>4, LoopEnds
  <2> QED BY <2>5 DEF Rests
<1>12. c[N] \in I /\ ChunkStep(c[N]) = c[N]
  BY <1>1, <1>3, <1>11
<1>13. Emptied(I, c[N])
  BY <1>12 DEF Emptied
<1> QED BY <1>9, <1>13

-----------------------------------------------------------------------------
(* Chunks.                                                                 *)

\* The number of parts: enough, and none empty.
LEMMA Quotient ==
  ASSUME NEW n \in Nat, NEW size \in Nat \ {0}
  PROVE  LET q == (n + size - 1) \div size
         IN q \in Nat /\ q * size >= n /\ \A k \in Nat : k < q => k * size < n
<1> DEFINE q == (n + size - 1) \div size
<1>1. q \in Nat
  OBVIOUS
<1>2. q * size >= n /\ q * size <= n + size - 1
  OBVIOUS
<1> HIDE DEF q
<1>3. ASSUME NEW k \in Nat, k < q PROVE k * size < n
  <2>1. k + 1 <= q
    BY <1>1, <1>3
  <2>2. (k + 1) * size <= q * size
    BY <1>1, <2>1
  <2>3. (k + 1) * size = k * size + size /\ k * size \in Nat /\ q * size \in Nat
    BY <1>1
  <2> QED BY <1>2, <2>2, <2>3
<1> QED BY <1>1, <1>2, <1>3 DEF q

\* The parts make up the body.
LEMMA PartsAre ==
  ASSUME NEW body \in Seq(Bytes), NEW size \in Nat \ {0}
  PROVE  /\ Parts(body, size) \in Seq(Seq(Bytes)) /\ Len(Parts(body, size)) \in Nat
         /\ From(body, 0 * size + 1) = body
         /\ From(body, Len(Parts(body, size)) * size + 1) = <<>>
         /\ \A k \in 0 .. Len(Parts(body, size)) : From(body, k * size + 1) \in Seq(Bytes)
         /\ \A k \in 0 .. Len(Parts(body, size)) - 1 :
              /\ Parts(body, size)[k + 1] \in Seq(Bytes) /\ Parts(body, size)[k + 1] # <<>>
              /\ From(body, k * size + 1) = Parts(body, size)[k + 1] \o From(body, (k + 1) * size + 1)
<1> DEFINE n == Len(body)
           M == (n + size - 1) \div size
           least(k) == Min({(k + 1) * size, n})
           part(k) == SubSeq(body, k * size + 1, least(k))
<1>0. n \in Nat /\ \A i \in 1 .. n : body[i] \in Bytes
  BY LenProperties
<1>1. M \in Nat /\ M * size >= n /\ \A k \in Nat : k < M => k * size < n
  <2> HIDE DEF n
  <2> QED BY <1>0, Quotient
<1> HIDE DEF M, n
<1>2. ASSUME NEW k \in 0 .. M - 1
      PROVE  /\ k \in Nat /\ k < M /\ k * size \in Nat /\ k * size < n /\ (k + 1) * size \in Nat
             /\ least(k) \in Nat /\ k * size + 1 <= least(k) /\ least(k) <= n
             /\ least(k) = (k + 1) * size \/ (least(k) = n /\ (k + 1) * size >= n)
  <2>1. k \in Nat /\ k < M
    BY <1>1
  <2>2. k * size \in Nat /\ (k + 1) * size \in Nat /\ (k + 1) * size = k * size + size
    BY <2>1
  <2>3. k * size < n
    BY <1>1, <2>1
  <2> DEFINE two == {(k + 1) * size, n}
  <2>4. two \in SUBSET Nat /\ two # {}
    BY <1>0, <2>2
  <2>5. least(k) \in two /\ \A m \in two : least(k) <= m
    <3> HIDE DEF two
    <3> QED BY <2>4, MinIs DEF two
  <2> HIDE DEF least
  <2>6. (least(k) = (k + 1) * size \/ least(k) = n) /\ least(k) <= (k + 1) * size /\ least(k) <= n
    BY <2>5
  <2>7. k * size + 1 <= (k + 1) * size
    BY <2>2
  <2> DEFINE a == k * size
             b == (k + 1) * size
  <2> HIDE DEF a, b
  <2>8. /\ a \in Nat /\ b \in Nat /\ a < n /\ a + 1 <= b /\ (least(k) = b \/ least(k) = n)
        /\ least(k) <= b /\ least(k) <= n
    BY <2>2, <2>3, <2>6, <2>7 DEF a, b
  <2>9. least(k) \in Nat /\ a + 1 <= least(k) /\ (least(k) = b \/ (least(k) = n /\ b >= n))
    BY <1>0, <2>8
  <2> QED BY <2>1, <2>8, <2>9 DEF a, b
<1> HIDE DEF least
<1>3. ASSUME NEW k \in 0 .. M - 1 PROVE part(k) \in Seq(Bytes) /\ part(k) # <<>>
  <2> DEFINE a == k * size + 1
             b == least(k)
  <2>1. a \in Nat /\ b \in Nat /\ 1 <= a /\ a <= b /\ b <= n
    BY <1>2
  <2> HIDE DEF a, b
  <2>2. \A i \in a .. b : body[i] \in Bytes
    BY <1>0, <2>1
  <2>3. SubSeq(body, a, b) \in Seq(Bytes) /\ Len(SubSeq(body, a, b)) = IF a <= b THEN b - a + 1 ELSE 0
    BY <2>1, <2>2, SubSeqProperties
  <2>4. Len(SubSeq(body, a, b)) # 0
    BY <2>1, <2>3
  <2> QED BY <2>3, <2>4, EmptySeq DEF a, b
<1>4. ASSUME NEW k \in 0 .. M PROVE From(body, k * size + 1) \in Seq(Bytes)
  <2> DEFINE a == k * size + 1
  <2>1. a \in Nat /\ 1 <= a
    BY <1>1
  <2> HIDE DEF a
  <2>2. SubSeq(body, a, Len(body)) \in Seq(Bytes)
    BY <1>0, <2>1, PartIs DEF n
  <2> QED BY <2>2 DEF From, a
<1>5. ASSUME NEW k \in 0 .. M - 1
      PROVE  From(body, k * size + 1) = part(k) \o From(body, (k + 1) * size + 1)
  <2> DEFINE a == k * size + 1
             b == least(k)
             c == (k + 1) * size
  <2>1. a \in Nat /\ b \in Nat /\ c \in Nat /\ 1 <= a /\ a <= b /\ b <= n /\ (b = c \/ (b = n /\ c >= n))
    <3>1. a \in Nat /\ 1 <= a
      BY <1>2
    <3>2. b \in Nat /\ c \in Nat /\ a <= b /\ b <= n
      BY <1>2
    <3>3. b = c \/ (b = n /\ c >= n)
      BY <1>2
    <3> HIDE DEF a, b, c
    <3> QED BY <3>1, <3>2, <3>3
  <2> HIDE DEF a, b, c
  <2>2. SubSeq(body, a, n) = SubSeq(body, a, b) \o SubSeq(body, b + 1, n)
    <3>1. a \in 1 .. Len(body) + 1 /\ b \in a - 1 .. Len(body) /\ n \in b .. Len(body)
      BY <1>0, <2>1 DEF n
    <3> QED BY <3>1, ConcatAdjacentSubSeq
  <2>3. SubSeq(body, b + 1, n) = SubSeq(body, c + 1, n)
    <3>1. CASE b = c
      BY <3>1
    <3>2. CASE b = n /\ c >= n
      <4>1. SubSeq(body, b + 1, n) = <<>>
        BY <1>0, <3>2, SubSeqEmpty
      <4>2. SubSeq(body, c + 1, n) = <<>>
        <5>1. c + 1 \in Int /\ n \in Int /\ n < c + 1
          BY <1>0, <2>1, <3>2
        <5> QED BY <5>1, SubSeqEmpty
      <4> QED BY <4>1, <4>2
    <3> QED BY <2>1, <3>1, <3>2
  <2> QED BY <2>2, <2>3 DEF From, a, b, c, n
<1>6. From(body, 0 * size + 1) = body
  <2>1. 0 * size + 1 = 1
    OBVIOUS
  <2> QED BY <2>1, SubSeqFull DEF From
<1>7. From(body, M * size + 1) = <<>>
  <2> DEFINE a == M * size + 1
  <2>1. a \in Int /\ n \in Int /\ n < a
    BY <1>0, <1>1
  <2> HIDE DEF a
  <2>2. SubSeq(body, a, n) = <<>>
    BY <2>1, SubSeqEmpty
  <2> QED BY <2>2 DEF From, a, n
<1>8. /\ Parts(body, size) \in Seq(Seq(Bytes)) /\ Len(Parts(body, size)) = M
      /\ \A k \in 0 .. M - 1 : Parts(body, size)[k + 1] = part(k)
  <2> DEFINE p(i) == SubSeq(body, (i - 1) * size + 1, Min({i * size, n}))
  <2>1. Parts(body, size) = [i \in 1 .. M |-> p(i)]
    BY DEF Parts, M, n
  <2>2. \A k \in 0 .. M - 1 : p(k + 1) = part(k)
    <3>1. \A k \in 0 .. M - 1 : (k + 1) - 1 = k
      BY <1>1
    <3> QED BY <3>1 DEF least
  <2>3. \A i \in 1 .. M : i - 1 \in 0 .. M - 1 /\ (i - 1) + 1 = i
    BY <1>1
  <2> HIDE DEF p, part
  <2>4. \A i \in 1 .. M : p(i) \in Seq(Bytes)
    BY <1>3, <2>2, <2>3
  <2>5. \A k \in 0 .. M - 1 : k + 1 \in 1 .. M
    BY <1>1
  <2> QED BY <1>1, <2>1, <2>2, <2>4, <2>5
<1> HIDE DEF part
<1>9. /\ \A k \in 0 .. M - 1 : /\ part(k) \in Seq(Bytes) /\ part(k) # <<>>
                               /\ From(body, k * size + 1) = part(k) \o From(body, (k + 1) * size + 1)
      /\ \A k \in 0 .. M : From(body, k * size + 1) \in Seq(Bytes)
  BY <1>3, <1>4, <1>5
<1> QED BY <1>1, <1>6, <1>7, <1>8, <1>9

\* What is left of a chunked body after k chunks.
PartsOf(r) == Parts(BodyOf(r), r.size)
ChunkTape(r, k) == After(Chunks(PartsOf(r)), k) \o Ending(r)
BodyTape(r, k) == From(BodyOf(r), k * r.size + 1)

Triples(b) == <<b, CR, LF>>

\* A size line.
LEMMA TripleIs ==
  ASSUME NEW b \in Bytes
  PROVE  /\ Triples(b) \in Seq(Bytes) /\ Len(Triples(b)) = 3 /\ Triples(b)[1] = b
         /\ Triples(b)[2] = CR /\ Triples(b)[3] = LF
<1>1. CR \in Bytes /\ LF \in Bytes
  BY BytesAre
<1> QED BY <1>1 DEF Triples

\* Concatenation is associative.
LEMMA Regroup ==
  \A a, b, c \in Seq(Bytes) : (a \o b) \o c = a \o (b \o c)
BY ConcatAssociative

\* The blank line that ends a chunk, and the last of all.
LEMMA CrlfIs ==
  <<CR, LF>> \in Seq(Bytes) /\ Len(<<CR, LF>>) = 2
<1>1. CR \in Bytes /\ LF \in Bytes
  BY BytesAre
<1> QED BY <1>1

\* A chunk is its size line, its part and a blank line.
LEMMA ChunkIs ==
  ASSUME NEW part \in Seq(Bytes), part # <<>>
  PROVE  /\ Chunk(part) \in Seq(Bytes) /\ Len(Chunk(part)) = Len(part) + 5
         /\ Len(part) \in Nat \ {0}
         /\ Size(Len(part)) \in Bytes /\ Size(Len(part)) # CR
         /\ Chunk(part) = Triples(Size(Len(part))) \o (part \o <<CR, LF>>)
         /\ part \o <<CR, LF>> \in Seq(Bytes)
         /\ SubSeq(Chunk(part), 4, 3 + Len(part)) = part
<1> DEFINE n == Len(part)
           h == Triples(Size(n))
           z == <<CR, LF>>
<1>1. n \in Nat \ {0}
  BY EmptySeq, LenProperties
<1>2. Size(n) \in Bytes /\ Size(n) # CR
  BY <1>1, BytesAre
<1>3. h \in Seq(Bytes) /\ Len(h) = 3
  BY <1>2, TripleIs
<1>4. z \in Seq(Bytes) /\ Len(z) = 2
  BY CrlfIs
<1>5. Chunk(part) = (h \o part) \o z
  BY DEF Chunk, Triples
<1> HIDE DEF h, z
<1>6. h \o part \in Seq(Bytes) /\ Len(h \o part) = 3 + n
  BY <1>3, Joins
<1>7. Chunk(part) \in Seq(Bytes) /\ Len(Chunk(part)) = (3 + n) + 2
  <2>1. \A q \in Seq(Bytes) : q \o z \in Seq(Bytes) /\ Len(q \o z) = Len(q) + 2
    BY <1>4, Joins
  <2> QED BY <1>5, <1>6, <2>1
<1>8. Chunk(part) = h \o (part \o z) /\ part \o z \in Seq(Bytes) /\ Len(part \o z) = n + 2
  <2>1. (h \o part) \o z = h \o (part \o z)
    BY <1>3, <1>4, ConcatAssociative
  <2>2. part \o z \in Seq(Bytes) /\ Len(part \o z) = n + 2
    BY <1>4, Joins
  <2> QED BY <1>5, <2>1, <2>2
<1>9. SubSeq(Chunk(part), 4, 3 + n) = part
  <2>1. ASSUME NEW i \in 1 .. n PROVE Chunk(part)[3 + i] = part[i]
    <3>1. 3 + i \in 1 .. 3 + (n + 2) /\ ~(3 + i <= 3) /\ (3 + i) - 3 = i /\ i \in 1 .. n + 2 /\ i <= n
      BY <1>1
    <3>2. (h \o (part \o z))[3 + i] = (part \o z)[(3 + i) - 3]
      <4>1. \A q \in Seq(Bytes) : \A j \in 1 .. 3 + Len(q) :
              (h \o q)[j] = IF j <= 3 THEN h[j] ELSE q[j - 3]
        <5>1. \A q \in Seq(Bytes) : \A j \in 1 .. Len(h) + Len(q) :
                (h \o q)[j] = IF j <= Len(h) THEN h[j] ELSE q[j - Len(h)]
          BY <1>3, ConcatProperties
        <5> QED BY <1>3, <5>1
      <4> QED BY <1>8, <3>1, <4>1
    <3>3. (part \o z)[i] = part[i]
      BY <1>1, <1>4, <3>1, ConcatProperties
    <3> QED BY <1>8, <3>1, <3>2, <3>3
  <2> DEFINE c == Chunk(part)
             q == SubSeq(c, 4, 3 + n)
  <2> HIDE DEF c, n
  <2>2. \A i \in 4 .. 3 + n : c[i] \in Bytes
    <3>1. Len(c) = (3 + n) + 2 /\ c \in Seq(Bytes)
      BY <1>7 DEF c
    <3> QED BY <1>1, <3>1, LenProperties
  <2>3. 4 \in Int /\ 3 + n \in Int
    BY <1>1
  <2>4. /\ q \in Seq(Bytes) /\ Len(q) = IF 4 <= 3 + n THEN (3 + n) - 4 + 1 ELSE 0
        /\ \A i \in 1 .. (3 + n) - 4 + 1 : q[i] = c[4 + i - 1]
    BY <2>2, <2>3, SubSeqProperties
  <2>5. Len(q) = n
    BY <1>1, <2>4
  <2>6. \A i \in 1 .. n : q[i] = part[i]
    <3>1. \A i \in 1 .. n : i \in 1 .. (3 + n) - 4 + 1 /\ 4 + i - 1 = 3 + i
      BY <1>1
    <3> QED BY <2>1, <2>4, <3>1 DEF c
  <2> HIDE DEF q
  <2>7. q = part
    BY <2>4, <2>5, <2>6, SeqEqual DEF n
  <2> QED BY <2>7 DEF q, c
<1>10. (3 + n) + 2 = n + 5
  BY <1>1
<1> QED BY <1>1, <1>2, <1>7, <1>8, <1>9, <1>10 DEF h, z

\* From chunk to chunk, the chunks left and the body left go together.
LEMMA ChunkTapeIs ==
  ASSUME NEW r, Meant(r), r.size # 0
  PROVE  /\ PartsOf(r) \in Seq(Seq(Bytes)) /\ Len(PartsOf(r)) \in Nat /\ Ending(r) \in Seq(Bytes)
         /\ \A k \in 0 .. Len(PartsOf(r)) : ChunkTape(r, k) \in Seq(Bytes) /\ BodyTape(r, k) \in Seq(Bytes)
         /\ ChunkTape(r, 0) = FlattenSeq(Chunks(PartsOf(r))) \o Ending(r)
         /\ ChunkTape(r, Len(PartsOf(r))) = Ending(r)
         /\ BodyTape(r, 0) = BodyOf(r) /\ BodyTape(r, Len(PartsOf(r))) = <<>>
         /\ \A k \in 0 .. Len(PartsOf(r)) - 1 :
              /\ PartsOf(r)[k + 1] \in Seq(Bytes) /\ PartsOf(r)[k + 1] # <<>>
              /\ ChunkTape(r, k) = Chunk(PartsOf(r)[k + 1]) \o ChunkTape(r, k + 1)
              /\ BodyTape(r, k) = PartsOf(r)[k + 1] \o BodyTape(r, k + 1)
<1> DEFINE p == PartsOf(r)
           M == Len(p)
           e == Ending(r)
<1>1. BodyOf(r) \in Seq(Bytes) /\ r.size \in Nat \ {0}
  <2>1. r.size \in Nat
    BY AllIs
  <2> QED BY <2>1, ParcelsAre
<1>2. /\ p \in Seq(Seq(Bytes)) /\ M \in Nat
      /\ BodyTape(r, 0) = BodyOf(r) /\ BodyTape(r, M) = <<>>
      /\ \A k \in 0 .. M : BodyTape(r, k) \in Seq(Bytes)
      /\ \A k \in 0 .. M - 1 : /\ p[k + 1] \in Seq(Bytes) /\ p[k + 1] # <<>>
                               /\ BodyTape(r, k) = p[k + 1] \o BodyTape(r, k + 1)
  BY <1>1, PartsAre DEF PartsOf, BodyTape
<1>3. e \in Seq(Bytes)
  <2>1. Byte("junk") \in Bytes /\ CR \in Bytes /\ LF \in Bytes /\ Size(0) \in Bytes
    BY BytesAre
  <2>2. <<Byte("junk"), CR, LF>> \in Seq(Bytes) /\ <<Size(0), CR, LF, CR, LF>> \in Seq(Bytes)
    BY <2>1
  <2> QED BY <2>2 DEF Ending
<1> HIDE DEF p, M, e
<1>4. /\ Chunks(p) \in Seq(Seq(Bytes)) /\ Len(Chunks(p)) = M
      /\ \A k \in 1 .. M : Chunks(p)[k] = Chunk(p[k])
  <2>1. DOMAIN p = 1 .. M
    BY <1>2, LenProperties DEF M
  <2>2. \A k \in 1 .. M : k - 1 \in 0 .. M - 1 /\ (k - 1) + 1 = k
    BY <1>2
  <2>3. \A k \in 1 .. M : Chunk(p[k]) \in Seq(Bytes)
    BY <1>2, <2>2, ChunkIs
  <2> QED BY <1>2, <2>1, <2>3 DEF Chunks
<1>5. /\ After(Chunks(p), 0) = FlattenSeq(Chunks(p)) /\ After(Chunks(p), M) = <<>>
      /\ \A k \in 0 .. M : After(Chunks(p), k) \in Seq(Bytes)
      /\ \A k \in 0 .. M - 1 : After(Chunks(p), k) = Chunks(p)[k + 1] \o After(Chunks(p), k + 1)
  BY <1>4, AfterIs
<1>6. \A k : ChunkTape(r, k) = After(Chunks(p), k) \o e
  BY DEF ChunkTape, p, e
<1>7. \A k \in 0 .. M : ChunkTape(r, k) \in Seq(Bytes)
  <2>1. \A q \in Seq(Bytes) : q \o e \in Seq(Bytes)
    BY <1>3, Joins
  <2> QED BY <1>5, <1>6, <2>1
<1>8. ChunkTape(r, M) = e
  <2>1. <<>> \o e = e
    BY <1>3, ConcatEmptySeq
  <2> QED BY <1>5, <1>6, <2>1
<1>9. ASSUME NEW k \in 0 .. M - 1 PROVE ChunkTape(r, k) = Chunk(p[k + 1]) \o ChunkTape(r, k + 1)
  <2> DEFINE c == Chunk(p[k + 1])
             t == After(Chunks(p), k + 1)
  <2>1. k + 1 \in 1 .. M /\ k + 1 \in 0 .. M
    BY <1>2
  <2>2. c \in Seq(Bytes) /\ t \in Seq(Bytes) /\ After(Chunks(p), k) = c \o t
    BY <1>2, <1>4, <1>5, <2>1, ChunkIs
  <2>3. ChunkTape(r, k) = (c \o t) \o e /\ ChunkTape(r, k + 1) = t \o e
    BY <1>6, <2>2
  <2> HIDE DEF c, t
  <2>4. (c \o t) \o e = c \o (t \o e)
    BY <1>3, <2>2, ConcatAssociative
  <2> QED BY <2>3, <2>4 DEF c
<1>10. ChunkTape(r, 0) = FlattenSeq(Chunks(p)) \o e
  BY <1>5, <1>6
<1> QED BY <1>2, <1>3, <1>7, <1>8, <1>9, <1>10 DEF p, M, e

\* The first line of what has arrived of a chunk.
Opens(buf, v, b) ==
  /\ Crlfs(buf) # {} => Min(Crlfs(buf)) = 2 /\ Len(buf) >= 3 /\ buf[1] = b
  /\ v = <<>> => Crlfs(buf) # {}

\* The first CRLF that arrives is that of the size line.
LEMMA CrlfFirst ==
  ASSUME NEW buf \in Seq(Bytes), NEW v \in Seq(Bytes), NEW more \in Seq(Bytes), NEW b \in Bytes,
         b # CR, buf \o v = Triples(b) \o more
  PROVE  Opens(buf, v, b)
<1> DEFINE w == Triples(b)
<1>0. /\ w \in Seq(Bytes) /\ Len(w) = 3 /\ w[1] = b /\ w[2] = CR /\ w[3] = LF /\ CR # LF
      /\ Len(buf) \in Nat /\ Len(v) \in Nat /\ Len(more) \in Nat
  BY TripleIs, BytesAre, LenProperties
<1> HIDE DEF w
<1>1. \A i \in 1 .. Len(buf) : i <= 3 => buf[i] = w[i]
  <2>1. ASSUME NEW i \in 1 .. Len(buf), i <= 3 PROVE buf[i] = w[i]
    <3>1. i \in 1 .. Len(buf) + Len(v) /\ i \in 1 .. Len(w) + Len(more) /\ i <= Len(w) /\ i <= Len(buf)
      BY <1>0, <2>1
    <3>2. (buf \o v)[i] = buf[i]
      BY <3>1, ConcatProperties
    <3>3. (w \o more)[i] = w[i]
      BY <1>0, <3>1, ConcatProperties
    <3> QED BY <3>2, <3>3 DEF w
  <2> QED BY <2>1
<1>2. ASSUME Len(buf) >= 3
      PROVE  Min(Crlfs(buf)) = 2 /\ buf[1] = b /\ Crlfs(buf) # {}
  <2>1. buf[1] = b /\ buf[2] = CR /\ buf[3] = LF
    <3>1. 1 \in 1 .. Len(buf) /\ 2 \in 1 .. Len(buf) /\ 3 \in 1 .. Len(buf)
      BY <1>0, <1>2
    <3>2. buf[1] = w[1] /\ buf[2] = w[2] /\ buf[3] = w[3]
      BY <1>1, <3>1
    <3> QED BY <1>0, <3>2
  <2>2. Crlfs(buf) \in SUBSET Nat /\ 2 \in Crlfs(buf) /\ \A i \in Crlfs(buf) : i >= 2
    <3>1. Crlfs(buf) \in SUBSET Nat
      BY <1>0 DEF Crlfs
    <3>2. 2 \in Crlfs(buf)
      BY <1>0, <1>2, <2>1 DEF Crlfs
    <3>3. ASSUME NEW i \in Crlfs(buf) PROVE i >= 2
      <4>1. i \in Nat /\ i >= 1 /\ buf[i] = CR
        BY <1>0 DEF Crlfs
      <4>2. i # 1
        BY <2>1, <4>1
      <4> QED BY <4>1, <4>2
    <3> QED BY <3>1, <3>2, <3>3
  <2>3. Min(Crlfs(buf)) \in Crlfs(buf) /\ Min(Crlfs(buf)) <= 2
    BY <2>2, MinIs
  <2>4. Min(Crlfs(buf)) >= 2 /\ Min(Crlfs(buf)) \in Nat
    BY <2>2, <2>3
  <2> QED BY <2>1, <2>2, <2>3, <2>4
<1>3. ASSUME Crlfs(buf) # {} PROVE Len(buf) >= 3
  <2>1. PICK i \in 1 .. Len(buf) - 1 : buf[i] = CR /\ buf[i + 1] = LF
    BY <1>3 DEF Crlfs
  <2>2. CASE i = 1
    <3>1. buf[1] = b
      BY <1>0, <1>1, <2>1, <2>2
    <3> QED BY <2>1, <2>2, <3>1
  <2>3. CASE i # 1
    BY <1>0, <2>1, <2>3
  <2> QED BY <2>2, <2>3
<1>4. ASSUME v = <<>> PROVE Len(buf) >= 3
  <2>1. buf = w \o more
    BY <1>4, ConcatEmptySeq DEF w
  <2>2. Len(w \o more) = 3 + Len(more)
    BY <1>0, Joins
  <2> QED BY <1>0, <2>1, <2>2
<1> QED BY <1>2, <1>3, <1>4 DEF Opens

\* A step of decodeBody: a corrupt chunk, the last one, one that has not come in
\* full, or one that is taken.
Dealt(r, x, y, k, v) ==
  /\ y \in Steps /\ Aside(x, y)
  /\ \/ /\ r.bad /\ y.p.done /\ y.out = Append(x.out, Item("error", <<>>))
        /\ y.p.sse = x.p.sse /\ y.p.ended = x.p.ended
     \/ /\ ~r.bad /\ k = Len(PartsOf(r)) /\ y.p.buf = <<>> /\ y.p.ended
        /\ y.p.sse = x.p.sse /\ y.out = x.out /\ y.p.done = x.p.done
     \/ y = x /\ v # <<>>
     \/ /\ k < Len(PartsOf(r)) /\ y.p.buf \o v = ChunkTape(r, k + 1)
        /\ PartsOf(r)[k + 1] # <<>> /\ y.p.sse = x.p.sse \o PartsOf(r)[k + 1]
        /\ y.out = x.out /\ y.p.done = x.p.done /\ y.p.ended = x.p.ended

\* A round of decodeBody takes the next chunk that was sent, when all of it
\* is there.
LEMMA ChunkMoves ==
  ASSUME NEW r, Meant(r), r.size # 0, NEW x \in Steps, ~x.p.done, NEW v \in Seq(Bytes),
         NEW k \in 0 .. Len(PartsOf(r)), x.p.buf \o v = ChunkTape(r, k)
  PROVE  /\ v = <<>> => Crlfs(x.p.buf) # {}
         /\ Crlfs(x.p.buf) # {} => Dealt(r, x, ChunkStep(x), k, v)
<1> DEFINE buf == x.p.buf
           y == ChunkStep(x)
           p == PartsOf(r)
           M == Len(p)
<1>0. buf \in Seq(Bytes) /\ Len(buf) \in Nat /\ M \in Nat /\ k \in 0 .. M
  BY Typed, LenProperties, ChunkTapeIs
<1>1. Crlfs(buf) # {} => ChunkRead(x, y)
  BY ChunkStepIs
<1>2. CASE k # M
  <2> DEFINE part == p[k + 1]
             n == Len(part)
             T == ChunkTape(r, k + 1)
             c == Chunk(part)
             b == Size(n)
             more == part \o <<CR, LF>>
  <2>0. k \in 0 .. M - 1 /\ k + 1 \in 0 .. M /\ k < M
    BY <1>0, <1>2
  <2>1. part \in Seq(Bytes) /\ part # <<>> /\ buf \o v = c \o T /\ T \in Seq(Bytes)
    BY <2>0, ChunkTapeIs
  <2> HIDE DEF T, part
  <2>2. /\ c \in Seq(Bytes) /\ Len(c) = n + 5 /\ n \in Nat /\ n # 0 /\ b \in Bytes /\ b # CR
        /\ c = Triples(b) \o more /\ more \in Seq(Bytes) /\ SubSeq(c, 4, 3 + n) = part
    BY <2>1, ChunkIs
  <2>3. b.is = "size" /\ b.n = n
    BY <2>2, BytesAre
  <2> HIDE DEF c, more, b, n
  <2>4. buf \o v = Triples(b) \o (more \o T) /\ more \o T \in Seq(Bytes)
    <3>1. Triples(b) \in Seq(Bytes)
      BY <2>2, TripleIs
    <3>2. (Triples(b) \o more) \o T = Triples(b) \o (more \o T)
      <4> DEFINE a == Triples(b)
      <4>1. a \in Seq(Bytes) /\ more \in Seq(Bytes) /\ T \in Seq(Bytes)
        BY <2>1, <2>2, <3>1
      <4> HIDE DEF a
      <4>2. (a \o more) \o T = a \o (more \o T)
        BY <4>1, Regroup, Zenon
      <4> QED BY <4>2 DEF a
    <3>3. more \o T \in Seq(Bytes)
      BY <2>1, <2>2, Joins
    <3> QED BY <2>1, <2>2, <3>2, <3>3
  <2>5. /\ Crlfs(buf) # {} => Min(Crlfs(buf)) = 2 /\ Len(buf) >= 3 /\ buf[1] = b
        /\ v = <<>> => Crlfs(buf) # {}
    <3>1. Opens(buf, v, b)
      <4> HIDE DEF buf
      <4> QED BY <1>0, <2>2, <2>4, CrlfFirst
    <3> QED BY <3>1 DEF Opens
  <2>6. ASSUME Crlfs(buf) # {} PROVE Dealt(r, x, y, k, v)
    <3>1. /\ y \in Steps /\ Aside(x, y) /\ y.out = x.out /\ y.p.done = x.p.done
          /\ Len(buf) < 2 + 3 + n => y = x
          /\ ~(Len(buf) < 2 + 3 + n) => /\ y.p.sse = x.p.sse \o SubSeq(buf, 2 + 2, 2 + 1 + n)
                                        /\ y.p.buf = From(buf, 2 + n + 4) /\ y.p.ended = x.p.ended
      <4>1. Min(Crlfs(buf)) = 2 /\ buf[1].is = "size" /\ buf[1].n = n
        BY <2>3, <2>5, <2>6
      <4> HIDE DEF y
      <4> QED BY <1>1, <2>2, <2>6, <4>1 DEF ChunkRead
    <3>2. CASE Len(buf) < n + 5
      <4>1. y = x
        BY <1>0, <2>2, <3>1, <3>2
      <4>2. v # <<>>
        <5>1. SUFFICES ASSUME v = <<>> PROVE FALSE
          OBVIOUS
        <5>2. buf = c \o T
          <6> HIDE DEF buf
          <6>1. buf \o <<>> = buf
            BY <1>0, ConcatEmptySeq
          <6> QED BY <2>1, <5>1, <6>1 DEF buf
        <5>3. Len(c \o T) = Len(c) + Len(T) /\ Len(T) \in Nat
          BY <2>1, <2>2, Joins, LenProperties
        <5> QED BY <2>2, <3>2, <5>2, <5>3
      <4> HIDE DEF y
      <4> QED BY <3>1, <4>1, <4>2 DEF Dealt
    <3>3. CASE ~(Len(buf) < n + 5)
      <4>0. ~(Len(buf) < 2 + 3 + n) /\ 2 + 2 = 4 /\ 2 + 1 + n = 3 + n /\ 2 + n + 4 = (n + 5) + 1
            /\ Len(c) <= Len(buf)
        <5> HIDE DEF buf
        <5> QED BY <1>0, <2>2, <3>3
      <4>1. Split(Bytes, buf, v, c, T)
        <5> HIDE DEF buf
        <5> QED BY <1>0, <2>1, <2>2, <4>0, Splits DEF buf
      <4>2. From(buf, (n + 5) + 1) \o v = T
        BY <2>2, <4>1 DEF Split
      <4>3. SubSeq(buf, 4, 3 + n) = part
        <5> DEFINE w == From(buf, (n + 5) + 1)
        <5>1. buf = c \o w /\ w \in Seq(Bytes)
          BY <2>2, <4>1 DEF Split
        <5> HIDE DEF w
        <5>2. 4 \in 1 .. Len(c) /\ 3 + n \in 1 .. Len(c)
          BY <2>2
        <5>3. SubSeq(c \o w, 4, 3 + n) = SubSeq(c, 4, 3 + n)
          BY <2>2, <5>1, <5>2, SubSeqOfConcat1
        <5> QED BY <2>2, <5>1, <5>3
      <4>4. /\ y.p.sse = x.p.sse \o SubSeq(buf, 4, 3 + n) /\ y.p.buf = From(buf, (n + 5) + 1)
            /\ y.p.ended = x.p.ended
        <5> HIDE DEF y
        <5> QED BY <3>1, <4>0
      <4> HIDE DEF y
      <4> QED BY <2>0, <2>1, <3>1, <4>2, <4>3, <4>4 DEF Dealt, T, part, buf
    <3> QED BY <3>2, <3>3
  <2> QED BY <2>5, <2>6
<1>3. CASE k = M
  <2>1. buf \o v = Ending(r)
    BY <1>3, ChunkTapeIs
  <2>2. CASE r.bad
    <3> DEFINE b == Byte("junk")
    <3>1. b \in Bytes /\ b # CR /\ b.is # "size" /\ <<>> \in Seq(Bytes)
      BY BytesAre
    <3> HIDE DEF b
    <3>2. buf \o v = Triples(b) \o <<>>
      <4>1. Triples(b) \o <<>> = Triples(b)
        BY <3>1, TripleIs, ConcatEmptySeq
      <4> QED BY <2>1, <2>2, <4>1 DEF Ending, Triples, b
    <3>3. /\ Crlfs(buf) # {} => buf[1] = b
          /\ v = <<>> => Crlfs(buf) # {}
      <4>1. Opens(buf, v, b)
        <5> HIDE DEF buf
        <5> QED BY <1>0, <3>1, <3>2, CrlfFirst
      <4> QED BY <4>1 DEF Opens
    <3>4. ASSUME Crlfs(buf) # {} PROVE Dealt(r, x, y, k, v)
      <4>1. buf[1].is # "size"
        BY <3>1, <3>3, <3>4
      <4> HIDE DEF y
      <4>2. /\ y \in Steps /\ Aside(x, y) /\ y.out = Append(x.out, Item("error", <<>>)) /\ y.p.done
            /\ y.p.sse = x.p.sse /\ y.p.ended = x.p.ended
        BY <1>1, <3>4, <4>1 DEF ChunkRead
      <4> QED BY <2>2, <4>2 DEF Dealt
    <3> QED BY <3>3, <3>4
  <2>3. CASE ~r.bad
    <3> DEFINE b == Size(0)
               z == <<CR, LF>>
    <3>1. b \in Bytes /\ b # CR /\ b.is = "size" /\ b.n = 0
      BY BytesAre
    <3>2. z \in Seq(Bytes)
      BY CrlfIs
    <3>3. buf \o v = Triples(b) \o z
      <4>1. CR \in Bytes /\ LF \in Bytes
        BY BytesAre
      <4>2. <<b, CR, LF, CR, LF>> = <<b, CR, LF>> \o <<CR, LF>>
        BY <3>1, <4>1
      <4> QED BY <2>1, <2>3, <4>2 DEF Ending, Triples
    <3> HIDE DEF b, z
    <3>4. /\ Crlfs(buf) # {} => buf[1] = b
          /\ v = <<>> => Crlfs(buf) # {}
      <4>1. Opens(buf, v, b)
        <5> HIDE DEF buf
        <5> QED BY <1>0, <3>1, <3>2, <3>3, CrlfFirst
      <4> QED BY <4>1 DEF Opens
    <3>5. ASSUME Crlfs(buf) # {} PROVE Dealt(r, x, y, k, v)
      <4>1. buf[1].is = "size" /\ buf[1].n = 0
        BY <3>1, <3>4, <3>5
      <4> HIDE DEF y
      <4>2. /\ y \in Steps /\ Aside(x, y) /\ y.out = x.out /\ y.p.done = x.p.done
            /\ y.p.buf = <<>> /\ y.p.ended /\ y.p.sse = x.p.sse
        BY <1>1, <3>5, <4>1 DEF ChunkRead
      <4> QED BY <1>3, <2>3, <4>2 DEF Dealt
    <3> QED BY <3>4, <3>5
  <2> QED BY <2>2, <2>3
<1> QED BY <1>2, <1>3

-----------------------------------------------------------------------------
(* What is returned.                                                       *)

\* The events returned, item by item.
LEMMA DataIs ==
  /\ DataOf(<<>>) = <<>>
  /\ \A s \in Seq(Items), item \in Items :
       /\ DataOf(s) \in Seq(Seq(Bytes))
       /\ DataOf(Append(s, item)) = DataOf(s) \o Datum(item)
       /\ item.kind # "data" => DataOf(Append(s, item)) = DataOf(s)
       /\ item.kind = "data" => DataOf(Append(s, item)) = Append(DataOf(s), item.event)
<1> DEFINE R == Seq(Bytes)
           D(s) == [i \in DOMAIN s |-> Datum(s[i])]
<1>1. \A item \in Items : /\ Datum(item) \in Seq(R) /\ item.event \in R
                          /\ item.kind # "data" => Datum(item) = <<>>
                          /\ item.kind = "data" => Datum(item) = <<item.event>>
  <2>1. \A item \in Items : item.event \in R
    BY DEF Items
  <2> HIDE DEF R
  <2>2. \A e \in R : <<e>> \in Seq(R)
    OBVIOUS
  <2>3. <<>> \in Seq(R)
    OBVIOUS
  <2> QED BY <2>1, <2>2, <2>3 DEF Datum
<1>2. \A s \in Seq(Items) : /\ D(s) \in Seq(Seq(R)) /\ Len(D(s)) = Len(s) /\ Len(s) \in Nat
                            /\ \A i \in 1 .. Len(s) : D(s)[i] = Datum(s[i])
  <2> SUFFICES ASSUME NEW s \in Seq(Items)
               PROVE  /\ D(s) \in Seq(Seq(R)) /\ Len(D(s)) = Len(s) /\ Len(s) \in Nat
                      /\ \A i \in 1 .. Len(s) : D(s)[i] = Datum(s[i])
    OBVIOUS
  <2>1. Len(s) \in Nat /\ DOMAIN s = 1 .. Len(s) /\ \A i \in 1 .. Len(s) : s[i] \in Items
    BY LenProperties
  <2>2. \A i \in 1 .. Len(s) : Datum(s[i]) \in Seq(R)
    BY <1>1, <2>1
  <2> HIDE DEF R
  <2> QED BY <2>1, <2>2
<1>3. \A s : DataOf(s) = FlattenSeq(D(s))
  BY DEF DataOf
<1>4. DataOf(<<>>) = <<>>
  <2>1. <<>> \in Seq(Items)
    OBVIOUS
  <2>2. Len(D(<<>>)) = 0 /\ D(<<>>) \in Seq(Seq(R))
    BY <1>2, <2>1
  <2> HIDE DEF D
  <2>3. D(<<>>) = <<>>
    BY <2>2, EmptySeq
  <2> QED BY <1>3, <2>3, FlatEmpty
<1>5. ASSUME NEW s \in Seq(Items), NEW item \in Items
      PROVE  /\ DataOf(s) \in Seq(R)
             /\ DataOf(Append(s, item)) = DataOf(s) \o Datum(item)
             /\ item.kind # "data" => DataOf(Append(s, item)) = DataOf(s)
             /\ item.kind = "data" => DataOf(Append(s, item)) = Append(DataOf(s), item.event)
  <2> DEFINE t == Append(s, item)
             N == Len(s)
             z == Datum(item)
  <2>1. /\ t \in Seq(Items) /\ Len(t) = N + 1 /\ t[N + 1] = item /\ N \in Nat
        /\ \A i \in 1 .. N : t[i] = s[i]
    BY AppendProperties, LenProperties
  <2>2. z \in Seq(R)
    BY <1>1
  <2> HIDE DEF t, z, N
  <2>3. /\ D(t) \in Seq(Seq(R)) /\ Len(D(t)) = N + 1 /\ \A i \in 1 .. N + 1 : D(t)[i] = Datum(t[i])
        /\ D(s) \in Seq(Seq(R)) /\ Len(D(s)) = N /\ \A i \in 1 .. N : D(s)[i] = Datum(s[i])
    BY <1>2, <2>1 DEF N
  <2> HIDE DEF D
  <2>4. D(t) = Append(D(s), z)
    <3> DEFINE a == Append(D(s), z)
    <3>1. /\ a \in Seq(Seq(R)) /\ Len(a) = N + 1 /\ a[N + 1] = z
          /\ \A i \in 1 .. N : a[i] = D(s)[i]
      BY <2>2, <2>3, AppendProperties
    <3> HIDE DEF a
    <3>2. \A i \in 1 .. N + 1 : D(t)[i] = a[i]
      <4>1. ASSUME NEW i \in 1 .. N + 1 PROVE D(t)[i] = a[i]
        <5>1. CASE i = N + 1
          BY <2>1, <2>3, <3>1, <5>1 DEF z
        <5>2. CASE i # N + 1
          <6>1. i \in 1 .. N
            BY <2>1, <5>2
          <6> QED BY <2>1, <2>3, <3>1, <6>1
        <5> QED BY <5>1, <5>2
      <4> QED BY <4>1
    <3>3. D(t) = a
      BY <2>3, <3>1, <3>2, SeqEqual
    <3> QED BY <3>3 DEF a
  <2>5. /\ FlattenSeq(D(s)) \in Seq(R) /\ FlattenSeq(Append(D(s), z)) = FlattenSeq(D(s)) \o z
    BY <2>2, <2>3, FlatAppend
  <2>6. DataOf(s) \in Seq(R) /\ DataOf(t) = DataOf(s) \o z
    BY <1>3, <2>4, <2>5
  <2>7. ASSUME item.kind # "data" PROVE DataOf(t) = DataOf(s)
    <3>1. z = <<>>
      BY <1>1, <2>7 DEF z
    <3> QED BY <2>6, <3>1, ConcatEmptySeq
  <2>8. ASSUME item.kind = "data" PROVE DataOf(t) = Append(DataOf(s), item.event)
    <3>1. z = <<item.event>> /\ item.event \in R
      BY <1>1, <2>8 DEF z
    <3>2. Append(DataOf(s), item.event) = DataOf(s) \o <<item.event>>
      BY <2>6, <3>1, AppendIsConcat
    <3> QED BY <2>6, <3>1, <3>2
  <2> QED BY <2>6, <2>7, <2>8 DEF t, z
<1> QED BY <1>4, <1>5

\* What is returned of the first i events, and of all of a response.
Got(r, i) == <<Item("headers", <<>>)>> \o [k \in 1 .. i |-> Item("data", r.events[k])]
Whole(r) == Append(Got(r, Len(r.events)), Item(IF r.status = 200 THEN "done" ELSE "error", <<>>))

\* An event of a response makes an item.
LEMMA EventTyped ==
  ASSUME NEW r, Meant(r), NEW i \in 1 .. Len(r.events)
  PROVE  /\ r.events[i] \in Seq(TextBytes) /\ r.events[i] \in Seq(Bytes)
         /\ Item("data", r.events[i]) \in Items /\ Item("data", r.events[i]).kind = "data"
         /\ Item("data", r.events[i]).event = r.events[i]
<1>1. r.events[i] \in Events
  <2>1. r.events \in Seq(Events)
    BY AllIs
  <2> QED BY <2>1, LenProperties
<1>2. r.events[i] \in Seq(TextBytes)
  BY <1>1, EventsAre
<1>3. r.events[i] \in Seq(Bytes)
  <2>1. TextBytes \subseteq Bytes
    BY BytesAre
  <2> QED BY <1>2, <2>1, SeqMonotonic
<1> QED BY <1>2, <1>3, Typed DEF Kinds

\* The first i events, as items and as what they say.
LEMMA GotIs ==
  ASSUME NEW r, Meant(r)
  PROVE  /\ Len(r.events) \in Nat
         /\ Got(r, 0) = <<Item("headers", <<>>)>>
         /\ \A i \in 0 .. Len(r.events) : Got(r, i) \in Seq(Items)
         /\ \A i \in 0 .. Len(r.events) - 1 : Got(r, i + 1) = Append(Got(r, i), Item("data", r.events[i + 1]))
         /\ \A i \in 0 .. Len(r.events) : DataOf(Got(r, i)) = SubSeq(r.events, 1, i)
<1> DEFINE n == Len(r.events)
           h == <<Item("headers", <<>>)>>
           d(i) == Item("data", r.events[i])
           f(i) == [k \in 1 .. i |-> d(k)]
<1>1. n \in Nat /\ r.events \in Seq(Events)
  BY AllIs
<1>2. \A i \in 1 .. n : d(i) \in Items
  BY EventTyped
<1>3. h \in Seq(Items) /\ Item("headers", <<>>) \in Items /\ Item("headers", <<>>).kind = "headers"
  <2> DEFINE z == Item("headers", <<>>)
  <2>1. z \in Items /\ z.kind = "headers"
    BY Typed DEF Kinds
  <2> HIDE DEF z
  <2>2. <<z>> \in Seq(Items)
    BY <2>1
  <2> QED BY <2>1, <2>2 DEF z
<1> HIDE DEF d, n
<1>4. \A i \in 0 .. n : f(i) \in Seq(Items) /\ Len(f(i)) = i /\ \A k \in 1 .. i : f(i)[k] = d(k)
  <2> SUFFICES ASSUME NEW i \in 0 .. n
               PROVE  f(i) \in Seq(Items) /\ Len(f(i)) = i /\ \A k \in 1 .. i : f(i)[k] = d(k)
    OBVIOUS
  <2>1. i \in Nat /\ \A k \in 1 .. i : k \in 1 .. n
    BY <1>1
  <2>2. \A k \in 1 .. i : d(k) \in Items
    BY <1>2, <2>1
  <2> QED BY <2>1, <2>2
<1>5. \A i : Got(r, i) = h \o f(i)
  BY DEF Got, d
<1> HIDE DEF f, h
<1>6. \A i \in 0 .. n : Got(r, i) \in Seq(Items)
  BY <1>3, <1>4, <1>5, Joins
<1>7. Got(r, 0) = h
  <2>1. 0 \in 0 .. n
    BY <1>1
  <2>2. f(0) = <<>>
    BY <1>4, <2>1, EmptySeq
  <2> QED BY <1>3, <1>5, <2>2, ConcatEmptySeq
<1>8. ASSUME NEW i \in 0 .. n - 1 PROVE Got(r, i + 1) = Append(Got(r, i), d(i + 1))
  <2>1. i \in 0 .. n /\ i + 1 \in 0 .. n /\ i + 1 \in 1 .. n /\ i \in Nat
    BY <1>1
  <2>2. f(i + 1) = Append(f(i), d(i + 1))
    <3> DEFINE a == Append(f(i), d(i + 1))
    <3>1. /\ a \in Seq(Items) /\ Len(a) = i + 1 /\ a[i + 1] = d(i + 1)
          /\ \A k \in 1 .. i : a[k] = f(i)[k]
      BY <1>2, <1>4, <2>1, AppendProperties
    <3>2. f(i + 1) \in Seq(Items) /\ Len(f(i + 1)) = i + 1 /\ \A k \in 1 .. i + 1 : f(i + 1)[k] = d(k)
      BY <1>4, <2>1
    <3> HIDE DEF a
    <3>3. \A k \in 1 .. i + 1 : f(i + 1)[k] = a[k]
      <4>1. \A k \in 1 .. i + 1 : k = i + 1 \/ k \in 1 .. i
        BY <2>1
      <4>2. \A k \in 1 .. i : a[k] = d(k)
        BY <1>4, <2>1, <3>1
      <4> QED BY <3>1, <3>2, <4>1, <4>2
    <3>4. f(i + 1) = a
      BY <3>1, <3>2, <3>3, SeqEqual
    <3> QED BY <3>4 DEF a
  <2>3. h \o Append(f(i), d(i + 1)) = Append(h \o f(i), d(i + 1))
    <3>1. f(i) \in Seq(Items) /\ d(i + 1) \in Items
      BY <1>2, <1>4, <2>1
    <3> QED BY <1>3, <3>1, AppendLast
  <2> QED BY <1>5, <2>2, <2>3
<1>9. \A i \in 0 .. n : DataOf(Got(r, i)) = SubSeq(r.events, 1, i)
  <2> DEFINE K == {i \in Nat : i <= n => DataOf(Got(r, i)) = SubSeq(r.events, 1, i)}
  <2>1. 0 \in K
    <3>1. SubSeq(r.events, 1, 0) = <<>>
      BY SubSeqEmpty
    <3>2. DataOf(h) = <<>>
      <4>1. h = Append(<<>>, Item("headers", <<>>)) /\ <<>> \in Seq(Items)
        BY <1>3 DEF h
      <4> QED BY <1>3, <4>1, DataIs
    <3> QED BY <1>7, <3>1, <3>2
  <2>2. ASSUME NEW i \in Nat, i \in K PROVE i + 1 \in K
    <3>0. SUFFICES ASSUME i + 1 <= n PROVE DataOf(Got(r, i + 1)) = SubSeq(r.events, 1, i + 1)
      OBVIOUS
    <3>1. /\ i \in 0 .. n - 1 /\ i \in 0 .. n /\ i + 1 \in 1 .. n /\ (i + 1) - 1 = i /\ 1 \in 1 .. n
          /\ i + 1 \in 1 .. n
      BY <1>1, <3>0
    <3>2. DataOf(Got(r, i)) = SubSeq(r.events, 1, i)
      BY <1>1, <2>2, <3>0
    <3>3. d(i + 1) \in Items /\ d(i + 1).kind = "data" /\ d(i + 1).event = r.events[i + 1]
      BY <3>1, EventTyped DEF d, n
    <3>4. DataOf(Got(r, i + 1)) = Append(DataOf(Got(r, i)), r.events[i + 1])
      BY <1>6, <1>8, <3>1, <3>3, DataIs
    <3>5. SubSeq(r.events, 1, i + 1) = SubSeq(r.events, 1, i) \o <<r.events[i + 1]>>
      BY <1>1, <3>1, SubSeqRecursiveSecond DEF n
    <3>6. SubSeq(r.events, 1, i) \in Seq(Events) /\ r.events[i + 1] \in Events
      <4>1. i <= Len(r.events) /\ 1 \in Nat
        BY <1>1, <3>1 DEF n
      <4>2. SubSeq(r.events, 1, i) \in Seq(Events)
        BY <1>1, <4>1, PartIs
      <4> QED BY <1>1, <3>1, <4>2, LenProperties DEF n
    <3>7. Append(SubSeq(r.events, 1, i), r.events[i + 1]) = SubSeq(r.events, 1, i) \o <<r.events[i + 1]>>
      BY <3>6, AppendIsConcat
    <3> QED BY <3>2, <3>4, <3>5, <3>7
  <2> HIDE DEF K
  <2>3. Nat \subseteq K
    BY <2>1, <2>2, SetInduction
  <2>4. ASSUME NEW i \in 0 .. n PROVE DataOf(Got(r, i)) = SubSeq(r.events, 1, i)
    <3>1. i \in K /\ i \in Nat /\ i <= n
      BY <1>1, <2>3
    <3> QED BY <3>1 DEF K
  <2> QED BY <2>4
<1> QED BY <1>1, <1>6, <1>7, <1>8, <1>9 DEF n, h, d

\* What is returned of a response that has ended: as much of its events as
\* there is, and an end.
Cut(r, s) == /\ \E j \in 0 .. Len(r.events) : DataOf(s) = SubSeq(r.events, 1, j)
             /\ \E k \in DOMAIN s : s[k].kind \in {"done", "error"}
Fits(r, s) == Cut(r, s) /\ (~r.bad => s = Whole(r))

\* What has an end keeps it; the next event, or an end, may follow.
LEMMA CutIs ==
  ASSUME NEW r, Meant(r), NEW s \in Seq(Items), NEW item \in Items
  PROVE  /\ \A i \in 0 .. Len(r.events) :
              DataOf(s) = SubSeq(r.events, 1, i) /\ item.kind \in {"done", "error"} => Cut(r, Append(s, item))
         /\ Cut(r, s) /\ item.kind \in {"done", "error"} => Cut(r, Append(s, item))
         /\ \A i \in 0 .. Len(r.events) - 1 :
              /\ DataOf(s) = SubSeq(r.events, 1, i) /\ Cut(r, s)
              /\ item = Item("data", r.events[i + 1])
              => Cut(r, Append(s, item))
<1> DEFINE n == Len(r.events)
           t == Append(s, item)
<1>1. n \in Nat /\ r.events \in Seq(Events)
  BY AllIs
<1>2. Len(s) \in Nat /\ DOMAIN s = 1 .. Len(s) /\ DOMAIN t = 1 .. Len(s) + 1 /\ t[Len(s) + 1] = item
      /\ \A k \in 1 .. Len(s) : t[k] = s[k]
  BY LenProperties, AppendProperties
<1> HIDE DEF t
<1>3. item.kind \in {"done", "error"} => DataOf(t) = DataOf(s) /\ \E k \in DOMAIN t : t[k].kind \in {"done", "error"}
  <2>1. Len(s) + 1 \in DOMAIN t
    BY <1>2
  <2>2. item.kind # "data" => DataOf(t) = DataOf(s)
    BY DataIs DEF t
  <2> QED BY <1>2, <2>1, <2>2
<1>4. (\E k \in DOMAIN s : s[k].kind \in {"done", "error"}) => \E k \in DOMAIN t : t[k].kind \in {"done", "error"}
  BY <1>2
<1>5. ASSUME NEW i \in 0 .. n - 1, DataOf(s) = SubSeq(r.events, 1, i), Cut(r, s),
             item = Item("data", r.events[i + 1])
      PROVE  Cut(r, t)
  <2>1. i + 1 \in 1 .. n /\ i + 1 \in 0 .. n /\ 1 \in 1 .. n /\ (i + 1) - 1 = i /\ i \in 0 .. n
    BY <1>1
  <2>2. item.kind = "data" /\ item.event = r.events[i + 1]
    BY <1>5, <2>1, EventTyped
  <2>3. DataOf(t) = Append(SubSeq(r.events, 1, i), r.events[i + 1])
    BY <1>5, <2>2, DataIs DEF t
  <2>4. SubSeq(r.events, 1, i + 1) = SubSeq(r.events, 1, i) \o <<r.events[i + 1]>>
    BY <1>1, <2>1, SubSeqRecursiveSecond
  <2>5. SubSeq(r.events, 1, i) \in Seq(Events) /\ r.events[i + 1] \in Events
    <3>1. i <= Len(r.events) /\ 1 \in Nat /\ i \in Nat
      BY <1>1
    <3>2. SubSeq(r.events, 1, i) \in Seq(Events)
      BY <1>1, <3>1, PartIs
    <3> QED BY <1>1, <2>1, <3>2, LenProperties
  <2>6. Append(SubSeq(r.events, 1, i), r.events[i + 1]) = SubSeq(r.events, 1, i) \o <<r.events[i + 1]>>
    BY <2>5, AppendIsConcat
  <2>7. DataOf(t) = SubSeq(r.events, 1, i + 1)
    BY <2>3, <2>4, <2>6
  <2> QED BY <1>4, <1>5, <2>1, <2>7 DEF Cut
<1>6. \A i \in 0 .. n : DataOf(s) = SubSeq(r.events, 1, i) /\ item.kind \in {"done", "error"} => Cut(r, t)
  BY <1>3 DEF Cut
<1>7. Cut(r, s) /\ item.kind \in {"done", "error"} => Cut(r, t)
  BY <1>3 DEF Cut
<1> QED BY <1>5, <1>6, <1>7 DEF t

\* The two items that end a stream.
LEMMA EndItems ==
  /\ Item("done", <<>>) \in Items /\ Item("done", <<>>).kind \in {"done", "error"}
  /\ Item("error", <<>>) \in Items /\ Item("error", <<>>).kind \in {"done", "error"}
BY Typed DEF Kinds

\* All of a response is what should be returned of it.
LEMMA WholeFits ==
  ASSUME NEW r, Meant(r)
  PROVE  /\ Fits(r, Whole(r))
         /\ r.status = 200 => Whole(r) = Append(Got(r, Len(r.events)), Item("done", <<>>))
         /\ r.status # 200 => Whole(r) = Append(Got(r, Len(r.events)), Item("error", <<>>))
<1> DEFINE n == Len(r.events)
           g == Got(r, n)
           item == Item(IF r.status = 200 THEN "done" ELSE "error", <<>>)
<1>1. n \in 0 .. n
  BY GotIs
<1>2. g \in Seq(Items) /\ DataOf(g) = SubSeq(r.events, 1, n)
  BY <1>1, GotIs
<1>3. item \in Items /\ item.kind \in {"done", "error"}
  BY EndItems
<1>4. Whole(r) = Append(g, item)
  BY DEF Whole
<1>5. /\ r.status = 200 => item = Item("done", <<>>)
      /\ r.status # 200 => item = Item("error", <<>>)
  OBVIOUS
<1> HIDE DEF item, g
<1>6. Cut(r, Append(g, item))
  BY <1>1, <1>2, <1>3, CutIs
<1> QED BY <1>4, <1>5, <1>6 DEF Fits, g

-----------------------------------------------------------------------------
(* The lines of a read.                                                    *)

\* What has been returned at the place i: no end yet, the error of a corrupt
\* chunk, or the end.
Stands(r, y, s, i) ==
  /\ s \in Seq(Items)
  /\ \/ ~y.p.done /\ y.on /\ i \in 0 .. Len(r.events) /\ s = Got(r, i)
     \/ /\ r.bad /\ y.p.done /\ y.on /\ i \in 0 .. Len(r.events)
        /\ s = Append(Got(r, i), Item("error", <<>>))
     \/ y.p.done /\ ~y.on /\ Fits(r, s)

\* A line read returns what was sent, up to where the parser now is.
LEMMA LineStands ==
  ASSUME NEW r, Meant(r), r.status = 200, NEW x \in Steps, x.on, NEW y \in Steps, NEW had \in Seq(Items),
         NEW i, NEW l, NEW u, Stands(r, x, had \o x.out, i), Moves(r, x, y, i, l, u), i \in 0 .. Len(All(r))
  PROVE  /\ x.p.done => y.p.done
         /\ \E j, m : Sits(r, y, j, m, u) /\ Stands(r, y, had \o y.out, j)
<1> DEFINE n == Len(r.events)
           s == had \o x.out
           t == had \o y.out
<1>0. n \in Nat /\ x.out \in Seq(Items) /\ y.out \in Seq(Items) /\ i \in Nat
  <2>1. Len(All(r)) \in Nat
    BY ParcelsAre
  <2> QED BY <2>1, Typed, GotIs
<1>00. s \in Seq(Items) /\ t \in Seq(Items)
  BY <1>0, Joins
<1>01. \A z \in Items : y.out = Append(x.out, z) => t = Append(s, z)
  <2> DEFINE o == x.out
  <2>1. o \in Seq(Items)
    BY <1>0
  <2> HIDE DEF o
  <2>2. \A z \in Items : had \o Append(o, z) = Append(had \o o, z)
    BY <2>1, AppendLast
  <2> QED BY <2>2 DEF o
<1> HIDE DEF s, t
<1>a. Stands(r, x, s, i)
  BY DEF s
<1>1. CASE Sits(r, y, i, l + 1, u) /\ y.out = x.out /\ y.on = x.on /\ y.p.done = x.p.done
  <2>1. t = s
    BY <1>1 DEF s, t
  <2>2. Stands(r, y, t, i)
    BY <1>1, <1>a, <2>1 DEF Stands
  <2> QED BY <1>1, <2>2 DEF t
<1>2. CASE Sits(r, y, i + 1, 0, u) /\ Ends(r, x, y, i)
  <2>1. CASE i < n
    <3> DEFINE item == Item("data", r.events[i + 1])
    <3>1. y.out = Append(x.out, item) /\ y.p.done = x.p.done /\ y.on = ~y.p.done
      BY <1>2, <2>1 DEF Ends
    <3>2. i + 1 \in 1 .. n /\ i \in 0 .. n - 1 /\ i + 1 \in 0 .. n /\ i \in 0 .. n
      BY <1>0, <2>1
    <3>3. item \in Items
      BY <3>2, EventTyped
    <3>4. t = Append(s, item)
      BY <1>01, <3>1, <3>3
    <3> HIDE DEF item
    <3>5. CASE ~x.p.done /\ s = Got(r, i)
      <4>1. t = Got(r, i + 1)
        <5>1. \A k \in 0 .. Len(r.events) - 1 :
                Got(r, k + 1) = Append(Got(r, k), Item("data", r.events[k + 1]))
          BY GotIs, Zenon
        <5> QED BY <3>2, <3>4, <3>5, <5>1 DEF item
      <4>2. Stands(r, y, t, i + 1)
        BY <1>00, <3>1, <3>2, <3>5, <4>1 DEF Stands
      <4> QED BY <1>2, <3>5, <4>2 DEF t
    <3>6. CASE r.bad /\ x.p.done /\ s = Append(Got(r, i), Item("error", <<>>))
      <4>1. Got(r, i) \in Seq(Items) /\ DataOf(Got(r, i)) = SubSeq(r.events, 1, i)
        BY <3>2, GotIs
      <4>2. Cut(r, s)
        BY <3>2, <3>6, <4>1, EndItems, CutIs
      <4>3. DataOf(s) = SubSeq(r.events, 1, i)
        <5>1. Item("error", <<>>).kind # "data"
          BY EndItems
        <5> QED BY <3>6, <4>1, <5>1, EndItems, DataIs
      <4>4. Cut(r, t)
        BY <1>00, <3>2, <3>3, <3>4, <4>2, <4>3, CutIs DEF item
      <4>5. Stands(r, y, t, i + 1)
        BY <1>00, <3>1, <3>6, <4>4 DEF Stands, Fits
      <4> QED BY <1>2, <3>1, <4>5 DEF t
    <3> QED BY <1>a, <3>5, <3>6 DEF Stands
  <2>2. CASE i >= n
    <3> DEFINE item == Item("done", <<>>)
    <3>1. y.out = Append(x.out, item) /\ y.p.done /\ y.on = ~y.p.done
      BY <1>2, <2>2 DEF Ends
    <3>2. item \in Items /\ item.kind \in {"done", "error"}
      BY EndItems
    <3>3. t = Append(s, item)
      BY <1>01, <3>1, <3>2
    <3>4. i \in 0 .. n => i = n
      BY <1>0, <2>2
    <3> HIDE DEF item
    <3>5. CASE i = n /\ s = Got(r, n)
      <4>1. t = Whole(r)
        BY <3>3, <3>5, WholeFits DEF item
      <4>2. Fits(r, t)
        BY <4>1, WholeFits
      <4>3. Stands(r, y, t, i + 1)
        BY <1>00, <3>1, <4>2 DEF Stands
      <4> QED BY <1>2, <3>1, <4>3 DEF t
    <3>6. CASE i = n /\ r.bad /\ s = Append(Got(r, n), Item("error", <<>>))
      <4>0. n \in 0 .. n
        BY <1>0
      <4>1. Got(r, n) \in Seq(Items) /\ DataOf(Got(r, n)) = SubSeq(r.events, 1, n)
        BY <4>0, GotIs
      <4>2. Cut(r, s)
        BY <3>6, <4>0, <4>1, EndItems, CutIs
      <4>3. Cut(r, t)
        BY <1>00, <3>2, <3>3, <4>2, CutIs
      <4>4. Stands(r, y, t, i + 1)
        BY <1>00, <3>1, <3>6, <4>3 DEF Stands, Fits
      <4> QED BY <1>2, <3>1, <4>4 DEF t
    <3> QED BY <1>a, <3>4, <3>5, <3>6 DEF Stands
  <2> QED BY <1>0, <2>1, <2>2
<1> QED BY <1>1, <1>2 DEF Moves

\* What parseSse leaves of a place in the body.
Parsed(r, x, y, had, u) ==
  /\ y \in Steps /\ Kept(x, y) /\ (x.p.done => y.p.done) /\ (~y.on \/ Lfs(y.p.sse) = {})
  /\ \E j, m : Sits(r, y, j, m, u) /\ Stands(r, y, had \o y.out, j)

\* parseSse goes on from place to place until no line is left or the stream
\* is over.
LEMMA ParsedIs ==
  ASSUME NEW r, Meant(r), r.status = 200, NEW x \in Steps, NEW had \in Seq(Items), NEW u,
         \E i, l : Sits(r, x, i, l, u) /\ Stands(r, x, had \o x.out, i)
  PROVE  Parsed(r, x, ParseSse(x), had, u)
<1> DEFINE At(y) == \E j, m : Sits(r, y, j, m, u) /\ Stands(r, y, had \o y.out, j)
           I == {y \in Steps : Kept(x, y) /\ (x.p.done => y.p.done) /\ At(y)}
<1>1. x \in I
  BY DEF Kept
<1>2. ASSUME NEW y \in I PROVE LineStep(y) \in I
  <2> DEFINE z == LineStep(y)
  <2>1. y \in Steps /\ Kept(x, y) /\ (x.p.done => y.p.done) /\ At(y)
    OBVIOUS
  <2>2. CASE ~y.on \/ Lfs(y.p.sse) = {}
    <3>1. z = y
      BY <2>2 DEF LineStep
    <3> QED BY <3>1
  <2>3. CASE y.on /\ Lfs(y.p.sse) # {}
    <3>1. PICK j, m : Sits(r, y, j, m, u) /\ Stands(r, y, had \o y.out, j)
      BY <2>1
    <3>2. j \in 0 .. Len(All(r))
      BY <3>1 DEF Sits, Place
    <3>3. z \in Steps /\ Kept(y, z) /\ Moves(r, y, z, j, m, u)
      BY <2>1, <2>3, <3>1, LineMoves
    <3> HIDE DEF z
    <3>4. (y.p.done => z.p.done) /\ \E a, b : Sits(r, z, a, b, u) /\ Stands(r, z, had \o z.out, a)
      BY <2>1, <2>3, <3>1, <3>2, <3>3, LineStands
    <3>5. Kept(x, z)
      BY <2>1, <3>3 DEF Kept
    <3>6. z \in I
      BY <2>1, <3>3, <3>4, <3>5
    <3> QED BY <3>6 DEF z
  <2> QED BY <2>2, <2>3
<1>3. I \in SUBSET Steps
  OBVIOUS
<1> HIDE DEF I
<1>4. Settled(I, ParseSse(x))
  BY <1>1, <1>2, <1>3, ParseEnds
<1> DEFINE z == ParseSse(x)
<1>5. z \in I /\ (~z.on \/ Lfs(z.p.sse) = {})
  BY <1>4 DEF Settled
<1> HIDE DEF z
<1>6. Parsed(r, x, z, had, u)
  BY <1>5 DEF I, Parsed
<1> QED BY <1>6 DEF z

\* Every line has its end: where none is left, nothing is.
LEMMA NoLineLeft ==
  ASSUME NEW r, Meant(r), NEW i, NEW l, Place(r, i, l), Lfs(LineTape(r, i, l)) = {}
  PROVE  i = Len(All(r)) /\ l = 0
<1> DEFINE N == Len(All(r))
<1>1. \A w, v, says : \A rest \in Seq(Bytes) : Comes(w, v, says) => Lfs(w \o rest) # {}
  <2> SUFFICES ASSUME NEW w, NEW v, NEW says, NEW rest \in Seq(Bytes), Comes(w, v, says)
               PROVE  Lfs(w \o rest) # {}
    OBVIOUS
  <2> DEFINE a == <<LF>> \o rest
  <2>1. v \in Seq(Bytes) /\ w = v \o <<LF>> /\ LF \in Bytes /\ Len(v) \in Nat
    BY BytesAre, LenProperties DEF Comes
  <2>2. <<LF>> \in Seq(Bytes) /\ Len(<<LF>>) = 1 /\ <<LF>>[1] = LF
    BY <2>1
  <2>3. a \in Seq(Bytes) /\ Len(a) = 1 + Len(rest) /\ Len(rest) \in Nat
    BY <2>2, Joins, LenProperties
  <2>4. a[1] = LF
    <3>1. 1 \in 1 .. Len(<<LF>>) + Len(rest) /\ 1 <= Len(<<LF>>)
      BY <2>2, <2>3
    <3> QED BY <2>2, <3>1, ConcatProperties
  <2>5. w \o rest = v \o a
    <3> DEFINE f == <<LF>>
    <3>1. f \in Seq(Bytes)
      BY <2>2
    <3> HIDE DEF f
    <3>2. (v \o f) \o rest = v \o (f \o rest)
      BY <2>1, <3>1, Regroup
    <3> QED BY <2>1, <3>2 DEF f
  <2> HIDE DEF a
  <2>6. v \o a \in Seq(Bytes) /\ Len(v \o a) = Len(v) + Len(a)
    BY <2>1, <2>3, Joins
  <2>7. (v \o a)[Len(v) + 1] = LF
    <3>1. Len(v) + 1 \in 1 .. Len(v) + Len(a) /\ ~(Len(v) + 1 <= Len(v)) /\ (Len(v) + 1) - Len(v) = 1
      BY <2>1, <2>3
    <3>2. (v \o a)[Len(v) + 1] = a[(Len(v) + 1) - Len(v)]
      BY <2>1, <2>3, <3>1, ConcatProperties
    <3> QED BY <2>4, <3>1, <3>2
  <2>8. Len(v) + 1 \in DOMAIN (v \o a)
    BY <2>1, <2>3, <2>6, LenProperties
  <2> QED BY <2>5, <2>7, <2>8 DEF Lfs
<1>2. i \in 0 .. N /\ N \in Nat /\ l \in Nat /\ (i = N => l = 0) /\ (i # N => l <= Len(All(r)[i + 1]))
  BY ParcelsAre DEF Place
<1>3. ASSUME i # N PROVE FALSE
  <2> DEFINE e == All(r)[i + 1]
  <2>1. i + 1 \in 1 .. N
    BY <1>2, <1>3
  <2>2. r.eol \in {<<LF>>, <<CR, LF>>}
    BY <2>1, SaidIs
  <2>3. CASE l # Len(e)
    <3>1. /\ Place(r, i, l + 1) /\ e[l + 1] \in TextBytes
          /\ LineTape(r, i, l) = Line(e[l + 1], r.eol) \o LineTape(r, i, l + 1)
      BY <1>3, <2>3, TapeIs
    <3>2. LineTape(r, i, l + 1) \in Seq(Bytes)
      BY <3>1, TapeIs
    <3>3. PICK v : Comes(Line(e[l + 1], r.eol), v, <<Byte("data:"), e[l + 1]>>)
      BY <2>2, <3>1, SentLines
    <3> QED BY <1>1, <3>1, <3>2, <3>3
  <2>4. CASE l = Len(e)
    <3>1. Place(r, i + 1, 0) /\ LineTape(r, i, l) = r.eol \o LineTape(r, i + 1, 0)
      BY <1>3, <2>4, TapeIs
    <3>2. LineTape(r, i + 1, 0) \in Seq(Bytes)
      BY <3>1, TapeIs
    <3>3. PICK v : Comes(r.eol, v, <<>>)
      <4>1. Stop \in TextBytes
        BY BytesAre
      <4> QED BY <2>2, <4>1, SentLines
    <3> QED BY <1>1, <3>1, <3>2, <3>3
  <2> QED BY <2>3, <2>4
<1> QED BY <1>2, <1>3

\* The end of the stream.
Finished(x, y) ==
  /\ y \in Steps /\ y.p.done /\ y.p.phase = x.p.phase
  /\ x.p.event \in {<<>>, <<Stop>>} => y.out = Append(x.out, Item("done", <<>>))
  /\ x.p.event \notin {<<>>, <<Stop>>} =>
       y.out = Append(Append(x.out, Item("data", x.p.event)), Item("done", <<>>))

\* finish flushes and ends, once.
LEMMA FinishIs ==
  ASSUME NEW x \in Steps
  PROVE  /\ x.p.done => Finish(x) = x
         /\ ~x.p.done => Finished(x, Finish(x))
<1> DEFINE f == FlushEvent(x)
           item == Item("done", <<>>)
           z == [f EXCEPT !.p.done = TRUE]
<1>1. x.p.done => Finish(x) = x
  BY DEF Finish
<1>2. Flushed(x, f)
  BY FlushEventIs
<1>3. ~x.p.done => Finish(x) = IF f.p.done THEN f ELSE Emit(z, item)
  BY DEF Finish
<1>4. item \in Items
  BY EndItems
<1> HIDE DEF f
<1>5. f \in Steps /\ f.p.phase = x.p.phase
  BY <1>2 DEF Flushed, Kept
<1>6. z \in Steps
  BY <1>5 DEF Steps, Fields
<1>7. z.p.done /\ z.p.phase = f.p.phase /\ z.out = f.out
  BY <1>5 DEF Steps, Fields
<1> HIDE DEF z, item
<1>8. Emit(z, item) \in Steps /\ Emit(z, item).p = z.p /\ Emit(z, item).out = Append(z.out, item)
  BY <1>4, <1>6, EmitIs
<1>9. ASSUME ~x.p.done PROVE Finished(x, Finish(x))
  <2> DEFINE y == Finish(x)
  <2>1. CASE f.p.done
    <3>1. y = f
      BY <1>3, <1>9, <2>1
    <3>2. x.p.event = <<Stop>>
      BY <1>2, <1>9, <2>1 DEF Flushed
    <3>3. f.out = Append(x.out, item)
      BY <1>2, <3>2 DEF Flushed, item
    <3> HIDE DEF y
    <3> QED BY <1>5, <2>1, <3>1, <3>2, <3>3 DEF Finished, item, y
  <2>2. CASE ~f.p.done
    <3>1. y = Emit(z, item)
      BY <1>3, <1>9, <2>2
    <3> HIDE DEF y
    <3>2. y \in Steps /\ y.p.done /\ y.p.phase = x.p.phase /\ y.out = Append(f.out, item)
      BY <1>5, <1>7, <1>8, <3>1
    <3>3. x.p.event # <<Stop>>
      BY <1>2, <2>2 DEF Flushed
    <3>4. x.p.event = <<>> => f.out = x.out
      BY <1>2 DEF Flushed
    <3>5. x.p.event # <<>> => f.out = Append(x.out, Item("data", x.p.event))
      BY <1>2, <3>3 DEF Flushed
    <3> QED BY <3>2, <3>3, <3>4, <3>5 DEF Finished, item, y
  <2> QED BY <2>1, <2>2
<1> QED BY <1>1, <1>9

-----------------------------------------------------------------------------
(* The body.                                                               *)

\* What has not been taken of the body, v of it not even read.
Awaits(r, p, i, l, v) ==
  /\ r.size = 0 => p.sse \o (p.buf \o v) = LineTape(r, i, l)
  /\ r.size # 0 => \E k \in 0 .. Len(PartsOf(r)) : /\ p.buf \o v = ChunkTape(r, k)
                                                   /\ p.sse \o BodyTape(r, k) = LineTape(r, i, l)

\* The parser is in the body, and s has been returned.
Flows(r, p, s, v) ==
  /\ p \in Fields /\ p.phase = "body" /\ ~p.done /\ ~p.ended /\ p.chunked = (r.size # 0)
  /\ r.status = 200 /\ v \in Seq(Bytes)
  /\ \E i \in 0 .. Len(r.events), l \in Nat :
       Place(r, i, l) /\ p.event = EventAt(r, i, l) /\ s = Got(r, i) /\ Awaits(r, p, i, l, v)

\* Between two reads: no line is left, and a chunked body goes on.
Within(r, p, s, v) == /\ Flows(r, p, s, v) /\ Lfs(p.sse) = {}
                      /\ r.size = 0 => p.buf = <<>>
                      /\ r.size # 0 => v # <<>>

Over(r, p, s) == p.phase = "body" /\ p.done /\ Fits(r, s)

\* What decodeBody leaves, u of the lines still to come.
Decoded(r, z, had, v, i, l, u) ==
  /\ z \in Steps /\ z.p.phase = "body" /\ z.p.chunked = (r.size # 0)
  /\ Sits(r, z, i, l, u) /\ Stands(r, z, had \o z.out, i)
  /\ \/ /\ ~z.p.done /\ ~z.p.ended
        /\ r.size = 0 => z.p.buf = <<>> /\ u = v
        /\ r.size # 0 => /\ v # <<>>
                         /\ \E k \in 0 .. Len(PartsOf(r)) : z.p.buf \o v = ChunkTape(r, k) /\ u = BodyTape(r, k)
     \/ z.p.ended /\ u = <<>>
     \/ z.p.done /\ ~z.p.ended

\* A body that is not chunked is all lines.
LEMMA UndecodedIs ==
  ASSUME NEW r, Meant(r), r.size = 0, NEW x \in Steps, x.on, NEW had \in Seq(Items), NEW v,
         Flows(r, x.p, had \o x.out, v)
  PROVE  \E i, l, u : Decoded(r, Undecoded(x), had, v, i, l, u)
<1> DEFINE z == Undecoded(x)
<1>1. PICK i \in 0 .. Len(r.events), l \in Nat :
        Place(r, i, l) /\ x.p.event = EventAt(r, i, l) /\ had \o x.out = Got(r, i) /\ Awaits(r, x.p, i, l, v)
  BY DEF Flows
<1>2. /\ x.p \in Fields /\ x.p.sse \in Seq(Bytes) /\ x.p.buf \in Seq(Bytes) /\ v \in Seq(Bytes) /\ <<>> \in Seq(Bytes)
      /\ x.p.phase = "body" /\ ~x.p.done /\ ~x.p.ended /\ x.p.chunked = (r.size # 0)
  BY Typed DEF Flows
<1>3. x.p.sse \o x.p.buf \in Seq(Bytes)
  <2> DEFINE a == x.p.sse
             b == x.p.buf
  <2>1. a \in Seq(Bytes) /\ b \in Seq(Bytes)
    BY <1>2
  <2> HIDE DEF a, b
  <2>2. a \o b \in Seq(Bytes)
    BY <2>1, Joins
  <2> QED BY <2>2 DEF a, b
<1>4. z \in Steps
  BY <1>2, <1>3 DEF Undecoded, Steps, Fields
<1>5. /\ z.p.sse = x.p.sse \o x.p.buf /\ z.p.buf = <<>> /\ z.p.event = x.p.event /\ z.out = x.out /\ z.on = x.on
  BY DEF Undecoded, Steps, Fields
<1>6. /\ z.p.done = x.p.done /\ z.p.ended = x.p.ended /\ z.p.phase = x.p.phase /\ z.p.chunked = x.p.chunked
  BY DEF Undecoded, Steps, Fields
<1>7. (x.p.sse \o x.p.buf) \o v = LineTape(r, i, l)
  <2> DEFINE a == x.p.sse
             b == x.p.buf
  <2>1. a \in Seq(Bytes) /\ b \in Seq(Bytes) /\ v \in Seq(Bytes) /\ a \o (b \o v) = LineTape(r, i, l)
    BY <1>1, <1>2 DEF Awaits
  <2> HIDE DEF a, b
  <2>2. (a \o b) \o v = a \o (b \o v)
    BY <2>1, Regroup
  <2> QED BY <2>1, <2>2 DEF a, b
<1> HIDE DEF z
<1>8. Sits(r, z, i, l, v)
  BY <1>1, <1>2, <1>5, <1>7 DEF Sits
<1>9. Stands(r, z, had \o z.out, i)
  <2>1. Got(r, i) \in Seq(Items)
    BY GotIs
  <2> QED BY <1>1, <1>2, <1>5, <1>6, <2>1 DEF Stands
<1>10. Decoded(r, z, had, v, i, l, v)
  BY <1>2, <1>4, <1>5, <1>6, <1>8, <1>9 DEF Decoded
<1> QED BY <1>10 DEF z

\* Where decodeBody is among the chunks.
Chunked(r, x, z, had, i, l, v) ==
  /\ Aside(x, z)
  /\ \/ /\ ~z.p.done /\ ~z.p.ended /\ had \o z.out = Got(r, i)
        /\ \E k \in 0 .. Len(PartsOf(r)) : /\ z.p.buf \o v = ChunkTape(r, k)
                                           /\ z.p.sse \o BodyTape(r, k) = LineTape(r, i, l)
     \/ /\ ~z.p.done /\ z.p.ended /\ had \o z.out = Got(r, i) /\ z.p.buf = <<>>
        /\ z.p.sse \o <<>> = LineTape(r, i, l)
     \/ /\ z.p.done /\ ~z.p.ended /\ r.bad /\ had \o z.out = Append(Got(r, i), Item("error", <<>>))
        /\ \E k \in 0 .. Len(PartsOf(r)) : z.p.sse \o BodyTape(r, k) = LineTape(r, i, l)

\* A round of decodeBody stays among the chunks.
LEMMA ChunkedStep ==
  ASSUME NEW r, Meant(r), r.size # 0, NEW x, NEW z \in Steps, NEW had \in Seq(Items), NEW i, NEW l,
         NEW v \in Seq(Bytes), Chunked(r, x, z, had, i, l, v)
  PROVE  ChunkStep(z) \in Steps /\ Chunked(r, x, ChunkStep(z), had, i, l, v)
<1> DEFINE y == ChunkStep(z)
           M == Len(PartsOf(r))
<1>1. CASE z.p.done \/ Crlfs(z.p.buf) = {}
  <2>1. y = z
    BY <1>1 DEF ChunkStep
  <2> QED BY <2>1
<1>2. CASE ~z.p.done /\ Crlfs(z.p.buf) # {}
  <2>0. z.p.buf # <<>>
    <3>1. Crlfs(<<>>) = {}
      BY DEF Crlfs
    <3> QED BY <1>2, <3>1
  <2>1. /\ ~z.p.ended /\ had \o z.out = Got(r, i) /\ Aside(x, z)
        /\ \E k \in 0 .. M : z.p.buf \o v = ChunkTape(r, k) /\ z.p.sse \o BodyTape(r, k) = LineTape(r, i, l)
    BY <1>2, <2>0 DEF Chunked
  <2>2. PICK k \in 0 .. M : z.p.buf \o v = ChunkTape(r, k) /\ z.p.sse \o BodyTape(r, k) = LineTape(r, i, l)
    BY <2>1
  <2>3. Dealt(r, z, y, k, v)
    BY <1>2, <2>2, ChunkMoves
  <2> HIDE DEF y
  <2>4. y \in Steps /\ Aside(x, y)
    BY <2>1, <2>3 DEF Dealt, Aside
  <2>5. CASE r.bad /\ y.p.done /\ y.out = Append(z.out, Item("error", <<>>)) /\ y.p.sse = z.p.sse /\ y.p.ended = z.p.ended
    <3> DEFINE o == z.out
               e == Item("error", <<>>)
    <3>1. o \in Seq(Items) /\ e \in Items
      BY Typed, EndItems
    <3> HIDE DEF o, e
    <3>2. had \o Append(o, e) = Append(had \o o, e)
      BY <3>1, AppendLast
    <3>3. had \o y.out = Append(Got(r, i), Item("error", <<>>))
      BY <2>1, <2>5, <3>2 DEF o, e
    <3> QED BY <2>1, <2>2, <2>4, <2>5, <3>3 DEF Chunked, y
  <2>6. CASE /\ y.p.buf = <<>> /\ y.p.ended /\ ~r.bad /\ k = M
             /\ y.p.sse = z.p.sse /\ y.out = z.out /\ y.p.done = z.p.done
    <3>1. BodyTape(r, M) = <<>>
      BY ChunkTapeIs
    <3>2. y.p.sse \o <<>> = LineTape(r, i, l)
      BY <2>2, <2>6, <3>1
    <3> QED BY <1>2, <2>1, <2>4, <2>6, <3>2 DEF Chunked, y
  <2>7. CASE y = z
    BY <2>7 DEF y
  <2>8. CASE /\ k < M /\ y.p.buf \o v = ChunkTape(r, k + 1) /\ y.p.sse = z.p.sse \o PartsOf(r)[k + 1]
             /\ y.out = z.out /\ y.p.done = z.p.done /\ y.p.ended = z.p.ended
    <3> DEFINE a == z.p.sse
               b == PartsOf(r)[k + 1]
               c == BodyTape(r, k + 1)
    <3>0. M \in Nat
      BY ChunkTapeIs
    <3>00. k \in 0 .. M - 1 /\ k + 1 \in 0 .. M
      BY <2>8, <3>0
    <3>1. a \in Seq(Bytes)
      BY Typed
    <3>2. b \in Seq(Bytes) /\ BodyTape(r, k) = b \o c /\ c \in Seq(Bytes)
      <4>1. \A q \in 0 .. Len(PartsOf(r)) - 1 :
              /\ PartsOf(r)[q + 1] \in Seq(Bytes)
              /\ BodyTape(r, q) = PartsOf(r)[q + 1] \o BodyTape(r, q + 1)
        BY ChunkTapeIs, Zenon
      <4>2. \A q \in 0 .. Len(PartsOf(r)) : BodyTape(r, q) \in Seq(Bytes)
        BY ChunkTapeIs, Zenon
      <4> QED BY <3>00, <4>1, <4>2
    <3>3. y.p.sse = a \o b /\ a \o (b \o c) = LineTape(r, i, l)
      BY <2>2, <2>8, <3>2
    <3> HIDE DEF a, b, c
    <3>4. (a \o b) \o c = a \o (b \o c)
      BY <3>1, <3>2, Regroup
    <3>5. y.p.sse \o BodyTape(r, k + 1) = LineTape(r, i, l)
      BY <3>3, <3>4 DEF c
    <3> QED BY <1>2, <2>1, <2>4, <2>8, <3>00, <3>5 DEF Chunked, y
  <2>9. \/ r.bad /\ y.p.done /\ y.out = Append(z.out, Item("error", <<>>)) /\ y.p.sse = z.p.sse /\ y.p.ended = z.p.ended
        \/ /\ y.p.buf = <<>> /\ y.p.ended /\ ~r.bad /\ k = M
           /\ y.p.sse = z.p.sse /\ y.out = z.out /\ y.p.done = z.p.done
        \/ y = z
        \/ /\ k < M /\ y.p.buf \o v = ChunkTape(r, k + 1) /\ y.p.sse = z.p.sse \o PartsOf(r)[k + 1]
           /\ y.out = z.out /\ y.p.done = z.p.done /\ y.p.ended = z.p.ended
    BY <2>3, Zenon DEF Dealt
  <2> QED BY <2>5, <2>6, <2>7, <2>8, <2>9
<1> QED BY <1>1, <1>2

\* decodeBody ends at the end of a chunk that was sent, the last one
\* included, or at a corrupt one.
LEMMA DechunkIs ==
  ASSUME NEW r, Meant(r), r.size # 0, NEW x \in Steps, x.on, NEW had \in Seq(Items), NEW v,
         Flows(r, x.p, had \o x.out, v)
  PROVE  \E i, l, u : Decoded(r, Dechunk(x), had, v, i, l, u)
<1> DEFINE M == Len(PartsOf(r))
<1>0. PICK i \in 0 .. Len(r.events), l \in Nat :
        Place(r, i, l) /\ x.p.event = EventAt(r, i, l) /\ had \o x.out = Got(r, i) /\ Awaits(r, x.p, i, l, v)
  BY DEF Flows
<1>1. /\ v \in Seq(Bytes) /\ x.p.phase = "body" /\ ~x.p.done /\ ~x.p.ended /\ x.p.chunked = (r.size # 0)
      /\ r.status = 200
  BY DEF Flows
<1> DEFINE I == {z \in Steps : Chunked(r, x, z, had, i, l, v)}
<1>2. x \in I
  <2>1. Aside(x, x)
    BY DEF Aside
  <2> QED BY <1>0, <1>1, <2>1 DEF Chunked, Awaits
<1>3. \A z \in I : ChunkStep(z) \in I
  BY <1>1, ChunkedStep
<1>4. I \in SUBSET Steps
  OBVIOUS
<1> HIDE DEF I
<1>5. Emptied(I, Dechunk(x))
  BY <1>1, <1>2, <1>3, <1>4, DechunkEnds
<1> DEFINE z == Dechunk(x)
<1>6. z \in I /\ ChunkStep(z) = z
  BY <1>5 DEF Emptied
<1> HIDE DEF z
<1>7. z \in Steps /\ Chunked(r, x, z, had, i, l, v)
  BY <1>6 DEF I
<1>8. /\ z.p.phase = "body" /\ z.p.chunked = (r.size # 0) /\ z.p.event = EventAt(r, i, l) /\ z.on
      /\ z.p.sse \in Seq(Bytes) /\ <<>> \in Seq(Bytes)
  BY <1>0, <1>1, <1>7, Typed DEF Chunked, Aside
<1>9. \A k \in 0 .. M : BodyTape(r, k) \in Seq(Bytes)
  BY ChunkTapeIs, Zenon
<1>10. Got(r, i) \in Seq(Items) /\ Item("error", <<>>) \in Items
  BY GotIs, EndItems
<1>11. had \o z.out \in Seq(Items)
  <2>1. z.out \in Seq(Items)
    BY <1>7, Typed
  <2> QED BY <2>1, Joins
<1>12. CASE /\ ~z.p.done /\ ~z.p.ended /\ had \o z.out = Got(r, i)
            /\ \E k \in 0 .. M : z.p.buf \o v = ChunkTape(r, k) /\ z.p.sse \o BodyTape(r, k) = LineTape(r, i, l)
  <2>1. PICK k \in 0 .. M : z.p.buf \o v = ChunkTape(r, k) /\ z.p.sse \o BodyTape(r, k) = LineTape(r, i, l)
    BY <1>12
  <2> DEFINE u == BodyTape(r, k)
  <2>2. u \in Seq(Bytes)
    BY <1>9
  <2>3. v # <<>>
    <3>1. SUFFICES ASSUME v = <<>> PROVE FALSE
      OBVIOUS
    <3>2. Dealt(r, z, z, k, v)
      <4>1. k \in 0 .. Len(PartsOf(r)) /\ z.p.buf \o v = ChunkTape(r, k) /\ ~z.p.done /\ z \in Steps
            /\ v \in Seq(Bytes)
        BY <1>1, <1>7, <1>12, <2>1
      <4>2. (v = <<>> => Crlfs(z.p.buf) # {}) /\ (Crlfs(z.p.buf) # {} => Dealt(r, z, ChunkStep(z), k, v))
        BY <4>1, ChunkMoves
      <4> QED BY <1>6, <3>1, <4>2
    <3>3. k < M /\ PartsOf(r)[k + 1] # <<>> /\ z.p.sse = z.p.sse \o PartsOf(r)[k + 1]
      BY <1>12, <3>1, <3>2 DEF Dealt
    <3>4. M \in Nat /\ PartsOf(r) \in Seq(Seq(Bytes))
      BY ChunkTapeIs
    <3>5. k + 1 \in 1 .. M
      BY <3>3, <3>4
    <3> DEFINE b == PartsOf(r)[k + 1]
               a == z.p.sse
    <3>6. b \in Seq(Bytes)
      BY <3>4, <3>5, LenProperties
    <3>7. a \in Seq(Bytes) /\ a = a \o b /\ b # <<>>
      BY <1>8, <3>3
    <3> HIDE DEF a, b
    <3>8. Len(a \o b) = Len(a) + Len(b) /\ Len(a) \in Nat /\ Len(b) \in Nat
      BY <3>6, <3>7, Joins, LenProperties
    <3>9. Len(b) = 0
      BY <3>7, <3>8
    <3> QED BY <3>6, <3>7, <3>9, EmptySeq
  <2>4. z.p.sse \o u = LineTape(r, i, l)
    BY <2>1
  <2>5. \E q \in 0 .. M : z.p.buf \o v = ChunkTape(r, q) /\ u = BodyTape(r, q)
    BY <2>1
  <2> HIDE DEF u
  <2>6. Sits(r, z, i, l, u)
    BY <1>0, <1>8, <2>2, <2>4 DEF Sits
  <2>7. Stands(r, z, had \o z.out, i)
    BY <1>8, <1>11, <1>12 DEF Stands
  <2>8. Decoded(r, z, had, v, i, l, u)
    BY <1>7, <1>8, <1>12, <2>3, <2>5, <2>6, <2>7 DEF Decoded
  <2> QED BY <2>8 DEF z
<1>13. CASE ~z.p.done /\ z.p.ended /\ had \o z.out = Got(r, i) /\ z.p.sse \o <<>> = LineTape(r, i, l)
  <2>1. Sits(r, z, i, l, <<>>)
    BY <1>0, <1>8, <1>13 DEF Sits
  <2>2. Stands(r, z, had \o z.out, i)
    BY <1>8, <1>11, <1>13 DEF Stands
  <2>3. Decoded(r, z, had, v, i, l, <<>>)
    BY <1>7, <1>8, <1>13, <2>1, <2>2 DEF Decoded
  <2> QED BY <2>3 DEF z
<1>14. CASE /\ z.p.done /\ ~z.p.ended /\ r.bad /\ had \o z.out = Append(Got(r, i), Item("error", <<>>))
            /\ \E k \in 0 .. M : z.p.sse \o BodyTape(r, k) = LineTape(r, i, l)
  <2>1. PICK k \in 0 .. M : z.p.sse \o BodyTape(r, k) = LineTape(r, i, l)
    BY <1>14
  <2> DEFINE u == BodyTape(r, k)
  <2>2. u \in Seq(Bytes)
    BY <1>9
  <2>3. Sits(r, z, i, l, u)
    BY <1>0, <1>8, <2>1, <2>2 DEF Sits
  <2>4. Stands(r, z, had \o z.out, i)
    BY <1>8, <1>11, <1>14 DEF Stands
  <2>5. Decoded(r, z, had, v, i, l, u)
    BY <1>7, <1>8, <1>14, <2>3, <2>4 DEF Decoded
  <2> QED BY <2>5 DEF z
<1> QED BY <1>7, <1>12, <1>13, <1>14 DEF Chunked

\* A read of the body ends it or leaves the parser in it.
Read(r, y, s, v) == y \in Steps /\ (Within(r, y.p, s, v) \/ Over(r, y.p, s))

\* feed, past the headers.
LEMMA BodyIs ==
  ASSUME NEW r, Meant(r), NEW x \in Steps, x.on, NEW had \in Seq(Items), NEW v,
         Flows(r, x.p, had \o x.out, v)
  PROVE  Read(r, Body(x), had \o Body(x).out, v)
<1> DEFINE z == DecodeBody(x)
           y == ParseSse(z)
           n == Len(r.events)
           N == Len(All(r))
<1>0. r.status = 200 /\ x.p.chunked = (r.size # 0) /\ v \in Seq(Bytes)
  BY DEF Flows
<1>1. \E i, l, u : Decoded(r, z, had, v, i, l, u)
  <2>1. CASE r.size = 0
    <3>1. \E i, l, u : Decoded(r, Undecoded(x), had, v, i, l, u)
      BY <2>1, UndecodedIs
    <3> QED BY <1>0, <2>1, <3>1 DEF DecodeBody
  <2>2. CASE r.size # 0
    <3>1. \E i, l, u : Decoded(r, Dechunk(x), had, v, i, l, u)
      BY <2>2, DechunkIs
    <3>2. x.p.chunked
      BY <1>0, <2>2
    <3>3. z = Dechunk(x)
      BY <3>2, Zenon DEF DecodeBody
    <3> QED BY <3>1, <3>3
  <2> QED BY <2>1, <2>2
<1>2. Body(x) = IF y.p.ended THEN Finish(y) ELSE y
  BY DEF Body
<1> HIDE DEF z
<1>3. PICK i, l, u : Decoded(r, z, had, v, i, l, u)
  BY <1>1
<1>4. z \in Steps /\ z.p.phase = "body" /\ z.p.chunked = (r.size # 0)
      /\ Sits(r, z, i, l, u) /\ Stands(r, z, had \o z.out, i)
  BY <1>3 DEF Decoded
<1>5. Parsed(r, z, y, had, u)
  BY <1>0, <1>4, ParsedIs
<1> HIDE DEF y
<1>6. /\ y \in Steps /\ Kept(z, y) /\ (z.p.done => y.p.done) /\ (~y.on \/ Lfs(y.p.sse) = {})
  BY <1>5 DEF Parsed
<1>7. PICK j, m : Sits(r, y, j, m, u) /\ Stands(r, y, had \o y.out, j)
  BY <1>5 DEF Parsed
<1>8. /\ y.p.phase = "body" /\ y.p.ended = z.p.ended /\ y.p.buf = z.p.buf /\ y.p.chunked = (r.size # 0)
      /\ y.out \in Seq(Items) /\ y.p \in Fields /\ y.p.sse \in Seq(Bytes)
  BY <1>4, <1>6, Typed DEF Kept
<1>9. /\ j \in 0 .. N /\ m \in Nat /\ Place(r, j, m) /\ N \in Nat /\ n \in Nat
      /\ y.p.event = EventAt(r, j, m) /\ y.p.sse \o u = LineTape(r, j, m)
  BY <1>7, ParcelsAre, AllIs DEF Sits, Place
<1> DEFINE s == had \o y.out
<1>10. CASE y.p.done
  <2>1. Body(x) = y
    BY <1>2, <1>6, <1>10, FinishIs
  <2>2. Fits(r, s)
    <3> HIDE DEF s
    <3>1. Stands(r, y, s, j)
      BY <1>7 DEF s
    <3>2. CASE r.bad /\ j \in 0 .. n /\ s = Append(Got(r, j), Item("error", <<>>))
      <4>1. Got(r, j) \in Seq(Items) /\ DataOf(Got(r, j)) = SubSeq(r.events, 1, j)
        BY <3>2, GotIs
      <4>2. Cut(r, s)
        BY <3>2, <4>1, EndItems, CutIs
      <4> QED BY <3>2, <4>2 DEF Fits
    <3> QED BY <1>10, <3>1, <3>2 DEF Stands
  <2> QED BY <1>6, <1>8, <1>10, <2>1, <2>2 DEF Read, Over
<1>11. CASE ~y.p.done /\ ~y.p.ended
  <2>1. Body(x) = y
    BY <1>2, <1>11
  <2>2. Lfs(y.p.sse) = {} /\ j \in 0 .. n /\ s = Got(r, j)
    BY <1>6, <1>7, <1>11 DEF Stands
  <2>3. /\ r.size = 0 => y.p.buf = <<>> /\ u = v
        /\ r.size # 0 => /\ v # <<>>
                         /\ \E k \in 0 .. Len(PartsOf(r)) : y.p.buf \o v = ChunkTape(r, k) /\ u = BodyTape(r, k)
    BY <1>3, <1>6, <1>8, <1>11 DEF Decoded
  <2>4. Awaits(r, y.p, j, m, v)
    <3>1. r.size = 0 => y.p.sse \o (y.p.buf \o v) = LineTape(r, j, m)
      <4>1. <<>> \o v = v
        BY <1>0, ConcatEmptySeq
      <4> QED BY <1>9, <2>3, <4>1
    <3>2. r.size # 0 => \E k \in 0 .. Len(PartsOf(r)) : /\ y.p.buf \o v = ChunkTape(r, k)
                                                       /\ y.p.sse \o BodyTape(r, k) = LineTape(r, j, m)
      BY <1>9, <2>3
    <3> QED BY <3>1, <3>2 DEF Awaits
  <2> HIDE DEF s
  <2>5. Flows(r, y.p, s, v)
    BY <1>0, <1>8, <1>9, <1>11, <2>2, <2>4 DEF Flows
  <2>6. Within(r, y.p, s, v)
    BY <2>2, <2>3, <2>5 DEF Within
  <2> QED BY <1>6, <2>1, <2>6 DEF Read, s
<1>12. CASE ~y.p.done /\ y.p.ended
  <2>1. Lfs(y.p.sse) = {} /\ j \in 0 .. n /\ s = Got(r, j)
    BY <1>6, <1>7, <1>12 DEF Stands
  <2>2. u = <<>>
    BY <1>3, <1>6, <1>8, <1>12 DEF Decoded
  <2>3. y.p.sse = LineTape(r, j, m)
    BY <1>8, <1>9, <2>2, ConcatEmptySeq
  <2>4. j = N
    BY <1>9, <2>1, <2>3, NoLineLeft
  <2>5. j = n
    <3>1. N = n \/ N = n + 1
      BY AllIs
    <3> QED BY <1>9, <2>1, <2>4, <3>1
  <2>6. y.p.event = <<>>
    BY <1>9, <2>4 DEF EventAt
  <2>7. Finished(y, Finish(y)) /\ Body(x) = Finish(y)
    BY <1>2, <1>6, <1>12, FinishIs
  <2> DEFINE f == Finish(y)
             o == y.out
             e == Item("done", <<>>)
  <2> HIDE DEF f
  <2>8. f \in Steps /\ f.p.done /\ f.p.phase = "body" /\ f.out = Append(o, e)
    BY <1>8, <2>6, <2>7 DEF Finished, f
  <2>9. o \in Seq(Items) /\ e \in Items
    BY <1>8, EndItems
  <2> HIDE DEF o, e
  <2>10. had \o Append(o, e) = Append(had \o o, e)
    BY <2>9, AppendLast
  <2>11. had \o f.out = Whole(r)
    <3>1. had \o o = Got(r, n)
      BY <2>1, <2>5 DEF o
    <3>2. Whole(r) = Append(Got(r, n), e)
      BY <1>0, WholeFits DEF e
    <3> QED BY <2>8, <2>10, <3>1, <3>2
  <2>12. Fits(r, had \o f.out)
    BY <2>11, WholeFits
  <2> QED BY <2>7, <2>8, <2>12 DEF Read, Over, f
<1> QED BY <1>10, <1>11, <1>12

-----------------------------------------------------------------------------
(* The headers.                                                            *)

HeadByte(r) == [is |-> IF r.size > 0 THEN "chunked" ELSE "plain", n |-> r.status]
Blank(h)    == <<h, CR, LF, CR, LF>>
BodyWire(r) == IF r.size = 0 THEN BodyOf(r) ELSE ChunkTape(r, 0)

\* A response is its head and its body.
LEMMA WireIs ==
  ASSUME NEW r, Meant(r)
  PROVE  /\ HeadByte(r) \in Bytes /\ HeadByte(r) # CR /\ HeadByte(r).n = r.status
         /\ (HeadByte(r).is = "chunked") = (r.size # 0)
         /\ BodyWire(r) \in Seq(Bytes)
         /\ WireOf(r) = Blank(HeadByte(r)) \o BodyWire(r)
<1> DEFINE h == HeadByte(r)
<1>1. r.status \in {200, 500} /\ r.size \in Nat
  BY AllIs
<1>2. h \in Bytes /\ h # CR /\ h.n = r.status
  <2>1. (IF r.size > 0 THEN "chunked" ELSE "plain") \in {"chunked", "plain"}
    OBVIOUS
  <2> QED BY <1>1, <2>1, BytesAre DEF HeadByte
<1>3. (h.is = "chunked") = (r.size # 0)
  <2>1. CASE r.size = 0
    BY <2>1 DEF HeadByte
  <2>2. CASE r.size # 0
    <3>1. r.size > 0
      BY <1>1, <2>2
    <3> QED BY <2>2, <3>1 DEF HeadByte
  <2> QED BY <2>1, <2>2
<1>4. BodyWire(r) \in Seq(Bytes)
  <2>1. CASE r.size = 0
    BY <2>1, ParcelsAre DEF BodyWire
  <2>2. CASE r.size # 0
    <3>1. \A k \in 0 .. Len(PartsOf(r)) : ChunkTape(r, k) \in Seq(Bytes)
      BY <2>2, ChunkTapeIs, Zenon
    <3>2. Len(PartsOf(r)) \in Nat
      BY <2>2, ChunkTapeIs
    <3>3. 0 \in 0 .. Len(PartsOf(r))
      BY <3>2
    <3> QED BY <2>2, <3>1, <3>3 DEF BodyWire
  <2> QED BY <2>1, <2>2
<1>5. WireOf(r) = Blank(h) \o BodyWire(r)
  <2>1. CASE r.size = 0
    BY <2>1 DEF WireOf, BodyWire, Blank, HeadByte
  <2>2. CASE r.size # 0
    <3>1. ChunkTape(r, 0) = FlattenSeq(Chunks(PartsOf(r))) \o Ending(r)
      BY <2>2, ChunkTapeIs, Zenon
    <3> QED BY <2>2, <3>1 DEF WireOf, BodyWire, Blank, HeadByte, PartsOf
  <2> QED BY <2>1, <2>2
<1> QED BY <1>2, <1>3, <1>4, <1>5

\* The blank line that ends the headers.
HeadEnds(b) == {i \in Crlfs(b) : i + 2 \in Crlfs(b)}
Headed(b, h, v, rest) ==
  /\ Len(b) < 5 => HeadEnds(b) = {}
  /\ Len(b) >= 5 => /\ HeadEnds(b) # {} /\ Min(HeadEnds(b)) = 2 /\ b[1] = h
                    /\ From(b, 6) \in Seq(Bytes) /\ From(b, 6) \o v = rest

\* The headers have ended exactly when five bytes have come, and the rest is
\* body.
LEMMA HeadIs ==
  ASSUME NEW h \in Bytes, h # CR, NEW b \in Seq(Bytes), NEW v \in Seq(Bytes), NEW rest \in Seq(Bytes),
         b \o v = Blank(h) \o rest
  PROVE  Headed(b, h, v, rest)
<1> DEFINE w == Blank(h)
<1>1. CR \in Bytes /\ LF \in Bytes /\ CR # LF
  BY BytesAre
<1>2. /\ w \in Seq(Bytes) /\ Len(w) = 5 /\ w[1] = h /\ w[2] = CR /\ w[3] = LF /\ w[4] = CR /\ w[5] = LF
  BY <1>1 DEF Blank
<1>3. Len(b) \in Nat /\ Len(v) \in Nat /\ Len(rest) \in Nat
  BY LenProperties
<1> HIDE DEF w
<1>4. \A i \in 1 .. Len(b) : i <= 5 => b[i] = w[i]
  <2>1. ASSUME NEW i \in 1 .. Len(b), i <= 5 PROVE b[i] = w[i]
    <3>1. i \in 1 .. Len(b) + Len(v) /\ i \in 1 .. Len(w) + Len(rest) /\ i <= Len(w) /\ i <= Len(b)
      <4>1. Len(w) = 5
        BY <1>2
      <4>2. i \in 1 .. 5 + Len(rest) /\ i \in 1 .. Len(b) + Len(v) /\ i <= Len(b)
        BY <1>3, <2>1
      <4> QED BY <2>1, <4>1, <4>2
    <3>2. (b \o v)[i] = b[i]
      BY <3>1, ConcatProperties
    <3>3. (w \o rest)[i] = w[i]
      BY <1>2, <3>1, ConcatProperties
    <3> QED BY <3>2, <3>3 DEF w
  <2> QED BY <2>1
<1>5. \A i \in Crlfs(b) : i \in Nat /\ i >= 1 /\ i + 1 <= Len(b) /\ b[i] = CR
  BY <1>3 DEF Crlfs
<1>6. 1 \notin Crlfs(b)
  <2>1. SUFFICES ASSUME 1 \in Crlfs(b) PROVE FALSE
    OBVIOUS
  <2>2. b[1] = CR /\ 1 \in 1 .. Len(b)
    BY <1>3, <1>5, <2>1
  <2>3. b[1] = h
    BY <1>2, <1>4, <2>2
  <2> QED BY <2>2, <2>3
<1>7. ASSUME Len(b) < 5 PROVE HeadEnds(b) = {}
  <2>1. SUFFICES ASSUME NEW i \in HeadEnds(b) PROVE FALSE
    OBVIOUS
  <2>2. i \in Nat /\ i >= 1 /\ (i + 2) + 1 <= Len(b) /\ i \in Crlfs(b)
    BY <1>5 DEF HeadEnds
  <2>3. i = 1
    BY <1>3, <1>7, <2>2
  <2> QED BY <1>6, <2>2, <2>3
<1>8. ASSUME Len(b) >= 5
      PROVE  /\ HeadEnds(b) # {} /\ Min(HeadEnds(b)) = 2 /\ b[1] = h
             /\ From(b, 6) \in Seq(Bytes) /\ From(b, 6) \o v = rest
  <2>1. b[1] = h /\ b[2] = CR /\ b[3] = LF /\ b[4] = CR /\ b[5] = LF
    <3>1. 1 \in 1 .. Len(b) /\ 2 \in 1 .. Len(b) /\ 3 \in 1 .. Len(b) /\ 4 \in 1 .. Len(b) /\ 5 \in 1 .. Len(b)
      BY <1>3, <1>8
    <3>2. b[1] = w[1] /\ b[2] = w[2] /\ b[3] = w[3] /\ b[4] = w[4] /\ b[5] = w[5]
      BY <1>4, <3>1
    <3> QED BY <1>2, <3>2
  <2>2. 2 \in Crlfs(b) /\ 4 \in Crlfs(b)
    BY <1>3, <1>8, <2>1 DEF Crlfs
  <2>3. 2 \in HeadEnds(b)
    BY <2>2 DEF HeadEnds
  <2>4. HeadEnds(b) \in SUBSET Nat /\ \A i \in HeadEnds(b) : i >= 2
    <3>1. ASSUME NEW i \in HeadEnds(b) PROVE i \in Nat /\ i >= 2
      <4>1. i \in Crlfs(b)
        BY DEF HeadEnds
      <4>2. i \in Nat /\ i >= 1 /\ i # 1
        BY <1>5, <1>6, <4>1
      <4> QED BY <4>2
    <3> QED BY <3>1
  <2>5. Min(HeadEnds(b)) \in HeadEnds(b) /\ Min(HeadEnds(b)) <= 2
    BY <2>3, <2>4, MinIs
  <2>6. Min(HeadEnds(b)) = 2
    <3> DEFINE m == Min(HeadEnds(b))
    <3>1. m \in Nat /\ m >= 2 /\ m <= 2
      BY <2>4, <2>5
    <3> HIDE DEF m
    <3>2. m = 2
      BY <3>1
    <3> QED BY <3>2 DEF m
  <2>7. Split(Bytes, b, v, w, rest)
    <3>1. Len(w) <= Len(b) /\ b \o v = w \o rest
      BY <1>2, <1>8 DEF w
    <3> QED BY <1>2, <3>1, Splits
  <2>8. From(b, 6) \in Seq(Bytes) /\ From(b, 6) \o v = rest
    <3>1. Len(w) + 1 = 6
      BY <1>2
    <3> QED BY <2>7, <3>1 DEF Split
  <2> QED BY <2>1, <2>3, <2>6, <2>8
<1> QED BY <1>7, <1>8 DEF Headed

\* The parser before the headers are read.
Fresh(b) == [phase |-> "headers", buf |-> b, sse |-> <<>>, event |-> <<>>,
             chunked |-> FALSE, ended |-> FALSE, done |-> FALSE]

\* The parser before the headers have ended only gathers bytes.
LEMMA FreshIs ==
  ASSUME NEW b \in Seq(Bytes)
  PROVE  /\ Fresh(b) \in Fields /\ Nothing(Fresh(b)) \in Steps
         /\ \A bytes \in Seq(Bytes) : [Fresh(b) EXCEPT !.buf = @ \o bytes] = Fresh(b \o bytes)
<1>1. <<>> \in Seq(Bytes) /\ <<>> \in Seq(Items)
  OBVIOUS
<1>2. Fresh(b) \in Fields
  BY <1>1 DEF Fresh, Fields
<1>3. Nothing(Fresh(b)) \in Steps
  BY <1>1, <1>2 DEF Nothing, Steps
<1>4. ASSUME NEW bytes \in Seq(Bytes) PROVE [Fresh(b) EXCEPT !.buf = @ \o bytes] = Fresh(b \o bytes)
  <2> DEFINE c == b \o bytes
             f == Fresh(b)
  <2>1. f.buf = b
    BY DEF Fresh
  <2>2. [f EXCEPT !.buf = @ \o bytes] = [f EXCEPT !.buf = c]
    BY <2>1
  <2>0. c \in Seq(Bytes)
    BY Joins
  <2> HIDE DEF c, f
  <2>3. [f EXCEPT !.buf = c] = Fresh(c)
    <3> DEFINE g == [f EXCEPT !.buf = c]
    <3>1. f \in Fields /\ g \in Fields /\ Fresh(c) \in Fields
      BY <1>1, <1>2, <2>0 DEF Fresh, Fields, f
    <3>2. /\ f.phase = "headers" /\ f.sse = <<>> /\ f.event = <<>>
          /\ f.chunked = FALSE /\ f.ended = FALSE /\ f.done = FALSE
      BY DEF Fresh, f
    <3>3. /\ g.phase = "headers" /\ g.sse = <<>> /\ g.event = <<>> /\ g.buf = c
          /\ g.chunked = FALSE /\ g.ended = FALSE /\ g.done = FALSE
      BY <3>1, <3>2 DEF Fields
    <3> HIDE DEF g
    <3>4. g = [phase |-> g.phase, buf |-> g.buf, sse |-> g.sse, event |-> g.event,
               chunked |-> g.chunked, ended |-> g.ended, done |-> g.done]
      BY <3>1 DEF Fields
    <3>5. g = Fresh(c)
      BY <3>3, <3>4 DEF Fresh
    <3> QED BY <3>5 DEF g
  <2> QED BY <2>2, <2>3 DEF c, f
<1> QED BY <1>2, <1>3, <1>4

\* After the headers the parser is at the start of the body.
LEMMA AtStart ==
  ASSUME NEW r, Meant(r), r.status = 200, NEW p \in Fields, NEW v \in Seq(Bytes),
         p.phase = "body", ~p.done, ~p.ended, p.chunked = (r.size # 0),
         p.event = <<>>, p.sse = <<>>, p.buf \o v = BodyWire(r)
  PROVE  Flows(r, p, Got(r, 0), v)
<1>1. 0 \in 0 .. Len(r.events) /\ 0 \in Nat
  BY GotIs
<1>2. Place(r, 0, 0)
  <2>1. Len(All(r)) \in Nat
    BY ParcelsAre
  <2>2. 0 # Len(All(r)) => Len(All(r)[0 + 1]) \in Nat
    <3>1. ASSUME 0 # Len(All(r)) PROVE Len(All(r)[0 + 1]) \in Nat
      <4>1. 0 + 1 \in 1 .. Len(All(r))
        BY <2>1, <3>1
      <4>2. All(r)[0 + 1] \in Seq(TextBytes)
        BY <4>1, SaidIs
      <4> QED BY <4>2, LenProperties
    <3> QED BY <3>1
  <2> QED BY <2>1, <2>2 DEF Place
<1>3. p.event = EventAt(r, 0, 0)
  <2>1. SubSeq(All(r)[0 + 1], 1, 0) = <<>>
    BY SubSeqEmpty
  <2> QED BY <2>1 DEF EventAt
<1>4. LineTape(r, 0, 0) = BodyOf(r) /\ BodyOf(r) \in Seq(Bytes)
  <2>1. LineTape(r, 0, 0) = After(Parcels(r), 0)
    <3>1. ASSUME NEW i, NEW l, Place(r, i, l), l = 0 PROVE LineTape(r, i, l) = After(Parcels(r), i)
      BY <3>1, TapeIs, ZenonT(60)
    <3> QED BY <1>2, <3>1
  <2>2. Parcels(r) \in Seq(Seq(Bytes)) /\ BodyOf(r) = FlattenSeq(Parcels(r)) /\ BodyOf(r) \in Seq(Bytes)
    BY ParcelsAre
  <2>3. After(Parcels(r), 0) = FlattenSeq(Parcels(r))
    BY <2>2, AfterIs
  <2> QED BY <2>1, <2>2, <2>3
<1>5. <<>> \o BodyOf(r) = BodyOf(r)
  BY <1>4, ConcatEmptySeq
<1>6. r.size = 0 => p.sse \o (p.buf \o v) = LineTape(r, 0, 0)
  BY <1>4, <1>5 DEF BodyWire
<1>7. ASSUME r.size # 0
      PROVE  \E k \in 0 .. Len(PartsOf(r)) : p.buf \o v = ChunkTape(r, k) /\ p.sse \o BodyTape(r, k) = LineTape(r, 0, 0)
  <2>1. Len(PartsOf(r)) \in Nat /\ BodyTape(r, 0) = BodyOf(r)
    BY <1>7, ChunkTapeIs
  <2>2. 0 \in 0 .. Len(PartsOf(r))
    BY <2>1
  <2> QED BY <1>4, <1>5, <1>7, <2>1, <2>2 DEF BodyWire
<1>8. Awaits(r, p, 0, 0, v)
  BY <1>6, <1>7 DEF Awaits
<1> QED BY <1>1, <1>2, <1>3, <1>8 DEF Flows

\* The headers, once they are all there.
HeadRead(r, x, b, v) ==
  /\ Len(b) < 5 => x = Nothing(Fresh(b))
  /\ Len(b) >= 5 => /\ x \in Steps /\ x.on /\ x.p.phase = "body"
                    /\ r.status = 200 => ~x.p.done /\ Flows(r, x.p, x.out, v)
                    /\ r.status # 200 => x.p.done /\ Over(r, x.p, x.out)

LEMMA ParseHeadersIs ==
  ASSUME NEW r, Meant(r), NEW b \in Seq(Bytes), NEW v \in Seq(Bytes), b \o v = WireOf(r)
  PROVE  HeadRead(r, ParseHeaders(Nothing(Fresh(b))), b, v)
<1> DEFINE x0 == Nothing(Fresh(b))
           x == ParseHeaders(x0)
           h == HeadByte(r)
           e == Item("headers", <<>>)
<1>1. /\ h \in Bytes /\ h # CR /\ h.n = r.status /\ (h.is = "chunked") = (r.size # 0)
      /\ BodyWire(r) \in Seq(Bytes) /\ b \o v = Blank(h) \o BodyWire(r)
  BY WireIs
<1> HIDE DEF h
<1>2. Headed(b, h, v, BodyWire(r))
  BY <1>1, HeadIs
<1>3. /\ x0 \in Steps /\ x0.p = Fresh(b) /\ x0.p.phase = "headers" /\ x0.p.buf = b /\ x0.out = <<>> /\ x0.on
      /\ x0.p.event = <<>> /\ x0.p.sse = <<>> /\ ~x0.p.ended /\ ~x0.p.done
  BY FreshIs DEF Nothing, Fresh
<1>4. CASE Len(b) < 5
  <2>1. HeadEnds(b) = {}
    BY <1>2, <1>4 DEF Headed
  <2>2. x = x0
    BY <1>3, <2>1 DEF ParseHeaders, HeadEnds
  <2>3. ~(Len(b) >= 5)
    <3>1. Len(b) \in Nat
      BY LenProperties
    <3> QED BY <1>4, <3>1
  <2> HIDE DEF x
  <2> QED BY <2>2, <2>3 DEF HeadRead, x, x0
<1>5. CASE ~(Len(b) < 5)
  <2> DEFINE body == [x0.p EXCEPT !.phase = "body", !.buf = From(@, 2 + 4),
                                  !.chunked = h.is = "chunked", !.done = h.n # 200]
             z == [x0 EXCEPT !.p = body]
             seen == Emit(z, e)
             f == Item("error", <<>>)
             rest == From(b, 6)
  <2>1. Len(b) >= 5
    <3>1. Len(b) \in Nat
      BY LenProperties
    <3> QED BY <1>5, <3>1
  <2>2. /\ HeadEnds(b) # {} /\ Min(HeadEnds(b)) = 2 /\ b[1] = h
        /\ rest \in Seq(Bytes) /\ rest \o v = BodyWire(r)
    BY <1>2, <2>1 DEF Headed
  <2>3. x = IF h.n = 200 THEN seen ELSE Emit(seen, f)
    <3> DEFINE c == x0.p.buf
               g == c[1]
               raw == [x0.p EXCEPT !.phase = "body", !.buf = From(@, Min(HeadEnds(c)) + 4),
                                   !.chunked = g.is = "chunked", !.done = g.n # 200]
    <3>1. c = b /\ g = h /\ HeadEnds(c) # {} /\ x0.p.phase = "headers" /\ Min(HeadEnds(c)) = 2
      BY <1>3, <2>2
    <3>2. x = IF g.n = 200 THEN Emit([x0 EXCEPT !.p = raw], e) ELSE Emit(Emit([x0 EXCEPT !.p = raw], e), f)
      <4>1. /\ HeadEnds(c) = {k \in Crlfs(x0.p.buf) : k + 2 \in Crlfs(x0.p.buf)}
        BY DEF HeadEnds
      <4> HIDE DEF x0
      <4> QED BY <3>1 DEF ParseHeaders, HeadEnds
    <3>3. raw = body
      <4> HIDE DEF c, g, x0
      <4> QED BY <3>1
    <3> HIDE DEF raw, body, g, c
    <3> QED BY <3>1, <3>2, <3>3
  <2> HIDE DEF x
  <2>4. body = [x0.p EXCEPT !.phase = "body", !.buf = rest,
                            !.chunked = h.is = "chunked", !.done = h.n # 200]
    BY <1>3
  <2> HIDE DEF body, rest
  <2> DEFINE ch == h.is = "chunked"
             dn == h.n # 200
             p0 == x0.p
  <2>5. p0 \in Fields /\ ch \in BOOLEAN /\ dn \in BOOLEAN
    BY <1>3, Typed
  <2>50. body = [p0 EXCEPT !.phase = "body", !.buf = rest, !.chunked = ch, !.done = dn]
    BY <2>4
  <2> HIDE DEF ch, dn, p0
  <2>6. body \in Fields
    BY <2>2, <2>5, <2>50 DEF Fields
  <2>70. /\ body.phase = "body" /\ body.buf = rest /\ body.chunked = ch /\ body.done = dn
         /\ body.event = p0.event /\ body.sse = p0.sse /\ body.ended = p0.ended
    BY <2>5, <2>50 DEF Fields
  <2>7. /\ body.phase = "body" /\ body.buf = rest /\ body.chunked = (h.is = "chunked") /\ body.done = (h.n # 200)
        /\ body.event = x0.p.event /\ body.sse = x0.p.sse /\ body.ended = x0.p.ended
    BY <2>70 DEF ch, dn, p0
  <2>8. z \in Steps /\ z.p = body /\ z.out = x0.out /\ z.on = x0.on
    BY <1>3, <2>6 DEF Steps
  <2>9. e \in Items /\ f \in Items
    BY EndItems, Typed DEF Kinds
  <2> HIDE DEF z, e, f
  <2>10. seen \in Steps /\ seen.p = body /\ seen.on /\ seen.out = Append(<<>>, e)
    <3>1. seen \in Steps /\ seen.p = z.p /\ seen.on = z.on /\ seen.out = Append(z.out, e)
      BY <2>8, <2>9, EmitIs
    <3> HIDE DEF seen
    <3> QED BY <1>3, <2>8, <3>1
  <2> HIDE DEF seen
  <2>11. seen.out = Got(r, 0)
    <3>1. Append(<<>>, e) = <<e>>
      BY <2>9
    <3>2. Got(r, 0) = <<e>>
      BY GotIs DEF e
    <3> QED BY <2>10, <3>1, <3>2
  <2>12. ASSUME r.status = 200
         PROVE  x \in Steps /\ x.on /\ x.p.phase = "body" /\ ~x.p.done /\ Flows(r, x.p, x.out, v)
    <3>1. x = seen
      BY <1>1, <2>3, <2>12
    <3>2. ~body.done /\ body.chunked = (r.size # 0) /\ ~body.ended /\ body.event = <<>> /\ body.sse = <<>>
          /\ body.buf \o v = BodyWire(r)
      BY <1>1, <1>3, <2>2, <2>7, <2>12
    <3>3. Flows(r, body, Got(r, 0), v)
      BY <2>6, <2>7, <2>12, <3>2, AtStart
    <3> QED BY <2>7, <2>10, <2>11, <3>1, <3>2, <3>3
  <2>13. ASSUME r.status # 200
         PROVE  x \in Steps /\ x.on /\ x.p.phase = "body" /\ x.p.done /\ Over(r, x.p, x.out)
    <3>1. x = Emit(seen, f)
      BY <1>1, <2>3, <2>13
    <3>2. Emit(seen, f) \in Steps /\ Emit(seen, f).p = seen.p /\ Emit(seen, f).on = seen.on
          /\ Emit(seen, f).out = Append(seen.out, f)
      BY <2>9, <2>10, EmitIs
    <3>3. body.done
      BY <1>1, <2>7, <2>13
    <3>4. x.out = Append(Got(r, 0), f)
      BY <2>11, <3>1, <3>2
    <3>5. Len(r.events) = 0
      <4>1. r.events = <<>>
        BY <2>13 DEF Meant
      <4> QED BY <4>1
    <3>6. x.out = Whole(r)
      <4>1. Whole(r) = Append(Got(r, Len(r.events)), f)
        BY <2>13, WholeFits DEF f
      <4> QED BY <3>4, <3>5, <4>1
    <3>7. Fits(r, x.out)
      BY <3>6, WholeFits
    <3> QED BY <2>7, <2>10, <3>1, <3>2, <3>3, <3>7 DEF Over
  <2>14. HeadRead(r, x, b, v)
    BY <1>5, <2>12, <2>13, Zenon DEF HeadRead
  <2> QED BY <2>14 DEF x, x0
<1> QED BY <1>4, <1>5

-----------------------------------------------------------------------------
(* A read.                                                                 *)

\* Where the parser is when v of the response is not read, and s returned.
Open(r, p, s, v) ==
  \/ /\ s = <<>> /\ \E b \in Seq(Bytes) : p = Fresh(b) /\ Len(b) < 5 /\ b \o v = WireOf(r)
  \/ Within(r, p, s, v)
  \/ Over(r, p, s)

Fed(r, y, s, v) == y \in Steps /\ Open(r, y.p, s \o y.out, v)

\* feed, wherever the parser is.
LEMMA FeedIs ==
  ASSUME NEW r, Meant(r), NEW p \in Fields, NEW s \in Seq(Items), NEW bytes \in Seq(Bytes), NEW v \in Seq(Bytes),
         Open(r, p, s, bytes \o v)
  PROVE  Fed(r, FeedOf(p, bytes), s, v)
<1> DEFINE q == [p EXCEPT !.buf = @ \o bytes]
           x0 == Nothing(q)
           x == ParseHeaders(x0)
           y == FeedOf(p, bytes)
<1>0. s \o <<>> = s /\ <<>> \in Seq(Items) /\ \A o \in Seq(Items) : <<>> \o o = o
  BY ConcatEmptySeq
<1>1. y = IF p.done THEN Nothing(p)
          ELSE IF x.p.phase = "body" /\ ~x.p.done THEN Body(x) ELSE x
  BY DEF FeedOf
<1> HIDE DEF y
<1>2. CASE s = <<>> /\ \E b \in Seq(Bytes) : p = Fresh(b) /\ Len(b) < 5 /\ b \o (bytes \o v) = WireOf(r)
  <2>1. PICK b \in Seq(Bytes) : p = Fresh(b) /\ b \o (bytes \o v) = WireOf(r)
    BY <1>2
  <2> DEFINE c == b \o bytes
  <2>2. c \in Seq(Bytes) /\ c \o v = WireOf(r)
    <3>1. (b \o bytes) \o v = b \o (bytes \o v)
      BY Regroup
    <3> QED BY <2>1, <3>1, Joins
  <2>3. q = Fresh(c) /\ ~p.done
    <3>1. [Fresh(b) EXCEPT !.buf = @ \o bytes] = Fresh(b \o bytes)
      BY FreshIs
    <3> QED BY <2>1, <3>1 DEF Fresh
  <2> HIDE DEF q, c
  <2>40. HeadRead(r, x, c, v)
    BY <2>2, <2>3, ParseHeadersIs
  <2> HIDE DEF x
  <2>4. /\ Len(c) < 5 => x = Nothing(Fresh(c))
        /\ Len(c) >= 5 => /\ x \in Steps /\ x.on /\ x.p.phase = "body"
                          /\ r.status = 200 => ~x.p.done /\ Flows(r, x.p, x.out, v)
                          /\ r.status # 200 => x.p.done /\ Over(r, x.p, x.out)
    BY <2>40, Zenon DEF HeadRead
  <2>5. CASE Len(c) < 5
    <3>1. x = Nothing(Fresh(c))
      BY <2>4, <2>5
    <3>2. x \in Steps /\ x.p = Fresh(c) /\ x.out = <<>> /\ x.p.phase = "headers"
      BY <2>2, <3>1, FreshIs DEF Nothing, Fresh
    <3>3. y = x
      BY <1>1, <2>3, <3>2
    <3>4. Open(r, y.p, s \o y.out, v)
      BY <1>0, <1>2, <2>2, <2>5, <3>2, <3>3 DEF Open
    <3> QED BY <3>2, <3>3, <3>4 DEF Fed, y
  <2>6. CASE ~(Len(c) < 5)
    <3>0. Len(c) >= 5
      <4>1. Len(c) \in Nat
        BY <2>2, LenProperties
      <4> QED BY <2>6, <4>1
    <3>1. x \in Steps /\ x.on /\ x.p.phase = "body" /\ x.out \in Seq(Items)
      BY <2>4, <3>0, Typed
    <3>2. s \o x.out = x.out
      BY <1>0, <1>2, <3>1
    <3>3. CASE r.status = 200
      <4>1. ~x.p.done /\ Flows(r, x.p, s \o x.out, v)
        BY <2>4, <3>0, <3>2, <3>3
      <4>2. y = Body(x)
        BY <1>1, <2>3, <3>1, <4>1
      <4>3. Read(r, Body(x), s \o Body(x).out, v)
        BY <3>1, <4>1, BodyIs
      <4> QED BY <4>2, <4>3 DEF Read, Fed, Open, y
    <3>4. CASE r.status # 200
      <4>1. x.p.done /\ Over(r, x.p, s \o x.out)
        BY <2>4, <3>0, <3>2, <3>4
      <4>2. y = x
        BY <1>1, <2>3, <4>1
      <4> QED BY <3>1, <4>1, <4>2 DEF Fed, Open, y
    <3> QED BY <3>3, <3>4
  <2> QED BY <2>5, <2>6
<1>3. CASE Within(r, p, s, bytes \o v)
  <2>1. Flows(r, p, s, bytes \o v)
    BY <1>3 DEF Within
  <2>2. PICK i \in 0 .. Len(r.events), l \in Nat :
          Place(r, i, l) /\ p.event = EventAt(r, i, l) /\ s = Got(r, i) /\ Awaits(r, p, i, l, bytes \o v)
    BY <2>1 DEF Flows
  <2>3. /\ p.phase = "body" /\ ~p.done /\ ~p.ended /\ p.chunked = (r.size # 0) /\ r.status = 200
        /\ p.buf \in Seq(Bytes)
    BY <2>1 DEF Flows, Fields
  <2>4. p.buf \o bytes \in Seq(Bytes) /\ (p.buf \o bytes) \o v = p.buf \o (bytes \o v)
    <3> DEFINE a == p.buf
    <3>1. a \in Seq(Bytes)
      BY <2>3
    <3> HIDE DEF a
    <3>2. a \o bytes \in Seq(Bytes) /\ (a \o bytes) \o v = a \o (bytes \o v)
      BY <3>1, Joins, Regroup
    <3> QED BY <3>2 DEF a
  <2>5. q \in Fields
    BY <2>4 DEF Fields
  <2>6. /\ q.buf = p.buf \o bytes /\ q.phase = p.phase /\ q.sse = p.sse /\ q.event = p.event
        /\ q.chunked = p.chunked /\ q.ended = p.ended /\ q.done = p.done
    BY DEF Fields
  <2> HIDE DEF q
  <2>7. x0 \in Steps /\ x0.p = q /\ x0.out = <<>> /\ x0.on
    <3>1. <<>> \in Seq(Items) /\ TRUE \in BOOLEAN
      OBVIOUS
    <3> QED BY <2>5, <3>1 DEF Nothing, Steps
  <2>8. x = x0
    BY <2>3, <2>6, <2>7 DEF ParseHeaders
  <2>9. y = Body(x0)
    BY <1>1, <2>3, <2>6, <2>7, <2>8
  <2> HIDE DEF x0
  <2>10. Awaits(r, q, i, l, v)
    BY <2>2, <2>4, <2>6 DEF Awaits
  <2>11. Flows(r, x0.p, s \o x0.out, v)
    <3>1. Flows(r, q, s, v)
      BY <2>2, <2>3, <2>5, <2>6, <2>10 DEF Flows
    <3> QED BY <1>0, <2>7, <3>1
  <2>12. Read(r, Body(x0), s \o Body(x0).out, v)
    BY <2>7, <2>11, BodyIs
  <2> QED BY <2>9, <2>12 DEF Read, Fed, Open, y
<1>4. CASE Over(r, p, s)
  <2>1. y = Nothing(p)
    BY <1>1, <1>4 DEF Over
  <2>2. y \in Steps /\ y.p = p /\ y.out = <<>>
    <3>1. <<>> \in Seq(Items) /\ TRUE \in BOOLEAN
      OBVIOUS
    <3> QED BY <2>1, <3>1 DEF Nothing, Steps
  <2> QED BY <1>0, <1>4, <2>2 DEF Fed, Open, y
<1> QED BY <1>2, <1>3, <1>4 DEF Open

-----------------------------------------------------------------------------
(* The end of the connection, and the whole.                               *)

\* What NothingInvented says of what is returned: events that were sent, the
\* last one shortened at most, or not even that.
Exact(r, s) == LET data == DataOf(s)
               IN Len(data) <= Len(r.events) /\ \A i \in DOMAIN data : data[i] = r.events[i]
Near(r, s)  == LET data == DataOf(s)
               IN /\ Len(data) <= Len(r.events)
                  /\ \A i \in DOMAIN data : \/ data[i] = r.events[i]
                                            \/ i = Len(data) /\ IsPrefix(data[i], r.events[i])

\* The first events of a response are exact.
LEMMA ExactIs ==
  ASSUME NEW r, Meant(r), NEW s, NEW j \in 0 .. Len(r.events), DataOf(s) = SubSeq(r.events, 1, j)
  PROVE  /\ Exact(r, s) /\ Near(r, s)
<1> DEFINE d == SubSeq(r.events, 1, j)
<1>1. r.events \in Seq(Events) /\ Len(r.events) \in Nat
  BY AllIs
<1>2. /\ d \in Seq(Events) /\ Len(d) = j /\ \A i \in 1 .. j : d[i] = r.events[i]
  <2>1. \A i \in 1 .. j : r.events[i] \in Events
    BY <1>1, LenProperties
  <2>2. 1 \in Int /\ j \in Int /\ j \in Nat
    BY <1>1
  <2>3. /\ d \in Seq(Events) /\ Len(d) = (IF 1 <= j THEN j - 1 + 1 ELSE 0)
        /\ \A i \in 1 .. j - 1 + 1 : d[i] = r.events[1 + i - 1]
    BY <2>1, <2>2, SubSeqProperties
  <2> HIDE DEF d
  <2>4. Len(d) = j
    BY <2>2, <2>3
  <2>5. \A i \in 1 .. j : i \in 1 .. j - 1 + 1 /\ 1 + i - 1 = i
    BY <2>2
  <2> QED BY <2>3, <2>4, <2>5
<1> HIDE DEF d
<1>3. DataOf(s) = d /\ DOMAIN d = 1 .. j
  BY <1>2, LenProperties DEF d
<1>4. Len(d) <= Len(r.events)
  BY <1>1, <1>2
<1> QED BY <1>2, <1>3, <1>4 DEF Exact, Near

\* As long as the connection is open, what was returned is exact.
LEMMA OpenExact ==
  ASSUME NEW r, Meant(r), NEW p, NEW s, NEW v, Open(r, p, s, v)
  PROVE  Exact(r, s) /\ Near(r, s)
<1>1. \E j \in 0 .. Len(r.events) : DataOf(s) = SubSeq(r.events, 1, j)
  <2>1. CASE s = <<>>
    <3>1. SubSeq(r.events, 1, 0) = <<>> /\ DataOf(s) = <<>>
      BY <2>1, DataIs, SubSeqEmpty
    <3>2. 0 \in 0 .. Len(r.events)
      BY GotIs
    <3> QED BY <3>1, <3>2
  <2>2. CASE Within(r, p, s, v)
    <3>1. PICK i \in 0 .. Len(r.events) : s = Got(r, i)
      BY <2>2 DEF Within, Flows
    <3>2. DataOf(Got(r, i)) = SubSeq(r.events, 1, i)
      BY GotIs
    <3> QED BY <3>1, <3>2
  <2>3. CASE Over(r, p, s)
    BY <2>3 DEF Over, Fits, Cut
  <2> QED BY <2>1, <2>2, <2>3 DEF Open
<1> QED BY <1>1, ExactIs

\* A body that is all read is over, unless its end is that of the connection.
LEMMA AllRead ==
  ASSUME NEW r, Meant(r), NEW p \in Fields, NEW s, NEW v \in Seq(Bytes), v = <<>>, Within(r, p, s, v)
  PROVE  /\ r.size = 0 /\ ~r.stop /\ s = Got(r, Len(r.events)) /\ p.event = <<>>
<1>1. r.size = 0 /\ p.buf = <<>> /\ Lfs(p.sse) = {} /\ Flows(r, p, s, v)
  BY DEF Within
<1>2. PICK i \in 0 .. Len(r.events), l \in Nat :
        Place(r, i, l) /\ p.event = EventAt(r, i, l) /\ s = Got(r, i) /\ Awaits(r, p, i, l, v)
  BY <1>1 DEF Flows
<1>3. p.sse \in Seq(Bytes) /\ <<>> \in Seq(Bytes)
  BY DEF Fields
<1>4. p.sse = LineTape(r, i, l)
  <2>1. p.sse \o (<<>> \o <<>>) = LineTape(r, i, l)
    BY <1>1, <1>2 DEF Awaits
  <2>2. <<>> \o <<>> = <<>>
    BY <1>3, ConcatEmptySeq
  <2>3. p.sse \o <<>> = p.sse
    BY <1>3, ConcatEmptySeq
  <2> QED BY <2>1, <2>2, <2>3
<1>5. i = Len(All(r))
  BY <1>1, <1>2, <1>4, NoLineLeft
<1>6. p.event = <<>>
  BY <1>2, <1>5 DEF EventAt
<1>7. i = Len(r.events) /\ ~r.stop
  <2>1. (r.stop => Len(All(r)) = Len(r.events) + 1) /\ (~r.stop => Len(All(r)) = Len(r.events))
        /\ Len(r.events) \in Nat
    BY AllIs
  <2> QED BY <1>5, <2>1
<1> QED BY <1>1, <1>2, <1>6, <1>7

\* A response has a head of five bytes.
LEMMA WireLong ==
  ASSUME NEW r, Meant(r)
  PROVE  WireOf(r) \in Seq(Bytes) /\ Len(WireOf(r)) >= 5 /\ Len(WireOf(r)) \in Nat
<1> DEFINE h == HeadByte(r)
           w == Blank(h)
           t == BodyWire(r)
<1>1. h \in Bytes /\ t \in Seq(Bytes) /\ WireOf(r) = w \o t
  BY WireIs
<1> HIDE DEF h, t
<1>2. w \in Seq(Bytes) /\ Len(w) = 5
  <2>1. CR \in Bytes /\ LF \in Bytes
    BY BytesAre
  <2> QED BY <1>1, <2>1 DEF Blank
<1> HIDE DEF w
<1>3. w \o t \in Seq(Bytes) /\ Len(w \o t) = 5 + Len(t) /\ Len(t) \in Nat
  BY <1>1, <1>2, Joins, LenProperties
<1> QED BY <1>1, <1>3

\* A response that is all read, and says where it ends, has been returned in
\* whole.
LEMMA OpenWhole ==
  ASSUME NEW r, Meant(r), NEW p \in Fields, NEW s, NEW v \in Seq(Bytes), v = <<>>, Open(r, p, s, v),
         r.stop \/ r.size # 0, ~r.bad
  PROVE  s = Whole(r)
<1>1. CASE \E b \in Seq(Bytes) : p = Fresh(b) /\ Len(b) < 5 /\ b \o v = WireOf(r)
  <2>1. PICK b \in Seq(Bytes) : Len(b) < 5 /\ b \o v = WireOf(r)
    BY <1>1
  <2>2. b = WireOf(r)
    <3>1. b \o <<>> = b
      BY ConcatEmptySeq
    <3> QED BY <2>1, <3>1
  <2>3. Len(WireOf(r)) >= 5 /\ Len(WireOf(r)) \in Nat
    BY WireLong
  <2> QED BY <2>1, <2>2, <2>3
<1>2. CASE Within(r, p, s, v)
  BY <1>2, AllRead
<1>3. CASE Over(r, p, s)
  BY <1>3 DEF Over, Fits
<1> QED BY <1>1, <1>2, <1>3 DEF Open

\* After end.
Closes(r, y, s, v) ==
  /\ y \in Steps /\ s \in Seq(Items) /\ Near(r, s)
  /\ v = <<>> /\ ~r.bad => s = Whole(r)
  /\ y.p.phase = "body" => \E k \in DOMAIN s : s[k].kind \in {"done", "error"}

\* The first l elements are a prefix.
LEMMA PrefixIs ==
  ASSUME NEW S, NEW e \in Seq(S), NEW l \in Nat, l <= Len(e)
  PROVE  IsPrefix(SubSeq(e, 1, l), e)
<1> DEFINE d == SubSeq(e, 1, l)
<1>1. d \in Seq(S)
  BY PartIs
<1>2. Len(d) = l
  <2>1. \A i \in 1 .. l : e[i] \in S
    BY LenProperties
  <2>2. Len(d) = IF 1 <= l THEN l - 1 + 1 ELSE 0
    BY <2>1, SubSeqProperties
  <2> QED BY <2>2
<1> HIDE DEF d
<1>3. SubSeq(d, 1, l) = d
  BY <1>1, <1>2, SubSeqFull
<1> QED BY <1>2, <1>3 DEF IsPrefix, d

\* An event that the cut shortens.
LEMMA ShortIs ==
  ASSUME NEW r, Meant(r), NEW i \in 0 .. Len(r.events), NEW l \in Nat, Place(r, i, l),
         EventAt(r, i, l) \notin {<<>>, <<Stop>>}
  PROVE  /\ i \in 0 .. Len(r.events) - 1 /\ IsPrefix(EventAt(r, i, l), r.events[i + 1])
         /\ EventAt(r, i, l) \in Seq(Bytes) /\ i # Len(All(r))
<1> DEFINE n == Len(r.events)
           N == Len(All(r))
           e == All(r)[i + 1]
<1>1. n \in Nat /\ N \in Nat /\ (r.stop => N = n + 1) /\ (~r.stop => N = n) /\ (r.stop => All(r)[n + 1] = <<Stop>>)
  BY AllIs, ParcelsAre
<1>2. i # N /\ i \in 0 .. N /\ l <= Len(e) /\ EventAt(r, i, l) = SubSeq(e, 1, l)
  BY DEF EventAt, Place
<1>3. i + 1 \in 1 .. N
  BY <1>1, <1>2
<1>4. e \in Seq(TextBytes)
  BY <1>3, SaidIs
<1>5. i # n
  <2>1. SUFFICES ASSUME i = n PROVE FALSE
    OBVIOUS
  <2>2. e = <<Stop>>
    BY <1>1, <1>2, <2>1
  <2>3. Len(<<Stop>>) = 1 /\ <<Stop>> \in Seq(TextBytes)
    BY EventsAre
  <2>4. l = 0 \/ l = 1
    BY <1>2, <2>2, <2>3
  <2>5. SubSeq(e, 1, 0) = <<>>
    BY SubSeqEmpty
  <2>6. SubSeq(<<Stop>>, 1, 1) = <<Stop>>
    BY <2>3, SubSeqFull
  <2> QED BY <1>2, <2>2, <2>4, <2>5, <2>6
<1>6. i \in 0 .. n - 1 /\ i + 1 \in 1 .. n
  BY <1>1, <1>5
<1>7. e = r.events[i + 1]
  BY <1>6, AllIs
<1> HIDE DEF e
<1>8. IsPrefix(SubSeq(e, 1, l), e)
  BY <1>2, <1>4, PrefixIs
<1>9. EventAt(r, i, l) \in Seq(Bytes)
  <2>1. SubSeq(e, 1, l) \in Seq(TextBytes)
    BY <1>2, <1>4, PartIs
  <2>2. TextBytes \subseteq Bytes
    BY BytesAre
  <2> QED BY <1>2, <2>1, <2>2, SeqMonotonic
<1> QED BY <1>2, <1>6, <1>7, <1>8, <1>9

\* end, wherever the parser is.
LEMMA EndIs ==
  ASSUME NEW r, Meant(r), NEW p \in Fields, NEW s \in Seq(Items), NEW v \in Seq(Bytes), Open(r, p, s, v)
  PROVE  Closes(r, EndOf(p), s \o EndOf(p).out, v)
<1> DEFINE y == EndOf(p)
           x == Nothing(p)
           x1 == IF p.chunked THEN x ELSE Undecoded(x)
           n == Len(r.events)
<1>0. s \o <<>> = s
  BY ConcatEmptySeq
<1>1. x \in Steps /\ x.p = p /\ x.out = <<>> /\ x.on
  <2>1. <<>> \in Seq(Items) /\ TRUE \in BOOLEAN
    OBVIOUS
  <2> QED BY <2>1 DEF Nothing, Steps
<1>2. y = IF p.done \/ p.phase # "body" THEN x ELSE Finish(ParseSse(x1))
  BY DEF EndOf
<1>3. Near(r, s)
  BY OpenExact
<1> HIDE DEF x, y
<1>4. CASE \/ s = <<>> /\ \E b \in Seq(Bytes) : p = Fresh(b) /\ Len(b) < 5 /\ b \o v = WireOf(r)
           \/ Over(r, p, s)
  <2>1. y = x
    BY <1>2, <1>4 DEF Over, Fresh
  <2>2. s \o y.out = s
    BY <1>0, <1>1, <2>1
  <2>3. p.phase = "body" => \E k \in DOMAIN s : s[k].kind \in {"done", "error"}
    BY <1>4 DEF Fresh, Over, Fits, Cut
  <2>4. v = <<>> /\ ~r.bad => s = Whole(r)
    <3>1. SUFFICES ASSUME v = <<>>, ~r.bad PROVE s = Whole(r)
      OBVIOUS
    <3>2. CASE Over(r, p, s)
      BY <3>1, <3>2 DEF Over, Fits
    <3>3. CASE \E b \in Seq(Bytes) : p = Fresh(b) /\ Len(b) < 5 /\ b \o v = WireOf(r)
      <4>1. PICK b \in Seq(Bytes) : Len(b) < 5 /\ b \o v = WireOf(r)
        BY <3>3
      <4>2. Len(WireOf(r)) >= 5 /\ Len(WireOf(r)) \in Nat
        BY WireLong
      <4>3. b \o v = b
        BY <3>1, ConcatEmptySeq
      <4>4. b = WireOf(r)
        BY <4>1, <4>3
      <4> QED BY <4>1, <4>2, <4>4
    <3> QED BY <1>4, <3>2, <3>3
  <2>5. Closes(r, y, s, v)
    BY <1>1, <1>3, <2>1, <2>3, <2>4 DEF Closes
  <2> QED BY <2>2, <2>5 DEF y
<1>5. CASE Within(r, p, s, v)
  <2>1. Lfs(p.sse) = {} /\ Flows(r, p, s, v) /\ (r.size # 0 => v # <<>>) /\ (r.size = 0 => p.buf = <<>>)
    BY <1>5 DEF Within
  <2>2. /\ p.phase = "body" /\ ~p.done /\ p.chunked = (r.size # 0) /\ r.status = 200
        /\ p.sse \in Seq(Bytes) /\ p.event \in Seq(Bytes) /\ <<>> \in Seq(Bytes)
    BY <2>1 DEF Flows, Fields
  <2>3. PICK i \in 0 .. n, l \in Nat : Place(r, i, l) /\ p.event = EventAt(r, i, l) /\ s = Got(r, i)
    BY <2>1 DEF Flows
  <2>4. /\ x1 \in Steps /\ x1.p.sse = p.sse /\ x1.p.event = p.event /\ x1.p.done = p.done /\ x1.p.phase = p.phase
        /\ x1.out = <<>>
    <3>1. CASE p.chunked
      BY <1>1, <3>1
    <3>2. CASE ~p.chunked
      <4>1. r.size = 0 /\ p.buf = <<>>
        BY <2>1, <2>2, <3>2
      <4>2. p.sse \o p.buf = p.sse
        BY <2>2, <4>1, ConcatEmptySeq
      <4> DEFINE z == Undecoded(x)
      <4>3. z = [x EXCEPT !.p.sse = @ \o x.p.buf, !.p.buf = <<>>]
        BY DEF Undecoded
      <4>4. z \in Steps
        BY <1>1, <2>2, <4>2 DEF Undecoded, Steps, Fields
      <4>5. /\ z.p.sse = p.sse \o p.buf /\ z.p.event = p.event /\ z.p.done = p.done /\ z.p.phase = p.phase
            /\ z.out = x.out
        BY <1>1 DEF Undecoded, Steps, Fields
      <4> HIDE DEF z
      <4>6. x1 = z
        BY <3>2 DEF z
      <4> HIDE DEF x1
      <4> QED BY <1>1, <4>2, <4>4, <4>5, <4>6
    <3> QED BY <3>1, <3>2
  <2> HIDE DEF x1
  <2>5. ParseSse(x1) = x1
    <3> DEFINE I == {x1}
    <3>1. I \in SUBSET Steps /\ x1 \in I
      BY <2>4
    <3>2. LineStep(x1) = x1
      BY <2>1, <2>4 DEF LineStep
    <3>3. \A z \in I : LineStep(z) \in I
      BY <3>2
    <3> HIDE DEF I
    <3>4. Settled(I, ParseSse(x1))
      BY <3>1, <3>3, ParseEnds
    <3>5. ParseSse(x1) \in I
      BY <3>4 DEF Settled
    <3> QED BY <3>5 DEF I
  <2>6. Finished(x1, y)
    <3>1. y = Finish(x1)
      BY <1>2, <2>2, <2>5
    <3> QED BY <2>2, <2>4, <3>1, FinishIs
  <2> DEFINE e == Item("done", <<>>)
             d == Item("data", p.event)
  <2>7. e \in Items /\ e.kind \in {"done", "error"} /\ d \in Items /\ d.kind = "data" /\ d.event = p.event
    BY <2>2, EndItems, Typed DEF Kinds
  <2> HIDE DEF e, d
  <2>8. y \in Steps /\ y.p.done
    BY <2>6 DEF Finished
  <2>9. DataOf(s) = SubSeq(r.events, 1, i)
    BY <2>3, GotIs
  <2>10. CASE p.event \in {<<>>, <<Stop>>}
    <3>1. y.out = Append(<<>>, e)
      BY <2>4, <2>6, <2>10 DEF Finished, e
    <3>2. s \o y.out = Append(s, e)
      <4>1. <<>> \in Seq(Items)
        OBVIOUS
      <4>2. s \o Append(<<>>, e) = Append(s \o <<>>, e)
        BY <2>7, <4>1, AppendLast
      <4> QED BY <1>0, <3>1, <4>2
    <3> DEFINE t == Append(s, e)
    <3>3. t \in Seq(Items)
      BY <2>7
    <3>4. Cut(r, t)
      BY <2>7, <2>9, CutIs
    <3>5. e.kind # "data"
      BY <2>7
    <3>6. DataOf(t) = SubSeq(r.events, 1, i)
      BY <2>7, <2>9, <3>5, DataIs
    <3> HIDE DEF t
    <3>7. Near(r, t)
      BY <3>6, ExactIs
    <3>8. v = <<>> => t = Whole(r)
      <4>1. SUFFICES ASSUME v = <<>> PROVE t = Whole(r)
        OBVIOUS
      <4>2. s = Got(r, Len(r.events))
        BY <1>5, <4>1, AllRead
      <4>3. Whole(r) = Append(Got(r, Len(r.events)), Item("done", <<>>))
        BY <2>2, WholeFits
      <4> QED BY <4>2, <4>3 DEF t, e
    <3>9. Closes(r, y, t, v)
      BY <2>8, <3>3, <3>4, <3>7, <3>8 DEF Closes, Cut
    <3> QED BY <3>2, <3>9 DEF t, y
  <2>11. CASE p.event \notin {<<>>, <<Stop>>}
    <3>1. y.out = Append(Append(<<>>, d), e)
      BY <2>4, <2>6, <2>11 DEF Finished, e, d
    <3> DEFINE t0 == Append(s, d)
               t == Append(t0, e)
    <3>2. s \o y.out = t
      <4>1. <<>> \in Seq(Items)
        OBVIOUS
      <4>2. s \o Append(<<>>, d) = Append(s \o <<>>, d)
        BY <2>7, <4>1, AppendLast
      <4> DEFINE a == Append(<<>>, d)
      <4>3. a \in Seq(Items)
        BY <2>7, <4>1
      <4> HIDE DEF a
      <4>4. s \o Append(a, e) = Append(s \o a, e)
        BY <2>7, <4>3, AppendLast
      <4> QED BY <1>0, <3>1, <4>2, <4>4 DEF a
    <3>3. t0 \in Seq(Items) /\ t \in Seq(Items)
      BY <2>7
    <3>4. /\ i \in 0 .. n - 1 /\ IsPrefix(p.event, r.events[i + 1])
          /\ p.event \in Seq(Bytes) /\ i # Len(All(r))
      BY <2>3, <2>11, ShortIs
    <3>5. DataOf(t0) = Append(SubSeq(r.events, 1, i), p.event)
      BY <2>7, <2>9, DataIs
    <3>6. e.kind # "data"
      BY <2>7
    <3>7. DataOf(t) = Append(SubSeq(r.events, 1, i), p.event)
      BY <2>7, <3>3, <3>5, <3>6, DataIs
    <3> DEFINE g == SubSeq(r.events, 1, i)
    <3>8. g \in Seq(Seq(Bytes)) /\ Len(g) = i /\ i \in Nat /\ i + 1 <= n /\ \A k \in 1 .. i : g[k] = r.events[k]
      <4>1. DataOf(s) = g /\ DataOf(s) \in Seq(Seq(Bytes))
        <5>1. e \in Items
          BY <2>7
        <5> QED BY <2>9, <5>1, DataIs
      <4>2. n \in Nat /\ r.events \in Seq(Events)
        BY AllIs
      <4>3. i \in Nat /\ i + 1 <= n
        BY <3>4, <4>2
      <4>4. \A k \in 1 .. i : r.events[k] \in Events
        <5>1. \A k \in 1 .. i : k \in 1 .. n
          BY <4>2, <4>3
        <5> QED BY <4>2, <5>1, LenProperties
      <4>5. 1 \in Int /\ i \in Int
        BY <4>3
      <4>6. /\ Len(g) = (IF 1 <= i THEN i - 1 + 1 ELSE 0)
            /\ \A k \in 1 .. i - 1 + 1 : g[k] = r.events[1 + k - 1]
        BY <4>4, <4>5, SubSeqProperties
      <4> HIDE DEF g
      <4>7. Len(g) = i
        BY <4>3, <4>6
      <4>8. \A k \in 1 .. i : k \in 1 .. i - 1 + 1 /\ 1 + k - 1 = k
        BY <4>3
      <4> QED BY <4>1, <4>3, <4>6, <4>7, <4>8
    <3>9. Near(r, t)
      <4> DEFINE h == Append(g, p.event)
      <4> HIDE DEF g
      <4>1. /\ h \in Seq(Seq(Bytes)) /\ Len(h) = i + 1 /\ h[i + 1] = p.event
            /\ \A k \in 1 .. i : h[k] = g[k]
        BY <3>4, <3>8, AppendProperties
      <4>2. DataOf(t) = h
        BY <3>7 DEF g
      <4> HIDE DEF h, t
      <4>3. DOMAIN h = 1 .. i + 1
        BY <4>1, LenProperties
      <4>4. \A k \in 1 .. i + 1 : k = i + 1 \/ k \in 1 .. i
        BY <3>8
      <4>5. \A k \in DOMAIN h : h[k] = r.events[k] \/ (k = Len(h) /\ IsPrefix(h[k], r.events[k]))
        <5>1. ASSUME NEW k \in DOMAIN h PROVE h[k] = r.events[k] \/ (k = Len(h) /\ IsPrefix(h[k], r.events[k]))
          <6>1. CASE k = i + 1
            BY <3>4, <4>1, <6>1
          <6>2. CASE k \in 1 .. i
            BY <3>8, <4>1, <6>2
          <6> QED BY <4>3, <4>4, <6>1, <6>2
        <5> QED BY <5>1
      <4> QED BY <3>8, <4>1, <4>2, <4>5 DEF Near
    <3>10. v # <<>>
      <4>1. SUFFICES ASSUME v = <<>> PROVE FALSE
        OBVIOUS
      <4>2. p.event = <<>>
        BY <1>5, <4>1, AllRead
      <4> QED BY <2>11, <4>2
    <3>11. \E k \in DOMAIN t : t[k].kind \in {"done", "error"}
      <4> HIDE DEF t0
      <4>1. Len(t) = Len(t0) + 1 /\ t[Len(t0) + 1] = e /\ Len(t0) \in Nat
        BY <2>7, <3>3, AppendProperties, LenProperties
      <4> HIDE DEF t
      <4>2. Len(t0) + 1 \in DOMAIN t
        BY <3>3, <4>1, LenProperties
      <4> QED BY <2>7, <4>1, <4>2
    <3> HIDE DEF t
    <3>12. Closes(r, y, t, v)
      BY <2>8, <3>3, <3>9, <3>10, <3>11 DEF Closes
    <3> QED BY <3>2, <3>12 DEF y
  <2> QED BY <2>10, <2>11
<1> QED BY <1>4, <1>5 DEF Open

\* All of a response, as Faithful writes it.
LEMMA WholeForm ==
  ASSUME NEW r, Meant(r)
  PROVE  Whole(r) = <<Item("headers", <<>>)>>
                      \o [i \in DOMAIN r.events |-> Item("data", r.events[i])]
                      \o <<Item(IF r.status = 200 THEN "done" ELSE "error", <<>>)>>
<1> DEFINE n == Len(r.events)
           e == Item(IF r.status = 200 THEN "done" ELSE "error", <<>>)
<1>1. DOMAIN r.events = 1 .. n
  BY AllIs, LenProperties
<1>2. Got(r, n) = <<Item("headers", <<>>)>> \o [i \in DOMAIN r.events |-> Item("data", r.events[i])]
  BY <1>1 DEF Got
<1>3. Got(r, n) \in Seq(Items)
  <2>1. n \in 0 .. n
    BY GotIs
  <2> QED BY <2>1, GotIs
<1>4. e \in Items
  BY EndItems
<1>5. Whole(r) = Append(Got(r, n), e)
  BY DEF Whole
<1> HIDE DEF e
<1>6. Append(Got(r, n), e) = Got(r, n) \o <<e>>
  BY <1>3, <1>4, AppendIsConcat
<1> QED BY <1>2, <1>5, <1>6 DEF e

\* Where a read cuts the wire.
LEMMA WireCut ==
  ASSUME NEW w \in Seq(Bytes), NEW a \in 0 .. Len(w)
  PROVE  /\ From(w, a + 1) \in Seq(Bytes) /\ (a = Len(w) => From(w, a + 1) = <<>>)
         /\ From(w, 1) = w
         /\ \A m \in 1 .. Len(w) - a :
              /\ a + m \in 0 .. Len(w) /\ SubSeq(w, a + 1, a + m) \in Seq(Bytes)
              /\ From(w, a + m + 1) \in Seq(Bytes)
              /\ From(w, a + 1) = SubSeq(w, a + 1, a + m) \o From(w, a + m + 1)
<1>1. Len(w) \in Nat /\ a \in Nat
  BY LenProperties
<1>2. \A b \in 0 .. Len(w) : From(w, b + 1) \in Seq(Bytes)
  BY LeftIs
<1>3. a = Len(w) => From(w, a + 1) = <<>>
  <2>1. Len(w) < Len(w) + 1
    BY <1>1
  <2>2. SubSeq(w, Len(w) + 1, Len(w)) = <<>>
    BY <1>1, <2>1, SubSeqEmpty
  <2> QED BY <2>2 DEF From
<1>4. From(w, 1) = w
  BY SubSeqFull DEF From
<1>5. ASSUME NEW m \in 1 .. Len(w) - a
      PROVE  /\ a + m \in 0 .. Len(w) /\ SubSeq(w, a + 1, a + m) \in Seq(Bytes)
             /\ From(w, a + m + 1) \in Seq(Bytes)
             /\ From(w, a + 1) = SubSeq(w, a + 1, a + m) \o From(w, a + m + 1)
  <2>1. a + m \in 0 .. Len(w) /\ a + 1 \in 1 .. Len(w) + 1 /\ a + m \in (a + 1) - 1 .. Len(w)
        /\ Len(w) \in a + m .. Len(w) /\ a + m <= Len(w) /\ a + 1 \in Nat /\ a + 1 >= 1 /\ a + m \in Nat
    BY <1>1
  <2>2. SubSeq(w, a + 1, a + m) \o SubSeq(w, (a + m) + 1, Len(w)) = SubSeq(w, a + 1, Len(w))
    BY <2>1, ConcatAdjacentSubSeq
  <2>3. SubSeq(w, a + 1, a + m) \in Seq(Bytes)
    BY <2>1, PartIs
  <2> QED BY <1>2, <2>1, <2>2, <2>3 DEF From
<1> QED BY <1>1, <1>2, <1>3, <1>4, <1>5

-----------------------------------------------------------------------------
(* The inductive invariant: the bytes that are left of the response are     *)
(* those of the events, lines and chunks that the parser has not taken.    *)
SseIInv ==
  /\ Meant(sent) /\ wire = WireOf(sent) /\ at \in 0 .. Len(wire)
  /\ parser \in Fields /\ items \in Seq(Items) /\ closed \in BOOLEAN
  /\ ~closed => Open(sent, parser, items, From(wire, at + 1))
  /\ closed => /\ Near(sent, items)
               /\ at = Len(wire) /\ ~sent.bad => items = Whole(sent)
               /\ parser.phase = "body" => \E k \in DOMAIN items : items[k].kind \in {"done", "error"}

LEMMA SseInitial == SseInit => SseIInv
<1> SUFFICES ASSUME SseInit PROVE SseIInv
  OBVIOUS
<1>1. Meant(sent) /\ wire = WireOf(sent) /\ at = 0 /\ items = <<>> /\ closed = FALSE
  BY DEF SseInit, Meant
<1>2. parser = Fresh(<<>>)
  BY DEF SseInit, Fresh
<1>3. wire \in Seq(Bytes) /\ Len(wire) \in Nat
  BY <1>1, WireLong
<1>4. <<>> \in Seq(Bytes) /\ <<>> \in Seq(Items) /\ Len(<<>>) = 0
  OBVIOUS
<1>5. parser \in Fields
  BY <1>2, <1>4, FreshIs
<1>6. at \in 0 .. Len(wire) /\ at + 1 = 1
  BY <1>1, <1>3
<1>7. <<>> \o From(wire, at + 1) = wire
  <2>1. From(wire, 1) = wire
    BY <1>3, <1>6, WireCut
  <2> QED BY <1>3, <1>6, <2>1, ConcatEmptySeq
<1>8. Open(sent, parser, items, From(wire, at + 1))
  <2>1. \E b \in Seq(Bytes) : parser = Fresh(b) /\ Len(b) < 5 /\ b \o From(wire, at + 1) = WireOf(sent)
    <3> DEFINE v == From(wire, at + 1)
               e == <<>>
    <3>1. e \in Seq(Bytes) /\ Len(e) < 5 /\ parser = Fresh(e) /\ e \o v = WireOf(sent)
      BY <1>1, <1>2, <1>4, <1>7
    <3> HIDE DEF e, v
    <3>2. \E b \in Seq(Bytes) : parser = Fresh(b) /\ Len(b) < 5 /\ b \o v = WireOf(sent)
      BY <3>1
    <3> QED BY <3>2 DEF v
  <2> QED BY <1>1, <2>1 DEF Open
<1> QED BY <1>1, <1>4, <1>5, <1>6, <1>8 DEF SseIInv

LEMMA SseFeeds ==
  ASSUME SseIInv, NEW n \in 1 .. Len(wire) - at, Feed(n)
  PROVE  SseIInv'
<1> DEFINE bytes == SubSeq(wire, at + 1, at + n)
           v == From(wire, at + n + 1)
           y == FeedOf(parser, bytes)
<1>1. /\ Meant(sent) /\ wire = WireOf(sent) /\ at \in 0 .. Len(wire) /\ parser \in Fields /\ items \in Seq(Items)
      /\ ~closed /\ Open(sent, parser, items, From(wire, at + 1))
  BY DEF SseIInv, Feed
<1>2. /\ parser' = y.p /\ items' = items \o y.out /\ at' = at + n
      /\ sent' = sent /\ wire' = wire /\ closed' = closed
  BY DEF Feed, Takes
<1>3. wire \in Seq(Bytes)
  BY <1>1, WireLong
<1>4. /\ at + n \in 0 .. Len(wire) /\ bytes \in Seq(Bytes) /\ v \in Seq(Bytes)
      /\ From(wire, at + 1) = bytes \o v
  <2>1. \A m \in 1 .. Len(wire) - at :
              /\ at + m \in 0 .. Len(wire) /\ SubSeq(wire, at + 1, at + m) \in Seq(Bytes)
              /\ From(wire, at + m + 1) \in Seq(Bytes)
              /\ From(wire, at + 1) = SubSeq(wire, at + 1, at + m) \o From(wire, at + m + 1)
    BY <1>1, <1>3, WireCut
  <2> QED BY <2>1
<1>5. (at + n) + 1 = at + n + 1
  OBVIOUS
<1> HIDE DEF bytes, v
<1>6. Fed(sent, y, items, v)
  BY <1>1, <1>4, FeedIs
<1> HIDE DEF y
<1>7. y \in Steps /\ Open(sent, y.p, items \o y.out, v)
  BY <1>6 DEF Fed
<1>8. y.p \in Fields /\ items \o y.out \in Seq(Items)
  BY <1>1, <1>7, Typed, Joins
<1>9. v = From(wire', at' + 1)
  BY <1>2, <1>5 DEF v
<1> QED BY <1>1, <1>2, <1>4, <1>7, <1>8, <1>9 DEF SseIInv

LEMMA SseEnds ==
  ASSUME SseIInv, End
  PROVE  SseIInv'
<1> DEFINE v == From(wire, at + 1)
           y == EndOf(parser)
           t == items \o y.out
<1>1. /\ Meant(sent) /\ wire = WireOf(sent) /\ at \in 0 .. Len(wire) /\ parser \in Fields /\ items \in Seq(Items)
      /\ ~closed /\ Open(sent, parser, items, v)
  BY DEF SseIInv, End
<1>2. /\ parser' = y.p /\ items' = t /\ closed' = TRUE /\ sent' = sent /\ wire' = wire /\ at' = at
  BY DEF End, Takes
<1>3. wire \in Seq(Bytes)
  BY <1>1, WireLong
<1>4. v \in Seq(Bytes) /\ (at = Len(wire) => v = <<>>)
  BY <1>1, <1>3, WireCut
<1> HIDE DEF v
<1>5. Closes(sent, y, t, v)
  BY <1>1, <1>4, EndIs
<1> HIDE DEF y, t
<1>6. y.p \in Fields
  BY <1>5, Typed DEF Closes
<1> QED BY <1>1, <1>2, <1>4, <1>5, <1>6 DEF SseIInv, Closes

LEMMA SseInductive == SseIInv /\ [SseNext]_sseVars => SseIInv'
<1> SUFFICES ASSUME SseIInv, [SseNext]_sseVars PROVE SseIInv'
  OBVIOUS
<1>1. CASE End
  BY <1>1, SseEnds
<1>2. CASE \E n \in 1 .. Len(wire) - at : Feed(n)
  <2>1. PICK n \in 1 .. Len(wire) - at : Feed(n)
    BY <1>2
  <2> QED BY <2>1, SseFeeds
<1>3. CASE UNCHANGED sseVars
  BY <1>3 DEF sseVars, SseIInv
<1> QED BY <1>1, <1>2, <1>3 DEF SseNext

LEMMA SseSafe == SseIInv => Faithful /\ NothingInvented
<1> SUFFICES ASSUME SseIInv PROVE Faithful /\ NothingInvented
  OBVIOUS
<1> DEFINE v == From(wire, at + 1)
<1>1. /\ Meant(sent) /\ wire = WireOf(sent) /\ at \in 0 .. Len(wire) /\ parser \in Fields /\ closed \in BOOLEAN
      /\ ~closed => Open(sent, parser, items, v)
  BY DEF SseIInv
<1>2. closed => /\ Near(sent, items)
                /\ at = Len(wire) /\ ~sent.bad => items = Whole(sent)
                /\ parser.phase = "body" => \E k \in DOMAIN items : items[k].kind \in {"done", "error"}
  BY DEF SseIInv
<1>3. v \in Seq(Bytes) /\ (at = Len(wire) => v = <<>>)
  <2>1. wire \in Seq(Bytes)
    BY <1>1, WireLong
  <2> QED BY <1>1, <2>1, WireCut
<1> HIDE DEF v
<1>4. ASSUME at = Len(wire), closed \/ sent.stop \/ sent.size > 0, ~sent.bad PROVE items = Whole(sent)
  <2>1. CASE closed
    BY <1>2, <1>4, <2>1
  <2>2. CASE ~closed
    <3>1. sent.stop \/ sent.size # 0
      <4>1. sent.size \in Nat
        BY <1>1, AllIs
      <4> QED BY <1>4, <2>2, <4>1
    <3> QED BY <1>1, <1>3, <1>4, <2>2, <3>1, OpenWhole
  <2> QED BY <2>1, <2>2
<1>5. Faithful
  <2>1. Whole(sent) = <<Item("headers", <<>>)>>
                      \o [i \in DOMAIN sent.events |-> Item("data", sent.events[i])]
                      \o <<Item(IF sent.status = 200 THEN "done" ELSE "error", <<>>)>>
    BY <1>1, WholeForm
  <2> QED BY <1>2, <1>4, <2>1 DEF Faithful
<1>6. NothingInvented
  <2>1. CASE closed
    BY <1>2, <2>1 DEF Near, NothingInvented
  <2>2. CASE ~closed
    <3>1. Exact(sent, items)
      BY <1>1, <2>2, OpenExact
    <3> QED BY <3>1 DEF Exact, NothingInvented
  <2> QED BY <2>1, <2>2
<1> QED BY <1>5, <1>6

\* feed and end return all of a response, once and in order, however it is cut
\* into reads, and a cut past the headers is an end too.
THEOREM SseFaithful == SseSpec => []Faithful
<1>1. SseSpec => []SseIInv
  BY SseInitial, SseInductive, PTL DEF SseSpec
<1>2. SseIInv => Faithful
  BY SseSafe
<1> QED BY <1>1, <1>2, PTL

\* At every read, and after a cut or a corrupt chunk, feed and end return what
\* was sent as far as it goes; only a cut shortens the last event.
THEOREM SseInventsNothing == SseSpec => []NothingInvented
<1>1. SseSpec => []SseIInv
  BY SseInitial, SseInductive, PTL DEF SseSpec
<1>2. SseIInv => NothingInvented
  BY SseSafe
<1> QED BY <1>1, <1>2, PTL

=============================================================================
