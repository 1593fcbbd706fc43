---------------------------- MODULE LlamaProcess ----------------------------
(***************************************************************************)
(* host/src/llama_process.cpp: the host's llama-server child.  tick() reaps *)
(* it, respawns it and probes /health, never blocking; the operator loads,  *)
(* restarts and unloads models from the same loop.  With it, the readiness  *)
(* broadcast of ChatEngine::onTick.                                         *)
(*                                                                         *)
(* Time passes in units of the health interval (300 ms); a deadline of the *)
(* code is kept as the units left until it.                                *)
(***************************************************************************)
EXTENDS Integers

CONSTANTS Models,          \* GGUF files the operator can load
          HealthInterval,  \* kHealthIntervalMs
          Backoff,         \* kRespawnBackoffMs
          ProbeTimeout,    \* kHealthProbeTimeoutMs
          MaxOps,          \* bound on operator actions
          MaxMishaps       \* bound on crashes and failed forks

ASSUME ProcessAssumption ==
  /\ Models # {}
  /\ HealthInterval \in Nat \ {0} /\ Backoff \in Nat \ {0}
  /\ ProbeTimeout \in Nat \ {0}
  /\ MaxOps \in Nat /\ MaxMishaps \in Nat

VARIABLES
  cfg,         \* cfg_.model: what the next spawn loads
  child,       \* the process behind pid_; state "none" when pid_ <= 0
  ready, paused, restarting,
  missed,      \* history: an exit asked for was not collected by tick, see ReapElsewhere
  switching,   \* switchStartMs_ # 0
  probe,       \* probe_, "idle" while healthFd_ < 0
  reply,       \* what the child has answered on the probe's socket
  spawnIn, healthIn,
  deadlineIn,  \* nextSpawnMs_, nextHealthMs_, probeDeadlineMs_; 0 with no probe
  readyBroadcast,  \* ChatEngine::readyBroadcast_
  advertised,  \* the readiness in the last chatConfig broadcast
  ticked,      \* a tick has run in this unit of time
  ops, mishaps

flags  == <<ready, paused, restarting, missed, switching>>
probed == <<probe, reply, deadlineIn>>
counts == <<ops, mishaps>>
vars   == <<cfg, child, flags, probed, spawnIn, healthIn, readyBroadcast, advertised,
            ticked, counts>>

\* doomed: it was sent SIGTERM.
Child   == [state : {"none", "loading", "serving", "exited"}, model : Models,
            doomed : BOOLEAN]
Running == child.state \in {"loading", "serving"}
Down    == child.state = "none"

\* The host has just started with some model configured.
Init == /\ cfg \in Models
        /\ child = [state |-> "none", model |-> cfg, doomed |-> FALSE]
        /\ ready = FALSE /\ paused = FALSE
        /\ restarting = FALSE /\ missed = FALSE /\ switching = FALSE
        /\ probe = "idle" /\ reply = "none"
        /\ spawnIn = 0 /\ healthIn = 0 /\ deadlineIn = 0
        /\ readyBroadcast = FALSE /\ advertised = FALSE /\ ticked = FALSE
        /\ ops = 0 /\ mishaps = 0

-----------------------------------------------------------------------------
(* tick().                                                                 *)

\* resetHealthProbe.  (Faulty variant: only the timer.)
ResetProbeTimer == /\ UNCHANGED probed
                   /\ healthIn' = HealthInterval
ResetProbe == /\ probe' = "idle" /\ reply' = "none" /\ deadlineIn' = 0
              /\ healthIn' = HealthInterval

\* The child is gone from pid_.
Reaped == child' = [state |-> "none", model |-> child.model, doomed |-> FALSE]

\* reapIfExited of a child nobody asked to exit.
ReapCrash == /\ child.state = "exited" /\ ~restarting
             /\ Reaped /\ ResetProbe
             /\ ready' = FALSE /\ switching' = FALSE
             /\ spawnIn' = Backoff
             /\ UNCHANGED <<cfg, paused, restarting, missed, counts>>

\* spawn, with the probe timers as a reap or an idle down state left them.
ForkOK   == /\ child' = [state |-> "loading", model |-> cfg, doomed |-> FALSE]
            /\ ready' = FALSE
            /\ healthIn' = 0
            /\ spawnIn' = 0
            /\ UNCHANGED mishaps

ForkFails(idleHealth) == /\ mishaps < MaxMishaps /\ mishaps' = mishaps + 1
                         /\ Reaped
                         /\ spawnIn' = Backoff
                         /\ healthIn' = idleHealth
                         /\ ready' = FALSE

SpawnDue == ~paused /\ spawnIn = 0

StayDown(wait) == /\ Reaped /\ ready' = FALSE
                  /\ spawnIn' = wait /\ healthIn' = HealthInterval
                  /\ UNCHANGED mishaps

\* The child is gone, and the same tick spawns the next one, if it is due.
Collected(due, wait) ==
  /\ child.state = "exited"
  /\ probe' = "idle" /\ reply' = "none" /\ deadlineIn' = 0
  /\ IF due THEN ForkOK \/ ForkFails(HealthInterval) ELSE StayDown(wait)
  /\ UNCHANGED <<cfg, paused, switching, ops>>

\* reapIfExited of a child the operator had terminated, with no backoff.
\* (Faulty variant: an unloaded model is respawned.)
ReapAskedRespawning == /\ restarting /\ Collected(TRUE, 0)
                       /\ restarting' = FALSE /\ missed' = FALSE
ReapAsked == /\ restarting /\ Collected(~paused, 0)
             /\ restarting' = FALSE /\ missed' = FALSE

\* waitpid reports ECHILD, as with SIGCHLD ignored: the child was collected
\* elsewhere.  Whatever its exit was, there is no backoff and restarting_ stays.
ReapElsewhere == /\ Collected(SpawnDue, spawnIn)
                 /\ missed' = restarting
                 /\ UNCHANGED restarting

Spawn == /\ Down /\ SpawnDue
         /\ ForkOK \/ ForkFails(healthIn)
         /\ UNCHANGED <<cfg, paused, restarting, missed, switching, probed, ops>>

\* advanceHealthProbe, one step per tick while the child is up and not ready.
\* The host it probes is a number or localhost: with any other, inet_pton fails
\* every time, and no child is ever ready.
NoProbe == /\ \/ (child.state = "loading" \/ child.doomed) /\ UNCHANGED mishaps
              \/ mishaps < MaxMishaps /\ mishaps' = mishaps + 1
           /\ healthIn' = HealthInterval
           /\ UNCHANGED probed

BeginProbe == /\ probe = "idle" /\ healthIn = 0
              /\ \/ /\ probe' = "connecting" /\ deadlineIn' = ProbeTimeout
                    /\ UNCHANGED <<reply, healthIn, mishaps>>
                 \/ NoProbe   \* refused at once, or no socket to be had
              /\ UNCHANGED <<ready, switching>>

ProbeExpires == /\ probe # "idle" /\ deadlineIn = 0
                /\ ResetProbe
                /\ UNCHANGED <<ready, switching, mishaps>>

\* The port is open while the child serves; loading or exiting it may refuse.
ProbeConnects == /\ probe = "connecting" /\ deadlineIn > 0
                 /\ \/ /\ probe' = "reading"
                       /\ UNCHANGED <<reply, deadlineIn, healthIn>>
                    \/ (child.state = "loading" \/ child.doomed)
                       /\ ResetProbe
                 /\ UNCHANGED <<ready, switching, mishaps>>

ProbeReads == /\ probe = "reading" /\ deadlineIn > 0 /\ reply # "none"
              /\ ready' = (reply = "ok")
              /\ switching' = (switching /\ reply # "ok")
              /\ ResetProbe /\ UNCHANGED mishaps

Probing == Running /\ ~ready

AdvanceProbe == /\ Probing
                /\ BeginProbe \/ ProbeExpires \/ ProbeConnects \/ ProbeReads
                /\ UNCHANGED <<cfg, child, paused, restarting, missed, spawnIn, ops>>

\* Nothing to do this time.
Rest == /\ \/ Down /\ ~SpawnDue
           \/ Running /\ ready
           \/ Probing /\ \/ probe = "idle" /\ healthIn > 0
                         \/ probe = "reading" /\ deadlineIn > 0 /\ reply = "none"
        /\ UNCHANGED <<cfg, child, flags, probed, spawnIn, healthIn, counts>>

\* ChatEngine::onTick ends by telling the clients when readiness flipped.
\* (Faulty variant: only that a model came up.)
TellUp   == /\ readyBroadcast' = ready'
            /\ advertised' = IF ready' /\ ~readyBroadcast THEN TRUE ELSE advertised
TellFlip == /\ readyBroadcast' = ready'
            /\ advertised' = IF ready' # readyBroadcast THEN ready' ELSE advertised

Tick == /\ ReapCrash \/ ReapAsked \/ ReapElsewhere \/ Spawn \/ AdvanceProbe \/ Rest
        /\ TellFlip
        /\ ticked' = TRUE

-----------------------------------------------------------------------------
(* The operator, between ticks.                                            *)

Operate == ops < MaxOps /\ ops' = ops + 1

\* SIGTERM, and remember that the exit was asked for, if there is a child.
\* (Faulty variants: remember it anyway; do so only for a ready child.)
TerminateAlways == /\ child' = [child EXCEPT !.doomed = ~Down]
                   /\ restarting' = TRUE
TerminateReady  == /\ child' = [child EXCEPT !.doomed = @ \/ ready]
                   /\ restarting' = (restarting \/ ready)
Terminate       == /\ child' = [child EXCEPT !.doomed = ~Down]
                   /\ restarting' = (restarting \/ ~Down)

\* (Faulty variant: an unloaded model stays paused.)
RestartPaused == /\ Terminate
                 /\ spawnIn' = IF Down THEN 0 ELSE spawnIn
                 /\ ready' = FALSE /\ switching' = TRUE
                 /\ ResetProbe
                 /\ UNCHANGED paused
RestartChild == /\ Terminate
                /\ spawnIn' = IF Down THEN 0 ELSE spawnIn
                /\ paused' = FALSE /\ ready' = FALSE /\ switching' = TRUE
                /\ ResetProbe

\* restart(): the console's Restart button.
Restart == /\ Operate /\ RestartChild
           /\ UNCHANGED <<cfg, missed, readyBroadcast, advertised, ticked, mishaps>>

\* loadPendingModel: switchModel, and the new configuration to every client.
\* (The button waits for a reload to finish; SIGUSR1 does not.)
SwitchModel(m) == /\ Operate /\ RestartChild
                  /\ cfg' = m
                  /\ advertised' = FALSE
                  /\ UNCHANGED <<missed, readyBroadcast, ticked, mishaps>>

\* stop(): the Unload button, disabled while unloaded.
Unload == /\ ~paused
          /\ Operate /\ Terminate
          /\ paused' = TRUE /\ ready' = FALSE /\ switching' = FALSE
          /\ ResetProbe
          /\ UNCHANGED <<cfg, missed, spawnIn, readyBroadcast, advertised, ticked, mishaps>>

\* The context slider is let go: the configuration, readiness with it, to every
\* client.
Announce == /\ advertised' = ready
            /\ UNCHANGED <<cfg, child, flags, probed, spawnIn, healthIn, readyBroadcast,
                           ticked, counts>>

-----------------------------------------------------------------------------
(* llama-server, modelled from its use.                                    *)

others == <<cfg, flags, spawnIn, healthIn, readyBroadcast, advertised, ticked, ops>>

ChildLoads == /\ child.state = "loading"
              /\ child' = [child EXCEPT !.state = "serving"]
              /\ UNCHANGED <<others, probed, mishaps>>

\* It honours SIGTERM, in its own time.
ChildStops == /\ Running /\ child.doomed
              /\ child' = [child EXCEPT !.state = "exited"]
              /\ UNCHANGED <<others, probed, mishaps>>

ChildCrashes == /\ Running /\ ~child.doomed
                /\ mishaps < MaxMishaps /\ mishaps' = mishaps + 1
                /\ child' = [child EXCEPT !.state = "exited"]
                /\ UNCHANGED <<others, probed>>

\* /health: 200 once the model is up, 503 while it loads; one that is
\* exiting may still answer, or hang up.
ChildAnswers == /\ Running /\ probe = "reading" /\ reply = "none"
                /\ \/ child.state = "serving" /\ reply' = "ok"
                   \/ (child.state = "loading" \/ child.doomed)
                      /\ reply' = "bad"
                /\ UNCHANGED <<others, child, probe, deadlineIn, mishaps>>

Less(n) == IF n = 0 THEN 0 ELSE n - 1

\* The loop ticks at least every 100 ms, and a serving child answers a probe
\* in less than a unit; a loading one may not answer at all.
TimePasses == /\ ticked /\ ticked' = FALSE
              /\ ~ (child.state = "serving" /\ probe = "reading" /\ reply = "none")
              /\ spawnIn' = Less(spawnIn)
              /\ healthIn' = Less(healthIn)
              /\ deadlineIn' = Less(deadlineIn)
              /\ UNCHANGED <<cfg, child, flags, probe, reply, readyBroadcast,
                             advertised, counts>>

Next == \/ Tick
        \/ Restart \/ Unload \/ Announce \/ \E m \in Models : SwitchModel(m)
        \/ ChildLoads \/ ChildStops \/ ChildCrashes \/ ChildAnswers
        \/ TimePasses

\* The host's loop never stops; a model loads and a terminated child exits.
Fairness == /\ WF_vars(Tick) /\ WF_vars(TimePasses)
            /\ WF_vars(ChildLoads) /\ WF_vars(ChildStops) /\ WF_vars(ChildAnswers)

Spec == Init /\ [][Next]_vars /\ Fairness

-----------------------------------------------------------------------------
(* Properties.                                                             *)

FlagsOK == /\ ready \in BOOLEAN /\ paused \in BOOLEAN
           /\ restarting \in BOOLEAN /\ missed \in BOOLEAN /\ switching \in BOOLEAN
           /\ readyBroadcast \in BOOLEAN /\ advertised \in BOOLEAN
           /\ ticked \in BOOLEAN

DataOK == /\ cfg \in Models /\ child \in Child
          /\ probe \in {"idle", "connecting", "reading"}
          /\ reply \in {"none", "ok", "bad"}
          /\ spawnIn \in 0 .. Backoff /\ healthIn \in 0 .. HealthInterval
          /\ deadlineIn \in 0 .. ProbeTimeout
          /\ ops \in 0 .. MaxOps /\ mishaps \in 0 .. MaxMishaps

\* Every flag and value is in its type; no deadline exceeds its constant.
TypeOK == FlagsOK /\ DataOK

\* An exit is taken for the operator's doing exactly when the child was sent
\* SIGTERM: the flag never outlives that child to mask a later crash
\* (llama_process.cpp:65), but when its exit was collected elsewhere.
AskedExitsOnly == restarting <=> (~Down /\ child.doomed) \/ missed

\* A probe is in flight only while there is a child that is not ready: the
\* host's poll set is empty of it otherwise (llama_process.hpp:41).
ProbeHasChild == probe # "idle" => ~Down /\ ~ready

\* When what clients were last told of readiness is out of date, the next tick
\* has a flip to tell: no order of loads, restarts and crashes loses one.
NoSilentFlip == advertised # ready => readyBroadcast # ready

\* Of an unloaded model there is no child but one on its way out, until a load or
\* a restart: neither backoff nor the exit that was asked for brings one back
\* (llama_process.hpp:66).
UnloadedStaysDown == paused => Down \/ child.doomed

\* With the operator and the mishaps done, the host settles: unloaded with no
\* child, or up with the model that was configured last.
Settles == <>[] \/ paused /\ Down
                \/ ready /\ child.state = "serving" /\ child.model = cfg

\* A reload ends, by a model that answers, a crash or an unload: the console's
\* Load button does not stay disabled.
ReloadEnds == switching ~> ~switching

=============================================================================
