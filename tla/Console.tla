------------------------------ MODULE Console ------------------------------
(***************************************************************************)
(* The operator's side of host/src/engines/chat/chat_engine.cpp in spawn    *)
(* mode: which model the host says is loaded, which context window, and     *)
(* what the clients were told of both, over the child of LlamaProcess.      *)
(*                                                                         *)
(* The model combo, the slider and the buttons exist with the admin window; *)
(* without one the operator has SIGUSR1, which only that loop looks at.     *)
(***************************************************************************)
EXTENDS LlamaProcess, Sequences

CONSTANTS Known,     \* knownModels(), in order; those in Models have a GGUF
          Contexts   \* settings of the context slider

ASSUME ConsoleAssumption == /\ Known \in Seq(STRING)
                            /\ Models \subseteq {Known[i] : i \in 1 .. Len(Known)}
                            /\ Contexts # {}

VARIABLES
  window,       \* runAdminLoop holds the loop
  model,        \* model_: the active model's id
  pending,      \* pendingModel_: the one picked in the combo
  context,      \* contextMax_
  dragging,     \* the context slider is held
  nextContext,  \* cfg_.ctxSize: -c of the next spawn
  told          \* model and context in the last chatConfig broadcast

consoleVars == <<window, model, pending, context, dragging, nextContext, told>>
allVars     == <<vars, consoleVars>>

\* configJson, but for readiness.
Config == [model |-> model, context |-> context]

\* The constructor adopts the id of --model, or the first that has a GGUF.
ConsoleInit == /\ Init
               /\ window \in BOOLEAN
               /\ model = cfg /\ pending = cfg
               /\ context \in Contexts /\ nextContext = context
               /\ dragging = FALSE
               /\ told = Config

-----------------------------------------------------------------------------

\* loadPendingModel of a model that has a GGUF.  No other can be picked; when no
\* known model has one, the button changes nothing.  (With no child to manage, the
\* id is only relabelled; that host has no part in this module.)
\* (Faulty variant: the id changes hands, and the child restarts as it was.)
LoadRelabelling(m) == /\ Operate /\ RestartChild
                      /\ advertised' = FALSE
                      /\ UNCHANGED <<cfg, missed, readyBroadcast, ticked, mishaps>>
                      /\ model' = m /\ pending' = m
                      /\ nextContext' = context
                      /\ UNCHANGED <<window, context, dragging>>
                      /\ told' = Config'
Load(m) == /\ SwitchModel(m)
           /\ model' = m /\ pending' = m
           /\ nextContext' = context
           /\ UNCHANGED <<window, context, dragging>>
           /\ told' = Config'

Pick(m) == /\ window
           /\ pending' = m
           /\ UNCHANGED <<vars, window, model, context, dragging, nextContext, told>>

\* Load / Switch is disabled while a reload is on.
LoadPending == window /\ ~switching /\ Load(pending)

\* cycleModel: the next id that has a GGUF, if there are two, at any time.
Loadable == SelectSeq(Known, LAMBDA m : m \in Models)

Successor(m) == {Loadable[(i % Len(Loadable)) + 1] :
                   i \in {j \in 1 .. Len(Loadable) : Loadable[j] = m}}

CycleModel == /\ ~window /\ Len(Loadable) > 1
              /\ \E m \in Successor(model) \cap Models : Load(m)

PressRestart == window /\ Restart /\ UNCHANGED consoleVars
PressUnload  == window /\ Unload /\ UNCHANGED consoleVars

\* The slider sets the cap with every frame of a drag, and tells on release.
DragContext(n) == /\ window
                  /\ context' = n /\ dragging' = TRUE
                  /\ UNCHANGED <<vars, window, model, pending, nextContext, told>>

ReleaseContext == /\ Announce
                  /\ dragging /\ dragging' = FALSE
                  /\ nextContext' = context
                  /\ told' = Config
                  /\ UNCHANGED <<window, model, pending, context>>

\* onTick: a flip of readiness is told with the whole configuration.
TickAndTell == /\ Tick
               /\ told' = IF ready' # readyBroadcast THEN Config ELSE told
               /\ UNCHANGED <<window, model, pending, context, dragging, nextContext>>

World(A) == A /\ UNCHANGED consoleVars

ConsoleNext == \/ TickAndTell
               \/ \E m \in Models : Pick(m)
               \/ LoadPending \/ CycleModel \/ PressRestart \/ PressUnload
               \/ \E n \in Contexts : DragContext(n)
               \/ ReleaseContext
               \/ World(ChildLoads) \/ World(ChildStops) \/ World(ChildCrashes)
               \/ World(ChildAnswers) \/ World(TimePasses)

\* That of LlamaProcess: the operator is not obliged to anything.
ConsoleFairness ==
  /\ WF_allVars(TickAndTell) /\ WF_allVars(World(TimePasses))
  /\ WF_allVars(World(ChildLoads)) /\ WF_allVars(World(ChildStops))
  /\ WF_allVars(World(ChildAnswers))

ConsoleSpec == ConsoleInit /\ [][ConsoleNext]_allVars /\ ConsoleFairness

-----------------------------------------------------------------------------
(* Properties.                                                             *)

\* A ready child that is not on its way out serves the model the clients were
\* told of, through every order of picking, loading, cycling, crashing and
\* backing off (chat_engine.cpp:492: clients must not be told of a switch that
\* did not happen); and once the slider is let go, clients, host and the next
\* child agree on the context window.
LabelTrue == /\ ready /\ ~child.doomed => child.model = told.model
             /\ ~dragging => told.context = context /\ nextContext = context

=============================================================================
