-------------------------------- MODULE Chat --------------------------------
(***************************************************************************)
(* host/src/engines/chat/chat_engine.cpp with the requests of               *)
(* host/src/llama_client.cpp, in a room of no seats, and the page of       *)
(* client/chat/chat.js at the other end of each connection.                *)
(*                                                                         *)
(* The page has one conversation, so a connection has one.  A token is a   *)
(* delta of the reply it belongs to; what else it says does not matter.    *)
(* A pump that serves several sockets is as many pumps in a row.           *)
(***************************************************************************)
EXTENDS Room, Conversation

CONSTANTS Pages,     \* browser pages showing chat.js
          Context,   \* the context a new engine is set to
          ContextSizes, \* what the slider offers
          MaxSends,  \* bound on prompts
          MaxPresses, \* bound on presses of Stop and New
          MaxWire,   \* bound on frames a page leaves unread
          MaxAdmin   \* bound on interventions of the operator

ASSUME ChatAssumption == /\ NumSeats = 0
                         /\ Context \in Nat /\ ContextSizes \subseteq Nat
                         /\ {MaxSends, MaxPresses, MaxWire, MaxAdmin} \subseteq Nat

VARIABLES
  mode,     \* mode_: "stub", "llama" or "down"
  contextMax, \* contextMax_: the budget of a dialogue
  convs,    \* convs_: the dialogue of each connection
  gens,     \* gens_
  reqs,     \* llama_->reqs_, each with the connection and msgId its sink holds
  nextMsg,  \* nextMsgId_
  up, down, \* frames on their way to the host, and to the page
  page,     \* what chat.js knows
  typed, pressed, admin   \* counters for the bounds

engineVars == <<mode, contextMax, convs, gens, reqs, nextMsg>>
chatVars   == <<vars, engineVars, up, down, page, typed, pressed, admin>>

Frame == [kind : {"delta", "done", "error", "engine"}, msg : Nat]

Delta(m)    == [kind |-> "delta", msg |-> m]
Done(m)     == [kind |-> "done", msg |-> m]
Error       == [kind |-> "error", msg |-> 0]
Announce    == [kind |-> "engine", msg |-> 0]

GenOf(c)     == {g \in gens : g.conn = c}
RequestOf(g) == {r \in reqs : r.id = g.req}

Tell(c, frames) == down' = [down EXCEPT ![c] = @ \o frames]
Roomy(c)        == Len(down[c]) < MaxWire

\* bubble: the replies whose deltas were appended to the bubble being filled;
\* lost, waived: what the page waits for will not come, or is not wanted.
NewPage == [sock |-> NoConn, generating |-> FALSE, bubble |-> {}, lost |-> FALSE,
            waived |-> FALSE]

ChatInit ==
  /\ Init /\ open = {}
  /\ mode \in {"stub", "llama", "down"}
  /\ contextMax = Context
  /\ convs = [c \in Conns |-> <<>>]
  /\ gens = {} /\ reqs = {} /\ nextMsg = 1
  /\ up = [c \in Conns |-> <<>>] /\ down = [c \in Conns |-> <<>>]
  /\ page = [p \in Pages |-> NewPage]
  /\ typed = 0 /\ pressed = 0 /\ admin = 0

-----------------------------------------------------------------------------
(* The page.                                                               *)

Sock(p)    == page[p].sock
Send(p, m) == up' = IF Sock(p) = NoConn THEN up
                    ELSE [up EXCEPT ![Sock(p)] = Append(@, m)]

\* nextId_: ids are handed out in turn, and never again.
NextId == CHOOSE c \in Conns : c \notin open \cup gone

\* onStatus("open") joins.
Dial(p, c) == /\ Sock(p) = NoConn
              /\ Connect(c) /\ c = NextId
              /\ page' = [page EXCEPT ![p].sock = c]
              /\ up' = [up EXCEPT ![c] = <<"join">>]
              /\ UNCHANGED <<engineVars, down, typed, pressed, admin>>

\* net.js drops what is sent while there is no socket; the page waits anyway.
Type(p) == /\ ~page[p].generating
           /\ typed < MaxSends /\ typed' = typed + 1
           /\ page' = [page EXCEPT ![p].generating = TRUE, ![p].bubble = {},
                                   ![p].lost = Sock(p) = NoConn]
           /\ Send(p, "send")
           /\ UNCHANGED <<vars, engineVars, down, pressed, admin>>

\* The Stop button; a press is served before the next.
PressStop(p) == /\ page[p].generating
                /\ Sock(p) # NoConn /\ up[Sock(p)] = <<>>
                /\ pressed < MaxPresses /\ pressed' = pressed + 1
                /\ Send(p, "stop")
                /\ UNCHANGED <<vars, engineVars, down, page, typed, admin>>

Released(now) == [now EXCEPT !.generating = FALSE, !.bubble = {}, !.lost = FALSE]

\* The New button: ask for a reset and be done with the reply at once.
PressNew(p) == /\ pressed < MaxPresses /\ pressed' = pressed + 1
               /\ Send(p, "reset")
               /\ page' = [page EXCEPT ![p] = [Released(page[p]) EXCEPT
                            !.waived = page[p].waived \/ page[p].generating]]
               /\ UNCHANGED <<vars, engineVars, down, typed, admin>>

Hear(p) == LET c == Sock(p)
           IN /\ c # NoConn /\ down[c] # <<>>
              /\ down' = [down EXCEPT ![c] = Tail(@)]
              /\ CASE Head(down[c]).kind = "delta" ->
                        page' = [page EXCEPT ![p].bubble = @ \cup {Head(down[c]).msg}]
                   [] Head(down[c]).kind \in {"done", "error"} ->
                        page' = [page EXCEPT ![p] = Released(@)]
                   [] Head(down[c]).kind = "engine" -> UNCHANGED page
              /\ UNCHANGED <<vars, engineVars, up, typed, pressed, admin>>

DropSocket(p) == /\ Sock(p) # NoConn
                 /\ page' = [page EXCEPT ![p].sock = NoConn, ![p].lost = @ \/ page[p].generating]
                 /\ UNCHANGED <<vars, engineVars, up, down, typed, pressed, admin>>

-----------------------------------------------------------------------------
(* The engine's handlers.                                                  *)

\* removeGen(abort = true).
Abort(c) == /\ gens' = gens \ GenOf(c)
            /\ reqs' = reqs \ UNION {RequestOf(g) : g \in GenOf(c)}

\* onLeave.  (Faulty variant: the generation goes on.)
ForgetDialogue(c) == /\ convs' = [convs EXCEPT ![c] = <<>>]
                     /\ UNCHANGED <<gens, reqs>>
Forget(c)         == /\ convs' = [convs EXCEPT ![c] = <<>>]
                     /\ Abort(c)

\* chatSend: when it is turned down, and when it may be: a child that is not
\* ready refuses it too.  (Faulty variant: a reply in flight is not looked for.)
RefusesDownOnly(c) == mode = "down"
Refuses(c)         == mode = "down" \/ GenOf(c) # {}
MayRefuse(c)       == Refuses(c) \/ mode = "llama"

\* The prompt joins the dialogue, which is cut to the context, and startStub or
\* startLlama takes it; a request may fail to get a socket.
StartGen(c) ==
  LET req == IF mode = "llama" THEN nextMsg ELSE 0
  IN /\ nextMsg' = nextMsg + 1
     /\ convs' = [convs EXCEPT ![c] = CapToTokens(AddUser(@), contextMax)]
     /\ \/ /\ gens' = gens \cup {[conn |-> c, msg |-> nextMsg, acc |-> {}, req |-> req]}
           /\ reqs' = IF mode = "stub" THEN reqs
                      ELSE reqs \cup {[id |-> req, conn |-> c, msg |-> nextMsg,
                                       phase |-> "waiting"]}
           /\ UNCHANGED down
        \/ /\ mode = "llama"
           /\ Tell(c, <<Error>>)
           /\ UNCHANGED <<gens, reqs>>

ChatSend(c) == \/ /\ MayRefuse(c)
                  /\ Tell(c, <<Error>>)
                  /\ UNCHANGED <<convs, gens, reqs, nextMsg>>
               \/ ~Refuses(c) /\ StartGen(c)

ChatReset(c) == /\ Abort(c)
                /\ convs' = [convs EXCEPT ![c] = <<>>]
                /\ UNCHANGED <<nextMsg, down>>

\* The turns a stopped reply leaves behind: none if no token came.
Stopped(g) == IF g.acc = {} THEN <<>> ELSE <<Reply(g.acc)>>

\* (Faulty variant: the page is not told.)
ChatStopSilent(c) == /\ convs' = IF GenOf(c) = {} THEN convs
                                  ELSE [convs EXCEPT ![c] = @ \o Stopped(CHOOSE g \in GenOf(c) : TRUE)]
                     /\ Abort(c)
                     /\ UNCHANGED <<nextMsg, down>>

ChatStop(c) == \/ /\ GenOf(c) = {}
                  /\ UNCHANGED <<convs, gens, reqs, nextMsg, down>>
               \/ \E g \in GenOf(c) :
                    /\ convs' = [convs EXCEPT ![c] = @ \o Stopped(g)]
                    /\ Tell(c, <<Done(g.msg)>>)
                    /\ Abort(c)
                    /\ UNCHANGED nextMsg

Serve(c) ==
  /\ up[c] # <<>>
  /\ up' = [up EXCEPT ![c] = Tail(@)]
  /\ CASE Head(up[c]) = "join"  -> /\ HandleJoin(c, Unnamed)
                                   /\ UNCHANGED <<convs, gens, reqs, nextMsg, down>>
       [] Head(up[c]) = "send"  -> Relay(c) /\ ChatSend(c)
       [] Head(up[c]) = "reset" -> Relay(c) /\ ChatReset(c)
       [] Head(up[c]) = "stop"  -> Relay(c) /\ ChatStop(c)
  /\ UNCHANGED <<mode, contextMax, page, typed, pressed, admin>>

\* poll finds a socket dead; what it had not read of it is lost.
Notice(c) == /\ \A p \in Pages : Sock(p) # c
             /\ OnClose(c)
             /\ up' = [up EXCEPT ![c] = <<>>] /\ down' = [down EXCEPT ![c] = <<>>]
             /\ IF c \in members THEN Forget(c) ELSE UNCHANGED <<convs, gens, reqs>>
             /\ UNCHANGED <<mode, contextMax, nextMsg, page, typed, pressed, admin>>

-----------------------------------------------------------------------------
(* onTick: pump's sinks, and the stub.                                     *)

ticking == <<vars, mode, contextMax, nextMsg, up, page, typed, pressed, admin>>

\* onDelta: whatever generation the connection has now takes the token.
OnDelta(c, m) ==
  /\ gens' = {IF g.conn = c THEN [g EXCEPT !.acc = @ \cup {m}] ELSE g : g \in gens}
  /\ Tell(c, IF c \in open THEN <<Delta(m)>> ELSE <<>>)

\* onDone and onError.  (Faulty variant: the generation is not removed.)
OnDoneStaying(c, m) == /\ Tell(c, IF c \in open THEN <<Done(m)>> ELSE <<>>)
                       /\ UNCHANGED <<convs, gens>>
OnDone(c, m) == /\ convs' = IF GenOf(c) = {} THEN convs
                            ELSE [convs EXCEPT ![c] = AddAssistant(@, (CHOOSE g \in GenOf(c) : TRUE).acc)]
                /\ Tell(c, IF c \in open THEN <<Done(m)>> ELSE <<>>)
                /\ gens' = gens \ GenOf(c)

\* (Faulty variant: the generation is left to wait.)
OnErrorTelling(c) == /\ Tell(c, IF c \in open THEN <<Error>> ELSE <<>>)
                     /\ UNCHANGED <<gens, convs>>
OnError(c)   == /\ Tell(c, IF c \in open THEN <<Error>> ELSE <<>>)
                /\ gens' = gens \ GenOf(c)
                /\ UNCHANGED convs

\* The response's headers, 200.
PumpHeaders(r) == /\ r.phase = "waiting"
                  /\ reqs' = (reqs \ {r}) \cup {[r EXCEPT !.phase = "streaming"]}
                  /\ UNCHANGED <<ticking, convs, gens, down>>

PumpDelta(r) == /\ r.phase = "streaming" /\ Roomy(r.conn)
                /\ OnDelta(r.conn, r.msg)
                /\ UNCHANGED <<ticking, convs, reqs>>

PumpDone(r) == /\ r.phase = "streaming"
               /\ OnDone(r.conn, r.msg)
               /\ reqs' = reqs \ {r}
               /\ UNCHANGED ticking

\* The backend closed the stream before its [DONE]: past the headers the parser
\* makes a Done of it.
PumpCut(r) == /\ IF r.phase = "streaming" THEN OnDone(r.conn, r.msg) ELSE OnError(r.conn)
              /\ reqs' = reqs \ {r}
              /\ UNCHANGED ticking

\* A refused connection, a reset, a status other than 200, a bad chunk.
PumpFails(r) == /\ OnError(r.conn)
                /\ reqs' = reqs \ {r}
                /\ UNCHANGED ticking

StubTick(g) == /\ g.req = 0
               /\ UNCHANGED <<ticking, reqs>>
               /\ \/ Roomy(g.conn) /\ OnDelta(g.conn, g.msg) /\ UNCHANGED convs
                  \/ g.acc # {} /\ OnDone(g.conn, g.msg)

-----------------------------------------------------------------------------
(* The operator.                                                           *)

\* Pages that wait for what is now gone.
Wiped(conns) == page' = [p \in Pages |->
  IF page[p].generating /\ Sock(p) \in conns THEN [page[p] EXCEPT !.lost = TRUE]
  ELSE page[p]]

Intervene == admin < MaxAdmin /\ admin' = admin + 1

StopAll == /\ Intervene /\ gens # {}
           /\ convs' = [c \in Conns |-> IF GenOf(c) = {} THEN convs[c]
                          ELSE convs[c] \o Stopped(CHOOSE g \in GenOf(c) : TRUE)]
           /\ down' = [c \in Conns |-> IF GenOf(c) = {} \/ c \notin open THEN down[c]
                         ELSE Append(down[c], Done((CHOOSE g \in GenOf(c) : TRUE).msg))]
           /\ gens' = {} /\ reqs' = {}
           /\ UNCHANGED <<vars, mode, contextMax, nextMsg, up, page, typed, pressed>>

\* reset: nobody is told.
AdminReset == /\ Intervene
              /\ gens' = {} /\ reqs' = {}
              /\ convs' = [c \in Conns |-> <<>>]
              /\ Wiped({g.conn : g \in gens})
              /\ UNCHANGED <<vars, mode, contextMax, nextMsg, up, down, typed, pressed>>

\* Home, then chat again: a new engine in a new room, the sockets kept.  It is
\* announced, and the page does not join again.
Relaunch == /\ Intervene
            /\ gens' = {} /\ reqs' = {} /\ nextMsg' = 1
            /\ convs' = [c \in Conns |-> <<>>]
            /\ members' = {} /\ engine' = NewLedger
            /\ Wiped(open)
            /\ down' = [c \in Conns |-> IF c \in open THEN Append(down[c], Announce)
                                         ELSE down[c]]
            /\ contextMax' = Context
            /\ UNCHANGED <<open, gone, seats, told, board, mode, up, typed, pressed>>

\* The context slider: the cap goes by it from the next prompt on.
Slide(n) == /\ Intervene /\ n # contextMax
            /\ contextMax' = n
            /\ UNCHANGED <<vars, mode, convs, gens, reqs, nextMsg, up, down, page, typed, pressed>>

ChatNext ==
  \/ \E p \in Pages : \/ \E c \in Conns : Dial(p, c)
                      \/ Type(p) \/ PressStop(p) \/ PressNew(p) \/ Hear(p)
                      \/ DropSocket(p)
  \/ \E c \in Conns : Serve(c) \/ Notice(c)
  \/ \E r \in reqs : \/ PumpHeaders(r) \/ PumpDelta(r) \/ PumpDone(r)
                     \/ PumpCut(r) \/ PumpFails(r)
  \/ \E g \in gens : StubTick(g)
  \/ StopAll \/ AdminReset \/ Relaunch
  \/ \E n \in ContextSizes : Slide(n)

\* The host's loop serves every socket; pages hear; and a backend's stream ends:
\* the host sets it no deadline.
ChatFairness ==
  /\ \A c \in Conns : WF_chatVars(Serve(c))
  /\ \A p \in Pages : WF_chatVars(Hear(p))
  /\ WF_chatVars(\E r \in reqs : PumpHeaders(r))
  /\ WF_chatVars(\E r \in reqs : PumpDone(r))
  /\ WF_chatVars(\E g \in gens : StubTick(g) /\ g \notin gens')

ChatSpec == ChatInit /\ [][ChatNext]_chatVars /\ ChatFairness

-----------------------------------------------------------------------------
(* Properties.                                                             *)

\* The requests at the backend are exactly those of the generations in flight:
\* no interleaving of sends, stops, resets, departures and failures leaves one
\* to run for nobody, or a generation waiting for none.
RequestsMatch ==
  mode = "llama" => {<<g.req, g.conn, g.msg>> : g \in gens}
                      = {<<r.id, r.conn, r.msg>> : r \in reqs}

\* One reply at a time: a connection has at most one generation, and a token
\* only ever joins the reply it belongs to (chat_engine.cpp:282).  So does the
\* page, which looks at no id (chat.js:41), unless New let go of a reply.
OwnTokensOnly ==
  /\ \A g, h \in gens : g.conn = h.conn => g = h
  /\ \A g \in gens : g.acc \subseteq {g.msg}
  /\ \A p \in Pages : Cardinality(page[p].bubble) > 1 => page[p].waived

\* On the wire a reply is not resumed after its end, nor mixed with the next:
\* what follows a frame is of a later reply, or goes on with a reply not ended.
RepliesInOrder ==
  \A c \in Conns : \A i, j \in 1 .. Len(down[c]) :
    i < j /\ (\A k \in i .. j : down[c][k].kind \in {"delta", "done"}) =>
      \/ down[c][i].msg < down[c][j].msg
      \/ down[c][i] = Delta(down[c][j].msg)

\* What goes to the model is the longest recent part of the dialogue that fits
\* the context and opens on a user turn, or the newest prompt alone; a slider
\* moved, a reply stopped, cut or failed in between included (conversation.cpp:84,
\* conversation.hpp:79).
PromptFits ==
  [][\A g \in gens' : nextMsg' > nextMsg /\ g.msg = nextMsg =>
       LET all     == AddUser(convs[g.conn])
           fits(k) == /\ EstimatedTokens(Without(all, k)) <= contextMax
                      /\ all[k + 1].role = "user"
       IN \E k \in 0 .. Len(all) - 1 :
            /\ convs'[g.conn] = Without(all, k)
            /\ fits(k) \/ k = Len(all) - 1
            /\ \A j \in 0 .. k - 1 : ~fits(j)]_chatVars

\* A member that goes leaves no dialogue, no generation and no request behind
\* (chat_engine.cpp:244).
DepartureForgets ==
  [][\A c \in members \cap (gone' \ gone) :
       /\ convs'[c] = <<>>
       /\ \A x \in gens' \cup reqs' : x.conn # c]_chatVars

\* A page that waits is answered, unless its socket died, or the operator wiped
\* the reply it was waiting for.
PageReleased == \A p \in Pages :
  page[p].generating ~> ~page[p].generating \/ page[p].lost

=============================================================================
