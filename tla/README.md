# villen: a verification project

villen is a LAN game host: one single-threaded C++ process that serves web pages
over WebSockets and runs one *engine* at a time (chess, chat with a local
llama-server, a live camera filter). This directory holds TLA+ models of its
parts, the TLC configurations that check them, and TLAPS proofs about most of
them. Paths below are relative to `src/`.

## 1. The system

### The loop

Everything the host does happens on one thread, in the loop of
`host/src/main.cpp:289-304` (or its windowed twin in `host/src/admin_ui.cpp`):
`WsServer::poll` reads sockets and calls back into the room; `Host::tick` calls
the running engine's `onTick`; the admin console is drawn, and its buttons change
state, between two ticks. There are no data races; what interleaves is the loop with
browsers, kernel buffers, the llama-server child, its sockets, the operator, and
the asynchronous callbacks of the pages.

### Inventory

| component | state | operations | what makes it right |
|---|---|---|---|
| **WsServer** `host/src/ws_server.cpp` | connections with in/out buffers, handshake, fragment, closing flag | poll (accept, read, parse, flush, reap), send, broadcast, drop | opened once and closed once, messages whole and in order, dead peers noticed, a polite close drained and let go |
| **Room** `host/src/room.cpp` | seats (connection or hold), members | onOpen, handleJoin, onMessage/onBinary, onClose, freeSeat | one seat per connection; engine, clients and board agree with the seats; holds survive a drop; onJoin/onLeave pair up |
| **Host** `host/src/host.cpp` | the running engine, its room | startEngine, stopEngine, tick, announceAll | no engine state outlives its engine |
| **ChessEngine** `host/src/engines/chess` | position, last move | onJoin, onMessage (move), reset | only the side to move moves, only legally; members see the present position |
| **Position** `engine/src/position.cpp` | board, side, rights, en passant target, clocks | legalMoves, apply, status, FEN | no king left in check; rights and target mean what they say |
| **ChatEngine** `host/src/engines/chat` | dialogues, generations, backend | onMessage (chatSend, chatReset, chatStop), onTick, sinks, stopAll, reset | requests match generations; replies kept apart, in order, and ended; departures forgotten |
| **LlamaClient** `host/src/llama_client.cpp` | requests in flight | start, pump, cancel | each request ends once |
| **SseParser** `engine/src/chat/sse.cpp` | buffers, phase | feed, end | the cuts of the network are invisible |
| **LlamaProcess** `host/src/llama_process.cpp` | child pid, ready, paused, deadlines, health probe | tick, switchModel, restart, stop | converges on the configured model; readiness is told |
| **FilterEngine** `host/src/engines/filter` | a feed per connection, pipeline, quality | onJoin, onLeave, onBinary, onMessage, onTick, drawAdmin, reset | private replies; newest frame kept; counters add up; configuration pushed |
| **GpuBackend** `gpu_backend.cpp` | a pool of work textures | process | bit-exact with the reference |
| **morphology, pipeline** `engine/src/filter` | none (pure) | erode ... process | the laws of morphology, at the border too |
| **pages** `client/` | seat or bubble or frame numbers, socket | dial, hear, send, redial | agree with what the host told them |
| admin console, presets, prompts, net_util, board drawing, input devices | | | drawing, formatting, device I/O |

Interactions: the socket callbacks go WsServer → Host → Room → engine; replies go
engine → Room → WsServer. ChatEngine owns LlamaProcess and LlamaClient, which own
an SseParser per request and call the engine back through sinks. FilterEngine
calls GpuBackend and falls back to the CPU pipeline.

Hard behaviours: a browser that redials before its dead socket is noticed; frames
of a connection that never joined; an engine replaced under live sockets; stop,
reset and departure racing streamed tokens; a backend that dies in mid-stream; a
child that crashes, is switched and is probed at once; a kernel that takes only
part of an output; replies decoded out of order. `PROJECT.json` lists the hazards
line by line, each with the properties that cover it or the reason none does.

## 2. The modules

| module | models | notes |
|---|---|---|
| `Table` | — | abstract: who sits where, and which seats are reserved; cleared when an engine stops |
| `Room` | `room.cpp`, all of it | with the engine's ledger (what onJoin/onLeave told it), what clients were told and the last board broadcast; refines `Table` |
| `Host` | `host.cpp` over `Room` | one engine or none: stop, start, and callbacks that only an engine has; refines `Table` too |
| `Chess` | `chess_engine.cpp` over `Host` | a state of the game is a version; legality of a move is a choice |
| `Session` | `client/src/app.js`, `net.js` over `Chess` | browsers that dial, drop, reload, move; an admin who goes home and starts the engine again |
| `SessionProofs` | — | proofs about `Room`, `Host`, `Chess` and `Session` |
| `LlamaProcess` | `llama_process.cpp`, `ChatEngine::onTick`'s readiness broadcast | time in units of 300 ms, deadlines as units left |
| `Console` | the model and context panels of `chat_engine.cpp`, `cycleModel`, over `LlamaProcess` | which model and window the clients were told of; the admin window and SIGUSR1 exclude each other |
| `BackendProofs` | — | proofs about `LlamaProcess`, `Console` and `Sse` |
| `Conversation` | `conversation.cpp` | turns, their estimated size, the cap; pure operators |
| `Chat` | `chat_engine.cpp`, `llama_client.cpp`, `client/chat/chat.js` over `Room` and `Conversation` | stub, llama and down modes; stopAll, reset, relaunch, the context slider |
| `ChatProofs` | — | proofs about `Chat` and `Conversation` |
| `Sse` | `sse.cpp` | a response is a sequence of bytes told apart by role; each loop is a function, with one round for each end of a line |
| `Transport` | — | abstract: opened, heard in order, closed |
| `WsServer` | `ws_server.cpp` | against peers and kernel windows; refines `Transport` |
| `WsServerProofs` | — | proofs about `WsServer` |
| `Filter` | `filter_engine.cpp`, `client/filter/filter.js` | frames, feeds, decoders, configuration |
| `FilterProofs` | — | proofs about `Filter` |
| `Morphology` | `morphology.cpp`, `pipeline.cpp`, `image.cpp` | pure operators: planes, stages, and images in the three colour modes |
| `GpuBackend` | `gpu_backend.cpp`, `FilterEngine::runPipeline` | kernels over textures that keep old contents |
| `GpuBackendProofs` | — | proofs about `Morphology` and `GpuBackend` |
| `Position` | `position.cpp` | agrees with the perft figures of `tests/engine_tests.cpp:62-85` (initial position, Kiwipete and the others, to depth 2 or 3) |
| `BoardPage` | `position.cpp` (status, FEN), `heatmap.js`, `board.js`, `app.js` | the placement as tokens, written by the host and walked by the page; the page's own attack rules |
| `PositionProofs` | — | proofs about `Position` and `BoardPage` |
| `Induction` | — | induction and recursion over numbers, for the proofs |
| `MC*` | — | constants of the runs |

Definitions keep the source's names. An action is a whole handler: the broadcast,
the re-join callbacks and the trailing save are in it. Operators marked
*Faulty variant* are not part of the models: each is a plausible slip in the
operator that follows it, and `PROJECT.json` names the property that notices.

What is abstracted, beyond text and layout:

* `Room`: a connection the server is closing but has not dropped counts as
  dropped. Connection ids are never reused (`nextId_`).
* `Host`: `stopEngine` broadcasts no seats, so the board last broadcast goes on standing
  (`board` is unchanged); the announce of an engine is left out, as the chess and filter pages ignore
  it and the chat page only words a status line by it; `Chat` and `Filter` have a
  stop and a start in one step (`Relaunch`).
* `Chess`: positions are version numbers; `Position` has the rules.
* `Console`: which model ids have a GGUF is a constant, and only those can be picked;
  `loadPendingModel`'s refusal of another (`chat_engine.cpp:494-497`) changes nothing.
  Its branch with no managed process (`:502-510`) belongs to a host that attaches to a
  server it did not start: it relabels at once, has no child to part from, and is not
  in this module. The system prompt and the sampling parameters are only passed on.
* `Conversation`: a reply is the set of its tokens' messages, so its size is one
  or two units; the system prompt is not a turn.
* `BoardPage`: a placement is a sequence of tokens (a piece, a run of empty squares,
  the end of a rank); side, rights, target and clocks are copied one by one and are
  left out; shades of a colour are drawing.
* `LlamaProcess`: the child is external: it loads, serves, may crash, and exits when
  sent SIGTERM. `waitpid` may find that it was collected elsewhere (ECHILD, as when the
  host inherits SIGCHLD ignored): `ReapElsewhere`. EINTR does not come with WNOHANG, and
  would change nothing. The probe's early returns (no socket, a connect refused at
  once) are `NoProbe`; `llama_process.cpp:259-263`, an `inet_pton` that fails, is not:
  the configured host is a number or `localhost`. With any other no child is ever ready,
  and neither `Settles` nor `ReloadEnds` would hold. The resident-memory figure is left out.
* `Chat`: prompts and tokens are the number of the message they belong to; a
  refusal because the backend is not ready is a choice; one `pump` of several
  sockets is several pumps; a page holds one conversation; `lost` marks a page
  whose reply the operator wiped or whose socket died; ids of connections are given out in turn.
* `Sse`: bytes are records (a size line, text, CR, LF); size and header syntax
  are taken as parsed. A loop of the parser is as many rounds as its buffer has
  ends of lines: a round takes one or changes nothing (`LoopEnds` proves it).
* `WsServer`: frames arrive whole, as a part that waits changes nothing; a message is
  one frame, or a first fragment, any number of further ones and a last;
  `close()` has no caller in the repository and is no action; peers that say
  Close say nothing after it.
* `Filter`: a frame is its page, its number and whether it decodes; the
  configuration is pipeline and quality; a frame whose socket closes while it is
  encoded only uses up a number. A `filterConfig` sizes the canvas (`filter.js:66-67`),
  which clears it: `canvas.blank`. Relayed frames of connections that never joined
  are kept, as the code keeps them.
* `GpuBackend`: one plane per texture, since kernels treat channels alike; the pool starts
  with *undefined* contents, which stands for what any earlier frame left. A
  failure falls back at the end: where it struck shows nowhere else.

## 3. The runs

Nine runs pass; three are counterexamples to what a document or a comment says.

| run | instance | shows |
|---|---|---|
| `room` | 2 seats, 4 connections, symmetric, engines stopped and started | two seated, a reconnect into a held seat and a spectator at once: all seat bookkeeping, and `Table` |
| `session` | 2 players, 3 sockets, 3 versions | one drops and redials beside the other; two of moves, new games and new engines |
| `process` | `Console`: 3 model ids, 2 with a GGUF, 2 contexts, the code's timing, 3 operator actions that reach the child, 2 mishaps | switch during load, restart during switch, unload in backoff, a pick that is never loaded, a slider let go; a crash in each, and an exit collected elsewhere; safety, the label, and that it settles |
| `chat` | 1 page, 2 sockets, 3 prompts, 1 press, 1 operator action, deltas put behind an unread frame | stop, new, redial, wipe and a smaller context among tokens, cuts and failures |
| `sse` | up to 2 events of 1 or 2 lines, chunks of 1–5, reads of 1, 2, 3, 5, 8 or all | every cut of every response |
| `ws` | a peer of 4 frames, one of 1, up to 2 sends, 4 of all these together, a kernel of 1 frame, 1 break | a message in three fragments, pings, closes, dead peers; `Transport` |
| `filter` | 2 pages, 2 sockets, 1 change | one page that redials, or two that share the host |
| `gpu` | every 3×2 plane of 3 levels | every kind of stage with a disk of radius 1, plain and inverted, and pipelines of two and three stages; the laws and the luma mode for every element of radius ≤ 2 |
| `position` | 3 plies from 5 positions, 2 from the initial one | castling, en passant into a pin, promotion by taking a rook at home, the last rook taken from two bishops of one colour and a mate with two; the page's board and heat map of each |
| `room_state_kept` | as `room` | **violation**, below |
| `session_reclaim` | as `session` | **violation**, below |
| `ws_reap` | one peer of 3 frames, a kernel of 2 | **violation**, below |

The bounds are the smallest at which the cases named above all happen (each
mutant of a property is caught within them). Counters that the code never bounds
(prompts, moves, frames, operator actions, breaks) are bounded by a constant in
the guard of the action that counts; deadlock is not checked where these bounds
stop the system. `process` checks deadlock: its clock never stops. Symmetry is
used for safety and for the refinement of `Table`, which has no fairness, never
for liveness.

### Fairness

The loop calls `poll` and `tick` forever, so `Tick`, `Poll`, `Serve` and the steps
inside a poll are weakly fair, as is the passing of time; the pages' event loops
hear what arrives and finish decoding. Assumed of the environment: a loading
model loads or crashes, llama-server exits on SIGTERM and ends its
streams (the code has no deadline for either, see the hazards), peers read what
they are sent. Nothing is assumed of operators, of players, of crashes, of when
a broken socket is noticed (`Filter`, `Session`), or of what peers send.

### What the counterexamples show

* `room_state_kept`: a connection that never joined may talk to the engine, which
  keys state by connection (`room.cpp:81`, `chat_engine.cpp:278`,
  `filter_engine.cpp:213`); `onClose` calls `onLeave` only for members, so that state
  stays. `room.hpp:82-84` says engines rely on that signal, for privacy.
* `session_reclaim`: a browser that redials before the host notices that its old
  socket died finds its own seat taken, becomes a spectator and forgets the
  seat, which is then held for nobody. `docs/DESIGN-villen.md:236` promises that a
  transient drop reclaims automatically.
* `ws_reap`: `poll` returns at `ws_server.cpp:192` before the reaping when no socket
  is ready, so a closing connection whose last bytes went out in a tick's `send`
  stays until some other socket wakes `poll`.

Other disagreements met while modelling, which have no run of their own:

* A child that was sent SIGTERM and is then collected elsewhere leaves `restarting_` set
  (`llama_process.cpp:165-170` returns ahead of `:175`), so the next crash that `tick` reaps itself
  is taken for an exit that was asked for and has no backoff: what the comment at
  `llama_process.cpp:64-66` says cannot be. `AskedExitsOnly` names this as the one exception
  (`missed`). Nor is there a backoff for a crash that is collected elsewhere.
* `handleJoin` of a member that is already seated calls `onJoin` again with no
  `onLeave` between (`room.cpp:94-99`), which the comment at `room.cpp:109-111`
  says an engine never sees. No engine here counts joins.
* After a switch the child that was sent SIGTERM is still probed; if it answers,
  `ready` is set for a child on its way out (`llama_process.cpp:52-54` against
  `llama_process.hpp:58-59`).
* A failed generation leaves the user's turn in the dialogue, so two user turns
  follow each other (`chat_engine.cpp:347` against `conversation.hpp:39`).
* A stream that is cut after its headers ends as a reply that is done, not as a
  `chatError` (`llama_client.cpp:182`, `sse.cpp:42-56` against
  `docs/DESIGN-chat.md:105`).
* Moving the context slider changes the cap of the next message at once, while clients
  are told when it is let go and the running child keeps its `-c` until it is
  restarted (`chat_engine.cpp:696-707`).
* `--model PATH` is ignored, but for its id, when `--models-dir` holds a file of the
  same model: the explicit path loses (`chat_engine.cpp:105-108` after `:98`).
* A page that is open when the engine changes gets an announce it ignores (`app.js`,
  `filter.js:57-70`; `chat.js:34` words a status line), so it neither loads the new
  engine's view nor joins, against `host.cpp:39` and
  `docs/DESIGN-admin-shell.md:143-146`. A join that is read at the launcher is lost
  and never repeated. `Session` has both.
* A draw is announced, and moves are still accepted after it: `onMessage` asks
  `position_.apply`, not `status`.
* The promotion chooser keeps the move it was opened for while new states arrive
  (`app.js:80-87`), so its move may be stale; the host then judges it as any other.
* The destructor of `LlamaProcess` waits for the child without a bound
  (`llama_process.cpp:36`).
* In the luma mode a pixel whose luma rounds to zero turns grey or black even with no
  stage, and a bright channel saturates, so that neither hue nor brightness is
  kept there (`pipeline.cpp:32-47`). `ColourLaws` says what does hold.
* A corrupt chunk size read together with good chunks ahead of it is reported
  before the events of those chunks (`sse.cpp:105` against `sse.hpp:38-40`).

## 4. The proofs

**The room** (`SessionProofs`), for any roster size, any set of connections, with
`RoomAssumption` only. `IInv` is the conjunction of `TypeOK`, `SeatedOnce`, `SeatsLive`,
`EngineAgrees`, `LeavesMatch` and `ClientAgrees`: none is inductive alone, because
`onClose` and `handleJoin` find *the* seat of a connection by the first match (so they
need `SeatedOnce`), decide between seat and spectator by membership (`SeatsLive`), and
compute the `onLeave` they owe from the room while the ledger holds what the engine was
told (`EngineAgrees`). Lemmas say what `SeatIn` returns for a connection in no seat, one
seat, or a seat table changed elsewhere. There is one lemma per action, with a step per
conjunct it can disturb. `BoardCurrent`, that the board last broadcast is the seats', is
proved of one room apart (`RoomBoardCurrent`): it does not survive a stopped engine, which
empties the seats and broadcasts nothing. From `IInv` follow the invariants, the action
property `DepartureReleases` (a member that goes takes its state with it, so the leak
above is confined to connections that never joined), and the step simulation
`RoomImplementsTable`: every step of the room is a step of `Table` or a stutter.

**The child's supervision** (`BackendProofs`), for any models, any timing and any number
of operator actions and mishaps, with `ProcessAssumption` only. `AskedExitsOnly`,
`ProbeHasChild`, `NoSilentFlip` and `UnloadedStaysDown` need two facts more: `DownClean`
(no child, no pending SIGTERM) because `reapIfExited` clears the flag only on one of its
branches (`missed` says when it was another), and `ProbeToldDown` (a probe in flight means
the readiness last broadcast was *down*; ready means it was *up*) because a flip is told
at the end of the tick that started the probe: without it, a probe's success right after a
restart could be told as no change at all. `UnloadedStaysDown`, that an unloaded model has
no child but one on its way out, covers the tick that reaps the exit asked for by an
unload as well as backoff and crashes: none of them spawns while `paused_`. Typing of the
flags and of the data are separate lemmas.

**Host and session** (`SessionProofs`), for any players, connections and number of
positions, with `RoomAssumption` and `ChessAssumption`. First the host: `IInv` survives
engines that are stopped and started under live sockets (`HostKeepsRoom`), since stopping
empties seats, members and ledger at once, and is `Clear` to `Table`, which the host hence
still implements. A step of the session is one of the host or leaves it alone, so this
carries over. `SInv` adds three parts: at the launcher there are no members (`Idle`), what
pages remember and asked for are seats or none, and every member's view is the present
position and seats. The last needs the host's invariant: a broadcast goes to open sockets,
and that it reaches every member is that members are open. And it needs no `BoardCurrent`:
a member of a new engine joined it, and was greeted with the seats.

**The console** (`BackendProofs`), with `ProcessAssumption` and `ConsoleAssumption`: the console
implements `LlamaProcess`, and `LabelTrue`. The label is right because the path of the
next spawn, `cfg`, changes only with the label, and the child of another model is
always one that was sent SIGTERM; that takes `AskedExitsOnly` and `DownClean`.

**Induction.** The library's induction theorems take a predicate as a parameter,
which these provers cannot instantiate. `Induction` takes a *set* of numbers
instead: a set that has 0 and the next of each of its members has all (from
`NatLessThanWellFounded`), and a function that starts at a value and goes on by given steps
exists. On these rest the facts about recursive functions and folds below.

**`GpuBackendProofs`**, for planes of any size, any number of levels, every
structuring element, any pipeline and any number of frames, with
`PlaneAssumption` and `GpuAssumption` (a pool of four or more: the code has four).
*The laws*: erosion is the least and dilation the greatest of what is near a pixel;
nearness is symmetric although what is read is clamped at the border, because an
element with a point has all that lie between it and the middle (`OffsetsNearer`). So
the two are adjoint (`Adjoint`), and opening and closing follow from that. *The luma
mode*: the weights add up to 256, so a luma is a level, and recolouring darkens when
the luma does not grow and brightens when it does not shrink, whatever is rounded or
saturates; with the laws that gives `ColourLaws`. *The kernels*: `Process` is a recursive
function, shown to exist and to apply one stage and then the rest. `GpuInv` says that
what the kernels still to come will make of the pool's textures, as they are now, is the
reference's plane: it is inductive because no kernel writes what it or a later
one of its stage reads (at most three textures are busy, so a fourth is free), and
undefined contents never matter. With the fall-back, what is returned is exact.

**`PositionProofs`**, for any number of plies from any positions that are sound, which is
`PositionAssumption` (the initial position is: TLC evaluates it in the run). `Sound` is
its own inductive invariant: one king a side and the side that has moved not in check; a
right means king and rook at home; an en passant target is on the rank that a double push
passes, empty, with the pawn in front and an empty square behind; no pawn stands on a last
rank. Its parts need each other: that no king is taken is that a square a king is on is
reached by what would take it, so that the side to move would find its enemy in check;
that a castling lifts two pieces onto empty squares takes the rights; that an en passant
capture takes a pawn, and not a king, takes the target; and that promotion leaves no pawn
behind takes the pawns' ranks. `Lifts` says what all moves have in common, `Made` what a
board is after one. On `Sound` rest two more results.

*Dead games* (`DeadIsFinal`): few pieces, told apart by pairs (`Dead`), stay few, and a
bishop its colour, whatever is played. And none of them mates: a checked king has, by
its side, a square of the other colour that nothing of the enemy's reaches, so that
`Status` never sees a checkmate.

*The pages* (`PageSeesBoard`): what `ToFen` writes is walked back token by token
(`FileWalked`, `RankWalked`, `FenWalked`: after each file the walk has put down the ranks
above and the files so far, short of the run of empty squares not yet written). Its
recursive functions are shown to exist before they are used (`WalkIs`, `RowsAre`,
`RanksAre`). The page's attacks, walked outwards from a piece, are the host's, tested
from a square to a square (`AttacksAre`), and a colour says which sides' sets of
attackers are not empty (`HuesAre`).

**`FilterProofs`**, for any number of pages, sockets, frames and edits. `FInv` adds four
parts to the figures that add up: no two pages share an open socket (`Apart`), a
connection never dialled has no mail and no feed (`Fresh`), the mail of a page's socket is
that page's (`OwnsMail`), and a member's mail teaches it the host's configuration
(`Labelled`: the last word on it is the present one). A canvas that a configuration clears
shows nothing until the next frame; the page keeps the number it painted last, so what is
painted then is newer than all before it. The replies are private because a feed is of one
connection and no connection changes hands; the labels need `Labelled`, as a configuration
may still be under way.

**`ChatProofs`**, for any number of pages, connections, prompts, presses and
interventions, with `RoomAssumption` only, in two layers. `CInv` is of the host: a
connection has at most one generation, whose id was given out and names its request
(`Numbered`, `Single`, `Paired`: an abort finds requests through generations, so it
takes all of them only if they are paired), nothing waits for a closed connection
(`Quiet`), and a wire is ordered and *open* to the reply in flight and to the next
(`Wire`: the order alone does not survive a token, which must not come after the end
of its own reply). From it follow `RequestsMatch`, `RepliesInOrder` and
`DepartureForgets`. `BInv` is of the pages, for `OwnTokensOnly`: a page that looks at
no id has one reply in its bubble because page, wires and generations together are in
one of four shapes (`Shaped`): it asked for nothing, its prompt is on the way, its
reply is coming, or the end of it is. Lemmas say what each thing that can happen
makes of a shape, and one lemma per action which of them happens. A third layer,
`VInv`, is of the dialogues, for `PromptFits`: a dialogue opens on a prompt, and one
whose reply is in flight is not empty, so that the trim always finds a prompt to cut
back to. That what is sent fits the budget, and that as much is kept as may be, is
that a dialogue's cost only falls as its oldest turns go (`TailCosts`), a fold over
sequences, by induction.

**`WsServerProofs`**, for any connections, frames, sends, breaks and kernel window, with
`WsAssumption` only. `WInv` follows every frame: those of a connection that are not parsed
yet, in `inbuf` or still under way, are the last that its peer sent (`Tape`), and what the
host heard is what the peer said by the frames ahead of them, the rest being what they
still say (`Words`); with them go the fragments that are open, as a message ends in a
later frame, often of a later read: `OpenAt` is what is open at a frame, which every frame
of the tape adds to, ends or leaves (`After`), so that what the peer counts as open and
what the server keeps in `fragment` are one function of the frames. The rest of `WInv`
says when a connection is opened and closed (`Lives`), that `poll` serves each once
(`Serves`), and who was dropped for a fault of its own (`Manners`). One lemma takes the
first frame off, and each handler takes it or leaves the frames alone. From it follow
`PoliteHeard` and, step by step, `ImplementsTransport`.

**The parser** (`BackendProofs`), for any texts, any number of events and of lines in
one, any chunk size and any reads, with `SseAssumption`. `SseIInv` says that what the
parser holds and the bytes still unread make up, together, what is still to come of the
response: `buf` and the wire are whole chunks and their ending (`ChunkTape`), and `sse`
and the bodies of those chunks are the lines of the events that follow a place
of event and line (`LineTape`, `BodyTape`), where exactly the events ahead of it were returned
and `event` holds the lines ahead of it. Each round of a loop takes one chunk or one
line off the front of its tape, so every round keeps the tapes, and a loop has
enough rounds (`LoopEnds`), by induction on them. `feed` is then a few such steps, whether
it meets the headers, `[DONE]`, the last chunk or a corrupt one; `end` returns what
is left over. `Faithful` is that at the end of the wire nothing is to come;
`NothingInvented` is that a partial line is never in `event`, so that a cut can only drop
whole lines of the last event.

**Only model-checked**: liveness (`Settles`, `ReloadEnds`, `PageReleased`,
`DeadNoticed`, `ByeDrained`, `NewestPainted`), which is beyond the prover. Every
other property of a passing run is the statement of a theorem.

To check: `tlc -config MCRoom.cfg MCRoom` and likewise for the other runs of
`PROJECT.json`; `tlapm SessionProofs.tla` and likewise for the other `*Proofs` modules.

## 5. Not modelled

Argument parsing, HTTP file serving and the accept key, JSON, the fields of a FEN after
the placement, model discovery on disk, prompt templates, drawing and the admin
window's views, input devices and the promotion chooser (they only make the moves
that `Session` plays), camera access, address listing, `spike/`, `tools/`, `rc/`,
`third_party/`: formatting or I/O with no shared state. Not modelled although they
could bite: the 32-bit clock of the windowed loop, which wraps after 49.7 days
(`admin_ui.cpp:342`), and the growth of output buffers (`ws_server.cpp:403`).

## 6. The plan

Done, in order of weight: Table, Room and its proofs; LlamaProcess and its
proofs; Chess and Session; Chat; Sse; Transport and WsServer; Filter; Morphology
and GpuBackend; Position; then BoardPage, Conversation, Console, Host, the colour
modes, and the proofs about Host, Session, Console, Filter, Chat, WsServer, GpuBackend,
Position, BoardPage and Sse.

Next:

1. The input adapters and the promotion chooser between `Session`'s page and its
   moves: what is sent was legal in a state the page was shown.
2. The host's clock as a counter of 32 bits, against deadlines of 64.
3. `Console` for a host that attaches to a server it did not start, where a load only
   relabels.
