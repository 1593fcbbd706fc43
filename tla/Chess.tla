------------------------------- MODULE Chess -------------------------------
(***************************************************************************)
(* host/src/engines/chess/chess_engine.cpp in its room: who may move, and  *)
(* what every connection was last shown.  The rules of chess are behind    *)
(* `legal`; a position is its version number and the side to move.         *)
(***************************************************************************)
EXTENDS Host

CONSTANT MaxVersion   \* bound on the number of positions of a run

ASSUME ChessAssumption == NumSeats = 2 /\ MaxVersion \in Nat

White == 0            \* kWhite; Black, kBlack, is 1: a side is its seat

VARIABLES
  version,  \* position_: which authoritative position this is
  turn,     \* position_.sideToMove()
  mover,    \* whose move made it; NoConn for a new game
  view      \* view[c]: what c was last sent of the position and the seats

chessVars == <<hostVars, version, turn, mover, view>>

\* stateMsg: the position and the seat statuses.
StateMsg == [version |-> version, seats |-> BoardOf(seats)]

NoView == [version |-> -1, seats |-> [s \in Seats |-> "open"]]

ChessInit == /\ HostInit /\ running
             /\ version = 0 /\ turn = White /\ mover = NoConn
             /\ view = [c \in Conns |-> NoView]

-----------------------------------------------------------------------------
(* Membership, with what the engine and the room send.                     *)

\* onJoin of c: it is sent the state.
\* (Faulty variant: only a seated connection is.)
GreetedIfSeated(c) == IF SeatOf(c)' = NoSeat THEN view
                      ELSE [view EXCEPT ![c] = StateMsg']
Greeted(c)         == [view EXCEPT ![c] = StateMsg']

\* A change of seats goes to every connection past its handshake.
SeatsSent(v) == IF seats' = seats THEN v
                ELSE [c \in Conns |-> IF c \in open' THEN [v[c] EXCEPT !.seats = board']
                                      ELSE v[c]]

Join(c, requested) == /\ Routed(HandleJoin(c, requested))
                      /\ UNCHANGED <<version, turn, mover>>
                      /\ view' = SeatsSent(Greeted(c))

Leave(c) == /\ OnClose(c)
            /\ UNCHANGED <<running, version, turn, mover>>
            /\ view' = SeatsSent(view)

\* The admin's Free button, which is disabled for an open seat.
Free(s) == /\ StatusOf(seats[s]) # "open"
           /\ Routed(FreeSeat(s))
           /\ UNCHANGED <<version, turn, mover>>
           /\ view' = SeatsSent(IF seats[s].conn = NoConn THEN view
                                ELSE Greeted(seats[s].conn))

-----------------------------------------------------------------------------
(* Moves.                                                                  *)

\* onMessage: why a well-formed proposal by c is turned down.
\* (Faulty variant: the move is not tied to a seat.)
RejectionByTurnOnly(c, legal) ==
  IF seats[turn].conn \notin {NoConn, c} THEN "not_your_turn"
  ELSE IF StatusOf(seats[turn]) = "disconnected" THEN "seat_disconnected"
  ELSE IF legal THEN "none" ELSE "illegal_move"

Rejection(c, legal) ==
  IF SeatOf(c) = NoSeat THEN "not_seated"
  ELSE IF seats[turn].conn \notin {NoConn, c} THEN "not_your_turn"
  ELSE IF StatusOf(seats[turn]) = "disconnected" THEN "seat_disconnected"
  ELSE IF legal THEN "none" ELSE "illegal_move"

\* broadcastState, of a new position with side `next` to move.
NewPosition(next, by) == /\ version < MaxVersion
                         /\ version' = version + 1
                         /\ turn' = next
                         /\ mover' = by

Advance(next, by) == /\ running
                     /\ NewPosition(next, by)
                     /\ UNCHANGED hostVars
                     /\ view' = [c \in Conns |-> IF c \in open THEN StateMsg' ELSE view[c]]

Propose(c, legal) == /\ c \in open
                     /\ Rejection(c, legal) = "none"
                     /\ Advance(1 - turn, c)

\* reset: the admin's New game.
Reset == Advance(White, NoConn)

\* A connection past its handshake that has not joined is shown nothing new.
Open(c) == Connect(c) /\ UNCHANGED <<running, version, turn, mover, view>>

\* The engine is stopped, and a new one starts a new game that nobody is sent:
\* the next to join is the first to see it.
Stop  == StopEngine /\ UNCHANGED <<version, turn, mover, view>>
Start == StartEngine /\ NewPosition(White, NoConn) /\ UNCHANGED view

-----------------------------------------------------------------------------
(* Properties.                                                             *)

\* Every member was last sent the position and the seats as they are: no
\* interleaving of joins, drops, frees, moves and new games leaves one behind.
MembersSeeTable == \A c \in members : view[c] = StateMsg

\* A position comes only from a seated player, for its own side or for an open
\* one: never from a spectator, never for a side whose player is connected
\* elsewhere or is being waited for (chess_engine.cpp:131-158).
MoverHasTurn ==
  [][version' # version /\ mover' # NoConn =>
       /\ \E s \in Seats : seats[s].conn = mover'
       /\ seats[turn].conn = mover' \/ seats[turn] = Vacant]_chessVars

=============================================================================
