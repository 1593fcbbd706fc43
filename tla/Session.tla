------------------------------ MODULE Session ------------------------------
(***************************************************************************)
(* Chess players at their browsers: client/src/app.js over client/src/     *)
(* net.js, against the host.  A browser asks for a seat when its socket    *)
(* opens, remembers the seat it was given, and redials when its socket     *)
(* dies; the host notices the death of a socket on its own time.           *)
(***************************************************************************)
EXTENDS Chess

CONSTANT Players

None == -4            \* no join outstanding on the connection

VARIABLES
  sock,     \* sock[p]: p's current socket, NoConn while it has none
  mySeat,   \* game.mySeat: the seat p believes it has; NoSeat for null
  asked,    \* asked[c]: the seat field of the join c sent, None if none
  served,   \* connections whose join the host has handled
  keeper    \* keeper[s]: the player who last knew s to be its own

clientVars == <<sock, mySeat, asked, served, keeper>>
allVars    == <<chessVars, clientVars>>

Nobody == [s \in Seats |-> NoConn]

SessionInit == /\ ChessInit /\ open = {}
               /\ sock = [p \in Players |-> NoConn]
               /\ mySeat = [p \in Players |-> NoSeat]
               /\ asked = [c \in Conns |-> None]
               /\ served = {}
               /\ keeper = Nobody

\* onStatus("open"): join by the remembered seat's name, or unnamed.
Dial(p, c) == /\ sock[p] = NoConn
              /\ Open(c)
              /\ sock' = [sock EXCEPT ![p] = c]
              /\ asked' = [asked EXCEPT ![c] = IF mySeat[p] = NoSeat THEN Unnamed
                                               ELSE mySeat[p]]
              /\ UNCHANGED <<mySeat, served, keeper>>

\* The host reads the join; the socket may be dead on the client's side.  At
\* the launcher the join is lost, and the page never repeats it.
ServeJoin(c) == /\ asked[c] # None /\ c \in open \ served
                /\ \/ Join(c, asked[c])
                   \/ ~running /\ UNCHANGED chessVars
                /\ served' = served \cup {c}
                /\ UNCHANGED <<sock, mySeat, asked, keeper>>

\* onMessage: "joined" sets or clears mySeat.
Hear(p) == LET c == sock[p]
           IN /\ c # NoConn
              /\ told[c] \notin {Absent, mySeat[p]}
              /\ mySeat' = [mySeat EXCEPT ![p] = told[c]]
              /\ keeper' = IF told[c] = NoSeat THEN keeper
                           ELSE [keeper EXCEPT ![told[c]] = p]
              /\ UNCHANGED <<chessVars, sock, asked, served>>

\* The socket dies on the client's side; net.js redials a second later.
DropSocket(p) == /\ sock[p] # NoConn
                 /\ sock' = [sock EXCEPT ![p] = NoConn]
                 /\ UNCHANGED <<chessVars, mySeat, asked, served, keeper>>

\* The page is reloaded, from the running engine: the remembered seat is lost.
Reload(p) == /\ running /\ sock[p] # NoConn
             /\ sock' = [sock EXCEPT ![p] = NoConn]
             /\ mySeat' = [mySeat EXCEPT ![p] = NoSeat]
             /\ keeper' = [s \in Seats |-> IF keeper[s] = p THEN NoConn ELSE keeper[s]]
             /\ UNCHANGED <<chessVars, asked, served>>

\* poll: the host finds the socket of c dead.
Notice(c) == /\ \A p \in Players : sock[p] # c
             /\ Leave(c)
             /\ UNCHANGED clientVars

Play(p, legal) == /\ sock[p] # NoConn
                  /\ Propose(sock[p], legal)
                  /\ UNCHANGED clientVars

AdminFree(s) == /\ Free(s)
                /\ keeper' = [keeper EXCEPT ![s] = NoConn]
                /\ UNCHANGED <<sock, mySeat, asked, served>>

NewGame == Reset /\ UNCHANGED clientVars

\* The admin's Home, and the launcher's entry for chess.  The pages that are
\* open stay as they are: app.js has no case for the announce.
Home   == /\ Stop
          /\ keeper' = Nobody
          /\ UNCHANGED <<sock, mySeat, asked, served>>
Launch == Start /\ UNCHANGED clientVars

SessionNext ==
  \/ \E p \in Players : \/ \E c \in Conns : Dial(p, c)
                        \/ Hear(p) \/ DropSocket(p) \/ Reload(p)
                        \/ \E legal \in BOOLEAN : Play(p, legal)
  \/ \E c \in Conns : ServeJoin(c) \/ Notice(c)
  \/ \E s \in Seats : AdminFree(s)
  \/ NewGame \/ Home \/ Launch

SessionSpec == SessionInit /\ [][SessionNext]_allVars

-----------------------------------------------------------------------------
(* Properties.                                                             *)

\* A held seat is only ever taken over by a join that names it: an unnamed join,
\* such as a newcomer's or a reloaded page's, is never handed the seat of a
\* player that may be back any moment (room.cpp:102).
HeldTakenByName ==
  [][\A s \in Seats : seats[s].held /\ seats'[s].conn # NoConn =>
       asked[seats'[s].conn] = s]_allVars

\* As DESIGN-villen.md:236 and app.js:41 have it: a browser that drops for a
\* moment reclaims its seat.  No player that is back, and whose join was
\* handled, watches while its own seat is held.
NoPlayerStranded ==
  \A p \in Players, s \in Seats :
    ~ (seats[s].held /\ keeper[s] = p /\ sock[p] \in served)

=============================================================================
