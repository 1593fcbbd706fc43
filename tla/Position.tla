------------------------------ MODULE Position ------------------------------
(***************************************************************************)
(* The rules of chess as engine/src/position.cpp has them: pseudo-legal    *)
(* moves, the filter that keeps the mover's king safe, and what a move     *)
(* does to the board, the castling rights, the en passant target and the   *)
(* clock.  The move counter is left out.                                   *)
(*                                                                         *)
(* A square is <<file, rank>>, both from 0; a board is a function on the   *)
(* squares that are not empty.                                             *)
(***************************************************************************)
EXTENDS Integers, FiniteSets

CONSTANTS Starts,    \* positions to start from, reached in some game
          MaxPlies   \* bound on the moves of a run

VARIABLES board, side,
          castling,  \* the rights left, of Rights
          ep,        \* the en passant target, or NoSquare
          halfmove,
          plies      \* moves of the run that are spent

vars == <<board, side, castling, ep, halfmove, plies>>

Squares  == (0 .. 7) \X (0 .. 7)
NoSquare == <<-1, -1>>
Colors   == {"White", "Black"}
Kinds    == {"Pawn", "Knight", "Bishop", "Rook", "Queen", "King"}
Opponent(c) == IF c = "White" THEN "Black" ELSE "White"
Home(c) == IF c = "White" THEN 0 ELSE 7
Dir(c)  == IF c = "White" THEN 1 ELSE -1
Rights == Colors \X {"King", "Queen"}
RookFile(wing) == IF wing = "King" THEN 7 ELSE 0

\* A position, as the operators below take it; the move being judged may be
\* made on a copy.
Pos == [board |-> board, side |-> side, castling |-> castling, ep |-> ep, halfmove |-> halfmove]

Init == \E p \in Starts : /\ board = p.board /\ side = p.side /\ castling = p.castling
                          /\ ep = p.ep /\ halfmove = p.halfmove /\ plies = p.plies

-----------------------------------------------------------------------------
(* Attacks.                                                                *)

Abs(n)  == IF n < 0 THEN -n ELSE n
Sign(n) == IF n < 0 THEN -1 ELSE IF n > 0 THEN 1 ELSE 0
Far(df, dr) == IF Abs(df) > Abs(dr) THEN Abs(df) ELSE Abs(dr)

\* Nothing stands between from and to, on a line.
Clear(b, from, df, dr) ==
  \A k \in 1 .. Far(df, dr) - 1 : <<from[1] + k * Sign(df), from[2] + k * Sign(dr)>> \notin DOMAIN b

Diagonal(df, dr) == Abs(df) = Abs(dr) /\ df # 0
Straight(df, dr) == (df = 0) # (dr = 0)

Reaches(b, from, to) ==
  LET p  == b[from]
      df == to[1] - from[1]
      dr == to[2] - from[2]
  IN CASE p.type = "Pawn"   -> dr = Dir(p.color) /\ Abs(df) = 1
       [] p.type = "Knight" -> {Abs(df), Abs(dr)} = {1, 2}
       [] p.type = "King"   -> Far(df, dr) = 1
       [] p.type = "Bishop" -> Diagonal(df, dr) /\ Clear(b, from, df, dr)
       [] p.type = "Rook"   -> Straight(df, dr) /\ Clear(b, from, df, dr)
       [] p.type = "Queen"  -> (Diagonal(df, dr) \/ Straight(df, dr)) /\ Clear(b, from, df, dr)

IsSquareAttacked(b, s, by) == \E q \in DOMAIN b : b[q].color = by /\ Reaches(b, q, s)
Kings(b, c)   == {s \in DOMAIN b : b[s] = [color |-> c, type |-> "King"]}
InCheck(b, c) == \E s \in Kings(b, c) : IsSquareAttacked(b, s, Opponent(c))

-----------------------------------------------------------------------------
(* Pseudo-legal moves.                                                     *)

Move(from, to, promotion) == [from |-> from, to |-> to, promotion |-> promotion]

\* addStepMoves, addSliderMoves: to wherever the piece reaches.
PieceMoves(p, from) ==
  {Move(from, to, "None") : to \in
     {s \in Squares : /\ Reaches(p.board, from, s)
                      /\ s \in DOMAIN p.board => p.board[s].color # p.side}}

Promoted(from, to, c) ==
  {Move(from, to, t) : t \in IF to[2] = Home(Opponent(c)) THEN {"Queen", "Rook", "Bishop", "Knight"}
                             ELSE {"None"}}

PawnMoves(p, from) ==
  LET one == <<from[1], from[2] + Dir(p.side)>>
      two == <<from[1], from[2] + 2 * Dir(p.side)>>
      reached == {s \in Squares : Reaches(p.board, from, s)}
      taken == {s \in reached \cap DOMAIN p.board : p.board[s].color # p.side}
  IN (IF one \in Squares \ DOMAIN p.board THEN Promoted(from, one, p.side) ELSE {})
       \cup (IF from[2] = Home(p.side) + Dir(p.side) /\ {one, two} \cap DOMAIN p.board = {}
             THEN {Move(from, two, "None")} ELSE {})
       \cup (UNION {Promoted(from, s, p.side) : s \in taken})
       \cup {Move(from, s, "None") : s \in (reached \cap {p.ep}) \ taken}

\* Between king and rook nothing stands, and the king passes no attack.
Way(wing)  == IF wing = "King" THEN {5, 6} ELSE {1, 2, 3}
Path(wing) == IF wing = "King" THEN {5, 6} ELSE {3, 2}
KingTo(wing) == IF wing = "King" THEN 6 ELSE 2

CastlingMoves(p) ==
  LET r == Home(p.side)
      safe(f) == ~IsSquareAttacked(p.board, <<f, r>>, Opponent(p.side))
      may(w) == /\ <<p.side, w>> \in p.castling
                /\ \A f \in Way(w) : <<f, r>> \notin DOMAIN p.board
                /\ \A f \in Path(w) : safe(f)
  IN IF <<4, r>> \notin Kings(p.board, p.side) \/ ~safe(4) THEN {}
     ELSE {Move(<<4, r>>, <<KingTo(w), r>>, "None") : w \in {w \in {"King", "Queen"} : may(w)}}

PseudoLegal(p) ==
  LET mine == {s \in DOMAIN p.board : p.board[s].color = p.side}
  IN (UNION {IF p.board[s].type = "Pawn" THEN PawnMoves(p, s) ELSE PieceMoves(p, s) : s \in mine})
       \cup CastlingMoves(p)

-----------------------------------------------------------------------------
(* makeMoveRaw.                                                            *)

EnPassant(p, m) == p.board[m.from].type = "Pawn" /\ m.to = p.ep /\ m.to \notin DOMAIN p.board

Moved(p, m) ==
  LET b == p.board
      gone == {m.from} \cup (IF EnPassant(p, m) THEN {<<m.to[1], m.from[2]>>} ELSE {})
      piece == IF m.promotion = "None" THEN b[m.from]
               ELSE [color |-> b[m.from].color, type |-> m.promotion]
  IN [s \in (DOMAIN b \ gone) \cup {m.to} |-> IF s = m.to THEN piece ELSE b[s]]

\* The rook follows a king that hops two files.
RookHop(b, from, to) == IF from \in DOMAIN b
                        THEN [s \in (DOMAIN b \ {from}) \cup {to} |-> IF s = to THEN b[from] ELSE b[s]]
                        ELSE b
BoardAfter(p, m) ==
  LET hop == m.to[1] - m.from[1]
      r   == m.from[2]
      b   == Moved(p, m)
  IN IF p.board[m.from].type = "King" /\ hop = 2 THEN RookHop(b, <<7, r>>, <<5, r>>)
     ELSE IF p.board[m.from].type = "King" /\ hop = -2 THEN RookHop(b, <<0, r>>, <<3, r>>)
     ELSE b

\* Rights go with the king, and with a rook that leaves or is taken at home.
\* (Faulty variant: a rook that is taken leaves its right behind.)
TouchedFrom(m, sq) == sq = m.from
Touched(m, sq)     == sq \in {m.from, m.to}

LostRights(p, m) ==
  {x \in Rights : \/ p.board[m.from] = [color |-> x[1], type |-> "King"]
                  \/ Touched(m, <<RookFile(x[2]), Home(x[1])>>)}

\* (Faulty variant: the target outlives the next move.)
NewEpKept(p, m) == IF p.board[m.from].type = "Pawn" /\ Abs(m.to[2] - m.from[2]) = 2
                   THEN <<m.from[1], (m.from[2] + m.to[2]) \div 2>> ELSE p.ep
NewEp(p, m)     == IF p.board[m.from].type = "Pawn" /\ Abs(m.to[2] - m.from[2]) = 2
                   THEN <<m.from[1], (m.from[2] + m.to[2]) \div 2>> ELSE NoSquare

Quiet(p, m) == p.board[m.from].type # "Pawn" /\ m.to \notin DOMAIN p.board

MakeMoveRaw(p, m) ==
  [board |-> BoardAfter(p, m), side |-> Opponent(p.side),
   castling |-> p.castling \ LostRights(p, m), ep |-> NewEp(p, m),
   halfmove |-> IF Quiet(p, m) THEN p.halfmove + 1 ELSE 0]

\* (Faulty variant: the filter looks at the board before an en passant capture
\* is taken off it.)
SafeBeforeCapture(p, m) ==
  ~InCheck(Moved([p EXCEPT !.ep = NoSquare], m), p.side)
Safe(p, m) == ~InCheck(MakeMoveRaw(p, m).board, p.side)

LegalMoves(p) == {m \in PseudoLegal(p) : Safe(p, m)}

-----------------------------------------------------------------------------
\* apply: only what is legal; anything else leaves the position as it is.
Apply(m) == /\ plies < MaxPlies /\ plies' = plies + 1
            /\ LET p == MakeMoveRaw(Pos, m)
               IN /\ board' = p.board /\ side' = p.side /\ castling' = p.castling
                  /\ ep' = p.ep /\ halfmove' = p.halfmove

Next == \E m \in LegalMoves(Pos) : Apply(m)

Spec == Init /\ [][Next]_vars

-----------------------------------------------------------------------------
(* Properties.                                                             *)

IsPosition(p) == /\ DOMAIN p.board \subseteq Squares
                 /\ p.board \in [DOMAIN p.board -> [color : Colors, type : Kinds]]
                 /\ p.side \in Colors /\ p.castling \subseteq Rights
                 /\ p.ep \in Squares \cup {NoSquare}

KingsSafeIn(p) == /\ \A c \in Colors : Cardinality(Kings(p.board, c)) = 1
                  /\ ~InCheck(p.board, Opponent(p.side))

\* A right means a king and a rook at home.
RightsHome(p) ==
  \A x \in p.castling :
    /\ Kings(p.board, x[1]) = {<<4, Home(x[1])>>}
    /\ LET rook == <<RookFile(x[2]), Home(x[1])>>
       IN rook \in DOMAIN p.board /\ p.board[rook] = [color |-> x[1], type |-> "Rook"]

\* The en passant target is empty, the pawn that passed it is in front, and the
\* square it came from, behind, is empty; pawns stand on neither last rank.
EpBehind(p) ==
  /\ p.ep # NoSquare =>
       LET c == Opponent(p.side)
           front == <<p.ep[1], p.ep[2] + Dir(c)>>
       IN /\ p.ep[2] = Home(c) + 2 * Dir(c)
          /\ {p.ep, <<p.ep[1], p.ep[2] - Dir(c)>>} \cap DOMAIN p.board = {}
          /\ front \in DOMAIN p.board /\ p.board[front] = [color |-> c, type |-> "Pawn"]
  /\ \A s \in DOMAIN p.board : p.board[s].type = "Pawn" => s[2] \in 1 .. 6

\* Whatever is reached in a game is sound; so are the positions to start from.
Sound(p) == IsPosition(p) /\ KingsSafeIn(p) /\ RightsHome(p) /\ EpBehind(p)

ASSUME PositionAssumption == MaxPlies \in Nat /\ \A p \in Starts : Sound(p)

\* Nobody ever leaves or puts the own king in check, and no king is taken:
\* pins, discovered checks and en passant across a rank included
\* (position.hpp:61).
KingsSafe == KingsSafeIn(Pos)

\* The rights and the en passant target say of the board what the moves that
\* use them take for granted: castling does not look for the rook
\* (position.cpp:294), nor the capture at the pawn it takes.
StateMeansBoard == RightsHome(Pos) /\ EpBehind(Pos)

=============================================================================
