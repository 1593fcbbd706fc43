----------------------------- MODULE BoardPage -----------------------------
(***************************************************************************)
(* What a page makes of the position it is sent.  The host writes the      *)
(* board as the placement field of a FEN and adds the status of the game;  *)
(* board.js, heatmap.js and app.js each walk that field again, and         *)
(* heatmap.js works out by itself who attacks what.  Two programs, in two  *)
(* languages, that must agree on where the pieces stand and what they      *)
(* reach.  The other fields of a FEN are copied one by one.                *)
(***************************************************************************)
EXTENDS Position, Sequences

-----------------------------------------------------------------------------
(* status.                                                                 *)

Of(b, type)     == {s \in DOMAIN b : b[s].type = type}
IsLightSquare(s) == (s[1] + s[2]) % 2 = 1

\* (Faulty variant: two bishops on different colours count as one.)
InsufficientAnyBishops(b) ==
  /\ \A s \in DOMAIN b : b[s].type \in {"King", "Knight", "Bishop"}
  /\ Cardinality(Of(b, "Knight")) <= 1
  /\ Of(b, "Knight") = {} \/ Of(b, "Bishop") = {}

HasInsufficientMaterial(b) ==
  LET light == {s \in Of(b, "Bishop") : IsLightSquare(s)}
      dark  == Of(b, "Bishop") \ light
  IN /\ \A s \in DOMAIN b : b[s].type \in {"King", "Knight", "Bishop"}
     /\ \/ Of(b, "Bishop") = {} /\ Cardinality(Of(b, "Knight")) <= 1
        \/ Of(b, "Knight") = {} /\ (light = {}) # (dark = {})

Status(p) == IF LegalMoves(p) = {}
             THEN IF InCheck(p.board, p.side) THEN "checkmate" ELSE "stalemate"
             ELSE IF p.halfmove >= 100 \/ HasInsufficientMaterial(p.board) THEN "draw"
             ELSE IF InCheck(p.board, p.side) THEN "check" ELSE "active"

\* wireStatusName: a page is not told of a check here, but in a flag.
WireStatus(p) == IF Status(p) = "check" THEN "active" ELSE Status(p)

-----------------------------------------------------------------------------
(* toFen: pieces, runs of empty squares, and the ends of ranks.            *)

Piece(p) == [kind |-> "piece", piece |-> p]
Gap(n)   == [kind |-> "gap", run |-> n]
Slash    == [kind |-> "slash"]

Flushed(row) == IF row.empties = 0 THEN row.out ELSE Append(row.out, Gap(row.empties))

FileStep(b, r, row, f) ==
  IF <<f, r>> \in DOMAIN b
  THEN [out |-> Append(Flushed(row), Piece(b[<<f, r>>])), empties |-> 0]
  ELSE [row EXCEPT !.empties = @ + 1]

RankOut(b, r) ==
  LET row[n \in 0 .. 8] == IF n = 0 THEN [out |-> <<>>, empties |-> 0]
                           ELSE FileStep(b, r, row[n - 1], n - 1)
  IN Flushed(row[8])

ToFen(b) ==
  LET down[r \in 0 .. 7] == IF r = 7 THEN RankOut(b, 7)
                            ELSE Append(down[r + 1], Slash) \o RankOut(b, r)
  IN down[0]

-----------------------------------------------------------------------------
(* The walks over a placement: fromFen's, which refuses a bad one, and the *)
(* page's, which skips what is off the board.                              *)

Put(at, p) ==
  LET s == <<at.file, at.rank>>
      placed == [q \in DOMAIN at.board \cup {s} |-> IF q = s THEN p ELSE at.board[q]]
  IN [rank |-> at.rank, file |-> at.file + 1, ok |-> at.ok /\ s \in Squares,
      board |-> IF s \in Squares THEN placed ELSE at.board]

WalkStep(at, t) ==
  CASE t.kind = "slash" -> [rank |-> at.rank - 1, file |-> 0, ok |-> at.ok /\ at.file = 8,
                           board |-> at.board]
    [] t.kind = "gap"   -> [at EXCEPT !.file = @ + t.run]
    [] t.kind = "piece" -> Put(at, t.piece)

Walk(fen) ==
  LET at[n \in 0 .. Len(fen)] ==
        IF n = 0 THEN [rank |-> 7, file |-> 0, ok |-> TRUE, board |-> <<>>]
        ELSE WalkStep(at[n - 1], fen[n])
  IN at[Len(fen)]

\* fromFen: a board, if the placement is one.
FromFen(fen) == LET end == Walk(fen)
                IN {b \in {end.board} : end.ok /\ end.rank = 0 /\ end.file = 8}

Rendered(fen) == Walk(fen).board

\* The square the page marks when the side to move is in check.
FindKing(fen, c) == Kings(Rendered(fen), c)

-----------------------------------------------------------------------------
(* heatmap.js: every piece's reach, walked outwards from the piece.        *)

RookDirs   == {<<1, 0>>, <<-1, 0>>, <<0, 1>>, <<0, -1>>}
BishopDirs == {<<1, 1>>, <<1, -1>>, <<-1, 1>>, <<-1, -1>>}
KnightOff  == {d \in (-2 .. 2) \X (-2 .. 2) : {Abs(d[1]), Abs(d[2])} = {1, 2}}
PawnOff(c) == {<<-1, Dir(c)>>, <<1, Dir(c)>>}

Step(s, d, k) == <<s[1] + k * d[1], s[2] + k * d[2]>>
Leap(s, offs) == {Step(s, d, 1) : d \in offs} \cap Squares

\* A slider controls the square of the piece that stops it.
\* (Faulty variant: it does not.)
SlideShort(b, s, dirs) ==
  (UNION {{Step(s, d, k) : k \in {k \in 1 .. 7 : \A j \in 1 .. k : Step(s, d, j) \notin DOMAIN b}}
            : d \in dirs}) \cap Squares
Slide(b, s, dirs) ==
  (UNION {{Step(s, d, k) : k \in {k \in 1 .. 7 : \A j \in 1 .. k - 1 : Step(s, d, j) \notin DOMAIN b}}
            : d \in dirs}) \cap Squares

AttacksFrom(b, s) ==
  CASE b[s].type = "Pawn"   -> Leap(s, PawnOff(b[s].color))
    [] b[s].type = "Knight" -> Leap(s, KnightOff)
    [] b[s].type = "King"   -> Leap(s, RookDirs \cup BishopDirs)
    [] b[s].type = "Bishop" -> Slide(b, s, BishopDirs)
    [] b[s].type = "Rook"   -> Slide(b, s, RookDirs)
    [] b[s].type = "Queen"  -> Slide(b, s, RookDirs \cup BishopDirs)

\* Who controls what: every piece, of either side, with every square it attacks.
Controls(b)      == UNION {{s} \X AttacksFrom(b, s) : s \in DOMAIN b}
ControlMap(b, c) == {x \in Controls(b) : b[x[1]].color = c}

SquareColor(w, b) == IF w = 0 /\ b = 0 THEN "plain"
                     ELSE IF b = 0 THEN "blue" ELSE IF w = 0 THEN "red" ELSE "purple"

\* A cell for every square, with the number of its attackers.
HeatmapFor(fen) ==
  LET shown == Rendered(fen)
      count(map, q) == Cardinality({x \in map : x[2] = q})
      cell(q, w, b) == [sq |-> q, color |-> SquareColor(w, b), w |-> w, b |-> b]
      white == ControlMap(shown, "White")
      black == ControlMap(shown, "Black")
  IN {cell(q, count(white, q), count(black, q)) : q \in Squares}

-----------------------------------------------------------------------------
(* Properties.                                                             *)

\* A game that is dead by its material stays so, and never ends in a mate: the
\* draw the page announces is not one that play could still overturn
\* (position.cpp:430).
DeadIsFinal ==
  /\ [](HasInsufficientMaterial(board) => WireStatus(Pos) \in {"draw", "stalemate"})
  /\ [][HasInsufficientMaterial(board) => HasInsufficientMaterial(board')]_vars

\* The placement the host writes is read back as the board it has, by the host
\* and by the page; the page marks the king the host says is in check; and what
\* the page takes each piece to control, and colours the squares by, is what the
\* host's rules let it reach (heatmap.js:27-29, position.cpp:148).
PageSeesBoard ==
  LET fen == ToFen(board)
      cells == HeatmapFor(fen)
      tinted(color) == {x.sq : x \in {x \in cells : x.color = color}}
      \* by the host's rules, the squares each piece reaches, and each side
      reach == {x \in (DOMAIN board) \X Squares : Reaches(board, x[1], x[2])}
      held(c) == {x[2] : x \in {x \in reach : board[x[1]].color = c}}
      white == held("White")
      black == held("Black")
  IN /\ FromFen(fen) = {board}
     /\ InCheck(board, side) => FindKing(fen, side) = Kings(board, side)
     /\ Controls(Rendered(fen)) = reach
     /\ tinted("blue") = white \ black
     /\ tinted("red") = black \ white
     /\ tinted("purple") = white \cap black

=============================================================================
