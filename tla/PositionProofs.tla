--------------------------- MODULE PositionProofs ---------------------------
(***************************************************************************)
(* The rules of chess, for any number of plies from any sound positions:   *)
(* kings stay safe, rights and target keep their meaning, dead games stay  *)
(* dead, and what the pages are sent is the board.                         *)
(***************************************************************************)
EXTENDS BoardPage, Induction, FiniteSetTheorems, SequenceTheorems, TLAPS

Pieces == [color : Colors, type : Kinds]
King(c) == [color |-> c, type |-> "King"]

-----------------------------------------------------------------------------
(* Sides, squares and pieces.                                              *)

LEMMA Sides ==
  ASSUME NEW c \in Colors
  PROVE  /\ Opponent(c) \in Colors /\ Opponent(Opponent(c)) = c /\ Opponent(c) # c
         /\ \A d \in Colors : d = c \/ d = Opponent(c)
         /\ c = "White" => /\ Home(c) = 0 /\ Dir(c) = 1
                           /\ Home(Opponent(c)) = 7 /\ Dir(Opponent(c)) = -1
         /\ c = "Black" => /\ Home(c) = 7 /\ Dir(c) = -1
                           /\ Home(Opponent(c)) = 0 /\ Dir(Opponent(c)) = 1
         /\ c = "White" \/ c = "Black"
BY DEF Colors, Opponent, Home, Dir

LEMMA Coordinates == \A s \in Squares : s[1] \in 0 .. 7 /\ s[2] \in 0 .. 7
BY DEF Squares

LEMMA SquareIs ==
  /\ \A f, r \in 0 .. 7 : <<f, r>> \in Squares
  /\ \A s \in Squares : s[1] \in 0 .. 7 /\ s[2] \in 0 .. 7 /\ s = <<s[1], s[2]>>
  /\ \A s, t \in Squares : s[1] = t[1] /\ s[2] = t[2] => s = t
  /\ NoSquare \notin Squares
<1>1. \A f, r \in 0 .. 7 : <<f, r>> \in Squares
  BY DEF Squares
<1>2. \A s \in Squares : s[1] \in 0 .. 7 /\ s[2] \in 0 .. 7 /\ s = <<s[1], s[2]>>
  BY DEF Squares
<1>3. \A s, t \in Squares : s[1] = t[1] /\ s[2] = t[2] => s = t
  BY <1>2
<1>4. NoSquare \notin Squares
  <2>1. NoSquare[1] = -1
    BY DEF NoSquare
  <2> QED BY <1>2, <2>1
<1> QED BY <1>1, <1>2, <1>3, <1>4

LEMMA PieceIs ==
  /\ \A x \in Pieces : x.color \in Colors /\ x.type \in Kinds
  /\ \A x \in Pieces, c \in Colors : x = King(c) <=> x.color = c /\ x.type = "King"
  /\ \A x \in Pieces, c \in Colors, t \in Kinds :
        x = [color |-> c, type |-> t] <=> x.color = c /\ x.type = t
BY DEF Pieces, King, Kinds

IsBoard(b) == DOMAIN b \subseteq Squares /\ b \in [DOMAIN b -> Pieces]

LEMMA BoardOf ==
  ASSUME NEW p, Sound(p)
  PROVE  /\ IsBoard(p.board) /\ p.side \in Colors /\ p.castling \subseteq Rights
         /\ p.ep \in Squares \cup {NoSquare}
BY DEF Sound, IsPosition, IsBoard, Pieces

\* Where the kings are, and that there is one of each, in other words.
LEMMA KingsAre ==
  ASSUME NEW b, NEW c
  PROVE  Kings(b, c) = {s \in DOMAIN b : b[s] = King(c)}
BY DEF Kings, King

LEMMA FewSquares ==
  ASSUME NEW S \in SUBSET Squares
  PROVE  IsFiniteSet(S) /\ (Cardinality(S) = 1 <=> \E s \in Squares : S = {s})
<1>1. IsFiniteSet(0 .. 7)
  <2>1. 0 \in Int /\ 7 \in Int
    OBVIOUS
  <2> QED BY <2>1, FS_Interval
<1>2. IsFiniteSet(Squares)
  BY <1>1, FS_Product DEF Squares
<1>3. IsFiniteSet(S)
  BY <1>2, FS_Subset
<1>4. Cardinality(S) = 1 <=> \E s : S = {s}
  BY <1>3, FS_Singleton
<1> QED BY <1>3, <1>4

LEMMA OneKing ==
  ASSUME NEW b, IsBoard(b), NEW c \in Colors
  PROVE  Cardinality(Kings(b, c)) = 1 <=> \E s \in Squares : Kings(b, c) = {s}
<1>1. Kings(b, c) \in SUBSET Squares
  BY DEF Kings, IsBoard
<1> QED BY <1>1, FewSquares

-----------------------------------------------------------------------------
(* The moves of a position, by kind.                                       *)

Owns(p, s) == s \in DOMAIN p.board /\ p.board[s].color = p.side
Takes(p, m) == Reaches(p.board, m.from, m.to) /\ m.to \in DOMAIN p.board /\ p.board[m.to].color # p.side
Promotions == {"Queen", "Rook", "Bishop", "Knight"}

PieceMove(p, m) ==
  /\ Owns(p, m.from) /\ p.board[m.from].type # "Pawn"
  /\ m.to \in Squares /\ m.promotion = "None" /\ Reaches(p.board, m.from, m.to)
  /\ m.to \in DOMAIN p.board => Takes(p, m)

Ahead(p, m, n) == <<m.from[1], m.from[2] + n * Dir(p.side)>>

PawnMove(p, m) ==
  /\ Owns(p, m.from) /\ p.board[m.from].type = "Pawn" /\ m.promotion \in Promotions \cup {"None"}
  /\ \/ /\ m.to = Ahead(p, m, 1) /\ m.to \in Squares \ DOMAIN p.board
        /\ m.promotion = "None" => m.to[2] # Home(Opponent(p.side))
     \/ /\ m.to = Ahead(p, m, 2) /\ m.promotion = "None"
        /\ m.from[2] = Home(p.side) + Dir(p.side)
        /\ m.to \notin DOMAIN p.board /\ Ahead(p, m, 1) \notin DOMAIN p.board
     \/ /\ m.to \in Squares /\ Takes(p, m)
        /\ m.promotion = "None" => m.to[2] # Home(Opponent(p.side))
     \/ /\ m.to \in Squares /\ m.to = p.ep /\ m.promotion = "None"
        /\ Reaches(p.board, m.from, m.to)

CastlingMove(p, m, w) ==
  LET r == Home(p.side)
  IN /\ m.from = <<4, r>> /\ m.to = <<KingTo(w), r>> /\ m.promotion = "None"
     /\ <<4, r>> \in Kings(p.board, p.side) /\ <<p.side, w>> \in p.castling
     /\ \A f \in Way(w) : <<f, r>> \notin DOMAIN p.board

LEMMA PromotedAre ==
  ASSUME NEW from, NEW to, NEW c, NEW m \in Promoted(from, to, c)
  PROVE  /\ m.from = from /\ m.to = to /\ m.promotion \in Promotions \cup {"None"}
         /\ m.promotion = "None" => to[2] # Home(Opponent(c))
<1>1. CASE to[2] = Home(Opponent(c))
  BY <1>1 DEF Promoted, Move, Promotions
<1>2. CASE to[2] # Home(Opponent(c))
  BY <1>2 DEF Promoted, Move
<1> QED BY <1>1, <1>2

LEMMA MovesAre ==
  ASSUME NEW p, Sound(p), NEW m \in PseudoLegal(p)
  PROVE  \/ PieceMove(p, m) \/ PawnMove(p, m)
         \/ \E w \in {"King", "Queen"} : CastlingMove(p, m, w)
<1>1. \/ m \in CastlingMoves(p)
      \/ \E s \in DOMAIN p.board : /\ p.board[s].color = p.side
                                   /\ m \in IF p.board[s].type = "Pawn" THEN PawnMoves(p, s)
                                            ELSE PieceMoves(p, s)
  <2> DEFINE mine == {s \in DOMAIN p.board : p.board[s].color = p.side}
             of(s) == IF p.board[s].type = "Pawn" THEN PawnMoves(p, s) ELSE PieceMoves(p, s)
  <2>1. m \in UNION {of(s) : s \in mine} \/ m \in CastlingMoves(p)
    BY DEF PseudoLegal
  <2> HIDE DEF of
  <2>2. m \in CastlingMoves(p) \/ \E s \in mine : m \in of(s)
    BY <2>1
  <2> QED BY <2>2 DEF of
<1>2. CASE m \in CastlingMoves(p)
  <2>1. PICK w \in {"King", "Queen"} :
          /\ m = Move(<<4, Home(p.side)>>, <<KingTo(w), Home(p.side)>>, "None")
          /\ <<p.side, w>> \in p.castling
          /\ \A f \in Way(w) : <<f, Home(p.side)>> \notin DOMAIN p.board
    BY <1>2 DEF CastlingMoves
  <2>2. <<4, Home(p.side)>> \in Kings(p.board, p.side)
    BY <1>2 DEF CastlingMoves
  <2> QED BY <2>1, <2>2 DEF CastlingMove, Move
<1>3. ASSUME NEW s \in DOMAIN p.board, p.board[s].color = p.side, p.board[s].type # "Pawn",
             m \in PieceMoves(p, s)
      PROVE  PieceMove(p, m)
  <2>1. PICK to \in Squares : /\ m = Move(s, to, "None") /\ Reaches(p.board, s, to)
                              /\ to \in DOMAIN p.board => p.board[to].color # p.side
    BY <1>3 DEF PieceMoves
  <2>2. m.from = s /\ m.to = to /\ m.promotion = "None"
    BY <2>1 DEF Move
  <2> QED BY <1>3, <2>1, <2>2 DEF PieceMove, Owns, Takes
<1>4. ASSUME NEW s \in DOMAIN p.board, p.board[s].color = p.side, p.board[s].type = "Pawn",
             m \in PawnMoves(p, s)
      PROVE  PawnMove(p, m)
  <2> DEFINE one == <<s[1], s[2] + Dir(p.side)>>
             two == <<s[1], s[2] + 2 * Dir(p.side)>>
             reached == {t \in Squares : Reaches(p.board, s, t)}
             taken == {t \in reached \cap DOMAIN p.board : p.board[t].color # p.side}
  <2>0. s[2] \in Int /\ Dir(p.side) \in Int /\ 1 * Dir(p.side) = Dir(p.side)
    BY BoardOf, SquareIs DEF IsBoard, Dir
  <2>1. \/ one \in Squares \ DOMAIN p.board /\ m \in Promoted(s, one, p.side)
        \/ /\ s[2] = Home(p.side) + Dir(p.side) /\ {one, two} \cap DOMAIN p.board = {}
           /\ m = Move(s, two, "None")
        \/ \E t \in taken : m \in Promoted(s, t, p.side)
        \/ \E t \in (reached \cap {p.ep}) \ taken : m = Move(s, t, "None")
    <3> DEFINE A == IF one \in Squares \ DOMAIN p.board THEN Promoted(s, one, p.side) ELSE {}
               B == IF s[2] = Home(p.side) + Dir(p.side) /\ {one, two} \cap DOMAIN p.board = {}
                    THEN {Move(s, two, "None")} ELSE {}
               C == UNION {Promoted(s, t, p.side) : t \in taken}
               D == {Move(s, t, "None") : t \in (reached \cap {p.ep}) \ taken}
    <3>1. m \in A \cup B \cup C \cup D
      BY <1>4 DEF PawnMoves
    <3> HIDE DEF one, two, taken, reached
    <3> QED BY <3>1
  <2>2. CASE one \in Squares \ DOMAIN p.board /\ m \in Promoted(s, one, p.side)
    <3> HIDE DEF one
    <3>1. /\ m.from = s /\ m.to = one /\ m.promotion \in Promotions \cup {"None"}
          /\ m.promotion = "None" => one[2] # Home(Opponent(p.side))
      BY <2>2, PromotedAre
    <3>2. one = Ahead(p, m, 1)
      BY <2>0, <3>1 DEF one, Ahead
    <3> QED BY <1>4, <2>2, <3>1, <3>2 DEF PawnMove, Owns
  <2>3. CASE /\ s[2] = Home(p.side) + Dir(p.side) /\ {one, two} \cap DOMAIN p.board = {}
             /\ m = Move(s, two, "None")
    <3> HIDE DEF one, two
    <3>1. m.from = s /\ m.to = two /\ m.promotion = "None"
      BY <2>3 DEF Move
    <3>2. one = Ahead(p, m, 1) /\ two = Ahead(p, m, 2)
      BY <2>0, <3>1 DEF one, two, Ahead
    <3> QED BY <1>4, <2>3, <3>1, <3>2 DEF PawnMove, Owns
  <2>4. ASSUME NEW t \in taken, m \in Promoted(s, t, p.side) PROVE PawnMove(p, m)
    <3>1. /\ m.from = s /\ m.to = t /\ m.promotion \in Promotions \cup {"None"}
          /\ m.promotion = "None" => t[2] # Home(Opponent(p.side))
      BY <2>4, PromotedAre
    <3> QED BY <1>4, <3>1 DEF PawnMove, Owns, Takes
  <2>5. ASSUME NEW t \in (reached \cap {p.ep}) \ taken, m = Move(s, t, "None") PROVE PawnMove(p, m)
    <3>1. m.from = s /\ m.to = t /\ m.promotion = "None"
      BY <2>5 DEF Move
    <3> QED BY <1>4, <2>5, <3>1 DEF PawnMove, Owns
  <2> QED BY <2>1, <2>2, <2>3, <2>4, <2>5
<1> QED BY <1>1, <1>2, <1>3, <1>4

-----------------------------------------------------------------------------
(* What a move lifts and puts down.                                        *)

Captured(p, m) == IF EnPassant(p, m) THEN {<<m.to[1], m.from[2]>>} ELSE {}

\* Nothing reaches its own square; nobody reaches the king of who just moved.
LEMMA ReachesFar ==
  ASSUME NEW b, IsBoard(b), NEW s \in DOMAIN b
  PROVE  ~Reaches(b, s, s)
<1>1. s[1] \in Int /\ s[2] \in Int /\ s[1] - s[1] = 0 /\ s[2] - s[2] = 0
  BY SquareIs DEF IsBoard
<1>2. b[s].color \in Colors /\ b[s].type \in Kinds
  BY PieceIs DEF IsBoard
<1>3. Dir(b[s].color) # 0 /\ Abs(0) = 0 /\ Far(0, 0) = 0
  BY DEF Dir, Abs, Far
<1>4. ~Diagonal(0, 0) /\ ~Straight(0, 0) /\ {Abs(0), Abs(0)} # {1, 2}
  BY <1>3 DEF Diagonal, Straight
<1> QED BY <1>1, <1>2, <1>3, <1>4 DEF Reaches, Kinds

LEMMA KingSpared ==
  ASSUME NEW p, Sound(p), NEW m, Owns(p, m.from), Takes(p, m)
  PROVE  p.board[m.to].color = Opponent(p.side) /\ p.board[m.to].type # "King"
<1> DEFINE b == p.board
           o == Opponent(p.side)
<1>1. IsBoard(b) /\ p.side \in Colors /\ o \in Colors /\ Opponent(o) = p.side
  BY BoardOf, Sides
<1>2. m.to \in DOMAIN b /\ b[m.to] \in Pieces /\ b[m.to].color \in Colors
  BY <1>1, PieceIs DEF Takes, IsBoard
<1>3. b[m.to].color = o
  BY <1>1, <1>2, Sides DEF Takes
<1>4. ASSUME b[m.to].type = "King" PROVE FALSE
  <2>1. m.to \in Kings(b, o)
    BY <1>1, <1>2, <1>3, <1>4, PieceIs, KingsAre
  <2>2. IsSquareAttacked(b, m.to, Opponent(o))
    BY <1>1 DEF IsSquareAttacked, Owns, Takes
  <2>3. InCheck(b, o)
    BY <2>1, <2>2 DEF InCheck
  <2> QED BY <2>3 DEF Sound, KingsSafeIn
<1> QED BY <1>3, <1>4

\* The pawn that is passed is the one that is taken.
LEMMA PassedPawn ==
  ASSUME NEW p, Sound(p), NEW m, Owns(p, m.from), p.board[m.from].type = "Pawn",
         m.to \in Squares, m.to = p.ep, Reaches(p.board, m.from, m.to)
  PROVE  LET s == <<m.to[1], m.from[2]>>
         IN /\ s \in DOMAIN p.board
            /\ p.board[s].color = Opponent(p.side) /\ p.board[s].type = "Pawn"
            /\ m.to \notin DOMAIN p.board
<1> DEFINE b == p.board
           o == Opponent(p.side)
<1>1. IsBoard(b) /\ p.side \in Colors
  BY BoardOf
<1>2. p.ep # NoSquare
  BY SquareIs
<1>3. /\ p.ep \notin DOMAIN b /\ <<p.ep[1], p.ep[2] + Dir(o)>> \in DOMAIN b
      /\ b[<<p.ep[1], p.ep[2] + Dir(o)>>] = [color |-> o, type |-> "Pawn"]
  BY <1>2 DEF Sound, EpBehind
<1>4. m.to[2] - m.from[2] = Dir(p.side)
  BY DEF Reaches, Owns
<1>5. m.from[2] \in Int /\ m.to[2] \in Int
  BY <1>1, SquareIs DEF Owns, IsBoard
<1>6. m.from[2] = p.ep[2] + Dir(o)
  BY <1>1, <1>4, <1>5, Sides
<1> QED BY <1>3, <1>6

Lifts(p, m) ==
  /\ Owns(p, m.from) /\ m.to \in Squares /\ m.to # m.from
  /\ m.to \in DOMAIN p.board => /\ p.board[m.to].color = Opponent(p.side)
                                /\ p.board[m.to].type # "King"
  /\ m.promotion \in Promotions \cup {"None"}
  /\ m.promotion # "None" => p.board[m.from].type = "Pawn"
  /\ \A s \in Captured(p, m) : s = m.from \/ /\ s \in DOMAIN p.board
                                             /\ p.board[s].color = Opponent(p.side)
                                             /\ p.board[s].type = "Pawn"

LEMMA PieceLifts ==
  ASSUME NEW p, Sound(p), NEW m, PieceMove(p, m)
  PROVE  Lifts(p, m)
<1>1. IsBoard(p.board) /\ Captured(p, m) = {} /\ m.from \in DOMAIN p.board
  BY BoardOf DEF PieceMove, Captured, EnPassant, Owns
<1>2. m.to # m.from
  BY <1>1, ReachesFar DEF PieceMove
<1>3. m.to \in DOMAIN p.board => /\ p.board[m.to].color = Opponent(p.side)
                                 /\ p.board[m.to].type # "King"
  BY KingSpared DEF PieceMove
<1> QED BY <1>1, <1>2, <1>3 DEF PieceMove, Lifts

LEMMA PawnLifts ==
  ASSUME NEW p, Sound(p), NEW m, PawnMove(p, m)
  PROVE  Lifts(p, m)
<1>0. /\ Owns(p, m.from) /\ p.board[m.from].type = "Pawn" /\ m.promotion \in Promotions \cup {"None"}
      /\ IsBoard(p.board) /\ p.side \in Colors
  BY BoardOf DEF PawnMove
<1>1. m.from \in Squares /\ m.from[1] \in 0 .. 7 /\ m.from[2] \in 0 .. 7 /\ m.from = <<m.from[1], m.from[2]>>
  BY <1>0, SquareIs DEF Owns, IsBoard
<1>2. ASSUME m.to[1] = m.from[1], m.to \in Squares, m.to \notin DOMAIN p.board PROVE Lifts(p, m)
  <2>1. m.to # m.from
    BY <1>0, <1>2 DEF Owns
  <2>2. \A s \in Captured(p, m) : s = m.from
    BY <1>1, <1>2 DEF Captured
  <2> QED BY <1>0, <1>2, <2>1, <2>2 DEF Lifts
<1>3. CASE m.to = Ahead(p, m, 1) /\ m.to \in Squares \ DOMAIN p.board
  BY <1>2, <1>3 DEF Ahead
<1>4. CASE /\ m.to = Ahead(p, m, 2) /\ m.from[2] = Home(p.side) + Dir(p.side)
           /\ m.to \notin DOMAIN p.board
  <2>1. m.from[2] + 2 * Dir(p.side) \in 0 .. 7
    BY <1>0, <1>4, Sides
  <2>2. m.to \in Squares /\ m.to[1] = m.from[1]
    BY <1>1, <1>4, <2>1, SquareIs DEF Ahead
  <2> QED BY <1>2, <1>4, <2>2
<1>5. CASE m.to \in Squares /\ Takes(p, m)
  <2>1. m.to # m.from /\ m.to \in DOMAIN p.board
    BY <1>0, <1>5, ReachesFar DEF Owns, Takes
  <2>2. Captured(p, m) = {}
    BY <2>1 DEF Captured, EnPassant
  <2>3. p.board[m.to].color = Opponent(p.side) /\ p.board[m.to].type # "King"
    BY <1>0, <1>5, KingSpared
  <2> QED BY <1>0, <1>5, <2>1, <2>2, <2>3 DEF Lifts
<1>6. CASE m.to \in Squares /\ m.to = p.ep /\ Reaches(p.board, m.from, m.to)
  <2> DEFINE s == <<m.to[1], m.from[2]>>
  <2>1. /\ s \in DOMAIN p.board /\ m.to \notin DOMAIN p.board
        /\ p.board[s].color = Opponent(p.side) /\ p.board[s].type = "Pawn"
    BY <1>0, <1>6, PassedPawn
  <2>2. m.to # m.from
    BY <1>0, <2>1 DEF Owns
  <2>3. \A t \in Captured(p, m) : t = s
    BY DEF Captured
  <2> QED BY <1>0, <1>6, <2>1, <2>2, <2>3 DEF Lifts
<1> QED BY <1>3, <1>4, <1>5, <1>6 DEF PawnMove

\* Castling: the king and its rook stand at home, and nothing in between.
LEMMA CastlingLifts ==
  ASSUME NEW p, Sound(p), NEW m, NEW w \in {"King", "Queen"}, CastlingMove(p, m, w)
  PROVE  LET r  == Home(p.side)
             rf == <<RookFile(w), r>>
             rt == <<IF w = "King" THEN 5 ELSE 3, r>>
         IN /\ Lifts(p, m) /\ Captured(p, m) = {} /\ m.to \notin DOMAIN p.board
            /\ m.from = <<4, r>> /\ m.to = <<KingTo(w), r>> /\ m.promotion = "None"
            /\ p.board[m.from] = King(p.side)
            /\ rf \in DOMAIN p.board /\ p.board[rf].color = p.side /\ p.board[rf].type = "Rook"
            /\ rt \in Squares \ DOMAIN p.board
            /\ rf # m.from /\ rf # m.to /\ rt # m.from /\ rt # m.to
<1> DEFINE r  == Home(p.side)
           rf == <<RookFile(w), r>>
           rt == <<IF w = "King" THEN 5 ELSE 3, r>>
<1>0. IsBoard(p.board) /\ p.side \in Colors /\ r \in 0 .. 7
  BY BoardOf, Sides
<1>1. /\ m.from = <<4, r>> /\ m.to = <<KingTo(w), r>> /\ m.promotion = "None"
      /\ <<4, r>> \in Kings(p.board, p.side) /\ <<p.side, w>> \in p.castling
      /\ \A f \in Way(w) : <<f, r>> \notin DOMAIN p.board
  BY DEF CastlingMove
<1>2. m.from \in DOMAIN p.board /\ p.board[m.from] = King(p.side)
  BY <1>1, KingsAre
<1>3. p.board[m.from].color = p.side /\ p.board[m.from].type = "King"
  BY <1>2 DEF King
<1>4. rf \in DOMAIN p.board /\ p.board[rf].color = p.side /\ p.board[rf].type = "Rook"
  <2>1. /\ <<p.side, w>>[1] = p.side /\ <<p.side, w>>[2] = w
    OBVIOUS
  <2>2. RightsHome(p)
    BY DEF Sound
  <2>3. rf \in DOMAIN p.board /\ p.board[rf] = [color |-> p.side, type |-> "Rook"]
    BY <1>1, <2>1, <2>2 DEF RightsHome
  <2> QED BY <2>3
<1>5. CASE w = "King"
  <2>1. m.to = <<6, r>> /\ rf = <<7, r>> /\ rt = <<5, r>> /\ 5 \in Way(w) /\ 6 \in Way(w)
    BY <1>1, <1>5 DEF KingTo, RookFile, Way
  <2>2. <<6, r>> \in Squares /\ <<5, r>> \in Squares
    BY <1>0 DEF Squares
  <2>3. m.to \notin DOMAIN p.board /\ rt \notin DOMAIN p.board
    BY <1>1, <2>1
  <2>4. Captured(p, m) = {} /\ m.to # m.from /\ rf # m.from /\ rf # m.to /\ rt # m.from /\ rt # m.to
    BY <1>1, <1>3, <2>1 DEF Captured, EnPassant
  <2>5. Lifts(p, m)
    BY <1>1, <1>2, <1>3, <2>1, <2>2, <2>3, <2>4 DEF Lifts, Owns
  <2> QED BY <1>1, <1>2, <1>4, <2>1, <2>2, <2>3, <2>4, <2>5
<1>6. CASE w = "Queen"
  <2>1. m.to = <<2, r>> /\ rf = <<0, r>> /\ rt = <<3, r>> /\ 2 \in Way(w) /\ 3 \in Way(w)
    BY <1>1, <1>6 DEF KingTo, RookFile, Way
  <2>2. <<2, r>> \in Squares /\ <<3, r>> \in Squares
    BY <1>0 DEF Squares
  <2>3. m.to \notin DOMAIN p.board /\ rt \notin DOMAIN p.board
    BY <1>1, <2>1
  <2>4. Captured(p, m) = {} /\ m.to # m.from /\ rf # m.from /\ rf # m.to /\ rt # m.from /\ rt # m.to
    BY <1>1, <1>3, <2>1 DEF Captured, EnPassant
  <2>5. Lifts(p, m)
    BY <1>1, <1>2, <1>3, <2>1, <2>2, <2>3, <2>4 DEF Lifts, Owns
  <2> QED BY <1>1, <1>2, <1>4, <2>1, <2>2, <2>3, <2>4, <2>5
<1> QED BY <1>5, <1>6

LEMMA AllLift ==
  ASSUME NEW p, Sound(p), NEW m \in PseudoLegal(p)
  PROVE  Lifts(p, m)
BY MovesAre, PieceLifts, PawnLifts, CastlingLifts

-----------------------------------------------------------------------------
(* The board after a move.                                                 *)

LEMMA MovedIs ==
  ASSUME NEW p, Sound(p), NEW m, Lifts(p, m)
  PROVE  LET b == p.board
             n == Moved(p, m)
         IN /\ IsBoard(n) /\ m.to \in DOMAIN n /\ m.from \notin DOMAIN n
            /\ n[m.to].color = p.side
            /\ n[m.to].type = IF m.promotion = "None" THEN b[m.from].type ELSE m.promotion
            /\ \A s \in DOMAIN n : s = m.to \/ (s \in DOMAIN b /\ s # m.from /\ n[s] = b[s])
            /\ \A s \in DOMAIN b : s = m.from \/ s \in Captured(p, m) \/ s \in DOMAIN n
<1> DEFINE b == p.board
           gone == {m.from} \cup Captured(p, m)
           piece == IF m.promotion = "None" THEN b[m.from]
                    ELSE [color |-> b[m.from].color, type |-> m.promotion]
           n == [s \in (DOMAIN b \ gone) \cup {m.to} |-> IF s = m.to THEN piece ELSE b[s]]
<1>1. Moved(p, m) = n
  BY DEF Moved, Captured
<1>2. IsBoard(b) /\ Owns(p, m.from) /\ m.to \in Squares /\ m.to # m.from
  BY BoardOf DEF Lifts
<1>3. m.from \in DOMAIN b /\ b[m.from] \in Pieces /\ b[m.from].color = p.side /\ p.side \in Colors
  BY <1>2, BoardOf DEF Owns, IsBoard
<1>4. /\ piece \in Pieces /\ piece.color = p.side
      /\ piece.type = IF m.promotion = "None" THEN b[m.from].type ELSE m.promotion
  <2>1. CASE m.promotion = "None"
    BY <1>3, <2>1
  <2>2. CASE m.promotion # "None"
    <3>1. m.promotion \in Kinds
      BY <2>2 DEF Lifts, Promotions, Kinds
    <3> QED BY <1>3, <2>2, <3>1 DEF Pieces
  <2> QED BY <2>1, <2>2
<1> HIDE DEF gone, piece
<1>5. /\ DOMAIN n = (DOMAIN b \ gone) \cup {m.to} /\ n[m.to] = piece
      /\ \A s \in DOMAIN n : s = m.to \/ (s \in DOMAIN b /\ s \notin gone /\ n[s] = b[s])
  OBVIOUS
<1>6. n = [s \in DOMAIN n |-> n[s]]
  OBVIOUS
<1> HIDE DEF n
<1>7. \A s \in DOMAIN n : n[s] \in Pieces
  BY <1>2, <1>4, <1>5 DEF IsBoard
<1>8. DOMAIN n \subseteq Squares
  BY <1>2, <1>5 DEF IsBoard
<1>9. IsBoard(n)
  BY <1>6, <1>7, <1>8 DEF IsBoard
<1>10. m.from \in gone /\ \A s \in gone : s = m.from \/ s \in Captured(p, m)
  BY DEF gone
<1>11. m.from \notin DOMAIN n
  BY <1>2, <1>5, <1>10
<1>12. n[m.to].type = IF m.promotion = "None" THEN b[m.from].type ELSE m.promotion
  BY <1>4, <1>5
<1>13. /\ m.to \in DOMAIN n /\ n[m.to].color = p.side
       /\ \A s \in DOMAIN n : s = m.to \/ (s \in DOMAIN b /\ s # m.from /\ n[s] = b[s])
       /\ \A s \in DOMAIN b : s = m.from \/ s \in Captured(p, m) \/ s \in DOMAIN n
  BY <1>4, <1>5, <1>10
<1> QED BY <1>1, <1>9, <1>11, <1>12, <1>13

\* Only the king that moves is elsewhere.
LEMMA KingsMoved ==
  ASSUME NEW p, Sound(p), NEW m, Lifts(p, m)
  PROVE  LET b == p.board
             n == Moved(p, m)
         IN /\ Kings(n, Opponent(p.side)) = Kings(b, Opponent(p.side))
            /\ b[m.from].type = "King" => Kings(n, p.side) = {m.to} /\ Kings(b, p.side) = {m.from}
            /\ b[m.from].type # "King" => Kings(n, p.side) = Kings(b, p.side)
<1> DEFINE b == p.board
           n == Moved(p, m)
           c == p.side
           o == Opponent(p.side)
<1>1. IsBoard(b) /\ c \in Colors /\ o \in Colors /\ o # c
  BY BoardOf, Sides
<1>2. /\ IsBoard(n) /\ m.to \in DOMAIN n /\ m.from \notin DOMAIN n
      /\ n[m.to].color = c
      /\ n[m.to].type = IF m.promotion = "None" THEN b[m.from].type ELSE m.promotion
      /\ \A s \in DOMAIN n : s = m.to \/ (s \in DOMAIN b /\ s # m.from /\ n[s] = b[s])
      /\ \A s \in DOMAIN b : s = m.from \/ s \in Captured(p, m) \/ s \in DOMAIN n
  BY MovedIs
<1> HIDE DEF n
<1>3. /\ m.from \in DOMAIN b /\ b[m.from].color = c /\ m.to # m.from
      /\ m.to \in DOMAIN b => b[m.to].color = o /\ b[m.to].type # "King"
      /\ \A s \in Captured(p, m) : s = m.from \/ b[s].type = "Pawn"
      /\ m.promotion \in Promotions \cup {"None"} /\ (m.promotion # "None" => b[m.from].type = "Pawn")
  BY DEF Lifts, Owns
<1>4. \A d \in Colors : /\ \A s : s \in Kings(b, d) <=> s \in DOMAIN b /\ b[s].color = d /\ b[s].type = "King"
                        /\ \A s : s \in Kings(n, d) <=> s \in DOMAIN n /\ n[s].color = d /\ n[s].type = "King"
  <2> SUFFICES ASSUME NEW d \in Colors
               PROVE  /\ \A s : s \in Kings(b, d) <=> s \in DOMAIN b /\ b[s].color = d /\ b[s].type = "King"
                      /\ \A s : s \in Kings(n, d) <=> s \in DOMAIN n /\ n[s].color = d /\ n[s].type = "King"
    OBVIOUS
  <2>1. /\ Kings(b, d) = {s \in DOMAIN b : b[s] = King(d)}
        /\ Kings(n, d) = {s \in DOMAIN n : n[s] = King(d)}
    BY KingsAre
  <2>2. /\ \A s \in DOMAIN b : b[s] = King(d) <=> b[s].color = d /\ b[s].type = "King"
        /\ \A s \in DOMAIN n : n[s] = King(d) <=> n[s].color = d /\ n[s].type = "King"
    BY <1>1, <1>2, PieceIs DEF IsBoard
  <2> QED BY <2>1, <2>2
<1>5. \A s \in DOMAIN b : b[s].type = "King" /\ s # m.from => s \in DOMAIN n /\ s # m.to /\ n[s] = b[s]
  BY <1>2, <1>3
<1>6. Kings(n, o) = Kings(b, o)
  <2>1. ASSUME NEW s \in Kings(b, o) PROVE s \in Kings(n, o)
    <3>1. s \in DOMAIN b /\ b[s].color = o /\ b[s].type = "King" /\ s # m.from
      BY <1>1, <1>3, <1>4
    <3> QED BY <1>1, <1>4, <1>5, <3>1
  <2>2. ASSUME NEW s \in Kings(n, o) PROVE s \in Kings(b, o)
    <3>1. s \in DOMAIN n /\ n[s].color = o /\ n[s].type = "King" /\ s # m.to
      BY <1>1, <1>2, <1>4
    <3> QED BY <1>1, <1>2, <1>4, <3>1
  <2> QED BY <2>1, <2>2 DEF Kings
<1>7. ASSUME b[m.from].type = "King" PROVE Kings(n, c) = {m.to} /\ Kings(b, c) = {m.from}
  <2>1. PICK k : Kings(b, c) = {k}
    BY <1>1, OneKing DEF Sound, KingsSafeIn
  <2>2. Kings(b, c) = {m.from}
    BY <1>1, <1>3, <1>4, <1>7, <2>1
  <2>3. m.promotion = "None" /\ n[m.to].type = "King"
    BY <1>2, <1>3, <1>7
  <2>4. m.to \in Kings(n, c)
    BY <1>1, <1>2, <1>4, <2>3
  <2>5. \A s \in Kings(n, c) : s = m.to
    BY <1>1, <1>2, <1>4, <2>2
  <2> QED BY <2>2, <2>4, <2>5
<1>8. ASSUME b[m.from].type # "King" PROVE Kings(n, c) = Kings(b, c)
  <2>1. n[m.to].type # "King"
    BY <1>2, <1>3, <1>8 DEF Promotions
  <2>2. \A s \in DOMAIN n : n[s].type = "King" => s \in DOMAIN b /\ n[s] = b[s]
    BY <1>2, <2>1
  <2>3. ASSUME NEW s \in Kings(b, c) PROVE s \in Kings(n, c)
    <3>1. s \in DOMAIN b /\ b[s].color = c /\ b[s].type = "King" /\ s # m.from
      BY <1>1, <1>4, <1>8
    <3> QED BY <1>1, <1>4, <1>5, <3>1
  <2>4. ASSUME NEW s \in Kings(n, c) PROVE s \in Kings(b, c)
    <3>1. s \in DOMAIN n /\ n[s].color = c /\ n[s].type = "King"
      BY <1>1, <1>4
    <3> QED BY <1>1, <1>4, <2>2, <3>1
  <2> QED BY <2>3, <2>4 DEF Kings
<1> QED BY <1>6, <1>7, <1>8 DEF n

LEMMA HopIs ==
  ASSUME NEW b, IsBoard(b), NEW from \in DOMAIN b, NEW to \in Squares \ DOMAIN b,
         b[from].type # "King"
  PROVE  LET n == RookHop(b, from, to)
         IN /\ IsBoard(n) /\ DOMAIN n = (DOMAIN b \ {from}) \cup {to} /\ n[to] = b[from]
            /\ \A s \in DOMAIN n : s = to \/ (s \in DOMAIN b /\ n[s] = b[s])
            /\ \A c \in Colors : Kings(n, c) = Kings(b, c)
<1> DEFINE n == [s \in (DOMAIN b \ {from}) \cup {to} |-> IF s = to THEN b[from] ELSE b[s]]
<1>1. RookHop(b, from, to) = n
  BY DEF RookHop
<1>2. /\ DOMAIN n = (DOMAIN b \ {from}) \cup {to} /\ n[to] = b[from]
      /\ \A s \in DOMAIN n : s = to \/ (s \in DOMAIN b /\ n[s] = b[s])
      /\ n = [s \in DOMAIN n |-> n[s]]
  OBVIOUS
<1> HIDE DEF n
<1>3. DOMAIN n \subseteq Squares /\ \A s \in DOMAIN n : n[s] \in Pieces
  BY <1>2 DEF IsBoard
<1>4. IsBoard(n)
  BY <1>2, <1>3 DEF IsBoard
<1>5. ASSUME NEW c \in Colors PROVE Kings(n, c) = Kings(b, c)
  <2>1. \A s \in DOMAIN b : b[s] = King(c) => s # from
    BY DEF King
  <2>2. \A s \in DOMAIN n : n[s] = King(c) => s # to
    BY <1>2 DEF King
  <2>3. to \notin DOMAIN b
    OBVIOUS
  <2>4. \A s : s \in DOMAIN n /\ n[s] = King(c) <=> s \in DOMAIN b /\ b[s] = King(c)
    BY <1>2, <2>1, <2>2, <2>3
  <2> QED BY <2>4, KingsAre
<1> QED BY <1>1, <1>2, <1>4, <1>5

LEMMA KingReaches ==
  ASSUME NEW b, NEW s, NEW t, b[s].type = "King", Reaches(b, s, t)
  PROVE  Far(t[1] - s[1], t[2] - s[2]) = 1
<1> DEFINE kind == b[s].type
           df == t[1] - s[1]
           dr == t[2] - s[2]
<1>1. CASE kind = "King"
  BY <1>1 DEF Reaches
<1> QED BY <1>1

LEMMA ShortHop ==
  ASSUME NEW s \in Squares, NEW t \in Squares, Far(t[1] - s[1], t[2] - s[2]) = 1
  PROVE  t[1] - s[1] # 2 /\ t[1] - s[1] # -2
<1>1. s[1] \in 0 .. 7 /\ s[2] \in 0 .. 7 /\ t[1] \in 0 .. 7 /\ t[2] \in 0 .. 7
  BY Coordinates
<1> QED BY <1>1 DEF Far, Abs

\* A board is what the move makes it, but for the rook of a castling.
LEMMA PieceAfter ==
  ASSUME NEW p, Sound(p), NEW m, PieceMove(p, m) \/ PawnMove(p, m)
  PROVE  BoardAfter(p, m) = Moved(p, m)
<1>1. CASE p.board[m.from].type # "King"
  BY <1>1 DEF BoardAfter
<1>2. CASE p.board[m.from].type = "King"
  <2>1. PieceMove(p, m)
    BY <1>2 DEF PawnMove
  <2>2. Reaches(p.board, m.from, m.to) /\ m.from \in Squares /\ m.to \in Squares
    BY <2>1, BoardOf DEF PieceMove, Owns, IsBoard
  <2>3. m.to[1] - m.from[1] # 2 /\ m.to[1] - m.from[1] # -2
    BY <1>2, <2>2, KingReaches, ShortHop
  <2> QED BY <2>3 DEF BoardAfter
<1> QED BY <1>1, <1>2

LEMMA CastlingAfter ==
  ASSUME NEW p, Sound(p), NEW m, NEW w \in {"King", "Queen"}, CastlingMove(p, m, w)
  PROVE  LET r  == Home(p.side)
         IN BoardAfter(p, m) = RookHop(Moved(p, m), <<RookFile(w), r>>, <<IF w = "King" THEN 5 ELSE 3, r>>)
<1>1. /\ m.from = <<4, Home(p.side)>> /\ m.to = <<KingTo(w), Home(p.side)>>
      /\ p.board[m.from].type = "King"
  <2>1. m.from = <<4, Home(p.side)>> /\ m.to = <<KingTo(w), Home(p.side)>> /\ p.board[m.from] = King(p.side)
    BY CastlingLifts
  <2> QED BY <2>1 DEF King
<1>2. m.from[1] = 4 /\ m.from[2] = Home(p.side) /\ m.to[1] = KingTo(w)
  BY <1>1
<1>3. CASE w = "King"
  <2>1. m.to[1] - m.from[1] = 2
    BY <1>2, <1>3 DEF KingTo
  <2> QED BY <1>1, <1>2, <1>3, <2>1 DEF BoardAfter, RookFile
<1>4. CASE w = "Queen"
  <2>1. m.to[1] - m.from[1] = -2
    BY <1>2, <1>4 DEF KingTo
  <2> QED BY <1>1, <1>2, <1>4, <2>1 DEF BoardAfter, RookFile
<1> QED BY <1>3, <1>4

-----------------------------------------------------------------------------
(* A legal move of a sound position makes a sound one.                     *)

\* The move n made board b2 of p.
Made(p, m, b2) ==
  /\ IsBoard(b2) /\ m.to \in DOMAIN b2 /\ m.from \notin DOMAIN b2
  /\ Kings(b2, Opponent(p.side)) = Kings(p.board, Opponent(p.side))
  /\ p.board[m.from].type = "King" => /\ Kings(b2, p.side) = {m.to}
                                      /\ Kings(p.board, p.side) = {m.from}
  /\ p.board[m.from].type # "King" => Kings(b2, p.side) = Kings(p.board, p.side)
  /\ \A s \in DOMAIN b2 : b2[s].type = "Pawn" =>
       \/ s \in DOMAIN p.board /\ b2[s] = p.board[s]
       \/ /\ s = m.to /\ p.board[m.from].type = "Pawn" /\ m.promotion = "None"
          /\ b2[s].color = p.side
  /\ \A s \in DOMAIN p.board :
       \/ s \in {m.from, m.to} \/ p.board[s].type = "Pawn"
       \/ s \in DOMAIN b2 /\ b2[s] = p.board[s]
       \/ s[2] = Home(p.side) /\ p.board[m.from].type = "King"

LEMMA PieceMade ==
  ASSUME NEW p, Sound(p), NEW m, PieceMove(p, m) \/ PawnMove(p, m)
  PROVE  /\ Made(p, m, BoardAfter(p, m))
         /\ \A s \in DOMAIN BoardAfter(p, m) : s = m.to \/ s \in DOMAIN p.board
         /\ BoardAfter(p, m)[m.to].color = p.side
         /\ m.promotion = "None" => BoardAfter(p, m)[m.to].type = p.board[m.from].type
<1> DEFINE n == BoardAfter(p, m)
           b == p.board
<1>0. Lifts(p, m)
  BY PieceLifts, PawnLifts
<1>1. n = Moved(p, m)
  BY PieceAfter
<1>2. /\ IsBoard(n) /\ m.to \in DOMAIN n /\ m.from \notin DOMAIN n
      /\ n[m.to].color = p.side
      /\ n[m.to].type = IF m.promotion = "None" THEN b[m.from].type ELSE m.promotion
      /\ \A s \in DOMAIN n : s = m.to \/ (s \in DOMAIN b /\ s # m.from /\ n[s] = b[s])
      /\ \A s \in DOMAIN b : s = m.from \/ s \in Captured(p, m) \/ s \in DOMAIN n
  BY <1>0, <1>1, MovedIs
<1>3. /\ Kings(n, Opponent(p.side)) = Kings(b, Opponent(p.side))
      /\ b[m.from].type = "King" => Kings(n, p.side) = {m.to} /\ Kings(b, p.side) = {m.from}
      /\ b[m.from].type # "King" => Kings(n, p.side) = Kings(b, p.side)
  BY <1>0, <1>1, KingsMoved
<1>4. /\ m.promotion \in Promotions \cup {"None"}
      /\ \A s \in Captured(p, m) : s = m.from \/ b[s].type = "Pawn"
  BY <1>0 DEF Lifts
<1> HIDE DEF n
<1>5. ASSUME NEW s \in DOMAIN n, n[s].type = "Pawn"
      PROVE  \/ s \in DOMAIN b /\ n[s] = b[s]
             \/ /\ s = m.to /\ b[m.from].type = "Pawn" /\ m.promotion = "None"
                /\ n[s].color = p.side
  BY <1>2, <1>4, <1>5 DEF Promotions
<1>6. ASSUME NEW s \in DOMAIN b
      PROVE  s \in {m.from, m.to} \/ b[s].type = "Pawn" \/ (s \in DOMAIN n /\ n[s] = b[s])
  BY <1>2, <1>4
<1>7. Made(p, m, n)
  BY <1>2, <1>3, <1>5, <1>6 DEF Made
<1>8. /\ \A s \in DOMAIN n : s = m.to \/ s \in DOMAIN b
      /\ n[m.to].color = p.side
      /\ m.promotion = "None" => n[m.to].type = b[m.from].type
  BY <1>2
<1> QED BY <1>7, <1>8 DEF n

LEMMA CastlingMade ==
  ASSUME NEW p, Sound(p), NEW m, NEW w \in {"King", "Queen"}, CastlingMove(p, m, w)
  PROVE  Made(p, m, BoardAfter(p, m))
<1> DEFINE b  == p.board
           n  == Moved(p, m)
           r  == Home(p.side)
           rf == <<RookFile(w), r>>
           rt == <<IF w = "King" THEN 5 ELSE 3, r>>
           h  == RookHop(n, rf, rt)
<1>0. /\ Lifts(p, m) /\ Captured(p, m) = {} /\ m.to \notin DOMAIN b
      /\ m.promotion = "None" /\ b[m.from] = King(p.side)
      /\ rf \in DOMAIN b /\ b[rf].type = "Rook"
      /\ rt \in Squares \ DOMAIN b
      /\ rf # m.from /\ rf # m.to /\ rt # m.from /\ rt # m.to
  BY CastlingLifts
<1>1. BoardAfter(p, m) = h
  BY CastlingAfter
<1>2. /\ IsBoard(n) /\ m.to \in DOMAIN n /\ m.from \notin DOMAIN n
      /\ n[m.to].type = IF m.promotion = "None" THEN b[m.from].type ELSE m.promotion
      /\ \A s \in DOMAIN n : s = m.to \/ (s \in DOMAIN b /\ s # m.from /\ n[s] = b[s])
      /\ \A s \in DOMAIN b : s = m.from \/ s \in Captured(p, m) \/ s \in DOMAIN n
  BY <1>0, MovedIs
<1>3. /\ Kings(n, Opponent(p.side)) = Kings(b, Opponent(p.side))
      /\ b[m.from].type = "King" => Kings(n, p.side) = {m.to} /\ Kings(b, p.side) = {m.from}
  BY <1>0, KingsMoved
<1>4. b[m.from].type = "King" /\ p.side \in Colors /\ Opponent(p.side) \in Colors
  BY <1>0, BoardOf, Sides DEF King
<1>5. rf[2] = r
  OBVIOUS
<1> HIDE DEF n, rf, rt, r
<1>6. /\ rf \in DOMAIN n /\ n[rf] = b[rf] /\ n[rf].type # "King" /\ rt \in Squares \ DOMAIN n
  BY <1>0, <1>2
<1>7. /\ IsBoard(h) /\ DOMAIN h = (DOMAIN n \ {rf}) \cup {rt} /\ h[rt] = n[rf]
      /\ \A s \in DOMAIN h : s = rt \/ (s \in DOMAIN n /\ h[s] = n[s])
      /\ \A c \in Colors : Kings(h, c) = Kings(n, c)
  BY <1>2, <1>6, HopIs
<1> HIDE DEF h
<1>8. m.to \in DOMAIN h /\ m.from \notin DOMAIN h
  BY <1>0, <1>2, <1>7
<1>9. /\ Kings(h, Opponent(p.side)) = Kings(b, Opponent(p.side))
      /\ Kings(h, p.side) = {m.to} /\ Kings(b, p.side) = {m.from}
  BY <1>3, <1>4, <1>7
<1>10. ASSUME NEW s \in DOMAIN h, h[s].type = "Pawn" PROVE s \in DOMAIN b /\ h[s] = b[s]
  <2>1. s # rt
    BY <1>0, <1>6, <1>7, <1>10
  <2>2. s \in DOMAIN n /\ h[s] = n[s]
    BY <1>7, <2>1
  <2>3. s # m.to
    BY <1>0, <1>2, <1>4, <1>10, <2>2
  <2> QED BY <1>2, <2>2, <2>3
<1>11. ASSUME NEW s \in DOMAIN b
       PROVE  \/ s \in {m.from, m.to} \/ s[2] = r
              \/ s \in DOMAIN h /\ h[s] = b[s]
  <2>1. CASE s = rf
    BY <1>5, <2>1
  <2>2. CASE s = m.from
    BY <2>2
  <2>3. CASE s # rf /\ s # m.from
    <3>1. s \in DOMAIN n /\ s # m.to /\ n[s] = b[s]
      BY <1>0, <1>2, <2>3
    <3>2. s \in DOMAIN h /\ s # rt
      BY <1>0, <1>7, <2>3, <3>1
    <3> QED BY <1>7, <3>1, <3>2
  <2> QED BY <2>1, <2>2, <2>3
<1>12. Made(p, m, h)
  BY <1>4, <1>7, <1>8, <1>9, <1>10, <1>11 DEF Made, r
<1> QED BY <1>1, <1>12

LEMMA AllMade ==
  ASSUME NEW p, Sound(p), NEW m \in PseudoLegal(p)
  PROVE  Made(p, m, BoardAfter(p, m))
BY MovesAre, PieceMade, CastlingMade

\* One king each, and the one that just moved is safe: the filter saw to it.
LEMMA StillSafe ==
  ASSUME NEW p, Sound(p), NEW m \in LegalMoves(p)
  PROVE  KingsSafeIn(MakeMoveRaw(p, m))
<1> DEFINE n == BoardAfter(p, m)
           q == MakeMoveRaw(p, m)
<1>1. m \in PseudoLegal(p) /\ ~InCheck(q.board, p.side)
  BY DEF LegalMoves, Safe
<1>2. q.board = n /\ q.side = Opponent(p.side)
  BY DEF MakeMoveRaw
<1>3. p.side \in Colors /\ IsBoard(p.board) /\ Opponent(p.side) \in Colors /\ Opponent(q.side) = p.side
  BY <1>2, BoardOf, Sides
<1>4. Made(p, m, n)
  BY <1>1, AllMade
<1>5. \A c \in Colors : \E s \in Squares : Kings(p.board, c) = {s}
  BY <1>3, OneKing DEF Sound, KingsSafeIn
<1> HIDE DEF n, q
<1>6. m.to \in Squares
  BY <1>4 DEF Made, IsBoard
<1>7. ASSUME NEW c \in Colors PROVE \E s \in Squares : Kings(n, c) = {s}
  <2>1. CASE c = Opponent(p.side)
    BY <1>4, <1>5, <2>1 DEF Made
  <2>2. CASE c = p.side /\ p.board[m.from].type = "King"
    BY <1>4, <1>6, <2>2 DEF Made
  <2>3. CASE c = p.side /\ p.board[m.from].type # "King"
    BY <1>4, <1>5, <2>3 DEF Made
  <2> QED BY <1>3, <2>1, <2>2, <2>3, Sides
<1>8. \A c \in Colors : Cardinality(Kings(n, c)) = 1
  BY <1>4, <1>7, OneKing DEF Made
<1>9. ~InCheck(q.board, Opponent(q.side))
  BY <1>1, <1>3
<1>10. \A c \in Colors : Cardinality(Kings(q.board, c)) = 1
  BY <1>2, <1>8
<1>11. KingsSafeIn(q)
  BY <1>9, <1>10 DEF KingsSafeIn
<1> QED BY <1>11 DEF q

LEMMA StillHome ==
  ASSUME NEW p, Sound(p), NEW m \in PseudoLegal(p)
  PROVE  RightsHome(MakeMoveRaw(p, m))
<1> DEFINE n == BoardAfter(p, m)
           q == MakeMoveRaw(p, m)
           b == p.board
<1>1. q.board = n /\ q.castling = p.castling \ LostRights(p, m)
  BY DEF MakeMoveRaw
<1>2. p.side \in Colors /\ IsBoard(b) /\ p.castling \subseteq Rights
  BY BoardOf
<1>3. Made(p, m, n) /\ Owns(p, m.from)
  BY AllMade, AllLift DEF Lifts
<1> HIDE DEF n, q
<1>4. SUFFICES ASSUME NEW x \in p.castling \ LostRights(p, m)
               PROVE  LET rook == <<RookFile(x[2]), Home(x[1])>>
                      IN /\ Kings(n, x[1]) = {<<4, Home(x[1])>>}
                         /\ rook \in DOMAIN n /\ n[rook] = [color |-> x[1], type |-> "Rook"]
  BY <1>1 DEF RightsHome, q
<1> DEFINE rook == <<RookFile(x[2]), Home(x[1])>>
<1>5. x \in Rights /\ x[1] \in Colors
  BY <1>2 DEF Rights
<1>6. b[m.from] # King(x[1]) /\ rook # m.from /\ rook # m.to
  BY <1>5 DEF LostRights, Touched, King
<1>7. Kings(b, x[1]) = {<<4, Home(x[1])>>} /\ rook \in DOMAIN b /\ b[rook] = [color |-> x[1], type |-> "Rook"]
  BY DEF Sound, RightsHome
<1>8. b[m.from] \in Pieces /\ b[m.from].color = p.side
  BY <1>2, <1>3 DEF Owns, IsBoard
<1>9. Kings(n, x[1]) = Kings(b, x[1])
  <2>1. CASE x[1] = p.side
    <3>1. b[m.from].type # "King"
      BY <1>5, <1>6, <1>8, <2>1, PieceIs
    <3> QED BY <1>3, <2>1, <3>1 DEF Made
  <2>2. CASE x[1] = Opponent(p.side)
    BY <1>3, <2>2 DEF Made
  <2> QED BY <1>2, <1>5, <2>1, <2>2, Sides
<1>10. rook \in DOMAIN n /\ n[rook] = b[rook]
  <2>1. b[rook].type # "Pawn" /\ rook[2] = Home(x[1])
    BY <1>7
  <2>2. ~(rook[2] = Home(p.side) /\ b[m.from].type = "King")
    <3>1. CASE x[1] = p.side
      BY <1>5, <1>6, <1>8, <3>1, PieceIs
    <3>2. CASE x[1] = Opponent(p.side)
      <4>1. Home(x[1]) # Home(p.side)
        BY <1>2, <3>2, Sides
      <4> QED BY <2>1, <4>1
    <3> QED BY <1>2, <1>5, <3>1, <3>2, Sides
  <2> HIDE DEF rook
  <2> QED BY <1>3, <1>6, <1>7, <2>1, <2>2 DEF Made
<1> QED BY <1>7, <1>9, <1>10

LEMMA PawnReaches ==
  ASSUME NEW b, NEW s, NEW t, b[s].type = "Pawn", Reaches(b, s, t)
  PROVE  t[2] - s[2] = Dir(b[s].color)
BY DEF Reaches

LEMMA OneAhead ==
  ASSUME NEW c \in Colors, NEW f \in 1 .. 6, NEW t, t = f + 1 * Dir(c)
  PROVE  t - f = Dir(c) /\ (t # Home(Opponent(c)) => t \in 1 .. 6)
<1>1. CASE c = "White"
  <2>1. Dir(c) = 1 /\ Home(Opponent(c)) = 7
    BY <1>1, Sides
  <2>2. t = f + 1
    BY <2>1
  <2> QED BY <2>1, <2>2
<1>2. CASE c = "Black"
  <2>1. Dir(c) = -1 /\ Home(Opponent(c)) = 0
    BY <1>2, Sides
  <2>2. t = f + (-1)
    BY <2>1
  <2> QED BY <2>1, <2>2
<1> QED BY <1>1, <1>2, Sides

LEMMA TwoAhead ==
  ASSUME NEW c \in Colors, NEW f, f = Home(c) + Dir(c),
         NEW g, g = f + 1 * Dir(c), NEW t, t = f + 2 * Dir(c)
  PROVE  g = Home(c) + 2 * Dir(c) /\ g - Dir(c) = f /\ g + Dir(c) = t /\ g # t
<1>1. CASE c = "White"
  <2>1. Dir(c) = 1 /\ Home(c) = 0
    BY <1>1, Sides
  <2>2. f = 1 /\ g = 2 /\ t = 3
    BY <2>1
  <2> QED BY <2>1, <2>2
<1>2. CASE c = "Black"
  <2>1. Dir(c) = -1 /\ Home(c) = 7
    BY <1>2, Sides
  <2>2. f = 6 /\ g = 5 /\ t = 4
    BY <2>1
  <2> QED BY <2>1, <2>2
<1> QED BY <1>1, <1>2, Sides

\* A pawn goes two ranks from its home, past an empty square, or one; and it is
\* promoted on the last.
LEMMA PawnRanks ==
  ASSUME NEW p, Sound(p), NEW m, PawnMove(p, m)
  PROVE  LET c == p.side
         IN /\ m.promotion = "None" => m.to[2] \in 1 .. 6
            /\ \/ m.to[2] - m.from[2] = Dir(c)
               \/ /\ m.from[2] = Home(c) + Dir(c) /\ m.to = Ahead(p, m, 2)
                  /\ m.promotion = "None" /\ Ahead(p, m, 1) \notin DOMAIN p.board
<1> DEFINE c == p.side
           f == m.from[2]
           t == m.to[2]
<1>0. c \in Colors /\ IsBoard(p.board) /\ Owns(p, m.from) /\ p.board[m.from].type = "Pawn"
  BY BoardOf DEF PawnMove
<1>1. f \in 1 .. 6
  BY <1>0 DEF Owns, Sound, EpBehind
<1>2. ASSUME m.to \in Squares PROVE t \in 0 .. 7
  BY <1>2, Coordinates
<1>3. ASSUME Reaches(p.board, m.from, m.to) PROVE t - f = Dir(c)
  BY <1>0, <1>3, PawnReaches DEF Owns
<1>4. CASE /\ m.to = Ahead(p, m, 1) /\ m.to \in Squares \ DOMAIN p.board
           /\ m.promotion = "None" => t # Home(Opponent(c))
  <2>1. t = f + 1 * Dir(c)
    BY <1>4 DEF Ahead
  <2>2. t \in 0 .. 7
    BY <1>2, <1>4
  <2> HIDE DEF t, f, c
  <2>3. t - f = Dir(c) /\ (t # Home(Opponent(c)) => t \in 1 .. 6)
    BY <1>0, <1>1, <2>1, OneAhead
  <2> QED BY <1>4, <2>3 DEF t, f, c
<1>5. CASE /\ m.to = Ahead(p, m, 2) /\ m.promotion = "None" /\ f = Home(c) + Dir(c)
           /\ m.to \notin DOMAIN p.board /\ Ahead(p, m, 1) \notin DOMAIN p.board
  <2>1. t = f + 2 * Dir(c)
    BY <1>5 DEF Ahead
  <2>2. t \in 1 .. 6
    BY <1>0, <1>5, <2>1, Sides
  <2> QED BY <1>5, <2>2
<1>6. CASE /\ m.to \in Squares /\ Takes(p, m)
           /\ m.promotion = "None" => t # Home(Opponent(c))
  <2>1. t - f = Dir(c) /\ t \in 0 .. 7
    BY <1>2, <1>3, <1>6 DEF Takes
  <2> HIDE DEF t, f
  <2>2. t # Home(Opponent(c)) => t \in 1 .. 6
    BY <1>0, <1>1, <2>1, Sides
  <2> QED BY <1>6, <2>1, <2>2 DEF t, f
<1>7. CASE m.to \in Squares /\ m.to = p.ep /\ Reaches(p.board, m.from, m.to)
  <2>1. t - f = Dir(c) /\ p.ep # NoSquare
    BY <1>3, <1>7, SquareIs
  <2>2. t = Home(Opponent(c)) + 2 * Dir(Opponent(c))
    BY <1>7, <2>1 DEF Sound, EpBehind
  <2>3. t \in 1 .. 6
    BY <1>0, <2>2, Sides
  <2> QED BY <2>1, <2>3
<1> QED BY <1>4, <1>5, <1>6, <1>7 DEF PawnMove

\* A double push, and what it leaves behind.
LEMMA DoublePush ==
  ASSUME NEW p, Sound(p), NEW m, PawnMove(p, m), m.to[2] - m.from[2] # Dir(p.side)
  PROVE  LET c == p.side
             e == <<m.from[1], (m.from[2] + m.to[2]) \div 2>>
         IN /\ m.promotion = "None" /\ e = Ahead(p, m, 1) /\ e \notin DOMAIN p.board
            /\ e \in Squares /\ e[2] = Home(c) + 2 * Dir(c)
            /\ <<e[1], e[2] - Dir(c)>> = m.from /\ <<e[1], e[2] + Dir(c)>> = m.to
            /\ e # m.to
<1> DEFINE c == p.side
           e == <<m.from[1], (m.from[2] + m.to[2]) \div 2>>
<1>0. c \in Colors /\ IsBoard(p.board) /\ Owns(p, m.from)
  BY BoardOf DEF PawnMove
<1>1. /\ m.from[2] = Home(c) + Dir(c) /\ m.to = Ahead(p, m, 2)
      /\ m.promotion = "None" /\ Ahead(p, m, 1) \notin DOMAIN p.board
  BY PawnRanks
<1>2. m.from \in Squares
  BY <1>0 DEF Owns, IsBoard
<1>3. m.from = <<m.from[1], m.from[2]>> /\ m.from[1] \in 0 .. 7
  BY <1>2, SquareIs
<1>4. m.to = <<m.from[1], m.from[2] + 2 * Dir(c)>>
  BY <1>1 DEF Ahead
<1> DEFINE f == m.from[2]
           t == m.to[2]
<1>5. t = f + 2 * Dir(c)
  BY <1>4
<1>6. (f + t) \div 2 = f + 1 * Dir(c) /\ (f + t) \div 2 \in 0 .. 7
  <2>1. CASE c = "White"
    <3>1. f = 1 /\ t = 3
      BY <1>0, <1>1, <1>5, <2>1, Sides
    <3> HIDE DEF f, t
    <3> QED BY <1>0, <2>1, <3>1, Sides
  <2>2. CASE c = "Black"
    <3>1. f = 6 /\ t = 4
      BY <1>0, <1>1, <1>5, <2>2, Sides
    <3> HIDE DEF f, t
    <3> QED BY <1>0, <2>2, <3>1, Sides
  <2> QED BY <1>0, <2>1, <2>2, Sides
<1>7. e = Ahead(p, m, 1)
  BY <1>6 DEF Ahead
<1>8. e \in Squares
  BY <1>3, <1>6, SquareIs
<1>9. e[2] = Home(c) + 2 * Dir(c) /\ e[2] - Dir(c) = f /\ e[2] + Dir(c) = t /\ e[2] # t
  <2>1. e[2] = f + 1 * Dir(c)
    BY <1>6
  <2>2. f = Home(c) + Dir(c)
    BY <1>1
  <2> DEFINE g == e[2]
  <2> HIDE DEF e, f, t, c
  <2>3. g = f + 1 * Dir(c)
    BY <2>1
  <2> HIDE DEF g
  <2>4. g = Home(c) + 2 * Dir(c) /\ g - Dir(c) = f /\ g + Dir(c) = t /\ g # t
    BY <1>0, <1>5, <2>2, <2>3, TwoAhead
  <2> QED BY <2>4 DEF g
<1>10. e[1] = m.from[1] /\ m.to[1] = m.from[1] /\ m.to = <<m.from[1], t>>
  BY <1>4
<1>11. <<e[1], e[2] - Dir(c)>> = m.from /\ <<e[1], e[2] + Dir(c)>> = m.to /\ e # m.to
  BY <1>3, <1>9, <1>10
<1> QED BY <1>1, <1>7, <1>8, <1>9, <1>11

LEMMA StillBehind ==
  ASSUME NEW p, Sound(p), NEW m \in PseudoLegal(p)
  PROVE  EpBehind(MakeMoveRaw(p, m)) /\ MakeMoveRaw(p, m).ep \in Squares \cup {NoSquare}
<1> DEFINE n == BoardAfter(p, m)
           q == MakeMoveRaw(p, m)
           b == p.board
           c == p.side
<1>1. q.board = n /\ q.side = Opponent(c) /\ q.ep = NewEp(p, m)
  BY DEF MakeMoveRaw
<1>2. c \in Colors /\ Opponent(Opponent(c)) = c
  BY BoardOf, Sides
<1>3. Made(p, m, n)
  BY AllMade
<1>4. ASSUME b[m.from].type = "Pawn" PROVE PawnMove(p, m)
  <2>1. ~PieceMove(p, m)
    BY <1>4 DEF PieceMove
  <2>2. ASSUME NEW w \in {"King", "Queen"}, CastlingMove(p, m, w) PROVE FALSE
    <3>1. b[m.from] = King(c)
      BY <2>2, CastlingLifts
    <3> QED BY <1>4, <3>1 DEF King
  <2> QED BY <2>1, <2>2, MovesAre
<1> HIDE DEF n, q
<1>5. ASSUME NEW s \in DOMAIN n, n[s].type = "Pawn" PROVE s[2] \in 1 .. 6
  <2>1. CASE s \in DOMAIN b /\ n[s] = b[s]
    BY <1>5, <2>1 DEF Sound, EpBehind
  <2>2. CASE s = m.to /\ b[m.from].type = "Pawn" /\ m.promotion = "None"
    BY <1>4, <2>2, PawnRanks
  <2> QED BY <1>3, <1>5, <2>1, <2>2 DEF Made
<1>6. CASE ~(b[m.from].type = "Pawn" /\ Abs(m.to[2] - m.from[2]) = 2)
  <2>1. q.ep = NoSquare
    BY <1>1, <1>6 DEF NewEp
  <2>2. EpBehind(q)
    BY <1>1, <1>5, <2>1 DEF EpBehind
  <2> QED BY <2>1, <2>2 DEF q
<1>7. CASE b[m.from].type = "Pawn" /\ Abs(m.to[2] - m.from[2]) = 2
  <2> DEFINE e == <<m.from[1], (m.from[2] + m.to[2]) \div 2>>
  <2>1. q.ep = e
    BY <1>1, <1>7 DEF NewEp
  <2>2. PawnMove(p, m)
    BY <1>4, <1>7
  <2>3. m.to[2] - m.from[2] # Dir(c)
    BY <1>7 DEF Abs, Dir
  <2>4. /\ m.promotion = "None" /\ e \notin DOMAIN b
        /\ e \in Squares /\ e[2] = Home(c) + 2 * Dir(c)
        /\ <<e[1], e[2] - Dir(c)>> = m.from /\ <<e[1], e[2] + Dir(c)>> = m.to
        /\ e # m.to
    BY <2>2, <2>3, DoublePush
  <2>5. /\ \A s \in DOMAIN n : s = m.to \/ s \in DOMAIN b
        /\ n[m.to].color = c /\ n[m.to].type = b[m.from].type
    BY <2>2, <2>4, PieceMade DEF n
  <2> HIDE DEF e
  <2>6. e \notin DOMAIN n /\ m.from \notin DOMAIN n /\ m.to \in DOMAIN n
    BY <1>3, <2>4, <2>5 DEF Made
  <2>7. n[m.to] = [color |-> c, type |-> "Pawn"]
    <3>1. n[m.to] \in Pieces
      BY <1>3 DEF Made, IsBoard
    <3>2. "Pawn" \in Kinds
      BY DEF Kinds
    <3> QED BY <1>2, <1>7, <2>5, <3>1, <3>2, PieceIs
  <2>8. EpBehind(q)
    <3>1. Opponent(q.side) = c
      BY <1>1, <1>2
    <3>2. {e, m.from} \cap DOMAIN n = {}
      BY <2>6
    <3> QED BY <1>1, <1>5, <2>1, <2>4, <2>6, <2>7, <3>1, <3>2 DEF EpBehind
  <2> QED BY <2>1, <2>4, <2>8 DEF q
<1> QED BY <1>6, <1>7

LEMMA StillSound ==
  ASSUME NEW p, Sound(p), NEW m \in LegalMoves(p)
  PROVE  Sound(MakeMoveRaw(p, m))
<1> DEFINE q == MakeMoveRaw(p, m)
<1>1. m \in PseudoLegal(p)
  BY DEF LegalMoves
<1>2. KingsSafeIn(q) /\ RightsHome(q) /\ EpBehind(q) /\ q.ep \in Squares \cup {NoSquare}
  BY <1>1, StillSafe, StillHome, StillBehind
<1>3. IsPosition(q)
  <2>1. q.board = BoardAfter(p, m) /\ q.side = Opponent(p.side) /\ q.castling \subseteq p.castling
    BY DEF MakeMoveRaw
  <2>2. IsBoard(q.board)
    BY <1>1, <2>1, AllMade DEF Made
  <2>3. q.side \in Colors /\ q.castling \subseteq Rights
    BY <2>1, BoardOf, Sides
  <2> HIDE DEF q
  <2> QED BY <1>2, <2>2, <2>3 DEF IsPosition, IsBoard, Pieces
<1> QED BY <1>2, <1>3 DEF Sound

-----------------------------------------------------------------------------
(* Theorems.                                                               *)

\* The inductive invariant: every position of a game is sound.
THEOREM GamesSound == Spec => []Sound(Pos)
<1>1. ASSUME Init PROVE Sound(Pos)
  <2>1. PICK p \in Starts : /\ board = p.board /\ side = p.side /\ castling = p.castling
                            /\ ep = p.ep /\ halfmove = p.halfmove
    BY <1>1 DEF Init
  <2>2. Sound(p)
    BY <2>1, PositionAssumption
  <2>3. /\ Pos.board = p.board /\ Pos.side = p.side /\ Pos.castling = p.castling /\ Pos.ep = p.ep
    BY <2>1 DEF Pos
  <2> HIDE DEF Pos
  <2> QED BY <2>2, <2>3 DEF Sound, IsPosition, KingsSafeIn, RightsHome, EpBehind
<1>2. ASSUME Sound(Pos), [Next]_vars PROVE Sound(Pos)'
  <2>1. CASE UNCHANGED vars
    <3>1. Pos' = Pos
      BY <2>1 DEF vars, Pos
    <3>2. Sound(Pos)' <=> Sound(Pos')
      BY DEF Sound, IsPosition, KingsSafeIn, RightsHome, EpBehind
    <3> QED BY <1>2, <3>1, <3>2
  <2>2. ASSUME NEW m \in LegalMoves(Pos), Apply(m) PROVE Sound(Pos)'
    <3> DEFINE q == MakeMoveRaw(Pos, m)
    <3>1. Sound(q)
      BY <1>2, <2>2, StillSound
    <3>2. /\ board' = q.board /\ side' = q.side /\ castling' = q.castling /\ ep' = q.ep
      BY <2>2 DEF Apply
    <3> HIDE DEF q
    <3>3. Pos'.board = q.board /\ Pos'.side = q.side /\ Pos'.castling = q.castling /\ Pos'.ep = q.ep
      BY <3>2 DEF Pos
    <3>4. Sound(Pos')
      <4> HIDE DEF Pos
      <4> QED BY <3>1, <3>3 DEF Sound, IsPosition, KingsSafeIn, RightsHome, EpBehind
    <3> QED BY <3>4
  <2> QED BY <1>2, <2>1, <2>2 DEF Next
<1> QED BY <1>1, <1>2, PTL DEF Spec

\* Nobody leaves or puts the own king in check and no king is taken, whatever is
\* pinned, discovered or taken in passing (legalMoves, position.cpp; the promise
\* of position.hpp:61).
THEOREM GamesKeepKings == Spec => []KingsSafe
<1>1. Sound(Pos) => KingsSafe
  BY DEF Sound, KingsSafe
<1> QED BY <1>1, GamesSound, PTL

\* A castling right means a king and a rook at home, an en passant target the
\* pawn that passed it: what makeMoveRaw takes for granted (position.cpp:294).
THEOREM GamesMeanBoard == Spec => []StateMeansBoard
<1>1. Sound(Pos) => StateMeansBoard
  BY DEF Sound, StateMeansBoard
<1> QED BY <1>1, GamesSound, PTL

-----------------------------------------------------------------------------
(* Dead games.                                                             *)

\* Kings, and one knight or bishops of one colour: what HasInsufficientMaterial
\* counts, said of every two pieces.
Dead(b) ==
  /\ \A s \in DOMAIN b : b[s].type \in {"King", "Knight", "Bishop"}
  /\ \A s, t \in DOMAIN b :
       /\ b[s].type = "Knight" /\ b[t].type = "Knight" => s = t
       /\ ~(b[s].type = "Knight" /\ b[t].type = "Bishop")
       /\ b[s].type = "Bishop" /\ b[t].type = "Bishop" => (IsLightSquare(s) <=> IsLightSquare(t))

LEMMA AtMostOne ==
  ASSUME NEW S \in SUBSET Squares
  PROVE  Cardinality(S) <= 1 <=> \A s, t \in S : s = t
<1>1. IsFiniteSet(S) /\ (Cardinality(S) = 1 <=> \E s \in Squares : S = {s})
  BY FewSquares
<1>2. Cardinality(S) \in Nat /\ (Cardinality(S) = 0 <=> S = {})
  BY <1>1, FS_CardinalityType, FS_EmptySet
<1>3. CASE S = {}
  BY <1>2, <1>3
<1>4. CASE S # {}
  <2>1. PICK s \in S : TRUE
    BY <1>4
  <2>2. (\A x, y \in S : x = y) <=> S = {s}
    BY <2>1
  <2>3. Cardinality(S) <= 1 <=> Cardinality(S) = 1
    BY <1>2, <1>4
  <2> QED BY <1>1, <2>1, <2>2, <2>3
<1> QED BY <1>3, <1>4

LEMMA DeadIs ==
  ASSUME NEW b, IsBoard(b)
  PROVE  HasInsufficientMaterial(b) <=> Dead(b)
<1> DEFINE knights == Of(b, "Knight")
           bishops == Of(b, "Bishop")
           light == {s \in bishops : IsLightSquare(s)}
           dark  == bishops \ light
           minor == \A s \in DOMAIN b : b[s].type \in {"King", "Knight", "Bishop"}
<1>1. HasInsufficientMaterial(b) <=>
        /\ minor
        /\ \/ bishops = {} /\ Cardinality(knights) <= 1
           \/ knights = {} /\ ((light = {}) # (dark = {}))
  BY DEF HasInsufficientMaterial
<1>2. knights \in SUBSET Squares
  BY DEF Of, IsBoard
<1>3. Cardinality(knights) <= 1 <=> \A s, t \in knights : s = t
  BY <1>2, AtMostOne
<1>4. /\ \A s : s \in knights <=> s \in DOMAIN b /\ b[s].type = "Knight"
      /\ \A s : s \in bishops <=> s \in DOMAIN b /\ b[s].type = "Bishop"
  BY DEF Of
<1>5. (light = {} \/ dark = {}) <=> \A s, t \in bishops : (IsLightSquare(s) <=> IsLightSquare(t))
  BY DEF IsLightSquare
<1>6. (light = {} /\ dark = {}) <=> bishops = {}
  OBVIOUS
<1>7. Dead(b) <=> /\ minor
                  /\ \A s, t \in knights : s = t
                  /\ knights = {} \/ bishops = {}
                  /\ \A s, t \in bishops : (IsLightSquare(s) <=> IsLightSquare(t))
  BY <1>4 DEF Dead
<1> HIDE DEF knights, bishops, light, dark, minor
<1> QED BY <1>1, <1>3, <1>5, <1>6, <1>7

\* A knight changes the colour of its square, a bishop keeps it, and so does a step
\* along a file or a rank change it.
LEMMA Parity ==
  ASSUME NEW s \in Squares, NEW t \in Squares
  PROVE  LET df == t[1] - s[1]
             dr == t[2] - s[2]
         IN /\ {Abs(df), Abs(dr)} = {1, 2} => (IsLightSquare(s) <=> ~IsLightSquare(t))
            /\ Diagonal(df, dr) => (IsLightSquare(s) <=> IsLightSquare(t))
            /\ Straight(df, dr) /\ Far(df, dr) = 1 => (IsLightSquare(s) <=> ~IsLightSquare(t))
<1> DEFINE a == s[1]
           b == s[2]
           x == t[1]
           y == t[2]
           df == x - a
           dr == y - b
<1>1. a \in 0 .. 7 /\ b \in 0 .. 7 /\ x \in 0 .. 7 /\ y \in 0 .. 7
  BY Coordinates
<1>2. (IsLightSquare(s) <=> (a + b) % 2 = 1) /\ (IsLightSquare(t) <=> (x + y) % 2 = 1)
  BY DEF IsLightSquare
<1> HIDE DEF a, b, x, y
<1>3. ASSUME {Abs(df), Abs(dr)} = {1, 2} PROVE (a + b) % 2 = 1 <=> ~((x + y) % 2 = 1)
  <2>1. \/ Abs(df) = 1 /\ Abs(dr) = 2
        \/ Abs(df) = 2 /\ Abs(dr) = 1
    BY <1>3
  <2>2. df \in {-2, -1, 1, 2} /\ dr \in {-2, -1, 1, 2} /\ (df \in {-1, 1} <=> dr \in {-2, 2})
    BY <1>1, <2>1 DEF Abs
  <2>3. \E k \in Int : x + y = a + b + 2 * k + 1
    <3>1. df + dr \in {-3, -1, 1, 3}
      BY <2>2
    <3>2. df + dr = 2 * (-2) + 1 \/ df + dr = 2 * (-1) + 1 \/ df + dr = 2 * 0 + 1 \/ df + dr = 2 * 1 + 1
      BY <3>1
    <3>3. x + y = a + b + (df + dr)
      BY <1>1
    <3> QED BY <1>1, <3>2, <3>3
  <2> QED BY <1>1, <2>3
<1>4. ASSUME Diagonal(df, dr) PROVE (a + b) % 2 = 1 <=> (x + y) % 2 = 1
  <2>1. dr = df \/ dr = -df
    BY <1>1, <1>4 DEF Diagonal, Abs
  <2>2. x + y = a + b + 2 * df \/ x + y = a + b
    BY <1>1, <2>1
  <2>3. df \in Int
    BY <1>1
  <2> QED BY <1>1, <2>2, <2>3
<1>5. ASSUME Straight(df, dr), Far(df, dr) = 1 PROVE (a + b) % 2 = 1 <=> ~((x + y) % 2 = 1)
  <2>1. \/ df = 0 /\ dr \in {-1, 1}
        \/ dr = 0 /\ df \in {-1, 1}
    BY <1>1, <1>5 DEF Straight, Far, Abs
  <2>2. x + y = a + b + 1 \/ x + y = a + b - 1
    BY <1>1, <2>1
  <2> QED BY <1>1, <2>2
<1> QED BY <1>2, <1>3, <1>4, <1>5 DEF a, b, x, y

\* What a piece may reach if nothing stands between.
Aims(type, s, t) ==
  LET df == t[1] - s[1]
      dr == t[2] - s[2]
  IN /\ type = "Knight" => {Abs(df), Abs(dr)} = {1, 2}
     /\ type = "Bishop" => Diagonal(df, dr)
     /\ type = "King" => Far(df, dr) = 1

LEMMA PieceReaches ==
  ASSUME NEW b, NEW s, NEW t, Reaches(b, s, t)
  PROVE  Aims(b[s].type, s, t)
<1>1. ASSUME b[s].type = "Knight" PROVE {Abs(t[1] - s[1]), Abs(t[2] - s[2])} = {1, 2}
  BY <1>1 DEF Reaches
<1>2. ASSUME b[s].type = "Bishop" PROVE Diagonal(t[1] - s[1], t[2] - s[2])
  BY <1>2 DEF Reaches
<1> QED BY <1>1, <1>2, KingReaches DEF Aims

\* With that material there are no pawns to promote and no rooks to castle with; what
\* moves keeps its kind and, if a bishop, its colour.
LEMMA StaysDead ==
  ASSUME NEW p, Sound(p), Dead(p.board), NEW m \in PseudoLegal(p)
  PROVE  Dead(BoardAfter(p, m))
<1> DEFINE b == p.board
           n == BoardAfter(p, m)
<1>0. IsBoard(b) /\ Lifts(p, m) /\ m.from \in DOMAIN b
  BY BoardOf, AllLift DEF Lifts, Owns
<1>1. PieceMove(p, m)
  <2>1. ~PawnMove(p, m)
    BY DEF PawnMove, Owns, Dead
  <2>2. ASSUME NEW w \in {"King", "Queen"}, CastlingMove(p, m, w) PROVE FALSE
    <3>1. \E s \in DOMAIN b : b[s].type = "Rook"
      BY <2>2, CastlingLifts
    <3> QED BY <3>1 DEF Dead
  <2> QED BY <2>1, <2>2, MovesAre
<1>2. m.promotion = "None" /\ m.to \in Squares /\ Reaches(b, m.from, m.to)
  BY <1>1 DEF PieceMove
<1>3. n = Moved(p, m)
  BY <1>1, PieceAfter
<1>4. n[m.to].type = b[m.from].type /\ m.from \notin DOMAIN n
  BY <1>0, <1>2, <1>3, MovedIs
<1>5. ASSUME NEW s \in DOMAIN n, s # m.to PROVE s \in DOMAIN b /\ s # m.from /\ n[s] = b[s]
  BY <1>0, <1>3, <1>5, MovedIs
<1> DEFINE was(s) == IF s = m.to THEN m.from ELSE s
<1>6. ASSUME b[m.from].type = "Bishop" PROVE IsLightSquare(m.from) <=> IsLightSquare(m.to)
  <2>1. m.from \in Squares
    BY <1>0 DEF IsBoard
  <2>2. Diagonal(m.to[1] - m.from[1], m.to[2] - m.from[2])
    BY <1>2, <1>6, PieceReaches DEF Aims
  <2> QED BY <1>2, <2>1, <2>2, Parity
<1> HIDE DEF b, n
<1>7. ASSUME NEW s \in DOMAIN n
      PROVE  /\ was(s) \in DOMAIN b /\ n[s].type = b[was(s)].type
             /\ n[s].type = "Bishop" => (IsLightSquare(was(s)) <=> IsLightSquare(s))
  BY <1>0, <1>4, <1>5, <1>6
<1>8. ASSUME NEW s \in DOMAIN n, NEW t \in DOMAIN n, was(s) = was(t) PROVE s = t
  BY <1>5, <1>8
<1>9. Dead(b)
  BY DEF b
<1> HIDE DEF was
<1>10. \A s \in DOMAIN n : n[s].type \in {"King", "Knight", "Bishop"}
  BY <1>7, <1>9 DEF Dead
<1>11. ASSUME NEW s \in DOMAIN n, NEW t \in DOMAIN n
       PROVE  /\ n[s].type = "Knight" /\ n[t].type = "Knight" => s = t
              /\ ~(n[s].type = "Knight" /\ n[t].type = "Bishop")
              /\ n[s].type = "Bishop" /\ n[t].type = "Bishop" => (IsLightSquare(s) <=> IsLightSquare(t))
  <2>1. was(s) \in DOMAIN b /\ was(t) \in DOMAIN b
    BY <1>7
  <2>2. /\ n[s].type = "Knight" /\ n[t].type = "Knight" => s = t
        /\ ~(n[s].type = "Knight" /\ n[t].type = "Bishop")
    BY <1>7, <1>8, <1>9, <2>1 DEF Dead
  <2>3. ASSUME n[s].type = "Bishop", n[t].type = "Bishop" PROVE IsLightSquare(s) <=> IsLightSquare(t)
    <3>1. IsLightSquare(was(s)) <=> IsLightSquare(was(t))
      BY <1>7, <1>9, <2>1, <2>3 DEF Dead
    <3> QED BY <1>7, <2>3, <3>1
  <2> QED BY <2>2, <2>3
<1>12. Dead(n)
  BY <1>10, <1>11 DEF Dead
<1> QED BY <1>12 DEF n

LEMMA UnitStep ==
  ASSUME NEW d, d = 1 \/ d = -1
  PROVE  /\ Straight(0, d) /\ Far(0, d) = 1
         /\ Straight(d, 0) /\ Far(d, 0) = 1
<1>1. Abs(0) = 0 /\ Abs(d) = 1 /\ d # 0
  BY DEF Abs
<1> QED BY <1>1 DEF Straight, Far

\* A king that is not next to the other can step straight to a square that is not either.
LEMMA StepAway ==
  ASSUME NEW k \in Squares, NEW o \in Squares, Far(o[1] - k[1], o[2] - k[2]) > 1
  PROVE  \E t \in Squares : /\ Straight(t[1] - k[1], t[2] - k[2]) /\ Far(t[1] - k[1], t[2] - k[2]) = 1
                            /\ Far(t[1] - o[1], t[2] - o[2]) > 1
<1> DEFINE a == k[1]
           b == k[2]
           x == o[1]
           y == o[2]
           up(v) == IF v = 7 THEN 6 ELSE v + 1
<1>1. a \in 0 .. 7 /\ b \in 0 .. 7 /\ x \in 0 .. 7 /\ y \in 0 .. 7 /\ Far(x - a, y - b) > 1
  BY Coordinates
<1> HIDE DEF a, b, x, y
<1>2. /\ \A v \in 0 .. 7 : up(v) \in 0 .. 7 /\ (up(v) - v = 1 \/ up(v) - v = -1)
  OBVIOUS
<1> HIDE DEF up
<1>3. CASE Abs(x - a) > 1
  <2>1. Straight(a - a, up(b) - b) /\ Far(a - a, up(b) - b) = 1
    <3>1. a - a = 0 /\ (up(b) - b = 1 \/ up(b) - b = -1)
      BY <1>1, <1>2
    <3> QED BY <3>1, UnitStep
  <2>2. Abs(a - x) > 1 /\ Abs(a - x) \in Int /\ Abs(up(b) - y) \in Int
    BY <1>1, <1>2, <1>3 DEF Abs
  <2>3. Far(a - x, up(b) - y) > 1
    BY <2>2 DEF Far
  <2> DEFINE t == <<a, up(b)>>
  <2>4. t \in Squares /\ t[1] = a /\ t[2] = up(b)
    BY <1>1, <1>2 DEF Squares
  <2> QED BY <2>1, <2>3, <2>4 DEF a, b, x, y
<1>4. CASE ~(Abs(x - a) > 1)
  <2>0. Abs(x - a) \in Int /\ Abs(y - b) \in Int
    BY <1>1 DEF Abs
  <2>1. Abs(y - b) > 1
    BY <1>1, <1>4, <2>0 DEF Far
  <2>2. Straight(up(a) - a, b - b) /\ Far(up(a) - a, b - b) = 1
    <3>1. b - b = 0 /\ (up(a) - a = 1 \/ up(a) - a = -1)
      BY <1>1, <1>2
    <3> QED BY <3>1, UnitStep
  <2>3. Abs(b - y) > 1 /\ Abs(b - y) \in Int /\ Abs(up(a) - x) \in Int
    BY <1>1, <1>2, <2>1 DEF Abs
  <2>4. Far(up(a) - x, b - y) > 1
    BY <2>3 DEF Far
  <2> DEFINE t == <<up(a), b>>
  <2>5. t \in Squares /\ t[1] = up(a) /\ t[2] = b
    BY <1>1, <1>2 DEF Squares
  <2> QED BY <2>2, <2>4, <2>5 DEF a, b, x, y
<1> QED BY <1>3, <1>4

LEMMA AbsIs ==
  ASSUME NEW u \in Int, NEW v \in Int
  PROVE  Abs(v - u) \in Nat /\ (Abs(v - u) = 0 <=> u = v) /\ Abs(v - u) = Abs(u - v)
BY DEF Abs

LEMMA KingAt ==
  ASSUME NEW b, IsBoard(b), NEW c \in Colors, NEW s \in DOMAIN b, b[s].color = c, b[s].type = "King"
  PROVE  s \in Kings(b, c)
BY PieceIs, KingsAre DEF IsBoard

LEMMA FarIs ==
  ASSUME NEW s \in Squares, NEW t \in Squares
  PROVE  /\ Far(t[1] - s[1], t[2] - s[2]) = Far(s[1] - t[1], s[2] - t[2])
         /\ Far(t[1] - s[1], t[2] - s[2]) \in Nat
         /\ Far(t[1] - s[1], t[2] - s[2]) = 0 <=> s = t
         /\ {Abs(t[1] - s[1]), Abs(t[2] - s[2])} = {1, 2} => Far(t[1] - s[1], t[2] - s[2]) = 2
<1> DEFINE df == t[1] - s[1]
           dr == t[2] - s[2]
<1>1. s[1] \in 0 .. 7 /\ s[2] \in 0 .. 7 /\ t[1] \in 0 .. 7 /\ t[2] \in 0 .. 7
  BY Coordinates
<1>2. /\ Abs(df) \in Nat /\ (Abs(df) = 0 <=> s[1] = t[1]) /\ Abs(df) = Abs(s[1] - t[1])
      /\ Abs(dr) \in Nat /\ (Abs(dr) = 0 <=> s[2] = t[2]) /\ Abs(dr) = Abs(s[2] - t[2])
  BY <1>1, AbsIs
<1>3. Abs(df) \in Nat /\ Abs(dr) \in Nat /\ (Abs(df) = 0 <=> s[1] = t[1]) /\ (Abs(dr) = 0 <=> s[2] = t[2])
  BY <1>2
<1>4. s = t <=> s[1] = t[1] /\ s[2] = t[2]
  BY SquareIs
<1>5. Far(df, dr) = Far(s[1] - t[1], s[2] - t[2])
  BY <1>2 DEF Far
<1>6. Far(df, dr) \in Nat /\ (Far(df, dr) = 0 <=> s = t)
  BY <1>3, <1>4 DEF Far
<1>7. ASSUME {Abs(df), Abs(dr)} = {1, 2} PROVE Far(df, dr) = 2
  <2>1. \/ Abs(df) = 1 /\ Abs(dr) = 2
        \/ Abs(df) = 2 /\ Abs(dr) = 1
    BY <1>7
  <2> QED BY <2>1 DEF Far
<1> QED BY <1>5, <1>6, <1>7

\* Who gives check with so little is a knight or a bishop.  It leaves the king every
\* square beside it of the other colour that the enemy king does not cover.
LEMMA DeadHasEscape ==
  ASSUME NEW p, Sound(p), Dead(p.board), InCheck(p.board, p.side)
  PROVE  LegalMoves(p) # {}
<1> DEFINE b == p.board
           c == p.side
           e == Opponent(c)
<1>0. IsBoard(b) /\ c \in Colors /\ e \in Colors /\ e # c /\ Opponent(e) = c
  BY BoardOf, Sides
<1>1. PICK k \in Squares : Kings(b, c) = {k}
  BY <1>0, OneKing DEF Sound, KingsSafeIn
<1>2. PICK o \in Squares : Kings(b, e) = {o}
  BY <1>0, OneKing DEF Sound, KingsSafeIn
<1>3. /\ k \in DOMAIN b /\ b[k].color = c /\ b[k].type = "King"
      /\ o \in DOMAIN b /\ b[o].color = e /\ b[o].type = "King"
  BY <1>1, <1>2 DEF Kings
<1>4. k # o
  BY <1>0, <1>3
<1>5. PICK x \in DOMAIN b : b[x].color = e /\ Reaches(b, x, k)
  BY <1>1 DEF InCheck, IsSquareAttacked
<1>6. ASSUME Reaches(b, k, o) PROVE FALSE
  <2>1. InCheck(b, e)
    BY <1>0, <1>2, <1>3, <1>6 DEF InCheck, IsSquareAttacked
  <2> QED BY <2>1 DEF Sound, KingsSafeIn
<1>7. Far(o[1] - k[1], o[2] - k[2]) # 1
  BY <1>3, <1>6 DEF Reaches
<1>8. Far(o[1] - k[1], o[2] - k[2]) > 1
  BY <1>4, <1>7, FarIs
<1>9. PICK t \in Squares : /\ Straight(t[1] - k[1], t[2] - k[2]) /\ Far(t[1] - k[1], t[2] - k[2]) = 1
                           /\ Far(t[1] - o[1], t[2] - o[2]) > 1
  BY <1>8, StepAway
<1>10. IsLightSquare(t) <=> ~IsLightSquare(k)
  BY <1>9, Parity
<1>11. ASSUME NEW q \in DOMAIN b, b[q].type # "King", q = t \/ Aims(b[q].type, q, t) PROVE FALSE
  <2>1. q \in Squares /\ x \in Squares /\ (b[q].type = "Knight" \/ b[q].type = "Bishop")
    BY <1>0, <1>11 DEF IsBoard, Dead
  <2>2. b[x].type = "Knight" \/ b[x].type = "Bishop"
    <3>1. b[x].type # "King"
      <4>1. SUFFICES ASSUME b[x].type = "King" PROVE FALSE
        OBVIOUS
      <4>2. x = o
        BY <1>0, <1>2, <1>5, <4>1, KingAt
      <4>3. Far(k[1] - o[1], k[2] - o[2]) = 1
        BY <1>5, <4>1, <4>2, PieceReaches DEF Aims
      <4> QED BY <1>8, <4>3, FarIs
    <3> QED BY <3>1 DEF Dead
  <2>3. ASSUME b[x].type = "Knight" PROVE FALSE
    <3>1. q = x
      BY <1>5, <1>11, <2>1, <2>3 DEF Dead
    <3>2. {Abs(k[1] - x[1]), Abs(k[2] - x[2])} = {1, 2}
      BY <1>5, <2>3, PieceReaches DEF Aims
    <3>3. IsLightSquare(x) <=> ~IsLightSquare(k)
      BY <2>1, <3>2, Parity
    <3>4. ASSUME Aims(b[q].type, q, t) PROVE FALSE
      <4>1. {Abs(t[1] - x[1]), Abs(t[2] - x[2])} = {1, 2}
        BY <2>3, <3>1, <3>4 DEF Aims
      <4> QED BY <1>10, <2>1, <3>3, <4>1, Parity
    <3>5. q # t
      <4>1. SUFFICES ASSUME x = t PROVE FALSE
        BY <3>1
      <4>2. Far(k[1] - t[1], k[2] - t[2]) = 1
        BY <1>9, FarIs
      <4> QED BY <3>2, <4>1, <4>2, FarIs
    <3> QED BY <1>11, <3>4, <3>5
  <2>4. ASSUME b[x].type = "Bishop" PROVE FALSE
    <3>1. Diagonal(k[1] - x[1], k[2] - x[2])
      BY <1>5, <2>4, PieceReaches DEF Aims
    <3>2. IsLightSquare(x) <=> IsLightSquare(k)
      BY <2>1, <3>1, Parity
    <3>3. b[q].type = "Bishop"
      BY <1>5, <1>11, <2>1, <2>4 DEF Dead
    <3>4. IsLightSquare(q) <=> IsLightSquare(x)
      BY <1>5, <1>11, <2>4, <3>3 DEF Dead
    <3>5. ASSUME Aims(b[q].type, q, t) PROVE FALSE
      <4>1. Diagonal(t[1] - q[1], t[2] - q[2])
        BY <3>3, <3>5 DEF Aims
      <4>2. IsLightSquare(q) <=> IsLightSquare(t)
        BY <2>1, <4>1, Parity
      <4> QED BY <1>10, <3>2, <3>4, <4>2
    <3> QED BY <1>10, <1>11, <3>2, <3>4, <3>5
  <2> QED BY <2>2, <2>3, <2>4
<1>12. t \notin DOMAIN b
  <2>1. SUFFICES ASSUME t \in DOMAIN b PROVE FALSE
    OBVIOUS
  <2>2. b[t].type = "King"
    BY <1>11, <2>1
  <2>3. t = k \/ t = o
    <3>1. b[t].color = c \/ b[t].color = e
      BY <1>0, <2>1, PieceIs, Sides DEF IsBoard
    <3> QED BY <1>0, <1>1, <1>2, <2>1, <2>2, <3>1, KingAt
  <2>4. Far(t[1] - t[1], t[2] - t[2]) = 0
    BY FarIs
  <2> QED BY <1>9, <2>3, <2>4
<1> DEFINE m == Move(k, t, "None")
           n == BoardAfter(p, m)
<1>13. m.from = k /\ m.to = t /\ m.promotion = "None"
  BY DEF Move
<1>14. Reaches(b, k, t)
  BY <1>3, <1>9 DEF Reaches
<1>15. m \in PieceMoves(p, k)
  BY <1>12, <1>14 DEF PieceMoves
<1>16. m \in PseudoLegal(p)
  BY <1>3, <1>15 DEF PseudoLegal
<1> HIDE DEF m
<1>17. PieceMove(p, m)
  BY <1>3, <1>12, <1>13, <1>14 DEF PieceMove, Owns
<1>18. n = Moved(p, m) /\ Lifts(p, m)
  BY <1>17, PieceAfter, PieceLifts
<1>19. Kings(n, c) = {t} /\ Kings(n, e) = {o}
  BY <1>2, <1>3, <1>13, <1>18, KingsMoved
<1>20. IsBoard(n) /\ \A s \in DOMAIN n : s = t \/ (s \in DOMAIN b /\ n[s] = b[s])
  BY <1>13, <1>18, MovedIs
<1> HIDE DEF n
<1>21. ASSUME NEW q \in DOMAIN n, n[q].color = e, Reaches(n, q, t) PROVE FALSE
  <2>1. t \in DOMAIN n /\ n[t].color = c
    BY <1>19 DEF Kings
  <2>2. q \in DOMAIN b /\ n[q] = b[q]
    BY <1>0, <1>20, <1>21, <2>1
  <2>3. b[q].type = "King" \/ b[q].type = "Knight" \/ b[q].type = "Bishop"
    BY <2>2 DEF Dead
  <2>4. CASE b[q].type = "King"
    <3>1. q = o
      BY <1>0, <1>2, <1>21, <2>2, <2>4, KingAt
    <3>2. Far(t[1] - o[1], t[2] - o[2]) = 1
      BY <1>21, <2>2, <2>4, <3>1, PieceReaches DEF Aims
    <3> QED BY <1>9, <3>2
  <2>5. CASE b[q].type = "Knight" \/ b[q].type = "Bishop"
    <3>1. Aims(b[q].type, q, t)
      BY <1>21, <2>2, PieceReaches
    <3> QED BY <1>11, <2>2, <2>5, <3>1
  <2> QED BY <2>3, <2>4, <2>5
<1>22. ~InCheck(n, c)
  BY <1>19, <1>21 DEF InCheck, IsSquareAttacked
<1>23. MakeMoveRaw(p, m).board = n
  BY DEF MakeMoveRaw, n
<1> QED BY <1>16, <1>22, <1>23 DEF LegalMoves, Safe

\* A game that is dead by its material stays so, and is a draw or, if nobody can
\* move, stalemate: never a mate (hasInsufficientMaterial, position.cpp:430; status,
\* position.cpp:454).
THEOREM DeadGamesEnd == Spec => DeadIsFinal
<1>1. ASSUME Sound(Pos), HasInsufficientMaterial(board) PROVE WireStatus(Pos) \in {"draw", "stalemate"}
  <2>1. Pos.board = board /\ IsBoard(board)
    <3>1. Pos.board = board
      BY DEF Pos
    <3> QED BY <1>1, <3>1, BoardOf
  <2>2. Dead(Pos.board) /\ HasInsufficientMaterial(Pos.board)
    BY <1>1, <2>1, DeadIs
  <2> HIDE DEF Pos
  <2>3. InCheck(Pos.board, Pos.side) => LegalMoves(Pos) # {}
    BY <1>1, <2>2, DeadHasEscape
  <2>4. Status(Pos) \in {"draw", "stalemate"}
    BY <2>2, <2>3 DEF Status
  <2> QED BY <2>4 DEF WireStatus
<1>2. ASSUME Sound(Pos), HasInsufficientMaterial(board), [Next]_vars PROVE HasInsufficientMaterial(board')
  <2>1. CASE UNCHANGED vars
    BY <1>2, <2>1 DEF vars
  <2>2. ASSUME NEW m \in LegalMoves(Pos), Apply(m) PROVE HasInsufficientMaterial(board')
    <3>1. board' = BoardAfter(Pos, m)
      BY <2>2 DEF Apply, MakeMoveRaw
    <3>2. Pos.board = board
      BY DEF Pos
    <3> HIDE DEF Pos
    <3>3. m \in PseudoLegal(Pos) /\ Dead(Pos.board)
      BY <1>2, <3>2, BoardOf, DeadIs DEF LegalMoves
    <3>4. Dead(BoardAfter(Pos, m)) /\ IsBoard(BoardAfter(Pos, m))
      BY <1>2, <3>3, StaysDead, AllMade DEF Made
    <3> QED BY <3>1, <3>4, DeadIs
  <2> QED BY <1>2, <2>1, <2>2 DEF Next
<1>3. Sound(Pos) => (HasInsufficientMaterial(board) => WireStatus(Pos) \in {"draw", "stalemate"})
  BY <1>1
<1>4. Sound(Pos) /\ [Next]_vars => [HasInsufficientMaterial(board) => HasInsufficientMaterial(board')]_vars
  BY <1>2
<1> QED BY <1>3, <1>4, GamesSound, PTL DEF Spec, DeadIsFinal

-----------------------------------------------------------------------------
(* What the page takes a piece to attack.                                  *)

Dirs == RookDirs \cup BishopDirs

LEMMA DirsAre ==
  /\ \A d \in Dirs : d[1] \in {-1, 0, 1} /\ d[2] \in {-1, 0, 1}
  /\ \A d \in Dirs : d = <<d[1], d[2]>> /\ (d[1] # 0 \/ d[2] # 0)
  /\ \A i, j \in {-1, 0, 1} : /\ <<i, j>> \in RookDirs <=> (i = 0) # (j = 0)
                              /\ <<i, j>> \in BishopDirs <=> i # 0 /\ j # 0
BY DEF Dirs, RookDirs, BishopDirs

\* How far it is to a square k steps away, and in which direction.
LEMMA StepsAre ==
  ASSUME NEW i \in {-1, 0, 1}, NEW j \in {-1, 0, 1}, i # 0 \/ j # 0, NEW k \in Nat \ {0}
  PROVE  /\ Sign(k * i) = i /\ Sign(k * j) = j /\ Far(k * i, k * j) = k
         /\ Diagonal(k * i, k * j) <=> i # 0 /\ j # 0
         /\ Straight(k * i, k * j) <=> (i = 0) # (j = 0)
<1>1. /\ k * (-1) = -k /\ k * 0 = 0 /\ k * 1 = k
  OBVIOUS
<1>2. ASSUME NEW h \in {-1, 0, 1}
      PROVE  Sign(k * h) = h /\ Abs(k * h) = (IF h = 0 THEN 0 ELSE k) /\ (k * h = 0 <=> h = 0)
  BY <1>1 DEF Sign, Abs
<1>3. Far(k * i, k * j) = k
  BY <1>2 DEF Far
<1>4. Diagonal(k * i, k * j) <=> i # 0 /\ j # 0
  BY <1>2 DEF Diagonal
<1>5. Straight(k * i, k * j) <=> (i = 0) # (j = 0)
  BY <1>2 DEF Straight
<1> QED BY <1>2, <1>3, <1>4, <1>5

\* Whatever lies on a line is so many steps away in one direction.
LEMMA OnALine ==
  ASSUME NEW df \in -7 .. 7, NEW dr \in -7 .. 7, Diagonal(df, dr) \/ Straight(df, dr)
  PROVE  LET k == Far(df, dr)
         IN /\ k \in 1 .. 7 /\ Sign(df) \in {-1, 0, 1} /\ Sign(dr) \in {-1, 0, 1}
            /\ df = k * Sign(df) /\ dr = k * Sign(dr)
            /\ Diagonal(df, dr) <=> Sign(df) # 0 /\ Sign(dr) # 0
            /\ Straight(df, dr) <=> (Sign(df) = 0) # (Sign(dr) = 0)
<1> DEFINE k == Far(df, dr)
<1>1. /\ Abs(df) \in 0 .. 7 /\ Abs(dr) \in 0 .. 7
      /\ Sign(df) \in {-1, 0, 1} /\ Sign(dr) \in {-1, 0, 1}
      /\ (df = 0 <=> Sign(df) = 0) /\ (dr = 0 <=> Sign(dr) = 0)
      /\ (df = 0 <=> Abs(df) = 0) /\ (dr = 0 <=> Abs(dr) = 0)
  BY DEF Abs, Sign
<1>2. k \in 1 .. 7 /\ (df = 0 \/ Abs(df) = k) /\ (dr = 0 \/ Abs(dr) = k)
  BY <1>1 DEF Diagonal, Straight, Far
<1> HIDE DEF k
<1>3. ASSUME NEW v \in -7 .. 7, v = 0 \/ Abs(v) = k PROVE v = k * Sign(v)
  <2>1. CASE v = 0
    <3>1. Sign(v) = 0
      BY <2>1 DEF Sign
    <3> QED BY <1>2, <2>1, <3>1
  <2>2. CASE v > 0
    <3>1. Sign(v) = 1 /\ v = k
      BY <1>3, <2>2 DEF Sign, Abs
    <3> QED BY <1>2, <3>1
  <2>3. CASE v < 0
    <3>1. Sign(v) = -1 /\ v = -k
      BY <1>3, <2>3 DEF Sign, Abs
    <3>2. k * (-1) = -k
      BY <1>2
    <3> QED BY <3>1, <3>2
  <2> QED BY <2>1, <2>2, <2>3
<1>4. df = k * Sign(df) /\ dr = k * Sign(dr)
  BY <1>2, <1>3
<1>5. Straight(df, dr) <=> (Sign(df) = 0) # (Sign(dr) = 0)
  BY <1>1 DEF Straight
<1>6. Diagonal(df, dr) <=> Sign(df) # 0 /\ Sign(dr) # 0
  BY <1>1 DEF Diagonal, Straight
<1> QED BY <1>1, <1>2, <1>4, <1>5, <1>6 DEF k

\* A square that a slide comes to is one on a line, with nothing between; and the
\* other way round.
LEMMA SlideIs ==
  ASSUME NEW b, NEW s \in Squares, NEW q \in Squares, NEW dirs \in SUBSET Dirs
  PROVE  LET df == q[1] - s[1]
             dr == q[2] - s[2]
         IN q \in Slide(b, s, dirs) <=>
              /\ Diagonal(df, dr) \/ Straight(df, dr)
              /\ Clear(b, s, df, dr) /\ <<Sign(df), Sign(dr)>> \in dirs
<1> DEFINE df == q[1] - s[1]
           dr == q[2] - s[2]
           free(d, k) == \A j \in 1 .. k - 1 : Step(s, d, j) \notin DOMAIN b
<1>0. s[1] \in 0 .. 7 /\ s[2] \in 0 .. 7 /\ q[1] \in 0 .. 7 /\ q[2] \in 0 .. 7 /\ q = <<q[1], q[2]>>
  BY SquareIs
<1>1. q \in Slide(b, s, dirs) <=> \E d \in dirs : \E k \in 1 .. 7 : free(d, k) /\ q = Step(s, d, k)
  BY DEF Slide
<1>2. ASSUME NEW d \in dirs, NEW k \in 1 .. 7, free(d, k), q = Step(s, d, k)
      PROVE  /\ Diagonal(df, dr) \/ Straight(df, dr)
             /\ Clear(b, s, df, dr) /\ <<Sign(df), Sign(dr)>> \in dirs
  <2>1. /\ d = <<d[1], d[2]>> /\ d[1] \in {-1, 0, 1} /\ d[2] \in {-1, 0, 1}
        /\ d[1] # 0 \/ d[2] # 0
    BY DirsAre
  <2>2. q[1] = s[1] + k * d[1] /\ q[2] = s[2] + k * d[2]
    BY <1>2 DEF Step
  <2>3. k * d[1] \in Int /\ k * d[2] \in Int
    BY <2>1
  <2>4. df = k * d[1] /\ dr = k * d[2]
    BY <1>0, <2>2, <2>3
  <2>5. /\ Sign(df) = d[1] /\ Sign(dr) = d[2] /\ Far(df, dr) = k
        /\ Diagonal(df, dr) \/ Straight(df, dr)
    <3> HIDE DEF df, dr
    <3> QED BY <2>1, <2>4, StepsAre
  <2>6. Clear(b, s, df, dr)
    <3> HIDE DEF df, dr
    <3> QED BY <1>2, <2>5 DEF Clear, Step
  <2> QED BY <2>1, <2>5, <2>6
<1>3. ASSUME Diagonal(df, dr) \/ Straight(df, dr), Clear(b, s, df, dr), <<Sign(df), Sign(dr)>> \in dirs
      PROVE  \E d \in dirs : \E k \in 1 .. 7 : free(d, k) /\ q = Step(s, d, k)
  <2> DEFINE k == Far(df, dr)
             d == <<Sign(df), Sign(dr)>>
  <2>1. df \in -7 .. 7 /\ dr \in -7 .. 7
    BY <1>0
  <2>2. k \in 1 .. 7 /\ df = k * Sign(df) /\ dr = k * Sign(dr)
    <3> HIDE DEF df, dr
    <3> QED BY <1>3, <2>1, OnALine
  <2>3. free(d, k)
    <3> HIDE DEF df, dr
    <3> QED BY <1>3 DEF Clear, Step
  <2>4. q[1] = s[1] + k * Sign(df) /\ q[2] = s[2] + k * Sign(dr)
    <3>1. q[1] = s[1] + df /\ q[2] = s[2] + dr
      BY <1>0
    <3> HIDE DEF df, dr, k
    <3> QED BY <2>2, <3>1
  <2>5. q = Step(s, d, k)
    <3> HIDE DEF df, dr, k
    <3> QED BY <1>0, <2>4 DEF Step
  <2> HIDE DEF free, d, k
  <2> QED BY <1>3, <2>2, <2>3, <2>5 DEF d
<1> HIDE DEF free
<1> QED BY <1>1, <1>2, <1>3

LEMMA LeapIs ==
  ASSUME NEW s \in Squares, NEW q \in Squares, NEW offs,
         \A d \in offs : d = <<d[1], d[2]>> /\ d[1] \in Int /\ d[2] \in Int
  PROVE  q \in Leap(s, offs) <=> <<q[1] - s[1], q[2] - s[2]>> \in offs
<1>1. s[1] \in 0 .. 7 /\ s[2] \in 0 .. 7 /\ q[1] \in 0 .. 7 /\ q[2] \in 0 .. 7 /\ q = <<q[1], q[2]>>
  BY SquareIs
<1> DEFINE e == <<q[1] - s[1], q[2] - s[2]>>
<1>2. s[1] + 1 * e[1] = q[1] /\ s[2] + 1 * e[2] = q[2]
  BY <1>1
<1>3. q = Step(s, e, 1)
  BY <1>1, <1>2 DEF Step
<1>4. ASSUME NEW d \in offs, q = Step(s, d, 1) PROVE d = e
  <2>1. q[1] = s[1] + 1 * d[1] /\ q[2] = s[2] + 1 * d[2]
    BY <1>4 DEF Step
  <2>2. d[1] = q[1] - s[1] /\ d[2] = q[2] - s[2]
    BY <1>1, <2>1
  <2> QED BY <2>2
<1> HIDE DEF e
<1>5. q \in Leap(s, offs) <=> e \in offs
  BY <1>3, <1>4 DEF Leap
<1> QED BY <1>5 DEF e

\* By type of piece: where a step may go, and where a slide.
LEMMA KnightOffs ==
  ASSUME NEW i \in -7 .. 7, NEW j \in -7 .. 7
  PROVE  <<i, j>> \in KnightOff <=> {Abs(i), Abs(j)} = {1, 2}
<1>1. <<i, j>> \in KnightOff <=> i \in -2 .. 2 /\ j \in -2 .. 2 /\ {Abs(i), Abs(j)} = {1, 2}
  BY DEF KnightOff
<1>2. ASSUME {Abs(i), Abs(j)} = {1, 2} PROVE i \in -2 .. 2 /\ j \in -2 .. 2
  <2>1. Abs(i) \in {1, 2} /\ Abs(j) \in {1, 2}
    BY <1>2
  <2> QED BY <2>1 DEF Abs
<1> QED BY <1>1, <1>2

LEMMA KingOffs ==
  ASSUME NEW i \in -7 .. 7, NEW j \in -7 .. 7
  PROVE  <<i, j>> \in Dirs <=> Far(i, j) = 1
<1>1. <<i, j>> \in Dirs <=> i \in {-1, 0, 1} /\ j \in {-1, 0, 1} /\ (i # 0 \/ j # 0)
  <2>1. <<i, j>> \in Dirs => i \in {-1, 0, 1} /\ j \in {-1, 0, 1} /\ (i # 0 \/ j # 0)
    BY DirsAre
  <2>2. i \in {-1, 0, 1} /\ j \in {-1, 0, 1} /\ (i # 0 \/ j # 0) => <<i, j>> \in Dirs
    BY DirsAre DEF Dirs
  <2> QED BY <2>1, <2>2
<1>2. /\ Abs(i) \in Nat /\ Abs(j) \in Nat
      /\ (Abs(i) = 0 <=> i = 0) /\ (Abs(j) = 0 <=> j = 0)
      /\ (Abs(i) = 1 <=> i \in {-1, 1}) /\ (Abs(j) = 1 <=> j \in {-1, 1})
  BY DEF Abs
<1>3. Far(i, j) = 1 <=> Abs(i) \in {0, 1} /\ Abs(j) \in {0, 1} /\ (Abs(i) = 1 \/ Abs(j) = 1)
  BY <1>2 DEF Far
<1> QED BY <1>1, <1>2, <1>3

LEMMA PawnOffs ==
  ASSUME NEW c \in Colors, NEW i \in -7 .. 7, NEW j \in -7 .. 7
  PROVE  <<i, j>> \in PawnOff(c) <=> j = Dir(c) /\ Abs(i) = 1
<1>1. Abs(i) = 1 <=> i = -1 \/ i = 1
  BY DEF Abs
<1>2. <<i, j>> \in PawnOff(c) <=> (i = -1 \/ i = 1) /\ j = Dir(c)
  BY DEF PawnOff
<1> QED BY <1>1, <1>2

LEMMA OffsAre ==
  /\ \A c \in Colors : \A d \in PawnOff(c) : d = <<d[1], d[2]>> /\ d[1] \in Int /\ d[2] \in Int
  /\ \A d \in KnightOff \cup Dirs : d = <<d[1], d[2]>> /\ d[1] \in Int /\ d[2] \in Int
<1>1. \A c \in Colors : \A d \in PawnOff(c) : d = <<d[1], d[2]>> /\ d[1] \in Int /\ d[2] \in Int
  BY DEF PawnOff, Dir
<1>2. \A d \in KnightOff : d = <<d[1], d[2]>> /\ d[1] \in Int /\ d[2] \in Int
  BY DEF KnightOff
<1> QED BY <1>1, <1>2, DirsAre

LEMMA LineOffs ==
  ASSUME NEW i \in -7 .. 7, NEW j \in -7 .. 7, Diagonal(i, j) \/ Straight(i, j)
  PROVE  /\ <<Sign(i), Sign(j)>> \in BishopDirs <=> Diagonal(i, j)
         /\ <<Sign(i), Sign(j)>> \in RookDirs <=> Straight(i, j)
BY OnALine, DirsAre

\* The page's own rules and the host's agree on every piece of every board.
LEMMA AttacksAre ==
  ASSUME NEW b, IsBoard(b), NEW s \in DOMAIN b
  PROVE  AttacksFrom(b, s) = {q \in Squares : Reaches(b, s, q)}
<1> DEFINE kind == b[s].type
           c    == b[s].color
<1>0. s \in Squares /\ c \in Colors /\ kind \in Kinds
  BY PieceIs DEF IsBoard
<1>1. \A q \in AttacksFrom(b, s) : q \in Squares
  BY <1>0 DEF AttacksFrom, Leap, Slide, Kinds
<1>2. ASSUME NEW q \in Squares PROVE q \in AttacksFrom(b, s) <=> Reaches(b, s, q)
  <2> DEFINE df == q[1] - s[1]
             dr == q[2] - s[2]
  <2>0. df \in -7 .. 7 /\ dr \in -7 .. 7
    BY <1>0, Coordinates
  <2>1. CASE kind = "Pawn"
    <3>1. q \in Leap(s, PawnOff(c)) <=> <<df, dr>> \in PawnOff(c)
      BY <1>0, OffsAre, LeapIs
    <3>2. Reaches(b, s, q) <=> dr = Dir(c) /\ Abs(df) = 1
      BY <2>1 DEF Reaches
    <3>3. AttacksFrom(b, s) = Leap(s, PawnOff(c))
      BY <2>1 DEF AttacksFrom
    <3> HIDE DEF df, dr
    <3> QED BY <1>0, <2>0, <3>1, <3>2, <3>3, PawnOffs
  <2>2. CASE kind = "Knight"
    <3>1. q \in Leap(s, KnightOff) <=> <<df, dr>> \in KnightOff
      BY <1>0, OffsAre, LeapIs
    <3>2. Reaches(b, s, q) <=> {Abs(df), Abs(dr)} = {1, 2}
      BY <2>2 DEF Reaches
    <3>3. AttacksFrom(b, s) = Leap(s, KnightOff)
      BY <2>2 DEF AttacksFrom
    <3> HIDE DEF df, dr
    <3> QED BY <2>0, <3>1, <3>2, <3>3, KnightOffs
  <2>3. CASE kind = "King"
    <3>1. q \in Leap(s, Dirs) <=> <<df, dr>> \in Dirs
      BY <1>0, OffsAre, LeapIs
    <3>2. Reaches(b, s, q) <=> Far(df, dr) = 1
      BY <2>3 DEF Reaches
    <3>3. AttacksFrom(b, s) = Leap(s, Dirs)
      BY <2>3 DEF AttacksFrom, Dirs
    <3> HIDE DEF df, dr
    <3> QED BY <2>0, <3>1, <3>2, <3>3, KingOffs
  <2>4. ASSUME NEW dirs \in SUBSET Dirs
        PROVE  q \in Slide(b, s, dirs) <=>
                 /\ Diagonal(df, dr) \/ Straight(df, dr)
                 /\ Clear(b, s, df, dr) /\ <<Sign(df), Sign(dr)>> \in dirs
    BY <1>0, SlideIs
  <2>5. CASE kind = "Bishop"
    <3>1. Reaches(b, s, q) <=> Diagonal(df, dr) /\ Clear(b, s, df, dr)
      BY <2>5 DEF Reaches
    <3>2. AttacksFrom(b, s) = Slide(b, s, BishopDirs)
      BY <2>5 DEF AttacksFrom
    <3>3. BishopDirs \in SUBSET Dirs
      BY DEF Dirs
    <3> HIDE DEF df, dr
    <3> QED BY <2>0, <2>4, <3>1, <3>2, <3>3, LineOffs
  <2>6. CASE kind = "Rook"
    <3>1. Reaches(b, s, q) <=> Straight(df, dr) /\ Clear(b, s, df, dr)
      BY <2>6 DEF Reaches
    <3>2. AttacksFrom(b, s) = Slide(b, s, RookDirs)
      BY <2>6 DEF AttacksFrom
    <3>3. RookDirs \in SUBSET Dirs
      BY DEF Dirs
    <3> HIDE DEF df, dr
    <3> QED BY <2>0, <2>4, <3>1, <3>2, <3>3, LineOffs
  <2>7. CASE kind = "Queen"
    <3>1. Reaches(b, s, q) <=> (Diagonal(df, dr) \/ Straight(df, dr)) /\ Clear(b, s, df, dr)
      BY <2>7 DEF Reaches
    <3>2. AttacksFrom(b, s) = Slide(b, s, Dirs)
      BY <2>7 DEF AttacksFrom, Dirs
    <3>3. Dirs \in SUBSET Dirs /\ Dirs = RookDirs \cup BishopDirs
      BY DEF Dirs
    <3> HIDE DEF df, dr
    <3> QED BY <2>0, <2>4, <3>1, <3>2, <3>3, LineOffs
  <2> QED BY <1>0, <2>1, <2>2, <2>3, <2>5, <2>6, <2>7 DEF Kinds
<1> QED BY <1>1, <1>2

-----------------------------------------------------------------------------
(* The placement, written and walked.                                      *)

Token == {Piece(x) : x \in Pieces} \cup {Gap(n) : n \in Nat} \cup {Slash}
Boards == UNION {[D -> Pieces] : D \in SUBSET Squares}
At == [rank : Int, file : Int, ok : BOOLEAN, board : Boards]
Start == [rank |-> 7, file |-> 0, ok |-> TRUE, board |-> <<>>]

LEMMA BoardsAre == \A b : b \in Boards <=> IsBoard(b)
BY DEF Boards, IsBoard

LEMMA TokensAre ==
  /\ \A x \in Pieces : Piece(x) \in Token /\ Piece(x).kind = "piece" /\ Piece(x).piece = x
  /\ \A n \in Nat : Gap(n) \in Token /\ Gap(n).kind = "gap" /\ Gap(n).run = n
  /\ Slash \in Token /\ Slash.kind = "slash"
  /\ \A t \in Token : \/ \E x \in Pieces : t = Piece(x)
                      \/ \E n \in Nat : t = Gap(n)
                      \/ t = Slash
BY DEF Token, Piece, Gap, Slash

LEMMA StartIs == Start \in At
<1>1. <<>> \in [{} -> Pieces]
  OBVIOUS
<1>2. <<>> \in Boards
  BY <1>1 DEF Boards
<1> QED BY <1>2 DEF At, Start

LEMMA AtIs ==
  /\ \A r, f \in Int, k \in BOOLEAN, b \in Boards : [rank |-> r, file |-> f, ok |-> k, board |-> b] \in At
  /\ \A at \in At : /\ at.rank \in Int /\ at.file \in Int /\ at.ok \in BOOLEAN /\ IsBoard(at.board)
                    /\ at = [rank |-> at.rank, file |-> at.file, ok |-> at.ok, board |-> at.board]
BY BoardsAre DEF At

LEMMA Shifted ==
  ASSUME NEW at \in At, NEW f
  PROVE  [at EXCEPT !.file = f] = [rank |-> at.rank, file |-> f, ok |-> at.ok, board |-> at.board]
<1> DEFINE u == at.rank
           v == at.file
           w == at.ok
           x == at.board
<1>1. at = [rank |-> u, file |-> v, ok |-> w, board |-> x]
  BY AtIs
<1> HIDE DEF u, v, w, x
<1>2. [at EXCEPT !.file = f] = [rank |-> u, file |-> f, ok |-> w, board |-> x]
  BY <1>1
<1> QED BY <1>2 DEF u, v, w, x

LEMMA WalkStepIs ==
  ASSUME NEW at \in At
  PROVE  /\ WalkStep(at, Slash) = [rank |-> at.rank - 1, file |-> 0, ok |-> at.ok /\ at.file = 8,
                                   board |-> at.board]
         /\ \A n \in Nat : WalkStep(at, Gap(n)) = [rank |-> at.rank, file |-> at.file + n, ok |-> at.ok,
                                                   board |-> at.board]
         /\ \A x \in Pieces : WalkStep(at, Piece(x)) = Put(at, x)
<1>1. WalkStep(at, Slash) = [rank |-> at.rank - 1, file |-> 0, ok |-> at.ok /\ at.file = 8,
                             board |-> at.board]
  BY TokensAre DEF WalkStep
<1>2. ASSUME NEW n \in Nat PROVE WalkStep(at, Gap(n)) = [at EXCEPT !.file = @ + n]
  BY TokensAre DEF WalkStep
<1>3. ASSUME NEW x \in Pieces PROVE WalkStep(at, Piece(x)) = Put(at, x)
  BY TokensAre DEF WalkStep
<1>4. ASSUME NEW n \in Nat
      PROVE  [at EXCEPT !.file = @ + n]
               = [rank |-> at.rank, file |-> at.file + n, ok |-> at.ok, board |-> at.board]
  BY Shifted
<1> QED BY <1>1, <1>2, <1>3, <1>4

\* A board with a piece more.
With(b, s, x) == [q \in DOMAIN b \cup {s} |-> IF q = s THEN x ELSE b[q]]

LEMMA PutIs ==
  ASSUME NEW at \in At, NEW x \in Pieces
  PROVE  LET s == <<at.file, at.rank>>
         IN /\ Put(at, x) \in At
            /\ at.ok /\ s \in Squares =>
                 Put(at, x) = [rank |-> at.rank, file |-> at.file + 1, ok |-> TRUE,
                               board |-> With(at.board, s, x)]
<1> DEFINE s == <<at.file, at.rank>>
           placed == With(at.board, s, x)
           after == IF s \in Squares THEN placed ELSE at.board
           fine == at.ok /\ s \in Squares
<1>1. IsBoard(at.board) /\ at.rank \in Int /\ at.file \in Int
  BY AtIs
<1>2. s \in Squares => IsBoard(placed)
  BY <1>1 DEF IsBoard, With
<1>3. after \in Boards
  BY <1>1, <1>2, BoardsAre
<1>4. Put(at, x) = [rank |-> at.rank, file |-> at.file + 1, ok |-> fine, board |-> after]
  BY DEF Put, With
<1>5. fine \in BOOLEAN
  OBVIOUS
<1> HIDE DEF after, fine
<1>7. Put(at, x) \in At
  <2>1. at.file + 1 \in Int
    BY <1>1
  <2> QED BY <1>1, <1>3, <1>4, <1>5, <2>1, AtIs
<1>8. ASSUME at.ok, s \in Squares
      PROVE  Put(at, x) = [rank |-> at.rank, file |-> at.file + 1, ok |-> TRUE, board |-> placed]
  <2>1. fine = TRUE
    BY <1>8 DEF fine
  <2>2. after = placed
    BY <1>8 DEF after
  <2> HIDE DEF placed
  <2> QED BY <1>4, <2>1, <2>2
<1> QED BY <1>7, <1>8

LEMMA WalkStepTyped ==
  ASSUME NEW at \in At, NEW t \in Token
  PROVE  WalkStep(at, t) \in At
<1>0. at.rank \in Int /\ at.file \in Int /\ at.ok \in BOOLEAN /\ at.board \in Boards
  BY AtIs, BoardsAre
<1>1. CASE t = Slash
  <2> DEFINE fine == at.ok /\ at.file = 8
             up == at.rank - 1
  <2>1. fine \in BOOLEAN /\ up \in Int /\ 0 \in Int
    BY <1>0
  <2>2. WalkStep(at, t) = [rank |-> up, file |-> 0, ok |-> fine, board |-> at.board]
    BY <1>1, WalkStepIs
  <2> HIDE DEF fine, up
  <2> QED BY <1>0, <2>1, <2>2, AtIs
<1>2. ASSUME NEW n \in Nat, t = Gap(n) PROVE WalkStep(at, t) \in At
  <2>1. at.file + n \in Int
    BY <1>0
  <2> QED BY <1>0, <1>2, <2>1, WalkStepIs, AtIs
<1>3. ASSUME NEW x \in Pieces, t = Piece(x) PROVE WalkStep(at, t) \in At
  <2>1. Put(at, x) \in At
    BY PutIs
  <2> QED BY <1>3, <2>1, WalkStepIs
<1> QED BY <1>1, <1>2, <1>3, TokensAre

\* The states of a walk over fen.
Walked(a, fen) == /\ a \in [0 .. Len(fen) -> At]
                  /\ a[0] = Start
                  /\ \A n \in 1 .. Len(fen) : a[n] = WalkStep(a[n - 1], fen[n])

LEMMA WalkIs ==
  ASSUME NEW fen \in Seq(Token)
  PROVE  \E a : Walked(a, fen) /\ Walk(fen) = a[Len(fen)]
<1> DEFINE N == Len(fen)
           step == [n \in 1 .. N |-> [at \in At |-> WalkStep(at, fen[n])]]
           Rule(a) == [n \in 0 .. N |-> IF n = 0 THEN Start ELSE WalkStep(a[n - 1], fen[n])]
           c == CHOOSE a : a = Rule(a)
<1>1. N \in Nat /\ \A n \in 1 .. N : fen[n] \in Token
  OBVIOUS
<1>2. step \in [1 .. N -> [At -> At]]
  BY <1>1, WalkStepTyped
<1>3. \A n \in 1 .. N, at \in At : step[n][at] = WalkStep(at, fen[n])
  OBVIOUS
<1> HIDE DEF step
<1>4. PICK a \in [0 .. N -> At] : Follows(a, Start, step, N)
  BY <1>1, <1>2, StartIs, Iterated
<1>5. ASSUME NEW n \in 0 .. N PROVE a[n] = IF n = 0 THEN Start ELSE WalkStep(a[n - 1], fen[n])
  <2>1. CASE n = 0
    BY <2>1, <1>4 DEF Follows
  <2>2. CASE n # 0
    <3>1. n \in 1 .. N /\ n - 1 \in 0 .. N
      BY <2>2, <1>1
    <3>2. a[n - 1] \in At
      BY <3>1
    <3> QED BY <2>2, <3>1, <3>2, <1>4, <1>3 DEF Follows
  <2> QED BY <2>1, <2>2
<1>6. a = Rule(a)
  BY <1>5
<1>7. c = Rule(c)
  BY <1>6
<1>8. Walk(fen) = c[N]
  BY DEF Walk, Start
<1> HIDE DEF c
<1>9. c[0] = Start /\ \A n \in 1 .. N : c[n] = WalkStep(c[n - 1], fen[n])
  <2>1. \A n \in 0 .. N : c[n] = IF n = 0 THEN Start ELSE WalkStep(c[n - 1], fen[n])
    BY <1>7
  <2>2. 0 \in 0 .. N /\ \A n \in 1 .. N : n \in 0 .. N /\ n # 0
    BY <1>1
  <2> HIDE DEF N, Rule
  <2> QED BY <2>1, <2>2
<1>10. \A n \in 0 .. N : c[n] \in At
  <2> DEFINE K == {n \in Nat : n <= N => c[n] \in At}
  <2>1. 0 \in K
    BY <1>9, StartIs
  <2>2. ASSUME NEW n \in Nat, n \in K PROVE n + 1 \in K
    <3>0. SUFFICES ASSUME n + 1 <= N PROVE c[n + 1] \in At
      OBVIOUS
    <3>1. n + 1 \in 1 .. N /\ (n + 1) - 1 = n /\ c[n] \in At
      BY <1>1, <2>2, <3>0
    <3>2. c[n + 1] = WalkStep(c[n], fen[n + 1])
      BY <1>9, <3>1
    <3>3. fen[n + 1] \in Token
      BY <1>1, <3>1
    <3> QED BY <3>1, <3>2, <3>3, WalkStepTyped
  <2> HIDE DEF K
  <2>3. Nat \subseteq K
    BY <2>1, <2>2, SetInduction
  <2>4. ASSUME NEW n \in 0 .. N PROVE c[n] \in At
    <3>1. n \in Nat /\ n <= N /\ n \in K
      BY <1>1, <2>3
    <3> QED BY <3>1 DEF K
  <2> QED BY <2>4
<1>11. c \in [0 .. N -> At]
  <2>1. c = [n \in 0 .. N |-> c[n]]
    BY <1>7
  <2> QED BY <2>1, <1>10
<1> QED BY <1>8, <1>9, <1>11 DEF Walked

LEMMA WalkedSame ==
  ASSUME NEW fen \in Seq(Token), NEW more \in Seq(Token), Len(fen) <= Len(more),
         \A n \in 1 .. Len(fen) : more[n] = fen[n],
         NEW a, Walked(a, fen), NEW c, Walked(c, more)
  PROVE  a[Len(fen)] = c[Len(fen)]
<1> DEFINE N == Len(fen)
           K == {n \in Nat : n <= N => a[n] = c[n]}
<1>0. N \in Nat /\ Len(more) \in Nat
  OBVIOUS
<1>1. 0 \in K
  BY DEF Walked
<1>2. ASSUME NEW n \in Nat, n \in K PROVE n + 1 \in K
  <2>1. CASE n + 1 <= N
    <3>1. /\ n + 1 \in 1 .. N /\ n + 1 \in 1 .. Len(more) /\ (n + 1) - 1 = n
          /\ a[n] = c[n] /\ more[n + 1] = fen[n + 1]
      BY <1>0, <1>2, <2>1
    <3>2. a[n + 1] = WalkStep(a[n], fen[n + 1]) /\ c[n + 1] = WalkStep(c[n], more[n + 1])
      BY <3>1 DEF Walked
    <3> QED BY <3>1, <3>2
  <2> QED BY <2>1
<1> HIDE DEF K
<1>3. N \in K
  BY <1>0, <1>1, <1>2, SetInduction
<1> QED BY <1>3 DEF K

\* Walking one token more.
LEMMA WalkOn ==
  /\ Walk(<<>>) = Start
  /\ \A fen \in Seq(Token), t \in Token : /\ Walk(fen) \in At
                                          /\ Append(fen, t) \in Seq(Token)
                                          /\ Walk(Append(fen, t)) = WalkStep(Walk(fen), t)
<1>1. Walk(<<>>) = Start
  <2>1. <<>> \in Seq(Token) /\ Len(<<>>) = 0
    OBVIOUS
  <2>2. PICK a : Walked(a, <<>>) /\ Walk(<<>>) = a[Len(<<>>)]
    BY <2>1, WalkIs
  <2> QED BY <2>1, <2>2 DEF Walked
<1>2. ASSUME NEW fen \in Seq(Token), NEW t \in Token
      PROVE  /\ Walk(fen) \in At
             /\ Append(fen, t) \in Seq(Token)
             /\ Walk(Append(fen, t)) = WalkStep(Walk(fen), t)
  <2> DEFINE more == Append(fen, t)
             N == Len(fen)
  <2>1. /\ more \in Seq(Token) /\ N \in Nat /\ Len(more) = N + 1 /\ more[N + 1] = t
        /\ \A n \in 1 .. N : more[n] = fen[n]
    OBVIOUS
  <2>2. PICK a : Walked(a, fen) /\ Walk(fen) = a[N]
    BY WalkIs
  <2>3. PICK c : Walked(c, more) /\ Walk(more) = c[Len(more)]
    BY <2>1, WalkIs
  <2> HIDE DEF more
  <2>4. a[N] \in At
    BY <2>1, <2>2 DEF Walked
  <2>5. a[N] = c[N]
    <3>1. Len(fen) <= Len(more) /\ \A n \in 1 .. Len(fen) : more[n] = fen[n]
      BY <2>1
    <3> QED BY <2>1, <2>2, <2>3, <3>1, WalkedSame
  <2>6. c[N + 1] = WalkStep(c[N], t)
    <3>1. N + 1 \in 1 .. Len(more) /\ (N + 1) - 1 = N
      BY <2>1
    <3> QED BY <2>1, <2>3, <3>1 DEF Walked
  <2>7. Walk(more) = WalkStep(Walk(fen), t)
    BY <2>1, <2>2, <2>3, <2>5, <2>6
  <2> QED BY <2>1, <2>2, <2>4, <2>7 DEF more
<1> QED BY <1>1, <1>2

-----------------------------------------------------------------------------
(* A rank of the placement: what the walk has put down after each file.    *)

Row == [out : Seq(Token), empties : Nat]
Spot(r, f, b) == [rank |-> r, file |-> f, ok |-> TRUE, board |-> b]

\* The ranks above r, and n files of r.
Part(b, r, n) == [q \in {q \in DOMAIN b : q[2] > r \/ (q[2] = r /\ q[1] < n)} |-> b[q]]

LEMMA Longer ==
  ASSUME NEW x \in Seq(Token), NEW o \in Seq(Token), NEW t \in Token
  PROVE  /\ x \o o \in Seq(Token)
         /\ Append(o, t) \in Seq(Token)
         /\ x \o Append(o, t) = Append(x \o o, t)
<1> DEFINE a == x \o Append(o, t)
           c == Append(x \o o, t)
<1>1. /\ x \o o \in Seq(Token) /\ Append(o, t) \in Seq(Token)
      /\ a \in Seq(Token) /\ c \in Seq(Token)
  OBVIOUS
<1>2. Len(a) = Len(c)
  OBVIOUS
<1>3. \A i \in 1 .. Len(a) : a[i] = c[i]
  OBVIOUS
<1> HIDE DEF a, c
<1>4. a = c
  BY <1>1, <1>2, <1>3, SeqEqual
<1> QED BY <1>1, <1>4 DEF a, c

LEMMA PartIs ==
  ASSUME NEW b, IsBoard(b), NEW r \in 0 .. 7, NEW n \in 0 .. 7
  PROVE  /\ IsBoard(Part(b, r, n))
         /\ <<n, r>> \notin DOMAIN b => Part(b, r, n + 1) = Part(b, r, n)
         /\ <<n, r>> \in DOMAIN b =>
              Part(b, r, n + 1) = With(Part(b, r, n), <<n, r>>, b[<<n, r>>])
<1> DEFINE s == <<n, r>>
           D(k) == {q \in DOMAIN b : q[2] > r \/ (q[2] = r /\ q[1] < k)}
<1>0. \A q \in DOMAIN b : q[1] \in 0 .. 7 /\ q[2] \in 0 .. 7 /\ q = <<q[1], q[2]>>
  BY SquareIs DEF IsBoard
<1>1. IsBoard(Part(b, r, n))
  BY DEF Part, IsBoard
<1>2. \A q \in DOMAIN b : q \in D(n + 1) <=> q \in D(n) \/ q = s
  <2>1. ASSUME NEW q \in DOMAIN b PROVE q \in D(n + 1) <=> q \in D(n) \/ q = s
    <3>1. q = s <=> q[1] = n /\ q[2] = r
      BY <1>0
    <3> QED BY <1>0, <3>1
  <2> QED BY <2>1
<1>3. CASE s \notin DOMAIN b
  <2>1. D(n + 1) = D(n)
    BY <1>2, <1>3
  <2> QED BY <1>1, <1>3, <2>1 DEF Part
<1>4. CASE s \in DOMAIN b
  <2>1. D(n + 1) = D(n) \cup {s}
    BY <1>2, <1>4
  <2>2. s \notin D(n)
    OBVIOUS
  <2>3. Part(b, r, n + 1) = [q \in D(n) \cup {s} |-> b[q]] /\ Part(b, r, n) = [q \in D(n) |-> b[q]]
    BY <2>1 DEF Part
  <2> HIDE DEF D, s
  <2>4. [q \in D(n) \cup {s} |-> b[q]]
          = [q \in D(n) \cup {s} |-> IF q = s THEN b[s] ELSE [z \in D(n) |-> b[z]][q]]
    BY <2>2
  <2>5. With([q \in D(n) |-> b[q]], s, b[s])
          = [q \in D(n) \cup {s} |-> IF q = s THEN b[s] ELSE [z \in D(n) |-> b[z]][q]]
    BY DEF With
  <2>6. Part(b, r, n + 1) = With(Part(b, r, n), s, b[s])
    BY <2>3, <2>4, <2>5
  <2> QED BY <1>1, <1>4, <2>6 DEF s
<1> QED BY <1>3, <1>4

LEMMA PartJoins ==
  ASSUME NEW b, IsBoard(b)
  PROVE  /\ Part(b, 7, 0) = <<>>
         /\ \A r \in 1 .. 7 : Part(b, r, 8) = Part(b, r - 1, 0)
         /\ Part(b, 0, 8) = b
<1>0. \A q \in DOMAIN b : q[1] \in 0 .. 7 /\ q[2] \in 0 .. 7
  BY Coordinates DEF IsBoard
<1>1. Part(b, 7, 0) = <<>>
  <2>1. {q \in DOMAIN b : q[2] > 7 \/ (q[2] = 7 /\ q[1] < 0)} = {}
    BY <1>0
  <2>2. DOMAIN Part(b, 7, 0) = {}
    BY <2>1 DEF Part
  <2>3. Part(b, 7, 0) = [q \in {} |-> b[q]]
    BY <2>1 DEF Part
  <2> QED BY <2>3
<1>2. ASSUME NEW r \in 1 .. 7 PROVE Part(b, r, 8) = Part(b, r - 1, 0)
  <2>1. {q \in DOMAIN b : q[2] > r \/ (q[2] = r /\ q[1] < 8)}
          = {q \in DOMAIN b : q[2] > r - 1 \/ (q[2] = r - 1 /\ q[1] < 0)}
    BY <1>0
  <2> QED BY <2>1 DEF Part
<1>3. Part(b, 0, 8) = b
  <2>1. {q \in DOMAIN b : q[2] > 0 \/ (q[2] = 0 /\ q[1] < 8)} = DOMAIN b
    BY <1>0
  <2>2. Part(b, 0, 8) = [q \in DOMAIN b |-> b[q]]
    BY <2>1 DEF Part
  <2> QED BY <2>2 DEF IsBoard
<1> QED BY <1>1, <1>2, <1>3

LEMMA RowIs ==
  /\ \A o \in Seq(Token), e \in Nat : /\ [out |-> o, empties |-> e] \in Row
                                      /\ [out |-> o, empties |-> e].out = o
                                      /\ [out |-> o, empties |-> e].empties = e
  /\ \A row \in Row : row.out \in Seq(Token) /\ row.empties \in Nat
  /\ \A row \in Row : [row EXCEPT !.empties = @ + 1] = [out |-> row.out, empties |-> row.empties + 1]
<1>1. ASSUME NEW row \in Row
      PROVE  [row EXCEPT !.empties = @ + 1] = [out |-> row.out, empties |-> row.empties + 1]
  <2> DEFINE u == row.out
             v == row.empties
  <2>1. row = [out |-> u, empties |-> v]
    BY DEF Row
  <2> HIDE DEF u, v
  <2>2. [row EXCEPT !.empties = v + 1] = [out |-> u, empties |-> v + 1]
    BY <2>1
  <2> QED BY <2>2 DEF u, v
<1>2. \A o \in Seq(Token), e \in Nat : /\ [out |-> o, empties |-> e] \in Row
                                       /\ [out |-> o, empties |-> e].out = o
                                       /\ [out |-> o, empties |-> e].empties = e
  BY DEF Row
<1>3. \A row \in Row : row.out \in Seq(Token) /\ row.empties \in Nat
  BY DEF Row
<1> QED BY <1>1, <1>2, <1>3

\* A run of empty squares is written before the next piece, or at the end.
LEMMA FlushedIs ==
  ASSUME NEW x \in Seq(Token), NEW row \in Row, NEW r \in Int, NEW n \in Nat, NEW b \in Boards,
         Walk(x \o row.out) = Spot(r, n - row.empties, b)
  PROVE  Walk(x \o Flushed(row)) = Spot(r, n, b)
<1> DEFINE o == row.out
           e == row.empties
<1>0. o \in Seq(Token) /\ e \in Nat
  BY RowIs
<1> HIDE DEF o, e
<1>1. CASE e = 0
  <2>1. Flushed(row) = o /\ n - e = n
    BY <1>1 DEF Flushed, o, e
  <2> QED BY <2>1 DEF o, e
<1>2. CASE e # 0
  <2> DEFINE at == Spot(r, n - e, b)
  <2>1. Flushed(row) = Append(o, Gap(e))
    BY <1>2 DEF Flushed, o, e
  <2>2. Gap(e) \in Token
    BY <1>0, TokensAre
  <2>3. x \o o \in Seq(Token) /\ x \o Flushed(row) = Append(x \o o, Gap(e))
    BY <1>0, <2>1, <2>2, Longer
  <2>4. Walk(x \o o) = at
    BY DEF o, e
  <2>5. Walk(x \o Flushed(row)) = WalkStep(at, Gap(e))
    BY <2>2, <2>3, <2>4, WalkOn
  <2>6. at \in At
    BY <2>2, <2>3, <2>4, WalkOn
  <2>7. at.rank = r /\ at.file = n - e /\ at.ok = TRUE /\ at.board = b
    BY DEF Spot
  <2>8. (n - e) + e = n
    BY <1>0
  <2> HIDE DEF at
  <2>9. WalkStep(at, Gap(e)) = [rank |-> r, file |-> n, ok |-> TRUE, board |-> b]
    BY <1>0, <2>6, <2>7, <2>8, WalkStepIs
  <2> QED BY <2>5, <2>9 DEF Spot
<1> QED BY <1>1, <1>2

LEMMA FlushedTyped ==
  ASSUME NEW row \in Row
  PROVE  Flushed(row) \in Seq(Token)
<1>1. row.out \in Seq(Token) /\ Gap(row.empties) \in Token
  BY RowIs, TokensAre
<1>2. Append(row.out, Gap(row.empties)) \in Seq(Token)
  BY <1>1
<1> QED BY <1>1, <1>2 DEF Flushed

LEMMA FileStepTyped ==
  ASSUME NEW b, IsBoard(b), NEW r, NEW f, NEW row \in Row
  PROVE  FileStep(b, r, row, f) \in Row
<1>1. CASE <<f, r>> \in DOMAIN b
  <2>1. Piece(b[<<f, r>>]) \in Token
    BY <1>1, TokensAre DEF IsBoard
  <2>2. Append(Flushed(row), Piece(b[<<f, r>>])) \in Seq(Token)
    BY <2>1, FlushedTyped
  <2> QED BY <1>1, <2>2, RowIs DEF FileStep
<1>2. CASE <<f, r>> \notin DOMAIN b
  <2>1. row.empties + 1 \in Nat
    BY RowIs
  <2>2. FileStep(b, r, row, f) = [out |-> row.out, empties |-> row.empties + 1]
    BY <1>2, RowIs DEF FileStep
  <2> QED BY <2>1, <2>2, RowIs
<1> QED BY <1>1, <1>2

\* The walk passes one more file.
LEMMA FileWalked ==
  ASSUME NEW b, IsBoard(b), NEW r \in 0 .. 7, NEW n \in 0 .. 7, NEW x \in Seq(Token),
         NEW row \in Row,
         Walk(x \o row.out) = Spot(r, n - row.empties, Part(b, r, n))
  PROVE  LET next == FileStep(b, r, row, n)
         IN Walk(x \o next.out) = Spot(r, (n + 1) - next.empties, Part(b, r, n + 1))
<1> DEFINE s == <<n, r>>
           next == FileStep(b, r, row, n)
           here == Part(b, r, n)
           beyond == Part(b, r, n + 1)
<1>0. /\ IsBoard(here) /\ here \in Boards /\ s \in Squares
      /\ s \notin DOMAIN b => beyond = here
      /\ s \in DOMAIN b =>
           beyond = With(here, s, b[s])
  <2>1. /\ IsBoard(here)
        /\ s \notin DOMAIN b => beyond = here
        /\ s \in DOMAIN b =>
             beyond = With(here, s, b[s])
    BY PartIs
  <2>2. s \in Squares
    BY DEF Squares
  <2> HIDE DEF here, beyond, s
  <2> QED BY <2>1, <2>2, BoardsAre
<1>1. CASE s \notin DOMAIN b
  <2>1. next = [out |-> row.out, empties |-> row.empties + 1]
    BY <1>1, RowIs DEF FileStep
  <2>2. next.out = row.out /\ next.empties = row.empties + 1
    BY <2>1
  <2>3. beyond = here
    BY <1>0, <1>1
  <2>4. row.empties \in Nat
    BY RowIs
  <2>5. (n + 1) - (row.empties + 1) = n - row.empties
    <3> DEFINE e == row.empties
    <3>1. e \in Int /\ n \in Int
      BY <2>4
    <3> HIDE DEF e
    <3>2. (n + 1) - (e + 1) = n - e
      BY <3>1
    <3> QED BY <3>2 DEF e
  <2> HIDE DEF next, here, beyond
  <2>6. Walk(x \o next.out) = Spot(r, (n + 1) - next.empties, beyond)
    BY <2>2, <2>3, <2>5 DEF here
  <2> QED BY <2>6 DEF next, beyond
<1>2. CASE s \in DOMAIN b
  <2> DEFINE o == Flushed(row)
             v == b[s]
             at == Spot(r, n, here)
  <2>1. v \in Pieces /\ Piece(v) \in Token
    BY <1>2, TokensAre DEF IsBoard
  <2>2. next.out = Append(o, Piece(v)) /\ next.empties = 0
    BY <1>2 DEF FileStep
  <2>3. o \in Seq(Token)
    BY FlushedTyped
  <2>4. Walk(x \o o) = at
    <3>1. n \in Nat /\ r \in Int
      OBVIOUS
    <3> QED BY <1>0, <3>1, FlushedIs
  <2> HIDE DEF o, v, at, next
  <2>5. x \o o \in Seq(Token) /\ x \o next.out = Append(x \o o, Piece(v))
    BY <2>1, <2>2, <2>3, Longer
  <2>6. at \in At /\ Walk(x \o next.out) = WalkStep(at, Piece(v))
    BY <2>1, <2>4, <2>5, WalkOn
  <2>7. WalkStep(at, Piece(v)) = Put(at, v)
    BY <2>1, <2>6, WalkStepIs
  <2>8. at.rank = r /\ at.file = n /\ at.ok = TRUE /\ at.board = here
    BY DEF at, Spot
  <2> DEFINE placed == With(here, s, v)
  <2>9. Put(at, v) = [rank |-> r, file |-> n + 1, ok |-> TRUE, board |-> placed]
    BY <1>0, <2>1, <2>6, <2>8, PutIs
  <2>10. beyond = placed
    BY <1>0, <1>2 DEF v
  <2>11. (n + 1) - 0 = n + 1
    OBVIOUS
  <2> HIDE DEF placed, here, beyond, s
  <2>12. Walk(x \o next.out) = Spot(r, (n + 1) - next.empties, beyond)
    BY <2>2, <2>6, <2>7, <2>9, <2>10, <2>11 DEF Spot
  <2> QED BY <2>12 DEF next, beyond
<1> QED BY <1>1, <1>2

\* The rows of a rank, file by file.
Rows(b, r, row) == /\ row \in [0 .. 8 -> Row]
                   /\ row[0] = [out |-> <<>>, empties |-> 0]
                   /\ \A n \in 0 .. 7 : row[n + 1] = FileStep(b, r, row[n], n)

LEMMA RowsAre ==
  ASSUME NEW b, IsBoard(b), NEW r \in 0 .. 7
  PROVE  \E row : Rows(b, r, row) /\ RankOut(b, r) = Flushed(row[8])
<1> DEFINE first == [out |-> <<>>, empties |-> 0]
           step == [n \in 1 .. 8 |-> [row \in Row |-> FileStep(b, r, row, n - 1)]]
           Rule(row) == [n \in 0 .. 8 |-> IF n = 0 THEN first ELSE FileStep(b, r, row[n - 1], n - 1)]
           c == CHOOSE row : row = Rule(row)
<1>1. first \in Row
  <2>1. <<>> \in Seq(Token) /\ 0 \in Nat
    OBVIOUS
  <2> QED BY <2>1, RowIs
<1>2. step \in [1 .. 8 -> [Row -> Row]]
  BY FileStepTyped
<1>3. \A n \in 1 .. 8, row \in Row : step[n][row] = FileStep(b, r, row, n - 1)
  OBVIOUS
<1> HIDE DEF step, first
<1>4. PICK row \in [0 .. 8 -> Row] : Follows(row, first, step, 8)
  <2>1. 8 \in Nat
    OBVIOUS
  <2> QED BY <1>1, <1>2, <2>1, Iterated
<1>5. ASSUME NEW n \in 0 .. 8
      PROVE  row[n] = IF n = 0 THEN first ELSE FileStep(b, r, row[n - 1], n - 1)
  <2>1. CASE n = 0
    BY <2>1, <1>4 DEF Follows
  <2>2. CASE n # 0
    <3>1. n \in 1 .. 8 /\ n - 1 \in 0 .. 8
      BY <2>2
    <3>2. row[n - 1] \in Row
      BY <3>1
    <3> QED BY <2>2, <3>1, <3>2, <1>4, <1>3 DEF Follows
  <2> QED BY <2>1, <2>2
<1>6. row = Rule(row)
  BY <1>5
<1>7. c = Rule(c)
  BY <1>6
<1>8. RankOut(b, r) = Flushed(c[8])
  BY DEF RankOut, first
<1> HIDE DEF c
<1>9. \A n \in 0 .. 8 : c[n] = IF n = 0 THEN first ELSE FileStep(b, r, c[n - 1], n - 1)
  BY <1>7
<1>10. c[0] = first /\ \A n \in 0 .. 7 : c[n + 1] = FileStep(b, r, c[n], n)
  <2>1. 0 \in 0 .. 8 /\ \A n \in 0 .. 7 : n + 1 \in 0 .. 8 /\ n + 1 # 0 /\ (n + 1) - 1 = n
    OBVIOUS
  <2> HIDE DEF Rule
  <2> QED BY <1>9, <2>1
<1>11. \A n \in 0 .. 8 : c[n] \in Row
  <2> DEFINE K == {n \in Nat : n <= 8 => c[n] \in Row}
  <2>1. 0 \in K
    BY <1>1, <1>10
  <2>2. ASSUME NEW n \in Nat, n \in K PROVE n + 1 \in K
    <3>0. SUFFICES ASSUME n + 1 <= 8 PROVE c[n + 1] \in Row
      OBVIOUS
    <3>1. n \in 0 .. 7 /\ c[n] \in Row
      BY <2>2, <3>0
    <3> QED BY <1>10, <3>1, FileStepTyped
  <2> HIDE DEF K
  <2>3. Nat \subseteq K
    BY <2>1, <2>2, SetInduction
  <2>4. ASSUME NEW n \in 0 .. 8 PROVE c[n] \in Row
    <3>1. n \in Nat /\ n <= 8 /\ n \in K
      BY <2>3
    <3> QED BY <3>1 DEF K
  <2> QED BY <2>4
<1>12. c \in [0 .. 8 -> Row]
  <2>1. c = [n \in 0 .. 8 |-> c[n]]
    BY <1>7
  <2> QED BY <2>1, <1>11
<1> QED BY <1>8, <1>10, <1>12 DEF Rows, first

\* From the first file of a rank to past its last.
LEMMA RankWalked ==
  ASSUME NEW b, IsBoard(b), NEW r \in 0 .. 7, NEW x \in Seq(Token),
         Walk(x) = Spot(r, 0, Part(b, r, 0))
  PROVE  /\ RankOut(b, r) \in Seq(Token)
         /\ x \o RankOut(b, r) \in Seq(Token)
         /\ Walk(x \o RankOut(b, r)) = Spot(r, 8, Part(b, r, 8))
<1>1. PICK row : Rows(b, r, row) /\ RankOut(b, r) = Flushed(row[8])
  BY RowsAre
<1>2. \A n \in 0 .. 8 : row[n] \in Row
  BY <1>1 DEF Rows
<1> DEFINE Passed(n) == Walk(x \o row[n].out) = Spot(r, n - row[n].empties, Part(b, r, n))
           K == {n \in Nat : n <= 8 => Passed(n)}
<1>3. 0 \in K
  <2>1. row[0].out = <<>> /\ row[0].empties = 0
    BY <1>1 DEF Rows
  <2>2. x \o <<>> = x /\ 0 - 0 = 0
    BY ConcatEmptySeq
  <2>3. Passed(0)
    BY <2>1, <2>2
  <2> QED BY <2>3
<1>4. ASSUME NEW n \in Nat, n \in K PROVE n + 1 \in K
  <2>0. SUFFICES ASSUME n + 1 <= 8 PROVE Passed(n + 1)
    OBVIOUS
  <2>1. n \in 0 .. 7 /\ n \in 0 .. 8 /\ Passed(n)
    BY <1>4, <2>0
  <2>2. row[n] \in Row /\ row[n + 1] = FileStep(b, r, row[n], n)
    BY <1>1, <1>2, <2>1 DEF Rows
  <2>3. Walk(x \o row[n].out) = Spot(r, n - row[n].empties, Part(b, r, n))
    BY <2>1
  <2> HIDE DEF K, Passed
  <2> DEFINE here == row[n]
             next == FileStep(b, r, here, n)
  <2>5. here \in Row /\ Walk(x \o here.out) = Spot(r, n - here.empties, Part(b, r, n))
    BY <2>2, <2>3
  <2> HIDE DEF here
  <2>6. Walk(x \o next.out) = Spot(r, (n + 1) - next.empties, Part(b, r, n + 1))
    BY <2>1, <2>5, FileWalked
  <2>4. Walk(x \o row[n + 1].out) = Spot(r, (n + 1) - row[n + 1].empties, Part(b, r, n + 1))
    BY <2>2, <2>6 DEF here
  <2> QED BY <2>4 DEF Passed
<1> HIDE DEF K, Passed
<1>5. 8 \in K
  BY <1>3, <1>4, SetInduction
<1>6. Walk(x \o row[8].out) = Spot(r, 8 - row[8].empties, Part(b, r, 8))
  BY <1>5 DEF K, Passed
<1>7. row[8] \in Row
  BY <1>2
<1>8. Part(b, r, 8) \in Boards
  BY BoardsAre DEF Part, IsBoard
<1>9. Walk(x \o Flushed(row[8])) = Spot(r, 8, Part(b, r, 8))
  <2>1. r \in Int /\ 8 \in Nat
    OBVIOUS
  <2> QED BY <1>6, <1>7, <1>8, <2>1, FlushedIs
<1>10. RankOut(b, r) \in Seq(Token)
  BY <1>1, <1>7, FlushedTyped
<1>11. x \o RankOut(b, r) \in Seq(Token)
  BY <1>10, ConcatProperties
<1> QED BY <1>1, <1>9, <1>10, <1>11

-----------------------------------------------------------------------------
(* The whole placement, from the eighth rank to the first.                 *)

LEMMA RankTyped ==
  ASSUME NEW b, IsBoard(b), NEW r \in 0 .. 7
  PROVE  RankOut(b, r) \in Seq(Token)
<1>1. PICK row : Rows(b, r, row) /\ RankOut(b, r) = Flushed(row[8])
  BY RowsAre
<1>2. row[8] \in Row
  BY <1>1 DEF Rows
<1> QED BY <1>1, <1>2, FlushedTyped

\* The placements that end with rank 7 - j.
Ranks(b, f) == /\ f \in [0 .. 7 -> Seq(Token)]
               /\ f[0] = RankOut(b, 7)
               /\ \A j \in 1 .. 7 : f[j] = Append(f[j - 1], Slash) \o RankOut(b, 7 - j)

LEMMA RanksAre ==
  ASSUME NEW b, IsBoard(b)
  PROVE  \E f : Ranks(b, f) /\ ToFen(b) = f[7]
<1> DEFINE S == Seq(Token)
           Below(x, j) == Append(x, Slash) \o RankOut(b, 7 - j)
           step == [j \in 1 .. 7 |-> [x \in S |-> Below(x, j)]]
           Rule(x) == [r \in 0 .. 7 |-> IF r = 7 THEN RankOut(b, 7)
                                        ELSE Append(x[r + 1], Slash) \o RankOut(b, r)]
           c == CHOOSE x : x = Rule(x)
<1>0. ASSUME NEW x \in S, NEW j \in 1 .. 7 PROVE Below(x, j) \in S
  <2>1. Append(x, Slash) \in S
    BY TokensAre
  <2>2. 7 - j \in 0 .. 7
    OBVIOUS
  <2>3. RankOut(b, 7 - j) \in S
    BY <2>2, RankTyped
  <2> QED BY <2>1, <2>3, ConcatProperties
<1>1. RankOut(b, 7) \in S
  <2>1. 7 \in 0 .. 7
    OBVIOUS
  <2> QED BY <2>1, RankTyped
<1> HIDE DEF Below
<1>2. step \in [1 .. 7 -> [S -> S]]
  BY <1>0
<1>3. \A j \in 1 .. 7, x \in S : step[j][x] = Below(x, j)
  OBVIOUS
<1> HIDE DEF step, S
<1>4. PICK f \in [0 .. 7 -> S] : Follows(f, RankOut(b, 7), step, 7)
  <2>1. 7 \in Nat
    OBVIOUS
  <2> QED BY <1>1, <1>2, <2>1, Iterated
<1>5. f[0] = RankOut(b, 7) /\ \A j \in 1 .. 7 : f[j] = Below(f[j - 1], j)
  <2>1. ASSUME NEW j \in 1 .. 7 PROVE f[j] = Below(f[j - 1], j)
    <3>1. j - 1 \in 0 .. 7
      OBVIOUS
    <3>2. f[j - 1] \in S
      BY <3>1
    <3> QED BY <3>2, <1>4, <1>3 DEF Follows
  <2> QED BY <2>1, <1>4 DEF Follows
<1> DEFINE d == [r \in 0 .. 7 |-> f[7 - r]]
<1>6. d = Rule(d)
  <2>1. ASSUME NEW r \in 0 .. 7
        PROVE  d[r] = IF r = 7 THEN RankOut(b, 7) ELSE Append(d[r + 1], Slash) \o RankOut(b, r)
    <3>1. CASE r = 7
      BY <3>1, <1>5
    <3>2. CASE r # 7
      <4> DEFINE j == 7 - r
      <4>1. j \in 1 .. 7 /\ j - 1 = 7 - (r + 1) /\ 7 - j = r /\ r + 1 \in 0 .. 7
        BY <3>2
      <4>2. d[r] = f[j] /\ d[r + 1] = f[7 - (r + 1)]
        BY <4>1
      <4> HIDE DEF j, d
      <4>3. d[r] = Append(f[j - 1], Slash) \o RankOut(b, 7 - j)
        BY <4>1, <4>2, <1>5 DEF Below
      <4>5. f[j - 1] = d[r + 1] /\ RankOut(b, 7 - j) = RankOut(b, r)
        BY <4>1, <4>2
      <4>4. d[r] = Append(d[r + 1], Slash) \o RankOut(b, r)
        BY <4>3, <4>5
      <4> QED BY <3>2, <4>4
    <3> QED BY <3>1, <3>2
  <2>2. d = [r \in 0 .. 7 |-> d[r]]
    OBVIOUS
  <2> HIDE DEF d
  <2> QED BY <2>1, <2>2
<1>7. c = Rule(c)
  <2> HIDE DEF d, Rule
  <2> QED BY <1>6
<1>8. ToFen(b) = c[0]
  BY DEF ToFen
<1> HIDE DEF c
<1>9. /\ c[7] = RankOut(b, 7)
      /\ \A r \in 0 .. 6 : c[r] = Append(c[r + 1], Slash) \o RankOut(b, r)
  <2>1. \A r \in 0 .. 7 : c[r] = IF r = 7 THEN RankOut(b, 7)
                                 ELSE Append(c[r + 1], Slash) \o RankOut(b, r)
    BY <1>7
  <2>2. 7 \in 0 .. 7 /\ \A r \in 0 .. 6 : r \in 0 .. 7 /\ r # 7
    OBVIOUS
  <2> HIDE DEF Rule
  <2> QED BY <2>1, <2>2
<1> DEFINE g == [j \in 0 .. 7 |-> c[7 - j]]
<1>10. g[0] = RankOut(b, 7) /\ g[7] = c[0]
  BY <1>9
<1>11. ASSUME NEW j \in 1 .. 7 PROVE g[j] = Append(g[j - 1], Slash) \o RankOut(b, 7 - j)
  <2>1. 7 - j \in 0 .. 6 /\ (7 - j) + 1 = 7 - (j - 1) /\ j - 1 \in 0 .. 7 /\ j \in 0 .. 7
    OBVIOUS
  <2>2. g[j] = c[7 - j] /\ g[j - 1] = c[(7 - j) + 1]
    BY <2>1
  <2> HIDE DEF g
  <2> QED BY <1>9, <2>1, <2>2
<1>12. \A j \in 0 .. 7 : g[j] \in Seq(Token)
  <2> HIDE DEF g
  <2> DEFINE K == {j \in Nat : j <= 7 => g[j] \in Seq(Token)}
  <2>1. 0 \in K
    BY <1>1, <1>10 DEF S
  <2>2. ASSUME NEW j \in Nat, j \in K PROVE j + 1 \in K
    <3>0. SUFFICES ASSUME j + 1 <= 7 PROVE g[j + 1] \in Seq(Token)
      OBVIOUS
    <3>3. j + 1 \in 1 .. 7 /\ (j + 1) - 1 = j /\ j <= 7
      BY <3>0
    <3>1. j + 1 \in 1 .. 7 /\ (j + 1) - 1 = j /\ g[j] \in S
      BY <2>2, <3>3 DEF S
    <3>2. Below(g[j], j + 1) \in S
      BY <3>1, <1>0
    <3> QED BY <3>1, <3>2, <1>11 DEF Below, S
  <2> HIDE DEF K
  <2>3. Nat \subseteq K
    BY <2>1, <2>2, SetInduction
  <2>4. ASSUME NEW j \in 0 .. 7 PROVE g[j] \in Seq(Token)
    <3>1. j \in Nat /\ j <= 7 /\ j \in K
      BY <2>3
    <3> QED BY <3>1 DEF K
  <2> QED BY <2>4
<1>13. g \in [0 .. 7 -> Seq(Token)]
  BY <1>12
<1> HIDE DEF g
<1> QED BY <1>8, <1>10, <1>11, <1>13 DEF Ranks

\* What the host writes is walked to the end, and makes the board it was.
LEMMA FenWalked ==
  ASSUME NEW b, IsBoard(b)
  PROVE  Walk(ToFen(b)) = Spot(0, 8, b)
<1>1. PICK f : Ranks(b, f) /\ ToFen(b) = f[7]
  BY RanksAre
<1> DEFINE Down(j) == Walk(f[j]) = Spot(7 - j, 8, Part(b, 7 - j, 8))
           K == {j \in Nat : j <= 7 => Down(j)}
<1>2. Down(0)
  <2>1. Walk(<<>>) = Spot(7, 0, Part(b, 7, 0))
    BY WalkOn, PartJoins DEF Start, Spot
  <2>2. <<>> \in Seq(Token) /\ 7 \in 0 .. 7 /\ 7 - 0 = 7
    OBVIOUS
  <2>3. RankOut(b, 7) \in Seq(Token) /\ Walk(<<>> \o RankOut(b, 7)) = Spot(7, 8, Part(b, 7, 8))
    BY <2>1, <2>2, RankWalked
  <2>4. <<>> \o RankOut(b, 7) = RankOut(b, 7)
    BY <2>3, ConcatEmptySeq
  <2>5. f[0] = RankOut(b, 7)
    BY <1>1 DEF Ranks
  <2>6. Walk(f[0]) = Spot(7 - 0, 8, Part(b, 7 - 0, 8))
    BY <2>2, <2>3, <2>4, <2>5
  <2> QED BY <2>6
<1>3. ASSUME NEW j \in Nat, j \in K PROVE j + 1 \in K
  <2>0. SUFFICES ASSUME j + 1 <= 7 PROVE Down(j + 1)
    OBVIOUS
  <2> DEFINE r == 7 - j
             s == 7 - (j + 1)
             x == Append(f[j], Slash)
             at == Spot(r, 8, Part(b, r, 8))
  <2>1. j + 1 \in 1 .. 7 /\ (j + 1) - 1 = j /\ r \in 1 .. 7 /\ s = r - 1 /\ s \in 0 .. 7
    BY <2>0
  <2>2. Walk(f[j]) = at
    BY <1>3, <2>1
  <2>3. f[j] \in Seq(Token) /\ f[j + 1] = x \o RankOut(b, s)
    <3>1. f[j + 1] = Append(f[(j + 1) - 1], Slash) \o RankOut(b, s)
      BY <1>1, <2>1 DEF Ranks
    <3>2. j \in 0 .. 7 /\ f \in [0 .. 7 -> Seq(Token)]
      BY <1>1, <2>0 DEF Ranks
    <3>3. f[(j + 1) - 1] = f[j]
      BY <2>1
    <3>4. f[j] \in Seq(Token)
      BY <3>2
    <3> QED BY <3>1, <3>3, <3>4
  <2>4. at.rank = r /\ at.file = 8 /\ at.ok = TRUE /\ at.board = Part(b, r, 8)
    BY DEF Spot
  <2> HIDE DEF r, s, at, K, Down
  <2>5. at \in At /\ x \in Seq(Token) /\ Walk(x) = WalkStep(at, Slash)
    BY <2>2, <2>3, TokensAre, WalkOn
  <2>6. WalkStep(at, Slash) = [rank |-> r - 1, file |-> 0, ok |-> TRUE, board |-> Part(b, r, 8)]
    BY <2>4, <2>5, WalkStepIs
  <2>7. Part(b, r, 8) = Part(b, s, 0)
    BY <2>1, PartJoins
  <2>8. Walk(x) = Spot(s, 0, Part(b, s, 0))
    BY <2>1, <2>5, <2>6, <2>7 DEF Spot
  <2> HIDE DEF x
  <2>9. Walk(x \o RankOut(b, s)) = Spot(s, 8, Part(b, s, 8))
    BY <2>1, <2>5, <2>8, RankWalked
  <2> QED BY <2>3, <2>9 DEF Down, s
<1>4. 0 \in K
  BY <1>2
<1> HIDE DEF K, Down
<1>5. 7 \in K
  BY <1>3, <1>4, SetInduction
<1>6. Walk(f[7]) = Spot(0, 8, Part(b, 0, 8))
  <2>1. Walk(f[7]) = Spot(7 - 7, 8, Part(b, 7 - 7, 8)) /\ 7 - 7 = 0
    BY <1>5 DEF K, Down
  <2> QED BY <2>1
<1> QED BY <1>1, <1>6, PartJoins

LEMMA FenReadBack ==
  ASSUME NEW b, IsBoard(b)
  PROVE  FromFen(ToFen(b)) = {b} /\ Rendered(ToFen(b)) = b
<1> DEFINE end == Spot(0, 8, b)
<1>1. end.ok = TRUE /\ end.rank = 0 /\ end.file = 8 /\ end.board = b
  BY DEF Spot
<1>2. Walk(ToFen(b)) = end
  BY FenWalked
<1> HIDE DEF end
<1> QED BY <1>1, <1>2 DEF FromFen, Rendered

-----------------------------------------------------------------------------
(* What the page colours.                                                  *)

Reach(b) == {x \in (DOMAIN b) \X Squares : Reaches(b, x[1], x[2])}
Held(b, c) == {x[2] : x \in {x \in Reach(b) : b[x[1]].color = c}}
Attackers(b, c, q) == {x \in ControlMap(b, c) : x[2] = q}

LEMMA ControlsAre ==
  ASSUME NEW b, IsBoard(b)
  PROVE  Controls(b) = Reach(b)
<1> DEFINE From(s) == {q \in Squares : Reaches(b, s, q)}
<1>1. \A s \in DOMAIN b : AttacksFrom(b, s) = From(s)
  BY AttacksAre
<1>2. Controls(b) = UNION {{s} \X From(s) : s \in DOMAIN b}
  BY <1>1, Zenon DEF Controls
<1>3. ASSUME NEW x PROVE x \in UNION {{s} \X From(s) : s \in DOMAIN b} <=> x \in Reach(b)
  <2>1. ASSUME NEW s \in DOMAIN b, x \in {s} \X From(s) PROVE x \in Reach(b)
    BY <2>1 DEF Reach
  <2>2. ASSUME x \in Reach(b) PROVE x[1] \in DOMAIN b /\ x \in {x[1]} \X From(x[1])
    BY <2>2 DEF Reach
  <2> HIDE DEF From
  <2> QED BY <2>1, <2>2
<1> HIDE DEF From
<1> QED BY <1>2, <1>3

LEMMA AttackersAre ==
  ASSUME NEW b, IsBoard(b), NEW c, NEW q
  PROVE  /\ Cardinality(Attackers(b, c, q)) \in Nat
         /\ Cardinality(Attackers(b, c, q)) = 0 <=> q \notin Held(b, c)
<1>1. IsFiniteSet(Squares \X Squares)
  BY FewSquares, FS_Product
<1>2. Attackers(b, c, q) \subseteq Squares \X Squares
  BY ControlsAre DEF Attackers, ControlMap, Reach, IsBoard
<1>3. IsFiniteSet(Attackers(b, c, q))
  BY <1>1, <1>2, FS_Subset
<1>4. Attackers(b, c, q) = {} <=> q \notin Held(b, c)
  BY ControlsAre DEF Attackers, ControlMap, Held
<1> QED BY <1>3, <1>4, FS_EmptySet, FS_CardinalityType

\* What the page colours so, and what the host's rules would.
Tinted(fen, tint) == {x.sq : x \in {x \in HeatmapFor(fen) : x.color = tint}}
Hue(b, q) == SquareColor(Cardinality(Attackers(b, "White", q)), Cardinality(Attackers(b, "Black", q)))

LEMMA CellsAre ==
  ASSUME NEW b, NEW fen, Rendered(fen) = b, NEW tint
  PROVE  Tinted(fen, tint) = {q \in Squares : Hue(b, q) = tint}
<1> DEFINE w(q) == Cardinality(Attackers(b, "White", q))
           k(q) == Cardinality(Attackers(b, "Black", q))
           cell(q) == [sq |-> q, color |-> SquareColor(w(q), k(q)), w |-> w(q), b |-> k(q)]
<1>1. HeatmapFor(fen) = {cell(q) : q \in Squares}
  BY Zenon DEF HeatmapFor, Attackers
<1>2. \A q : cell(q).sq = q /\ cell(q).color = Hue(b, q)
  BY DEF Hue
<1> HIDE DEF cell
<1> QED BY <1>1, <1>2 DEF Tinted

LEMMA HuesAre ==
  ASSUME NEW b, IsBoard(b), NEW q
  PROVE  /\ Hue(b, q) = "blue" <=> q \in Held(b, "White") \ Held(b, "Black")
         /\ Hue(b, q) = "red" <=> q \in Held(b, "Black") \ Held(b, "White")
         /\ Hue(b, q) = "purple" <=> q \in Held(b, "White") \cap Held(b, "Black")
<1> DEFINE w == Cardinality(Attackers(b, "White", q))
           k == Cardinality(Attackers(b, "Black", q))
<1>1. w = 0 <=> q \notin Held(b, "White")
  BY AttackersAre
<1>2. k = 0 <=> q \notin Held(b, "Black")
  BY AttackersAre
<1> HIDE DEF w, k
<1>3. /\ SquareColor(w, k) = "blue" <=> w # 0 /\ k = 0
      /\ SquareColor(w, k) = "red" <=> w = 0 /\ k # 0
      /\ SquareColor(w, k) = "purple" <=> w # 0 /\ k # 0
  BY DEF SquareColor
<1>4. Hue(b, q) = SquareColor(w, k)
  BY DEF Hue, w, k
<1> QED BY <1>1, <1>2, <1>3, <1>4

LEMMA HeldOnBoard ==
  ASSUME NEW b, NEW c
  PROVE  Held(b, c) \subseteq Squares
BY DEF Held, Reach

\* Whatever game is played, the placement field loses nothing of the board, and
\* the page, which reads it by its own walk and works out the attacks by its own
\* rules, marks the checked king and colours the squares as the host's rules say
\* (position.cpp:148, board.js:33, heatmap.js:27).
THEOREM GamesSeen == Spec => []PageSeesBoard
<1>1. ASSUME Sound(Pos) PROVE PageSeesBoard
  <2> DEFINE fen == ToFen(board)
             white == Held(board, "White")
             black == Held(board, "Black")
  <2>1. IsBoard(board)
    <3>1. IsBoard(Pos.board)
      BY <1>1, BoardOf
    <3> QED BY <3>1 DEF Pos
  <2>2. FromFen(fen) = {board} /\ Rendered(fen) = board
    BY <2>1, FenReadBack
  <2>3. Controls(Rendered(fen)) = Reach(board)
    BY <2>1, <2>2, ControlsAre
  <2>4. FindKing(fen, side) = Kings(board, side)
    BY <2>2 DEF FindKing
  <2>5. /\ Tinted(fen, "blue") = white \ black
        /\ Tinted(fen, "red") = black \ white
        /\ Tinted(fen, "purple") = white \cap black
    <3>1. \A tint : Tinted(fen, tint) = {q \in Squares : Hue(board, q) = tint}
      BY <2>2, CellsAre
    <3> HIDE DEF fen
    <3> QED BY <2>1, <3>1, HuesAre, HeldOnBoard
  <2> QED BY <2>2, <2>3, <2>4, <2>5, Zenon DEF PageSeesBoard, Reach, Held, Tinted
<1> QED BY <1>1, GamesSound, PTL

=============================================================================
