----------------------------- MODULE MCPosition -----------------------------
EXTENDS BoardPage, TLC

P(color, type) == [color |-> color, type |-> type]
At(b, s, rights) == [board |-> b, side |-> s, castling |-> rights,
                     ep |-> NoSquare, halfmove |-> 98, plies |-> 0]

\* Both sides may castle either way, and every rook is en prise.
Castles == At(<<4, 0>> :> P("White", "King") @@ <<0, 0>> :> P("White", "Rook")
                @@ <<7, 0>> :> P("White", "Rook") @@ <<4, 7>> :> P("Black", "King")
                @@ <<0, 7>> :> P("Black", "Rook") @@ <<7, 7>> :> P("Black", "Rook"),
              "White", Rights)

\* A double push that may be taken en passant, were it not for the rook that
\* both pawns hide the king from; and one that may.
Passing == At(<<0, 4>> :> P("White", "King") @@ <<1, 4>> :> P("White", "Pawn")
                @@ <<6, 1>> :> P("White", "Pawn") @@ <<2, 6>> :> P("Black", "Pawn")
                @@ <<7, 3>> :> P("Black", "Pawn") @@ <<7, 4>> :> P("Black", "Rook")
                @@ <<7, 7>> :> P("Black", "King"),
              "Black", {})

\* Pawns that promote by taking a rook at home, and a pinned knight.
Promotions == At(<<4, 0>> :> P("White", "King") @@ <<7, 0>> :> P("White", "Rook")
                   @@ <<1, 6>> :> P("White", "Pawn") @@ <<4, 3>> :> P("White", "Rook")
                   @@ <<4, 7>> :> P("Black", "King") @@ <<0, 7>> :> P("Black", "Rook")
                   @@ <<6, 1>> :> P("Black", "Pawn") @@ <<4, 5>> :> P("Black", "Knight"),
                 "White", {<<"White", "King">>, <<"Black", "Queen">>})

BackRank == <<"Rook", "Knight", "Bishop", "Queen", "King", "Bishop", "Knight", "Rook">>
\* The initial position, for one ply less than the others.
Opening == [At([q \in (0 .. 7) \X {0, 1, 6, 7} |->
                 P(IF q[2] < 4 THEN "White" ELSE "Black",
                   IF q[2] \in {1, 6} THEN "Pawn" ELSE BackRank[q[1] + 1])],
              "White", Rights) EXCEPT !.plies = 1, !.halfmove = 0]

\* Bishops on different colours, one move from mate; and a last rook that may
\* be taken, after which the bishops left are on one colour.
Bishops == At(<<1, 5>> :> P("White", "King") @@ <<4, 1>> :> P("White", "Bishop")
                @@ <<0, 7>> :> P("Black", "King") @@ <<1, 7>> :> P("Black", "Bishop"),
              "White", {})
LastRook == At(<<0, 0>> :> P("White", "King") @@ <<4, 4>> :> P("White", "Bishop")
                 @@ <<7, 7>> :> P("Black", "Rook") @@ <<6, 7>> :> P("Black", "King")
                 @@ <<1, 3>> :> P("Black", "Bishop"),
               "White", {})

Games == {Opening, Castles, Passing, Promotions, Bishops, LastRook}

=============================================================================
