----------------------------- MODULE Morphology -----------------------------
(***************************************************************************)
(* engine/src/filter: planes of grey levels, the two neighbourhood         *)
(* reductions and the pixelwise combines that every stage of a filter      *)
(* decomposes into, the pipeline over one plane, and over an image in each  *)
(* of the three colour modes.                                              *)
(***************************************************************************)
EXTENDS Integers, Sequences

CONSTANTS Width, Height,
          Top,        \* the brightest level: 255
          MaxRadius   \* bound on the radius of a structuring element, which is 1 unless set

ASSUME PlaneAssumption == /\ Width \in Nat \ {0} /\ Height \in Nat \ {0}
                          /\ Top \in Nat \ {0} /\ MaxRadius \in Nat \ {0}

Xs == 0 .. Width - 1
Ys == 0 .. Height - 1
Planes == [Xs \X Ys -> 0 .. Top]
\* (The comparison makes TLC compute the plane, once.)
Pixels(F(_, _)) == CHOOSE f \in {[p \in Xs \X Ys |-> F(p[1], p[2])]} : f = f

StructElems == [shape : {"Box", "Cross", "Disk"}, radius : 0 .. MaxRadius]
InStructElem(dx, dy, se) == CASE se.shape = "Box"   -> TRUE
                              [] se.shape = "Cross" -> dx = 0 \/ dy = 0
                              [] se.shape = "Disk"  -> dx * dx + dy * dy <= se.radius * se.radius

\* (Faulty variant: the box is one short on one side.)
ReachShort(r) == -r .. r - 1
Reach(r)      == -r .. r

Offsets(se) == {d \in Reach(se.radius) \X Reach(se.radius) : InStructElem(d[1], d[2], se)}

\* Beyond the border is the nearest pixel of the border.
\* (Faulty variant: beyond the border is black.)
Clamp(v, lo, hi) == IF v < lo THEN lo ELSE IF v > hi THEN hi ELSE v
SampleBlack(f, x, y)   == IF <<x, y>> \in Xs \X Ys THEN f[<<x, y>>] ELSE 0
SampleClamped(f, x, y) == f[<<Clamp(x, 0, Width - 1), Clamp(y, 0, Height - 1)>>]

Around(f, x, y, se) == {SampleClamped(f, x + d[1], y + d[2]) : d \in Offsets(se)}

Least(S)    == CHOOSE v \in S : \A w \in S : v <= w
Greatest(S) == CHOOSE v \in S : \A w \in S : v >= w

Erode(f, se)  == Pixels(LAMBDA x, y : Least(Around(f, x, y, se) \cup {Top}))
Dilate(f, se) == Pixels(LAMBDA x, y : Greatest(Around(f, x, y, se) \cup {0}))

SubtractClamped(a, b) == Pixels(LAMBDA x, y : Clamp(a[<<x, y>>] - b[<<x, y>>], 0, Top))
Threshold(f, t)       == Pixels(LAMBDA x, y : IF f[<<x, y>>] >= t THEN Top ELSE 0)
Invert(f)             == Pixels(LAMBDA x, y : Top - f[<<x, y>>])

-----------------------------------------------------------------------------
(* pipeline.cpp.                                                           *)

Ops == {"Erode", "Dilate", "Open", "Close", "Gradient", "TopHat", "BlackHat", "Threshold"}
Stages == [op : Ops, se : StructElems, t : 0 .. Top, invert : BOOLEAN]

OpenPlane(f, se)  == Dilate(Erode(f, se), se)
ClosePlane(f, se) == Erode(Dilate(f, se), se)

StageCore(f, s) ==
  CASE s.op = "Erode"     -> Erode(f, s.se)
    [] s.op = "Dilate"    -> Dilate(f, s.se)
    [] s.op = "Open"      -> OpenPlane(f, s.se)
    [] s.op = "Close"     -> ClosePlane(f, s.se)
    [] s.op = "Gradient"  -> SubtractClamped(Dilate(f, s.se), Erode(f, s.se))
    [] s.op = "TopHat"    -> SubtractClamped(f, OpenPlane(f, s.se))
    [] s.op = "BlackHat"  -> SubtractClamped(ClosePlane(f, s.se), f)
    [] s.op = "Threshold" -> Threshold(f, s.t)

ApplyStage(f, s) == IF s.invert THEN Invert(StageCore(f, s)) ELSE StageCore(f, s)
Process(f, pipeline) ==
  LET after[n \in 0 .. Len(pipeline)] ==
        IF n = 0 THEN f ELSE ApplyStage(after[n - 1], pipeline[n])
  IN after[Len(pipeline)]

-----------------------------------------------------------------------------
(* Images: a sequence of planes, one (grey) or three (red, green, blue).    *)

Colors == {"PerChannel", "Gray", "Luma"}

LumaLevel(r, g, b) == (77 * r + 150 * g + 29 * b) \div 256

LumaPlane(img) ==
  IF Len(img) = 1 THEN img[1]
  ELSE Pixels(LAMBDA x, y : LumaLevel(img[1][<<x, y>>], img[2][<<x, y>>], img[3][<<x, y>>]))

\* A level v keeps its share of the luma, which goes from lin to lout; a pixel
\* without luma turns grey.  (Faulty variant: the byte wraps around.)
RecolourWrapping(v, lin, lout) ==
  (IF lin > 0 THEN (v * lout) \div lin ELSE lout) % (Top + 1)
Recolour(v, lin, lout) ==
  Clamp(IF lin > 0 THEN (v * lout) \div lin ELSE lout, 0, Top)

RecolourFromLuma(img, lin, lout) ==
  [c \in 1 .. 3 |-> Pixels(LAMBDA x, y : Recolour(img[c][<<x, y>>], lin[<<x, y>>], lout[<<x, y>>]))]

ProcessImage(img, pipeline, color) ==
  LET lin == LumaPlane(img)
      lout == Process(lin, pipeline)
  IN CASE color = "PerChannel" -> [c \in 1 .. Len(img) |-> Process(img[c], pipeline)]
       [] color = "Gray" \/ (color = "Luma" /\ Len(img) = 1) -> <<lout>>
       [] color = "Luma" /\ Len(img) = 3 -> RecolourFromLuma(img, lin, lout)

=============================================================================
