------------------------- MODULE GpuBackendProofs -------------------------
(***************************************************************************)
(* The laws of the filter's morphology, for planes of any size, any number  *)
(* of levels and any structuring element; the arithmetic of its luma mode;  *)
(* and that the GPU's kernels compute what the reference does, for any      *)
(* pipeline and whatever the textures of the pool held before.              *)
(***************************************************************************)
EXTENDS GpuBackend, Induction, TLAPS

Level == 0 .. Top
Site  == Xs \X Ys

-----------------------------------------------------------------------------
(* Numbers.                                                                *)

\* The least and the greatest of some levels are among them.
LEMMA LeastIs ==
  ASSUME NEW S \in SUBSET Level, S # {}
  PROVE  Least(S) \in S /\ \A v \in S : Least(S) <= v
<1>1. \E n \in S : \A m \in S : n <= m
  BY LeastNumber, PlaneAssumption DEF Level
<1> QED BY <1>1 DEF Least

LEMMA GreatestIs ==
  ASSUME NEW S \in SUBSET Level, S # {}
  PROVE  Greatest(S) \in S /\ \A v \in S : v <= Greatest(S)
<1> DEFINE T == {Top - v : v \in S}
<1>0. \A v \in S : v \in Nat /\ Top - v \in Nat
  BY PlaneAssumption DEF Level
<1>1. T \in SUBSET Nat /\ T # {}
  BY <1>0
<1>2. PICK n \in T : \A m \in T : n <= m
  BY <1>1, LeastNumber
<1>3. PICK v \in S : n = Top - v
  BY <1>2
<1>4. ASSUME NEW w \in S PROVE w <= v
  <2>1. Top - w \in T
    OBVIOUS
  <2>2. Top - v <= Top - w
    BY <1>2, <1>3, <2>1
  <2> QED BY <2>2, PlaneAssumption DEF Level
<1>5. \E u \in S : \A w \in S : u >= w
  BY <1>4, PlaneAssumption DEF Level
<1>6. Greatest(S) \in S /\ \A w \in S : Greatest(S) >= w
  BY <1>5 DEF Greatest
<1> QED BY <1>6, PlaneAssumption DEF Level

\* Clamping changes nothing within the bounds and keeps to them beyond.
LEMMA ClampBounds ==
  ASSUME NEW v \in Int, NEW hi \in Nat
  PROVE  /\ Clamp(v, 0, hi) \in 0 .. hi
         /\ v >= 0 => Clamp(v, 0, hi) <= v
         /\ \A w \in 0 .. hi : w <= v => w <= Clamp(v, 0, hi)
  BY DEF Clamp

LEMMA SquareGrows ==
  ASSUME NEW a \in Int, NEW b \in Int, -b <= a /\ a <= b
  PROVE  a * a <= b * b
<1>1. CASE a >= 0
  <2>1. a * a <= a * b /\ a * b <= b * b
    BY <1>1
  <2> QED BY <2>1
<1>2. CASE a < 0
  <2> DEFINE c == -a
  <2>1. c \in Nat /\ c <= b /\ c * c = a * a
    BY <1>2
  <2> HIDE DEF c
  <2>2. c * c <= c * b /\ c * b <= b * b
    BY <2>1
  <2> QED BY <2>1, <2>2
<1> QED BY <1>1, <1>2

-----------------------------------------------------------------------------
(* The neighbourhood of a pixel.                                           *)

\* The pixels that a structuring element reads around p: beyond the border it reads
\* no others, as what is clamped is nearer, and an element with a point has all that
\* lie between it and the middle.
Near(p, se) == {q \in Site : <<q[1] - p[1], q[2] - p[2]>> \in Offsets(se)}

LEMMA SiteParts ==
  /\ \A p \in Site : p = <<p[1], p[2]>> /\ p[1] \in 0 .. Width - 1 /\ p[2] \in 0 .. Height - 1
  /\ \A x \in 0 .. Width - 1, y \in 0 .. Height - 1 : <<x, y>> \in Site
  /\ Site # {}
<1>1. <<0, 0>> \in Site
  BY PlaneAssumption DEF Site, Xs, Ys
<1> QED BY <1>1 DEF Site, Xs, Ys

LEMMA OffsetsAre ==
  ASSUME NEW se \in StructElems, NEW dx, NEW dy
  PROVE  <<dx, dy>> \in Offsets(se) <=>
           /\ dx \in Reach(se.radius) /\ dy \in Reach(se.radius)
           /\ se.shape = "Box" \/ (se.shape = "Cross" /\ (dx = 0 \/ dy = 0))
              \/ (se.shape = "Disk" /\ dx * dx + dy * dy <= se.radius * se.radius)
BY DEF Offsets, InStructElem, StructElems

\* What lies nearer than a point of an element, on both axes, is of the element.
LEMMA OffsetsNearer ==
  ASSUME NEW se \in StructElems, NEW dx \in Int, NEW dy \in Int, NEW ex \in Int, NEW ey \in Int,
         <<dx, dy>> \in Offsets(se),
         (0 <= ex /\ ex <= dx) \/ (dx <= ex /\ ex <= 0),
         (0 <= ey /\ ey <= dy) \/ (dy <= ey /\ ey <= 0)
  PROVE  <<ex, ey>> \in Offsets(se) /\ <<-ex, -ey>> \in Offsets(se)
<1> DEFINE r == se.radius
<1>1. r \in Nat /\ dx \in -r .. r /\ dy \in -r .. r
  BY OffsetsAre, PlaneAssumption DEF Reach, StructElems
<1>2. /\ ex \in Reach(r) /\ ey \in Reach(r) /\ -ex \in Reach(r) /\ -ey \in Reach(r)
  BY <1>1 DEF Reach
<1>3. ex * ex <= dx * dx /\ ey * ey <= dy * dy
  <2>1. ex * ex <= dx * dx
    <3>1. CASE dx >= 0
      BY <3>1, SquareGrows
    <3>2. CASE dx < 0
      <4> DEFINE b == -dx
      <4>1. b \in Int /\ -b <= ex /\ ex <= b /\ b * b = dx * dx
        BY <3>2
      <4> HIDE DEF b
      <4> QED BY <4>1, SquareGrows
    <3> QED BY <3>1, <3>2
  <2>2. ey * ey <= dy * dy
    <3>1. CASE dy >= 0
      BY <3>1, SquareGrows
    <3>2. CASE dy < 0
      <4> DEFINE b == -dy
      <4>1. b \in Int /\ -b <= ey /\ ey <= b /\ b * b = dy * dy
        BY <3>2
      <4> HIDE DEF b
      <4> QED BY <4>1, SquareGrows
    <3> QED BY <3>1, <3>2
  <2> QED BY <2>1, <2>2
<1>4. (-ex) * (-ex) = ex * ex /\ (-ey) * (-ey) = ey * ey
  OBVIOUS
<1>5. CASE se.shape = "Disk"
  <2>1. dx * dx + dy * dy <= r * r
    BY <1>5, OffsetsAre
  <2>2. ex * ex + ey * ey <= r * r /\ (-ex) * (-ex) + (-ey) * (-ey) <= r * r
    <3> DEFINE a == ex * ex
               b == ey * ey
               c == dx * dx
               d == dy * dy
               e == r * r
               f == (-ex) * (-ex)
               g == (-ey) * (-ey)
    <3>1. /\ a \in Int /\ b \in Int /\ c \in Int /\ d \in Int /\ e \in Int
          /\ f \in Int /\ g \in Int
          /\ a <= c /\ b <= d /\ c + d <= e /\ f = a /\ g = b
      BY <1>1, <1>3, <1>4, <2>1
    <3> HIDE DEF a, b, c, d, e, f, g
    <3>2. a + b <= e /\ f + g <= e
      BY <3>1
    <3> QED BY <3>2 DEF a, b, c, d, e, f, g
  <2> QED BY <1>2, <1>5, <2>2, OffsetsAre
<1>6. CASE se.shape = "Cross"
  <2>1. dx = 0 \/ dy = 0
    BY <1>6, OffsetsAre
  <2>2. (ex = 0 \/ ey = 0) /\ (-ex = 0 \/ -ey = 0)
    BY <2>1
  <2> QED BY <1>2, <1>6, <2>2, OffsetsAre
<1>7. CASE se.shape = "Box"
  BY <1>2, <1>7, OffsetsAre
<1> QED BY <1>5, <1>6, <1>7 DEF StructElems

LEMMA NearSame ==
  ASSUME NEW se \in StructElems, NEW p \in Site
  PROVE  /\ p \in Near(p, se)
         /\ \A q \in Near(p, se) : q \in Site /\ p \in Near(q, se)
<1>1. p[1] - p[1] = 0 /\ p[2] - p[2] = 0 /\ p[1] \in Int /\ p[2] \in Int
  BY SiteParts
<1>2. <<0, 0>> \in Offsets(se)
  <2>1. 0 \in Reach(se.radius) /\ 0 * 0 + 0 * 0 <= se.radius * se.radius
    <3>1. se.radius \in Nat
      BY PlaneAssumption DEF StructElems
    <3>2. se.radius * se.radius \in Nat /\ 0 * 0 + 0 * 0 = 0
      BY <3>1
    <3> QED BY <3>1, <3>2 DEF Reach
  <2>2. se.shape \in {"Box", "Cross", "Disk"}
    BY DEF StructElems
  <2> QED BY <2>1, <2>2, OffsetsAre
<1>3. ASSUME NEW q \in Near(p, se) PROVE q \in Site /\ p \in Near(q, se)
  <2> DEFINE dx == q[1] - p[1]
             dy == q[2] - p[2]
  <2>1. q \in Site /\ <<dx, dy>> \in Offsets(se)
    BY DEF Near
  <2>2. q[1] \in Int /\ q[2] \in Int
    BY <2>1, SiteParts
  <2>3. dx \in Int /\ dy \in Int /\ p[1] - q[1] = -dx /\ p[2] - q[2] = -dy
    BY <1>1, <2>2
  <2> HIDE DEF dx, dy
  <2>4. <<-dx, -dy>> \in Offsets(se)
    BY <2>1, <2>3, OffsetsNearer
  <2> QED BY <2>1, <2>3, <2>4 DEF Near
<1> QED BY <1>1, <1>2, <1>3 DEF Near

\* What is read around a pixel is what is near it.
LEMMA AroundIs ==
  ASSUME NEW f \in Planes, NEW p \in Site, NEW se \in StructElems
  PROVE  Around(f, p[1], p[2], se) = {f[q] : q \in Near(p, se)}
<1> DEFINE x == p[1]
           y == p[2]
           At(d) == <<Clamp(x + d[1], 0, Width - 1), Clamp(y + d[2], 0, Height - 1)>>
<1>1. x \in 0 .. Width - 1 /\ y \in 0 .. Height - 1 /\ Width \in Nat \ {0} /\ Height \in Nat \ {0}
  BY SiteParts, PlaneAssumption
<1>2. ASSUME NEW d \in Offsets(se) PROVE At(d) \in Near(p, se)
  <2>1. d = <<d[1], d[2]>> /\ d[1] \in Int /\ d[2] \in Int
    BY PlaneAssumption DEF Offsets, Reach, StructElems
  <2> DEFINE u == Clamp(x + d[1], 0, Width - 1)
             v == Clamp(y + d[2], 0, Height - 1)
             a == d[1]
             b == d[2]
  <2>2. /\ u \in 0 .. Width - 1
        /\ (0 <= u - x /\ u - x <= a) \/ (a <= u - x /\ u - x <= 0)
    BY <1>1, <2>1 DEF Clamp
  <2>3. /\ v \in 0 .. Height - 1
        /\ (0 <= v - y /\ v - y <= b) \/ (b <= v - y /\ v - y <= 0)
    BY <1>1, <2>1 DEF Clamp
  <2>4. u - x \in Int /\ v - y \in Int /\ a \in Int /\ b \in Int /\ <<a, b>> \in Offsets(se)
    BY <1>1, <2>1, <2>2, <2>3
  <2>5. <<u, v>> \in Site
    BY <2>2, <2>3, SiteParts
  <2> HIDE DEF u, v, a, b, x, y
  <2>6. <<u - x, v - y>> \in Offsets(se)
    BY <2>2, <2>3, <2>4, OffsetsNearer
  <2>7. <<u, v>> \in Near(p, se)
    BY <2>5, <2>6 DEF Near, x, y
  <2> QED BY <2>7 DEF u, v
<1>3. ASSUME NEW q \in Near(p, se) PROVE \E d \in Offsets(se) : At(d) = q
  <2> DEFINE d == <<q[1] - x, q[2] - y>>
  <2>1. /\ q \in Site /\ d \in Offsets(se)
    BY DEF Near
  <2>2. q = <<q[1], q[2]>> /\ q[1] \in 0 .. Width - 1 /\ q[2] \in 0 .. Height - 1
    BY <2>1, SiteParts
  <2>3. d[1] = q[1] - x /\ d[2] = q[2] - y
    OBVIOUS
  <2> HIDE DEF d
  <2>4. x + d[1] = q[1] /\ y + d[2] = q[2]
    BY <1>1, <2>2, <2>3
  <2>5. Clamp(q[1], 0, Width - 1) = q[1] /\ Clamp(q[2], 0, Height - 1) = q[2]
    BY <1>1, <2>2 DEF Clamp
  <2>6. At(d) = q
    BY <2>2, <2>4, <2>5
  <2> QED BY <2>1, <2>6
<1>4. Around(f, x, y, se) = {f[At(d)] : d \in Offsets(se)}
  BY DEF Around, SampleClamped
<1> HIDE DEF At
<1>5. {f[At(d)] : d \in Offsets(se)} = {f[q] : q \in Near(p, se)}
  BY <1>2, <1>3
<1> QED BY <1>4, <1>5

-----------------------------------------------------------------------------
(* Planes, pixel by pixel.                                                 *)

LEMMA SamePlane ==
  ASSUME NEW f \in Planes, NEW g \in Planes, \A p \in Site : f[p] = g[p]
  PROVE  f = g
BY DEF Planes, Site

LEMMA PlaneAt ==
  ASSUME NEW f \in Planes, NEW p \in Site
  PROVE  f[p] \in Level /\ f[p] \in Nat /\ f[p] <= Top /\ DOMAIN f = Site
BY PlaneAssumption DEF Planes, Site, Level

\* What erosion and dilation make of a pixel: the least and the greatest that is near.
Lowest(v, f, p, se)  == /\ \A q \in Near(p, se) : v <= f[q]
                        /\ \E q \in Near(p, se) : v = f[q]
Highest(v, f, p, se) == /\ \A q \in Near(p, se) : f[q] <= v
                        /\ \E q \in Near(p, se) : v = f[q]

LEMMA Eroded ==
  ASSUME NEW f \in Planes, NEW se \in StructElems
  PROVE  /\ Erode(f, se) \in Planes
         /\ \A p \in Site : Lowest(Erode(f, se)[p], f, p, se)
<1> DEFINE v(p) == Least(Around(f, p[1], p[2], se) \cup {Top})
           g == [p \in Site |-> v(p)]
<1>1. Erode(f, se) = g
  BY DEF Erode, Pixels, Site
<1>2. ASSUME NEW p \in Site PROVE v(p) \in Level /\ Lowest(v(p), f, p, se)
  <2> DEFINE S == {f[q] : q \in Near(p, se)}
  <2>1. v(p) = Least(S \cup {Top})
    BY AroundIs
  <2>2. S \cup {Top} \in SUBSET Level
    <3>1. \A q \in Near(p, se) : f[q] \in Level
      BY PlaneAt DEF Near
    <3> QED BY <3>1, PlaneAssumption DEF Level
  <2>3. v(p) \in S \cup {Top} /\ \A w \in S \cup {Top} : v(p) <= w
    <3> HIDE DEF S
    <3> QED BY <2>1, <2>2, LeastIs
  <2>4. PICK w \in S : TRUE
    BY NearSame
  <2>5. v(p) \in S
    BY <2>2, <2>3, <2>4, PlaneAssumption DEF Level
  <2>6. \A q \in Near(p, se) : v(p) <= f[q]
    BY <2>3
  <2>7. \E q \in Near(p, se) : v(p) = f[q]
    BY <2>5
  <2> QED BY <2>2, <2>3, <2>6, <2>7 DEF Lowest
<1>3. g \in [Site -> Level] /\ \A p \in Site : g[p] = v(p)
  BY <1>2
<1> HIDE DEF g, v
<1>4. Erode(f, se) = g
  BY <1>1
<1> QED BY <1>2, <1>3, <1>4 DEF Planes, Site, Level

LEMMA Dilated ==
  ASSUME NEW f \in Planes, NEW se \in StructElems
  PROVE  /\ Dilate(f, se) \in Planes
         /\ \A p \in Site : Highest(Dilate(f, se)[p], f, p, se)
<1> DEFINE v(p) == Greatest(Around(f, p[1], p[2], se) \cup {0})
           g == [p \in Site |-> v(p)]
<1>1. Dilate(f, se) = g
  BY DEF Dilate, Pixels, Site
<1>2. ASSUME NEW p \in Site PROVE v(p) \in Level /\ Highest(v(p), f, p, se)
  <2> DEFINE S == {f[q] : q \in Near(p, se)}
  <2>1. v(p) = Greatest(S \cup {0})
    BY AroundIs
  <2>2. S \cup {0} \in SUBSET Level
    <3>1. \A q \in Near(p, se) : f[q] \in Level
      BY PlaneAt DEF Near
    <3> QED BY <3>1, PlaneAssumption DEF Level
  <2>3. v(p) \in S \cup {0} /\ \A w \in S \cup {0} : w <= v(p)
    <3> HIDE DEF S
    <3> QED BY <2>1, <2>2, GreatestIs
  <2>4. PICK w \in S : TRUE
    BY NearSame
  <2>5. v(p) \in S
    BY <2>2, <2>3, <2>4, PlaneAssumption DEF Level
  <2>6. \A q \in Near(p, se) : f[q] <= v(p)
    BY <2>3
  <2>7. \E q \in Near(p, se) : v(p) = f[q]
    BY <2>5
  <2> QED BY <2>2, <2>3, <2>6, <2>7 DEF Highest
<1>3. g \in [Site -> Level] /\ \A p \in Site : g[p] = v(p)
  BY <1>2
<1> HIDE DEF g, v
<1>4. Dilate(f, se) = g
  BY <1>1
<1> QED BY <1>2, <1>3, <1>4 DEF Planes, Site, Level

LEMMA Negated ==
  ASSUME NEW f \in Planes
  PROVE  /\ Invert(f) \in Planes
         /\ \A p \in Site : Invert(f)[p] = Top - f[p]
<1> DEFINE g == [p \in Site |-> Top - f[<<p[1], p[2]>>]]
<1>1. Invert(f) = g
  BY DEF Invert, Pixels, Site
<1>2. ASSUME NEW p \in Site PROVE g[p] = Top - f[p] /\ g[p] \in Level
  BY SiteParts, PlaneAt, PlaneAssumption DEF Level
<1>3. g \in [Site -> Level]
  BY <1>2
<1>4. g \in Planes
  BY <1>3 DEF Planes, Site, Level
<1> HIDE DEF g
<1> QED BY <1>1, <1>2, <1>4

LEMMA Differs ==
  ASSUME NEW f \in Planes, NEW g \in Planes
  PROVE  /\ SubtractClamped(f, g) \in Planes
         /\ \A p \in Site : SubtractClamped(f, g)[p] = Clamp(f[p] - g[p], 0, Top)
<1> DEFINE h == [p \in Site |-> Clamp(f[<<p[1], p[2]>>] - g[<<p[1], p[2]>>], 0, Top)]
<1>1. SubtractClamped(f, g) = h
  BY DEF SubtractClamped, Pixels, Site
<1>2. ASSUME NEW p \in Site PROVE h[p] = Clamp(f[p] - g[p], 0, Top) /\ h[p] \in Level
  <2>1. f[p] - g[p] \in Int /\ Top \in Nat /\ p = <<p[1], p[2]>>
    BY PlaneAt, SiteParts, PlaneAssumption
  <2>2. Clamp(f[p] - g[p], 0, Top) \in 0 .. Top
    BY <2>1, ClampBounds
  <2> QED BY <2>1, <2>2 DEF Level
<1>3. h \in [Site -> Level]
  BY <1>2
<1>4. h \in Planes
  BY <1>3 DEF Planes, Site, Level
<1> HIDE DEF h
<1> QED BY <1>1, <1>2, <1>4

LEMMA Thresholded ==
  ASSUME NEW f \in Planes, NEW t
  PROVE  Threshold(f, t) \in Planes
<1> DEFINE h == [p \in Site |-> IF f[<<p[1], p[2]>>] >= t THEN Top ELSE 0]
<1>1. Threshold(f, t) = h
  BY DEF Threshold, Pixels, Site
<1>2. h \in [Site -> Level]
  BY PlaneAssumption DEF Level
<1>3. h \in Planes
  BY <1>2 DEF Planes, Site, Level
<1> HIDE DEF h
<1> QED BY <1>1, <1>3

-----------------------------------------------------------------------------
(* The laws.  Below is what the pixels of two planes are to each other; an   *)
(* erosion is below f exactly where f is below the dilation, and the four     *)
(* laws of opening and closing follow from that alone.                      *)

LEMMA BelowIs ==
  ASSUME NEW f \in Planes, NEW g \in Planes
  PROVE  Below(f, g) <=> \A p \in Site : f[p] <= g[p]
BY DEF Below, Planes, Site

LEMMA Adjoint ==
  ASSUME NEW f \in Planes, NEW g \in Planes, NEW se \in StructElems
  PROVE  Below(Dilate(f, se), g) <=> Below(f, Erode(g, se))
<1> DEFINE D == Dilate(f, se)
           E == Erode(g, se)
<1>1. D \in Planes /\ \A p \in Site : Highest(D[p], f, p, se)
  BY Dilated
<1>2. E \in Planes /\ \A p \in Site : Lowest(E[p], g, p, se)
  BY Eroded
<1> HIDE DEF D, E
<1>3. ASSUME \A p \in Site : D[p] <= g[p], NEW q \in Site PROVE f[q] <= E[q]
  <2>1. PICK p \in Near(q, se) : E[q] = g[p]
    BY <1>2 DEF Lowest
  <2>2. p \in Site /\ q \in Near(p, se)
    BY <2>1, NearSame
  <2>3. f[q] <= D[p] /\ D[p] <= g[p]
    BY <1>1, <1>3, <2>2 DEF Highest
  <2>4. f[q] \in Nat /\ D[p] \in Nat /\ g[p] \in Nat
    BY <1>1, <2>2, PlaneAt
  <2> QED BY <2>1, <2>3, <2>4
<1>4. ASSUME \A q \in Site : f[q] <= E[q], NEW p \in Site PROVE D[p] <= g[p]
  <2>1. PICK q \in Near(p, se) : D[p] = f[q]
    BY <1>1 DEF Highest
  <2>2. q \in Site /\ p \in Near(q, se)
    BY <2>1, NearSame
  <2>3. f[q] <= E[q] /\ E[q] <= g[p]
    BY <1>2, <1>4, <2>2 DEF Lowest
  <2>4. f[q] \in Nat /\ E[q] \in Nat /\ g[p] \in Nat
    BY <1>2, <2>2, PlaneAt
  <2> QED BY <2>1, <2>3, <2>4
<1>5. (\A p \in Site : D[p] <= g[p]) <=> (\A q \in Site : f[q] <= E[q])
  BY <1>3, <1>4
<1>6. Below(D, g) <=> Below(f, E)
  BY <1>1, <1>2, <1>5, BelowIs
<1> QED BY <1>6 DEF D, E

LEMMA BelowOrders ==
  /\ \A f \in Planes : Below(f, f)
  /\ \A f, g, h \in Planes : Below(f, g) /\ Below(g, h) => Below(f, h)
  /\ \A f, g \in Planes : Below(f, g) /\ Below(g, f) => f = g
<1>1. ASSUME NEW f \in Planes PROVE Below(f, f)
  <2>1. \A p \in Site : f[p] <= f[p]
    BY PlaneAt
  <2> QED BY <2>1, BelowIs
<1>2. ASSUME NEW f \in Planes, NEW g \in Planes, NEW h \in Planes, Below(f, g), Below(g, h)
      PROVE  Below(f, h)
  <2>1. ASSUME NEW p \in Site PROVE f[p] <= h[p]
    <3>1. f[p] <= g[p] /\ g[p] <= h[p]
      BY <1>2, BelowIs
    <3>2. f[p] \in Nat /\ g[p] \in Nat /\ h[p] \in Nat
      BY PlaneAt
    <3> QED BY <3>1, <3>2
  <2> QED BY <2>1, BelowIs
<1>3. ASSUME NEW f \in Planes, NEW g \in Planes, Below(f, g), Below(g, f)
      PROVE  f = g
  <2>1. ASSUME NEW p \in Site PROVE f[p] = g[p]
    <3>1. f[p] <= g[p] /\ g[p] <= f[p]
      BY <1>3, BelowIs
    <3>2. f[p] \in Nat /\ g[p] \in Nat
      BY PlaneAt
    <3> QED BY <3>1, <3>2
  <2> QED BY <2>1, SamePlane
<1> QED BY <1>1, <1>2, <1>3

LEMMA Monotone ==
  ASSUME NEW f \in Planes, NEW g \in Planes, NEW se \in StructElems, Below(f, g)
  PROVE  Below(Erode(f, se), Erode(g, se)) /\ Below(Dilate(f, se), Dilate(g, se))
<1>1. /\ Erode(f, se) \in Planes /\ Erode(g, se) \in Planes
      /\ Dilate(f, se) \in Planes /\ Dilate(g, se) \in Planes
  BY Eroded, Dilated
<1>2. Below(Erode(f, se), Erode(g, se))
  <2>1. Below(Dilate(Erode(f, se), se), f)
    BY <1>1, Adjoint, BelowOrders
  <2>2. Below(Dilate(Erode(f, se), se), g)
    BY <1>1, <2>1, Dilated, BelowOrders
  <2> QED BY <1>1, <2>2, Adjoint
<1>3. Below(Dilate(f, se), Dilate(g, se))
  <2>1. Below(g, Erode(Dilate(g, se), se))
    BY <1>1, Adjoint, BelowOrders
  <2>2. Below(f, Erode(Dilate(g, se), se))
    BY <1>1, <2>1, Eroded, BelowOrders
  <2> QED BY <1>1, <2>2, Adjoint
<1> QED BY <1>2, <1>3

\* Opening is below the plane and closing above it; an erosion and a dilation move
\* the plane to their sides, opened or closed no further.
LEMMA OpensAndCloses ==
  ASSUME NEW f \in Planes, NEW se \in StructElems
  PROVE  /\ OpenPlane(f, se) \in Planes /\ ClosePlane(f, se) \in Planes
         /\ Below(OpenPlane(f, se), f) /\ Below(f, ClosePlane(f, se))
         /\ Below(Erode(f, se), OpenPlane(f, se)) /\ Below(ClosePlane(f, se), Dilate(f, se))
         /\ OpenPlane(OpenPlane(f, se), se) = OpenPlane(f, se)
         /\ ClosePlane(ClosePlane(f, se), se) = ClosePlane(f, se)
<1> DEFINE E == Erode(f, se)
           D == Dilate(f, se)
           O == Dilate(E, se)
           C == Erode(D, se)
<1>1. E \in Planes /\ D \in Planes /\ O \in Planes /\ C \in Planes
  BY Eroded, Dilated
<1>2. Below(O, f) /\ Below(f, C)
  BY <1>1, Adjoint, BelowOrders
<1>3. ASSUME NEW g \in Planes PROVE Below(Erode(g, se), g) /\ Below(g, Dilate(g, se))
  <2>1. \A p \in Site : Lowest(Erode(g, se)[p], g, p, se) /\ Highest(Dilate(g, se)[p], g, p, se)
    BY Eroded, Dilated
  <2>2. \A p \in Site : Erode(g, se)[p] <= g[p] /\ g[p] <= Dilate(g, se)[p]
    BY <2>1, NearSame DEF Lowest, Highest
  <2>3. Erode(g, se) \in Planes /\ Dilate(g, se) \in Planes
    BY Eroded, Dilated
  <2> QED BY <2>2, <2>3, BelowIs
<1>4. Below(E, O) /\ Below(C, D)
  BY <1>1, <1>3
<1>5. Dilate(Erode(O, se), se) = O
  <2>1. Erode(O, se) \in Planes /\ Dilate(Erode(O, se), se) \in Planes
    BY <1>1, Eroded, Dilated
  <2>2. Below(Dilate(Erode(O, se), se), O)
    BY <1>1, <2>1, Adjoint, BelowOrders
  <2>3. Below(E, Erode(O, se))
    BY <1>1, Adjoint, BelowOrders
  <2>4. Below(O, Dilate(Erode(O, se), se))
    BY <1>1, <2>1, <2>3, Monotone
  <2> QED BY <1>1, <2>1, <2>2, <2>4, BelowOrders
<1>6. Erode(Dilate(C, se), se) = C
  <2>1. Dilate(C, se) \in Planes /\ Erode(Dilate(C, se), se) \in Planes
    BY <1>1, Eroded, Dilated
  <2>2. Below(C, Erode(Dilate(C, se), se))
    BY <1>1, <2>1, Adjoint, BelowOrders
  <2>3. Below(Dilate(C, se), D)
    BY <1>1, Adjoint, BelowOrders
  <2>4. Below(Erode(Dilate(C, se), se), C)
    BY <1>1, <2>1, <2>3, Monotone
  <2> QED BY <1>1, <2>1, <2>2, <2>4, BelowOrders
<1> QED BY <1>1, <1>2, <1>4, <1>5, <1>6 DEF OpenPlane, ClosePlane

\* Eroding what is bright is dilating what is dark.
LEMMA Negative ==
  ASSUME NEW f \in Planes, NEW se \in StructElems
  PROVE  Invert(Erode(f, se)) = Dilate(Invert(f), se)
<1> DEFINE E == Erode(f, se)
           N == Invert(f)
           I == Invert(E)
           D == Dilate(N, se)
<1>1. /\ E \in Planes /\ N \in Planes /\ I \in Planes /\ D \in Planes
      /\ \A p \in Site : /\ Lowest(E[p], f, p, se) /\ N[p] = Top - f[p]
                         /\ I[p] = Top - E[p] /\ Highest(D[p], N, p, se)
  <2>1. E \in Planes /\ \A p \in Site : Lowest(E[p], f, p, se)
    BY Eroded
  <2>2. N \in Planes /\ \A p \in Site : N[p] = Top - f[p]
    BY Negated
  <2>3. I \in Planes /\ \A p \in Site : I[p] = Top - E[p]
    BY <2>1, Negated
  <2>4. D \in Planes /\ \A p \in Site : Highest(D[p], N, p, se)
    BY <2>2, Dilated
  <2> HIDE DEF E, N, I, D
  <2> QED BY <2>1, <2>2, <2>3, <2>4
<1> HIDE DEF E, N, I, D
<1>2. ASSUME NEW p \in Site PROVE I[p] = D[p]
  <2>1. PICK q \in Near(p, se) : E[p] = f[q]
    BY <1>1 DEF Lowest
  <2>2. PICK r \in Near(p, se) : D[p] = N[r]
    BY <1>1 DEF Highest
  <2>3. q \in Site /\ r \in Site
    BY <2>1, <2>2, NearSame
  <2>4. f[q] <= f[r] /\ N[q] <= N[r]
    BY <1>1, <2>1, <2>2 DEF Lowest, Highest
  <2>5. N[q] = Top - f[q] /\ N[r] = Top - f[r] /\ I[p] = Top - f[q]
    BY <1>1, <2>1, <2>3
  <2>6. f[q] \in Nat /\ f[r] \in Nat /\ Top \in Nat
    BY <2>3, PlaneAt, PlaneAssumption
  <2> QED BY <2>2, <2>4, <2>5, <2>6
<1>3. I = D
  BY <1>1, <1>2, SamePlane
<1> QED BY <1>3 DEF I, D, E, N

-----------------------------------------------------------------------------
(* The pipeline.  Process is a recursive function; that one exists, and what *)
(* it is, is shown here by induction on its argument.                       *)

\* Every stage makes a plane of a plane.
LEMMA StageIsPlane ==
  ASSUME NEW f \in Planes, NEW s \in Stages
  PROVE  StageCore(f, s) \in Planes /\ ApplyStage(f, s) \in Planes
<1>1. /\ s.se \in StructElems /\ s.op \in Ops
  BY DEF Stages
<1>2. /\ Erode(f, s.se) \in Planes /\ Dilate(f, s.se) \in Planes
      /\ OpenPlane(f, s.se) \in Planes /\ ClosePlane(f, s.se) \in Planes
      /\ Threshold(f, s.t) \in Planes
  BY <1>1, Eroded, Dilated, OpensAndCloses, Thresholded
<1>3. /\ SubtractClamped(Dilate(f, s.se), Erode(f, s.se)) \in Planes
      /\ SubtractClamped(f, OpenPlane(f, s.se)) \in Planes
      /\ SubtractClamped(ClosePlane(f, s.se), f) \in Planes
  BY <1>2, Differs
<1>4. StageCore(f, s) \in Planes
  BY <1>1, <1>2, <1>3 DEF StageCore, Ops
<1>5. Invert(StageCore(f, s)) \in Planes
  BY <1>4, Negated
<1> QED BY <1>4, <1>5 DEF ApplyStage

\* The planes between the stages of pipeline p over f.
Between(a, f, p) == /\ a \in [0 .. Len(p) -> Planes]
                    /\ a[0] = f
                    /\ \A n \in 1 .. Len(p) : a[n] = ApplyStage(a[n - 1], p[n])

LEMMA ProcessIs ==
  ASSUME NEW f \in Planes, NEW p \in Seq(Stages)
  PROVE  \E a : Between(a, f, p) /\ Process(f, p) = a[Len(p)]
<1> DEFINE N == Len(p)
           step == [n \in 1 .. N |-> [g \in Planes |-> ApplyStage(g, p[n])]]
           Next1(a) == [n \in 0 .. N |-> IF n = 0 THEN f ELSE ApplyStage(a[n - 1], p[n])]
           c == CHOOSE a : a = Next1(a)
<1>1. N \in Nat /\ \A n \in 1 .. N : p[n] \in Stages
  OBVIOUS
<1>2. step \in [1 .. N -> [Planes -> Planes]]
  BY <1>1, StageIsPlane
<1>3. \A n \in 1 .. N, g \in Planes : step[n][g] = ApplyStage(g, p[n])
  OBVIOUS
<1> HIDE DEF step
<1>4. PICK a \in [0 .. N -> Planes] : Follows(a, f, step, N)
  BY <1>1, <1>2, Iterated
<1>5. ASSUME NEW n \in 0 .. N PROVE a[n] = IF n = 0 THEN f ELSE ApplyStage(a[n - 1], p[n])
  <2>1. CASE n = 0
    BY <2>1, <1>4 DEF Follows
  <2>2. CASE n # 0
    <3>1. n \in 1 .. N /\ n - 1 \in 0 .. N
      BY <2>2, <1>1
    <3>2. a[n - 1] \in Planes
      BY <3>1
    <3> QED BY <2>2, <3>1, <3>2, <1>4, <1>3 DEF Follows
  <2> QED BY <2>1, <2>2
<1>6. a = Next1(a)
  BY <1>5
<1>7. c = Next1(c)
  BY <1>6
<1>8. Process(f, p) = c[N]
  BY DEF Process
<1> HIDE DEF c
<1>9. c[0] = f /\ \A n \in 1 .. N : c[n] = ApplyStage(c[n - 1], p[n])
  <2>1. \A n \in 0 .. N : c[n] = IF n = 0 THEN f ELSE ApplyStage(c[n - 1], p[n])
    BY <1>7
  <2>2. 0 \in 0 .. N /\ \A n \in 1 .. N : n \in 0 .. N /\ n # 0
    BY <1>1
  <2> HIDE DEF N, Next1
  <2> QED BY <2>1, <2>2
<1>10. \A n \in 0 .. N : c[n] \in Planes
  <2> DEFINE K == {n \in Nat : n <= N => c[n] \in Planes}
  <2>1. 0 \in K
    BY <1>9
  <2>2. ASSUME NEW n \in Nat, n \in K PROVE n + 1 \in K
    <3>0. SUFFICES ASSUME n + 1 <= N PROVE c[n + 1] \in Planes
      OBVIOUS
    <3>1. n + 1 \in 1 .. N /\ (n + 1) - 1 = n /\ c[n] \in Planes
      BY <1>1, <2>2, <3>0
    <3>2. c[n + 1] = ApplyStage(c[n], p[n + 1])
      BY <1>9, <3>1
    <3>3. p[n + 1] \in Stages
      BY <1>1, <3>1
    <3> QED BY <3>1, <3>2, <3>3, StageIsPlane
  <2> HIDE DEF K
  <2>3. Nat \subseteq K
    BY <2>1, <2>2, SetInduction
  <2>4. ASSUME NEW n \in 0 .. N PROVE c[n] \in Planes
    <3>1. n \in Nat /\ n <= N /\ n \in K
      BY <1>1, <2>3
    <3> QED BY <3>1 DEF K
  <2> QED BY <2>4
<1>11. c \in [0 .. N -> Planes]
  <2>1. c = [n \in 0 .. N |-> c[n]]
    BY <1>7
  <2> QED BY <2>1, <1>10
<1> QED BY <1>8, <1>9, <1>11 DEF Between

LEMMA BetweenSame ==
  ASSUME NEW f, NEW p \in Seq(Stages), NEW a, NEW b, Between(a, f, p), Between(b, f, p)
  PROVE  a[Len(p)] = b[Len(p)]
<1> DEFINE N == Len(p)
           K == {n \in Nat : n <= N => a[n] = b[n]}
<1>0. N \in Nat
  OBVIOUS
<1>1. 0 \in K
  BY DEF Between
<1>2. ASSUME NEW n \in Nat, n \in K PROVE n + 1 \in K
  <2>1. CASE n + 1 <= N
    <3>1. n + 1 \in 1 .. N /\ (n + 1) - 1 = n /\ a[n] = b[n]
      BY <1>0, <1>2, <2>1
    <3>2. a[n + 1] = ApplyStage(a[n], p[n + 1]) /\ b[n + 1] = ApplyStage(b[n], p[n + 1])
      BY <3>1 DEF Between
    <3> QED BY <3>1, <3>2
  <2> QED BY <2>1
<1> HIDE DEF K
<1>3. N \in K
  BY <1>0, <1>1, <1>2, SetInduction
<1> QED BY <1>3 DEF K

\* No stage changes nothing; the first of several is applied, and then the rest.
LEMMA ProcessSteps ==
  ASSUME NEW f \in Planes, NEW p \in Seq(Stages)
  PROVE  /\ Process(f, p) \in Planes
         /\ p = <<>> => Process(f, p) = f
         /\ p # <<>> => Process(f, p) = Process(ApplyStage(f, Head(p)), Tail(p))
<1>1. PICK a : Between(a, f, p) /\ Process(f, p) = a[Len(p)]
  BY ProcessIs
<1>2. Len(p) \in Nat /\ \A n \in 1 .. Len(p) : p[n] \in Stages
  OBVIOUS
<1>3. Process(f, p) \in Planes
  BY <1>1, <1>2 DEF Between
<1>4. CASE p = <<>>
  BY <1>1, <1>3, <1>4 DEF Between
<1>5. CASE p # <<>>
  <2> DEFINE q == Tail(p)
             g == ApplyStage(f, Head(p))
             M == Len(q)
             b == [n \in 0 .. M |-> a[n + 1]]
  <2>1. /\ q \in Seq(Stages) /\ M \in Nat /\ Len(p) = M + 1
        /\ Head(p) = p[1] /\ Head(p) \in Stages /\ \A n \in 1 .. M : q[n] = p[n + 1]
    BY <1>5
  <2>2. g \in Planes /\ a[1] = g
    <3>1. 1 \in 1 .. Len(p) /\ 1 - 1 = 0
      BY <2>1
    <3>2. a[1] = ApplyStage(a[0], p[1]) /\ a[0] = f
      BY <1>1, <3>1 DEF Between
    <3> QED BY <2>1, <3>2, StageIsPlane
  <2>3. PICK c : Between(c, g, q) /\ Process(g, q) = c[M]
    BY <2>1, <2>2, ProcessIs
  <2> HIDE DEF q, g, M
  <2>4. Between(b, g, q)
    <3>1. b \in [0 .. Len(q) -> Planes]
      <4>1. \A n \in 0 .. M : n + 1 \in 0 .. Len(p)
        BY <2>1
      <4>2. \A n \in 0 .. M : a[n + 1] \in Planes
        BY <4>1, <1>1 DEF Between
      <4>3. M = Len(q)
        BY DEF M
      <4> QED BY <4>2, <4>3
    <3>2. b[0] = g
      BY <2>1, <2>2
    <3>3. ASSUME NEW n \in 1 .. M PROVE b[n] = ApplyStage(b[n - 1], q[n])
      <4>1. /\ n \in 0 .. M /\ n - 1 \in 0 .. M /\ (n - 1) + 1 = n
            /\ n + 1 \in 1 .. Len(p) /\ (n + 1) - 1 = n
        BY <2>1
      <4>2. b[n] = a[n + 1] /\ b[n - 1] = a[n]
        BY <4>1
      <4>3. a[n + 1] = ApplyStage(a[n], p[n + 1])
        BY <1>1, <4>1 DEF Between
      <4> QED BY <2>1, <4>2, <4>3
    <3> HIDE DEF b
    <3> QED BY <3>1, <3>2, <3>3 DEF Between, M
  <2>5. b[M] = c[M]
    BY <2>1, <2>3, <2>4, BetweenSame DEF M
  <2>6. b[M] = a[Len(p)]
    BY <2>1
  <2> QED BY <1>1, <1>3, <1>5, <2>3, <2>5, <2>6 DEF q, g
<1> QED BY <1>3, <1>4, <1>5

-----------------------------------------------------------------------------
(* The GPU.  Textures of the pool are told apart, so that no kernel writes    *)
(* what it reads and no plane is lost that a later kernel of the stage needs;  *)
(* what the rest of the stage's kernels will leave in the last one's texture   *)
(* is, at any time, what the reference has after that stage.                 *)

Kernel == [op : {"erode", "dilate", "sub", "thresh", "invert"}, a : Pool, b : Pool, dst : Pool,
           se : StructElems, t : 0 .. Top]

\* A busy texture is never acquired, as no more than three are busy.
LEMMA Acquired ==
  /\ \A c \in Pool : Acquire(<<c>>) \in Pool \ {c}
  /\ \A c, d \in Pool : Acquire(<<c, d>>) \in Pool \ {c, d}
  /\ \A c, d, e \in Pool : Acquire(<<c, d, e>>) \in Pool \ {c, d, e}
<1>1. ASSUME NEW busy, NEW c \in Pool, NEW d \in Pool, NEW e \in Pool,
             ToSet(busy) \subseteq {c, d, e}
      PROVE  Acquire(busy) \in Pool \ ToSet(busy)
  <2> DEFINE free == Pool \ ToSet(busy)
  <2>1. {1, 2, 3, 4} \subseteq Pool /\ Pool \subseteq Nat
    BY GpuAssumption DEF Pool
  <2>2. \E n \in {1, 2, 3, 4} : n \notin {c, d, e}
    OBVIOUS
  <2>3. free # {} /\ free \in SUBSET Nat
    BY <1>1, <2>1, <2>2
  <2>4. Acquire(busy) = Least(free)
    BY <2>3 DEF Acquire
  <2> HIDE DEF free
  <2>5. \E n \in free : \A m \in free : n <= m
    BY <2>3, LeastNumber
  <2>6. Least(free) \in free
    BY <2>5 DEF Least
  <2> QED BY <2>4, <2>6 DEF free
<1>2. /\ \A c : ToSet(<<c>>) = {c}
      /\ \A c, d : ToSet(<<c, d>>) = {c, d}
      /\ \A c, d, e : ToSet(<<c, d, e>>) = {c, d, e}
  <2>1. ASSUME NEW c PROVE ToSet(<<c>>) = {c}
    BY DEF ToSet
  <2>2. ASSUME NEW c, NEW d PROVE ToSet(<<c, d>>) = {c, d}
    BY DEF ToSet
  <2>3. ASSUME NEW c, NEW d, NEW e PROVE ToSet(<<c, d, e>>) = {c, d, e}
    BY DEF ToSet
  <2> QED BY <2>1, <2>2, <2>3
<1>3. ASSUME NEW c \in Pool PROVE Acquire(<<c>>) \in Pool \ {c}
  BY <1>1, <1>2
<1>4. ASSUME NEW c \in Pool, NEW d \in Pool PROVE Acquire(<<c, d>>) \in Pool \ {c, d}
  BY <1>1, <1>2
<1>5. ASSUME NEW c \in Pool, NEW d \in Pool, NEW e \in Pool
      PROVE  Acquire(<<c, d, e>>) \in Pool \ {c, d, e}
  BY <1>1, <1>2
<1> QED BY <1>3, <1>4, <1>5

\* The subtraction of the kernel, which cannot saturate, is the reference's.
LEMMA SubKernel ==
  ASSUME NEW f \in Planes, NEW g \in Planes
  PROVE  Less(f, g) = SubtractClamped(f, g)
<1>1. ASSUME NEW p \in Site
      PROVE  f[<<p[1], p[2]>>] - Least({f[<<p[1], p[2]>>], g[<<p[1], p[2]>>]})
               = Clamp(f[<<p[1], p[2]>>] - g[<<p[1], p[2]>>], 0, Top)
  <2> DEFINE v == f[<<p[1], p[2]>>]
             w == g[<<p[1], p[2]>>]
  <2>1. v \in Level /\ w \in Level
    BY SiteParts, PlaneAt
  <2> HIDE DEF v, w
  <2>2. Least({v, w}) \in {v, w} /\ Least({v, w}) <= v /\ Least({v, w}) <= w
    BY <2>1, LeastIs
  <2>3. v - Least({v, w}) = Clamp(v - w, 0, Top)
    BY <2>1, <2>2, PlaneAssumption DEF Clamp, Level
  <2> QED BY <2>3 DEF v, w
<1>2. [p \in Site |-> f[<<p[1], p[2]>>] - Least({f[<<p[1], p[2]>>], g[<<p[1], p[2]>>]})]
        = [p \in Site |-> Clamp(f[<<p[1], p[2]>>] - g[<<p[1], p[2]>>], 0, Top)]
  BY <1>1
<1> QED BY <1>2 DEF Less, SubtractClamped, Pixels, Site

\* The textures after a kernel, and after several.
After(t, k) == [t EXCEPT ![k.dst] = Output(t, k)]
Ran(h, t, ks) == h[0] = t /\ \A n \in 1 .. Len(ks) : h[n] = After(h[n - 1], ks[n])
Leaves(t, ks, u) == \E h : Ran(h, t, ks) /\ h[Len(ks)] = u

LEMMA LeavesOne ==
  ASSUME NEW t, NEW k
  PROVE  Leaves(t, <<k>>, After(t, k))
<1> DEFINE h == [n \in 0 .. 1 |-> IF n = 0 THEN t ELSE After(t, k)]
<1>1. h[0] = t /\ h[1] = After(t, k)
  OBVIOUS
<1>2. \A n \in 1 .. Len(<<k>>) : n = 1 /\ n - 1 = 0 /\ <<k>>[n] = k
  OBVIOUS
<1> HIDE DEF h
<1>3. Ran(h, t, <<k>>)
  BY <1>1, <1>2 DEF Ran
<1> QED BY <1>1, <1>3 DEF Leaves

LEMMA LeavesMore ==
  ASSUME NEW t, NEW ks \in Seq(Kernel), NEW u, NEW k \in Kernel, Leaves(t, ks, u)
  PROVE  Leaves(t, Append(ks, k), After(u, k))
<1> DEFINE N == Len(ks)
           ls == Append(ks, k)
<1>1. PICK h : Ran(h, t, ks) /\ h[N] = u
  BY DEF Leaves
<1> DEFINE g == [n \in 0 .. N + 1 |-> IF n = N + 1 THEN After(u, k) ELSE h[n]]
<1>2. N \in Nat /\ Len(ls) = N + 1 /\ ls[N + 1] = k /\ \A n \in 1 .. N : ls[n] = ks[n]
  OBVIOUS
<1> HIDE DEF N, ls
<1>3. g[N + 1] = After(u, k) /\ \A n \in 0 .. N : g[n] = h[n]
  BY <1>2
<1> HIDE DEF g
<1>4. g[0] = t
  BY <1>1, <1>2, <1>3 DEF Ran
<1>5. ASSUME NEW n \in 1 .. N + 1 PROVE g[n] = After(g[n - 1], ls[n])
  <2>1. CASE n = N + 1
    <3>1. n - 1 = N /\ N \in 0 .. N
      BY <1>2, <2>1
    <3> QED BY <1>1, <1>2, <1>3, <2>1, <3>1
  <2>2. CASE n # N + 1
    <3>1. n \in 1 .. N /\ n \in 0 .. N /\ n - 1 \in 0 .. N
      BY <1>2, <2>2
    <3>2. h[n] = After(h[n - 1], ks[n])
      BY <1>1, <3>1 DEF Ran, N
    <3> QED BY <1>2, <1>3, <3>1, <3>2
  <2> QED BY <2>1, <2>2
<1>6. Ran(g, t, ls) /\ g[Len(ls)] = After(u, k)
  BY <1>2, <1>3, <1>4, <1>5 DEF Ran
<1>7. Leaves(t, ls, After(u, k))
  BY <1>6 DEF Leaves
<1> QED BY <1>7 DEF ls

\* After the first of them, the rest leave what all would have.
LEMMA LeavesRest ==
  ASSUME NEW t, NEW ks \in Seq(Kernel), NEW u, ks # <<>>, Leaves(t, ks, u)
  PROVE  Leaves(After(t, Head(ks)), Tail(ks), u)
<1> DEFINE N == Len(ks)
           ls == Tail(ks)
<1>1. PICK h : Ran(h, t, ks) /\ h[N] = u
  BY DEF Leaves
<1> DEFINE g == [n \in 0 .. Len(ls) |-> h[n + 1]]
<1>2. /\ Len(ls) \in Nat /\ N = Len(ls) + 1 /\ Head(ks) = ks[1]
      /\ \A n \in 1 .. Len(ls) : ls[n] = ks[n + 1]
  OBVIOUS
<1> HIDE DEF N, ls
<1>3. \A n \in 0 .. Len(ls) : g[n] = h[n + 1]
  OBVIOUS
<1> HIDE DEF g
<1>4. \A n \in 1 .. N : h[n] = After(h[n - 1], ks[n])
  BY <1>1 DEF Ran, N
<1>5. g[0] = After(t, Head(ks))
  <2>1. 1 \in 1 .. N /\ 1 - 1 = 0 /\ 0 \in 0 .. Len(ls) /\ 0 + 1 = 1
    BY <1>2
  <2>2. h[1] = After(h[0], ks[1]) /\ h[0] = t
    BY <1>1, <1>4, <2>1 DEF Ran
  <2> QED BY <1>2, <1>3, <2>1, <2>2
<1>6. ASSUME NEW n \in 1 .. Len(ls) PROVE g[n] = After(g[n - 1], ls[n])
  <2>1. /\ n \in 0 .. Len(ls) /\ n - 1 \in 0 .. Len(ls) /\ (n - 1) + 1 = n
        /\ n + 1 \in 1 .. N /\ (n + 1) - 1 = n
    BY <1>2
  <2>2. g[n] = h[n + 1] /\ g[n - 1] = h[n]
    BY <1>3, <2>1
  <2>3. h[n + 1] = After(h[n], ks[n + 1])
    BY <1>4, <2>1
  <2> QED BY <1>2, <2>2, <2>3
<1>7. g[Len(ls)] = u
  BY <1>1, <1>2, <1>3
<1>8. Leaves(After(t, Head(ks)), ls, u)
  BY <1>5, <1>6, <1>7 DEF Leaves, Ran
<1> QED BY <1>8 DEF ls

LEMMA LeavesLast ==
  ASSUME NEW t, NEW ks \in Seq(Kernel), NEW u, Len(ks) = 1, Leaves(t, ks, u)
  PROVE  u = After(t, Head(ks))
<1>1. PICK h : Ran(h, t, ks) /\ h[1] = u
  BY DEF Leaves
<1>2. 1 \in 1 .. Len(ks) /\ 1 - 1 = 0 /\ Head(ks) = ks[1]
  OBVIOUS
<1>3. h[1] = After(h[0], ks[1]) /\ h[0] = t
  BY <1>1, <1>2 DEF Ran
<1> QED BY <1>1, <1>2, <1>3

LEMMA AppendLists ==
  ASSUME NEW S, NEW k \in S, NEW l \in S, NEW m \in S
  PROVE  Append(<<k>>, l) = <<k, l>> /\ Append(<<k, l>>, m) = <<k, l, m>>
<1>1. Append(<<k>>, l) = <<k, l>>
  <2> DEFINE a == Append(<<k>>, l)
             b == <<k, l>>
  <2>1. /\ a \in Seq(S) /\ b \in Seq(S) /\ Len(a) = 2 /\ Len(b) = 2
        /\ \A i \in 1 .. 2 : a[i] = b[i]
    OBVIOUS
  <2> HIDE DEF a, b
  <2>2. a = b
    BY <2>1
  <2> QED BY <2>2 DEF a, b
<1>2. Append(<<k, l>>, m) = <<k, l, m>>
  <2> DEFINE a == Append(<<k, l>>, m)
             b == <<k, l, m>>
  <2>1. /\ a \in Seq(S) /\ b \in Seq(S) /\ Len(a) = 3 /\ Len(b) = 3
        /\ \A i \in 1 .. 3 : a[i] = b[i]
    OBVIOUS
  <2> HIDE DEF a, b
  <2>2. a = b
    BY <2>1
  <2> QED BY <2>2 DEF a, b
<1> QED BY <1>1, <1>2

LEMMA LeavesTwoOrThree ==
  ASSUME NEW t, NEW k \in Kernel, NEW l \in Kernel, NEW m \in Kernel
  PROVE  /\ Leaves(t, <<k, l>>, After(After(t, k), l))
         /\ Leaves(t, <<k, l, m>>, After(After(After(t, k), l), m))
<1>1. <<k>> \in Seq(Kernel) /\ <<k, l>> \in Seq(Kernel)
  OBVIOUS
<1>2. Append(<<k>>, l) = <<k, l>> /\ Append(<<k, l>>, m) = <<k, l, m>>
  BY AppendLists
<1> DEFINE u == After(t, k)
           v == After(u, l)
<1> HIDE DEF u, v
<1>3. Leaves(t, <<k>>, u)
  BY LeavesOne DEF u
<1>4. Leaves(t, <<k, l>>, v)
  BY <1>1, <1>2, <1>3, LeavesMore DEF v
<1>5. Leaves(t, <<k, l, m>>, After(v, m))
  BY <1>1, <1>2, <1>4, LeavesMore
<1> QED BY <1>4, <1>5 DEF u, v

Texture(t) == t = [x \in Pool |-> t[x]]

LEMMA AfterIs ==
  ASSUME NEW t, Texture(t), NEW k, k.dst \in Pool
  PROVE  /\ Texture(After(t, k))
         /\ After(t, k)[k.dst] = Output(t, k)
         /\ \A x \in Pool : x # k.dst => After(t, k)[x] = t[x]
<1> DEFINE o == Output(t, k)
           d == k.dst
<1>1. After(t, k) = [t EXCEPT ![d] = o]
  BY DEF After
<1> HIDE DEF o, d
<1>2. d \in Pool
  BY DEF d
<1>3. /\ [t EXCEPT ![d] = o] = [x \in Pool |-> [t EXCEPT ![d] = o][x]]
      /\ [t EXCEPT ![d] = o][d] = o
      /\ \A x \in Pool : x # d => [t EXCEPT ![d] = o][x] = t[x]
  BY <1>2 DEF Texture
<1> QED BY <1>1, <1>3 DEF Texture, o, d

LEMMA MorphKernel ==
  ASSUME NEW t, NEW c \in Pool, NEW d \in Pool, c # d, NEW se \in StructElems, NEW e \in BOOLEAN
  PROVE  /\ Morph(c, d, se, e) \in Kernel /\ Morph(c, d, se, e).dst = d
         /\ Output(t, Morph(c, d, se, e)) = IF e THEN Erode(t[c], se) ELSE Dilate(t[c], se)
<1> DEFINE k == Morph(c, d, se, e)
           m == IF e THEN "erode" ELSE "dilate"
<1>1. k = [op |-> m, a |-> c, b |-> c, dst |-> d, se |-> se, t |-> 0]
  BY DEF Morph
<1>2. m \in {"erode", "dilate"} /\ (e <=> m = "erode") /\ (~ e <=> m = "dilate")
  OBVIOUS
<1> HIDE DEF k, m
<1>3. k \in Kernel /\ k.dst = d /\ k.op = m /\ k.a = c /\ k.b = c /\ k.se = se
  BY <1>1, <1>2, PlaneAssumption DEF Kernel
<1>4. k.dst \notin {k.a, k.b}
  BY <1>3
<1>5. k.op = "erode" => Output(t, k) = Erode(t[c], se)
  BY <1>3, <1>4 DEF Output
<1>6. k.op = "dilate" => Output(t, k) = Dilate(t[c], se)
  BY <1>3, <1>4 DEF Output
<1> QED BY <1>2, <1>3, <1>5, <1>6 DEF k

LEMMA CombineKernel ==
  ASSUME NEW t, NEW a \in Pool, NEW b \in Pool, NEW d \in Pool, d \notin {a, b}, NEW h \in 0 .. Top,
         t[a] \in Planes, t[b] \in Planes
  PROVE  /\ \A m \in {"sub", "thresh", "invert"} :
              Combine(a, b, d, m, h) \in Kernel /\ Combine(a, b, d, m, h).dst = d
         /\ Output(t, Combine(a, b, d, "sub", h)) = SubtractClamped(t[a], t[b])
         /\ Output(t, Combine(a, b, d, "thresh", h)) = Threshold(t[a], h)
         /\ Output(t, Combine(a, b, d, "invert", h)) = Invert(t[a])
<1>1. [shape |-> "Box", radius |-> 0] \in StructElems
  BY PlaneAssumption DEF StructElems
<1>2. ASSUME NEW m \in {"sub", "thresh", "invert"}
      PROVE  Combine(a, b, d, m, h) \in Kernel /\ Combine(a, b, d, m, h).dst = d
  BY <1>1 DEF Combine, Kernel
<1> DEFINE K(m) == Combine(a, b, d, m, h)
<1>3. \A m : K(m).op = m /\ K(m).a = a /\ K(m).b = b /\ K(m).dst = d /\ K(m).t = h
  BY DEF Combine
<1> HIDE DEF K
<1>4. Output(t, K("thresh")) = Threshold(t[a], h) /\ Output(t, K("invert")) = Invert(t[a])
  BY <1>3 DEF Output
<1>5. Output(t, K("sub")) = SubtractClamped(t[a], t[b])
  <2>1. Output(t, K("sub")) = Less(t[a], t[b])
    BY <1>3 DEF Output
  <2> QED BY <2>1, SubKernel
<1> QED BY <1>2, <1>4, <1>5 DEF K

\* What the kernels of a stage leave.
Gives(t, ks, f) ==
  /\ ks \in Seq(Kernel) /\ ks # <<>>
  /\ \E u : Leaves(t, ks, u) /\ Texture(u) /\ u[Last(ks).dst] = f

\* Two neighbourhood kernels, the second on the result of the first, and a kernel that
\* only reads what is there.
LEMMA OneMorph ==
  ASSUME NEW t, Texture(t), NEW c \in Pool, NEW d \in Pool, c # d, NEW se \in StructElems,
         NEW e \in BOOLEAN
  PROVE  LET k == Morph(c, d, se, e)
         IN /\ Texture(After(t, k))
            /\ After(t, k)[d] = IF e THEN Erode(t[c], se) ELSE Dilate(t[c], se)
            /\ \A x \in Pool : x # d => After(t, k)[x] = t[x]
<1> DEFINE k == Morph(c, d, se, e)
<1>1. k \in Kernel /\ k.dst = d /\ Output(t, k) = IF e THEN Erode(t[c], se) ELSE Dilate(t[c], se)
  BY MorphKernel
<1> HIDE DEF k
<1>2. /\ Texture(After(t, k)) /\ After(t, k)[d] = Output(t, k)
      /\ \A x \in Pool : x # d => After(t, k)[x] = t[x]
  BY <1>1, AfterIs
<1> QED BY <1>1, <1>2 DEF k

LEMMA OneCombine ==
  ASSUME NEW t, Texture(t), NEW a \in Pool, NEW b \in Pool, NEW d \in Pool, d \notin {a, b},
         NEW h \in 0 .. Top, t[a] \in Planes, t[b] \in Planes, NEW m \in {"sub", "thresh", "invert"}
  PROVE  LET k == Combine(a, b, d, m, h)
         IN /\ Texture(After(t, k))
            /\ m = "sub" => After(t, k)[d] = SubtractClamped(t[a], t[b])
            /\ m = "thresh" => After(t, k)[d] = Threshold(t[a], h)
            /\ m = "invert" => After(t, k)[d] = Invert(t[a])
<1> DEFINE k == Combine(a, b, d, m, h)
<1>1. /\ k \in Kernel /\ k.dst = d
      /\ m = "sub" => Output(t, k) = SubtractClamped(t[a], t[b])
      /\ m = "thresh" => Output(t, k) = Threshold(t[a], h)
      /\ m = "invert" => Output(t, k) = Invert(t[a])
  BY CombineKernel
<1> HIDE DEF k
<1>2. Texture(After(t, k)) /\ After(t, k)[d] = Output(t, k)
  BY <1>1, AfterIs
<1> QED BY <1>1, <1>2 DEF k

LEMMA GivesOneToThree ==
  ASSUME NEW t, NEW k \in Kernel, NEW l \in Kernel, NEW m \in Kernel
  PROVE  /\ Texture(After(t, k)) => Gives(t, <<k>>, After(t, k)[k.dst])
         /\ Texture(After(After(t, k), l)) => Gives(t, <<k, l>>, After(After(t, k), l)[l.dst])
         /\ Texture(After(After(After(t, k), l), m))
              => Gives(t, <<k, l, m>>, After(After(After(t, k), l), m)[m.dst])
<1> DEFINE u == After(t, k)
           v == After(u, l)
           w == After(v, m)
<1>1. Leaves(t, <<k>>, u) /\ Leaves(t, <<k, l>>, v) /\ Leaves(t, <<k, l, m>>, w)
  BY LeavesOne, LeavesTwoOrThree
<1> HIDE DEF u, v, w
<1>2. /\ <<k>> \in Seq(Kernel) /\ <<k>> # <<>> /\ Last(<<k>>) = k
      /\ <<k, l>> \in Seq(Kernel) /\ <<k, l>> # <<>> /\ Last(<<k, l>>) = l
      /\ <<k, l, m>> \in Seq(Kernel) /\ <<k, l, m>> # <<>> /\ Last(<<k, l, m>>) = m
  BY DEF Last
<1>3. /\ Texture(u) => Gives(t, <<k>>, u[k.dst])
      /\ Texture(v) => Gives(t, <<k, l>>, v[l.dst])
      /\ Texture(w) => Gives(t, <<k, l, m>>, w[m.dst])
  BY <1>1, <1>2 DEF Gives
<1> QED BY <1>3 DEF u, v, w

\* A stage's kernels before the invert toggle leave what the reference's operator makes.
LEMMA CoreGives ==
  ASSUME NEW t, Texture(t), NEW c \in Pool, t[c] \in Planes, NEW s \in Stages
  PROVE  Gives(t, Core(c, s), StageCore(t[c], s))
<1> DEFINE f == t[c]
           se == s.se
           d == Acquire(<<c>>)
           e == Acquire(<<c, d>>)
           x == Acquire(<<c, d, e>>)
           y == Acquire(<<c, e>>)
<1>1. s.op \in Ops /\ se \in StructElems /\ s.t \in 0 .. Top /\ 0 \in 0 .. Top
  BY PlaneAssumption DEF Stages
<1>2. /\ d \in Pool /\ e \in Pool /\ x \in Pool /\ y \in Pool
      /\ c # d /\ e # c /\ e # d /\ x \notin {d, e} /\ y \notin {c, e}
  <2>1. d \in Pool \ {c}
    BY Acquired
  <2> HIDE DEF d
  <2>2. e \in Pool \ {c, d}
    BY <2>1, Acquired
  <2> HIDE DEF e
  <2>3. x \in Pool \ {c, d, e} /\ y \in Pool \ {c, e}
    BY <2>1, <2>2, Acquired
  <2> QED BY <2>1, <2>2, <2>3
<1>3. /\ Erode(f, se) \in Planes /\ Dilate(f, se) \in Planes
      /\ OpenPlane(f, se) \in Planes /\ ClosePlane(f, se) \in Planes
  BY <1>1, Eroded, Dilated, OpensAndCloses
<1> DEFINE Cr(ks) == Core(c, s) = ks
<1>4. /\ s.op = "Erode" => Cr(<<Morph(c, d, se, TRUE)>>)
      /\ s.op = "Dilate" => Cr(<<Morph(c, d, se, FALSE)>>)
      /\ s.op = "Open" => Cr(<<Morph(c, d, se, TRUE), Morph(d, e, se, FALSE)>>)
      /\ s.op = "Close" => Cr(<<Morph(c, d, se, FALSE), Morph(d, e, se, TRUE)>>)
      /\ s.op = "Gradient" => Cr(<<Morph(c, d, se, FALSE), Morph(c, e, se, TRUE),
                                   Combine(d, e, x, "sub", 0)>>)
      /\ s.op = "TopHat" => Cr(<<Morph(c, d, se, TRUE), Morph(d, e, se, FALSE),
                                 Combine(c, e, y, "sub", 0)>>)
      /\ s.op = "BlackHat" => Cr(<<Morph(c, d, se, FALSE), Morph(d, e, se, TRUE),
                                   Combine(e, c, y, "sub", 0)>>)
      /\ s.op = "Threshold" => Cr(<<Combine(c, c, d, "thresh", s.t)>>)
  BY DEF Core
<1> HIDE DEF d, e, x, y, Cr
<1>5. ASSUME NEW b \in BOOLEAN
      PROVE  /\ Morph(c, d, se, b) \in Kernel /\ Morph(c, d, se, b).dst = d
             /\ Morph(c, e, se, b) \in Kernel /\ Morph(c, e, se, b).dst = e
             /\ Morph(d, e, se, b) \in Kernel /\ Morph(d, e, se, b).dst = e
  BY <1>1, <1>2, MorphKernel
\* The textures after a first erosion or dilation of c, and a second one of d.
<1> DEFINE T1(b) == After(t, Morph(c, d, se, b))
           T2(b) == After(T1(b), Morph(d, e, se, ~ b))
<1>6. ASSUME NEW b \in BOOLEAN
      PROVE  /\ Texture(T1(b)) /\ T1(b)[c] = f
             /\ T1(b)[d] = IF b THEN Erode(f, se) ELSE Dilate(f, se)
             /\ Texture(T2(b)) /\ T2(b)[c] = f
             /\ T2(b)[e] = IF b THEN OpenPlane(f, se) ELSE ClosePlane(f, se)
  <2>1. /\ Texture(T1(b)) /\ T1(b)[c] = f
        /\ T1(b)[d] = IF b THEN Erode(f, se) ELSE Dilate(f, se)
    BY <1>1, <1>2, OneMorph
  <2> DEFINE u == T1(b)
  <2> HIDE DEF T1
  <2>2. Texture(u) /\ d # e /\ d \in Pool /\ e \in Pool
    BY <2>1, <1>2
  <2> HIDE DEF u
  <2>2a. (~ b) \in BOOLEAN
    OBVIOUS
  <2>3. ASSUME NEW g \in BOOLEAN
        PROVE  /\ Texture(After(u, Morph(d, e, se, g)))
               /\ After(u, Morph(d, e, se, g))[e] = IF g THEN Erode(u[d], se) ELSE Dilate(u[d], se)
               /\ \A z \in Pool : z # e => After(u, Morph(d, e, se, g))[z] = u[z]
    BY <1>1, <2>2, OneMorph
  <2>4. T2(b) = After(u, Morph(d, e, se, ~ b))
    BY DEF u
  <2> HIDE DEF T2
  <2>5. /\ Texture(T2(b)) /\ T2(b)[c] = u[c]
        /\ T2(b)[e] = IF ~ b THEN Erode(u[d], se) ELSE Dilate(u[d], se)
    BY <1>2, <2>2a, <2>3, <2>4
  <2>6. CASE b
    BY <2>1, <2>5, <2>6 DEF u, OpenPlane
  <2>7. CASE ~ b
    BY <2>1, <2>5, <2>7 DEF u, ClosePlane
  <2> QED BY <2>6, <2>7
<1>7. CASE s.op \in {"Erode", "Dilate"}
  <2> DEFINE b == s.op = "Erode"
             k == Morph(c, d, se, b)
  <2>1. b \in BOOLEAN /\ Core(c, s) = <<k>>
    BY <1>4, <1>7 DEF Cr
  <2>2. StageCore(f, s) = IF b THEN Erode(f, se) ELSE Dilate(f, se)
    BY <1>7 DEF StageCore
  <2> HIDE DEF b
  <2>3. k \in Kernel /\ k.dst = d /\ Texture(T1(b)) /\ T1(b)[d] = StageCore(f, s)
    BY <1>5, <1>6, <2>1, <2>2
  <2>4. T1(b) = After(t, k)
    OBVIOUS
  <2> HIDE DEF T1, k
  <2> QED BY <2>1, <2>3, <2>4, GivesOneToThree
<1>8. CASE s.op \in {"Open", "Close"}
  <2> DEFINE b == s.op = "Open"
             k == Morph(c, d, se, b)
             l == Morph(d, e, se, ~ b)
  <2>1. b \in BOOLEAN /\ Core(c, s) = <<k, l>>
    BY <1>4, <1>8 DEF Cr
  <2>2. StageCore(f, s) = IF b THEN OpenPlane(f, se) ELSE ClosePlane(f, se)
    BY <1>8 DEF StageCore
  <2> HIDE DEF b
  <2>3. (~ b) \in BOOLEAN
    OBVIOUS
  <2>4. /\ k \in Kernel /\ l \in Kernel /\ l.dst = e
        /\ Texture(T2(b)) /\ T2(b)[e] = StageCore(f, s)
    BY <1>5, <1>6, <2>1, <2>2, <2>3
  <2>5. T2(b) = After(After(t, k), l)
    OBVIOUS
  <2> HIDE DEF T2, k, l
  <2> QED BY <2>1, <2>4, <2>5, GivesOneToThree
<1>9. CASE s.op \in {"TopHat", "BlackHat"}
  <2> DEFINE b == s.op = "TopHat"
             k == Morph(c, d, se, b)
             l == Morph(d, e, se, ~ b)
             p == IF b THEN c ELSE e
             q == IF b THEN e ELSE c
             m == Combine(p, q, y, "sub", 0)
             u == T2(b)
  <2>1. b \in BOOLEAN /\ Core(c, s) = <<k, l, m>>
    BY <1>4, <1>9 DEF Cr
  <2>2. StageCore(f, s) = IF b THEN SubtractClamped(f, OpenPlane(f, se))
                          ELSE SubtractClamped(ClosePlane(f, se), f)
    BY <1>9 DEF StageCore
  <2> HIDE DEF b
  <2>3. u = After(After(t, k), l)
    OBVIOUS
  <2>4. k \in Kernel /\ l \in Kernel
    <3>1. (~ b) \in BOOLEAN
      OBVIOUS
    <3> QED BY <1>5, <2>1, <3>1
  <2>5. Texture(u) /\ u[c] = f /\ u[e] = IF b THEN OpenPlane(f, se) ELSE ClosePlane(f, se)
    BY <1>6, <2>1
  <2> HIDE DEF u, T2, k, l
  <2>6. /\ p \in Pool /\ q \in Pool /\ y \in Pool /\ y \notin {p, q}
        /\ u[p] \in Planes /\ u[q] \in Planes
        /\ SubtractClamped(u[p], u[q]) = StageCore(f, s)
    BY <1>2, <1>3, <2>2, <2>5
  <2> HIDE DEF p, q
  <2>7. m \in Kernel /\ m.dst = y
    BY <1>1, <2>6, CombineKernel
  <2>8. Texture(After(u, m)) /\ After(u, m)[y] = StageCore(f, s)
    BY <1>1, <2>5, <2>6, OneCombine
  <2> HIDE DEF m
  <2> QED BY <2>1, <2>3, <2>4, <2>7, <2>8, GivesOneToThree
<1>10. CASE s.op = "Gradient"
  <2> DEFINE k == Morph(c, d, se, FALSE)
             l == Morph(c, e, se, TRUE)
             m == Combine(d, e, x, "sub", 0)
             u == After(t, k)
             v == After(u, l)
  <2>1. Core(c, s) = <<k, l, m>>
    BY <1>4, <1>10 DEF Cr
  <2>2. StageCore(f, s) = SubtractClamped(Dilate(f, se), Erode(f, se))
    BY <1>10 DEF StageCore
  <2>3. k \in Kernel /\ l \in Kernel
    BY <1>5
  <2>4. Texture(u) /\ u[c] = f /\ u[d] = Dilate(f, se)
    BY <1>6
  <2> HIDE DEF u
  <2>5. Texture(v) /\ v[e] = Erode(u[c], se) /\ v[d] = u[d]
    <3>1. ASSUME NEW b \in BOOLEAN
          PROVE  /\ Texture(After(u, Morph(c, e, se, b)))
                 /\ After(u, Morph(c, e, se, b))[e] = IF b THEN Erode(u[c], se) ELSE Dilate(u[c], se)
                 /\ \A z \in Pool : z # e => After(u, Morph(c, e, se, b))[z] = u[z]
      BY <1>1, <1>2, <2>4, OneMorph
    <3>2. /\ Texture(After(u, Morph(c, e, se, TRUE)))
          /\ After(u, Morph(c, e, se, TRUE))[e] = Erode(u[c], se)
          /\ \A z \in Pool : z # e => After(u, Morph(c, e, se, TRUE))[z] = u[z]
      BY <3>1
    <3> QED BY <1>2, <3>2
  <2> HIDE DEF v, k, l
  <2>6. m \in Kernel /\ m.dst = x
    BY <1>1, <1>2, <1>3, <2>4, <2>5, CombineKernel
  <2>7. Texture(After(v, m)) /\ After(v, m)[x] = StageCore(f, s)
    BY <1>1, <1>2, <1>3, <2>2, <2>4, <2>5, OneCombine
  <2> HIDE DEF m
  <2> QED BY <2>1, <2>3, <2>6, <2>7, GivesOneToThree DEF u, v
<1>11. CASE s.op = "Threshold"
  <2> DEFINE k == Combine(c, c, d, "thresh", s.t)
  <2>1. Core(c, s) = <<k>>
    BY <1>4, <1>11 DEF Cr
  <2>2. StageCore(f, s) = Threshold(f, s.t)
    BY <1>11 DEF StageCore
  <2>3. k \in Kernel /\ k.dst = d
    BY <1>1, <1>2, CombineKernel
  <2>4. Texture(After(t, k)) /\ After(t, k)[d] = StageCore(f, s)
    BY <1>1, <1>2, <2>2, OneCombine
  <2> HIDE DEF k
  <2> QED BY <2>1, <2>3, <2>4, GivesOneToThree
<1> QED BY <1>1, <1>7, <1>8, <1>9, <1>10, <1>11 DEF Ops

\* So do all its kernels what the stage makes.
LEMMA KernelsGive ==
  ASSUME NEW t, Texture(t), NEW c \in Pool, t[c] \in Planes, NEW s \in Stages
  PROVE  Gives(t, KernelsOf(c, s), ApplyStage(t[c], s))
<1> DEFINE f == StageCore(t[c], s)
           ks == Core(c, s)
<1>1. Gives(t, ks, f) /\ f \in Planes
  BY CoreGives, StageIsPlane
<1>2. CASE ~ s.invert
  BY <1>1, <1>2 DEF KernelsOf, ApplyStage
<1>3. CASE s.invert
  <2> DEFINE d == Last(ks).dst
             x == Acquire(<<d>>)
             k == Combine(d, d, x, "invert", 0)
             ls == Append(ks, k)
  <2>1. KernelsOf(c, s) = ls /\ ApplyStage(t[c], s) = Invert(f)
    BY <1>3 DEF KernelsOf, Inverted, ApplyStage
  <2> HIDE DEF ks, f
  <2>2. PICK u : Leaves(t, ks, u) /\ Texture(u) /\ u[d] = f
    BY <1>1 DEF Gives
  <2>3. ks \in Seq(Kernel) /\ d \in Pool
    <3>1. ks \in Seq(Kernel) /\ ks # <<>>
      BY <1>1 DEF Gives
    <3>2. Last(ks) \in Kernel
      BY <3>1 DEF Last
    <3> QED BY <3>1, <3>2 DEF Kernel
  <2> HIDE DEF d
  <2>4. x \in Pool /\ x \notin {d, d}
    BY <2>3, Acquired
  <2> HIDE DEF x
  <2>5. 0 \in 0 .. Top
    BY PlaneAssumption
  <2>6. k \in Kernel /\ k.dst = x
    BY <1>1, <2>2, <2>3, <2>4, <2>5, CombineKernel
  <2>7. Texture(After(u, k)) /\ After(u, k)[x] = Invert(u[d])
    BY <1>1, <2>2, <2>3, <2>4, <2>5, OneCombine
  <2> HIDE DEF k
  <2>8. Leaves(t, ls, After(u, k))
    BY <2>2, <2>3, <2>6, LeavesMore
  <2>9. ls \in Seq(Kernel) /\ ls # <<>> /\ Last(ls) = k
    BY <2>3, <2>6 DEF Last
  <2> HIDE DEF ls
  <2>10. Gives(t, ls, Invert(f))
    BY <2>2, <2>6, <2>7, <2>8, <2>9 DEF Gives
  <2> QED BY <2>1, <2>10
<1> QED BY <1>2, <1>3

\* What remains to be done, of the stage and after it, makes of what is in the pool the
\* plane the reference makes of the frame.
Pending ==
  /\ kernels = <<>> => /\ tex[cur] \in Planes
                       /\ Process(tex[cur], left) = Process(frame, pipeline)
  /\ kernels # <<>> => \E f \in Planes : /\ Gives(tex, kernels, f)
                                         /\ Process(f, left) = Process(frame, pipeline)

GpuInv ==
  /\ Texture(tex) /\ cur \in Pool /\ left \in Seq(Stages)
  /\ frame = None => kernels = <<>>
  /\ frame # None => frame \in Frames /\ Pending

LEMMA EmptyHasNone ==
  ASSUME NEW S, NEW s \in Seq(S)
  PROVE  s # <<>> => Len(s) # 0
OBVIOUS

LEMMA LastOfTail ==
  ASSUME NEW S, NEW s \in Seq(S), Len(s) # 0, Len(s) # 1
  PROVE  Tail(s) # <<>> /\ Last(Tail(s)) = Last(s)
<1> DEFINE q == Tail(s)
<1>1. Len(s) \in Nat /\ Len(s) > 1
  <2> DEFINE n == Len(s)
  <2>1. n \in Nat /\ n # 0 /\ n # 1
    OBVIOUS
  <2> HIDE DEF n
  <2>2. n > 1
    BY <2>1
  <2> QED BY <2>1, <2>2 DEF n
<1>2. Len(q) = Len(s) - 1 /\ \A i \in 1 .. Len(s) - 1 : q[i] = s[i + 1]
  BY <1>1
<1> HIDE DEF q
<1>3. Len(s) - 1 \in 1 .. Len(s) - 1 /\ (Len(s) - 1) + 1 = Len(s)
  BY <1>1
<1>4. q[Len(q)] = s[Len(s)]
  BY <1>2, <1>3
<1>5. Len(q) # 0 /\ Len(<<>>) = 0
  BY <1>1, <1>2
<1>6. q # <<>>
  BY <1>5
<1> QED BY <1>4, <1>6 DEF Last, q

LEMMA GpuInvInit == Init => GpuInv
<1> SUFFICES ASSUME Init PROVE GpuInv
  OBVIOUS
<1>1. Texture(tex)
  BY DEF Init, Texture
<1>2. 1 \in Pool
  BY GpuAssumption DEF Pool
<1> QED BY <1>1, <1>2 DEF Init, GpuInv

LEMMA GpuInvNext == GpuInv /\ [Next]_vars => GpuInv'
<1> SUFFICES ASSUME GpuInv, [Next]_vars PROVE GpuInv'
  OBVIOUS
<1> USE DEF GpuInv
<1>1. ASSUME NEW f \in Frames, NEW p \in Pipelines, Upload(f, p) PROVE GpuInv'
  <2>1. 1 \in Pool /\ f \in Planes /\ p \in Seq(Stages)
    BY GpuAssumption DEF Pool
  <2>2. /\ tex' = [tex EXCEPT ![1] = f] /\ frame' = f /\ pipeline' = p /\ left' = p
        /\ cur' = 1 /\ kernels' = <<>>
    BY <1>1 DEF Upload
  <2>3. Texture(tex') /\ tex'[1] = f
    BY <2>1, <2>2 DEF Texture
  <2>4. Pending'
    BY <2>1, <2>2, <2>3 DEF Pending
  <2> QED BY <2>1, <2>2, <2>3, <2>4 DEF Texture
<1>2. CASE Stage
  <2> DEFINE s == Head(left)
             f == ApplyStage(tex[cur], s)
  <2>1. /\ frame # None /\ kernels = <<>> /\ left # <<>>
        /\ kernels' = KernelsOf(cur, s) /\ left' = Tail(left)
        /\ tex' = tex /\ cur' = cur /\ frame' = frame /\ pipeline' = pipeline
    BY <1>2 DEF Stage
  <2>2. s \in Stages /\ Tail(left) \in Seq(Stages)
    BY <2>1
  <2>3. tex[cur] \in Planes /\ Process(tex[cur], left) = Process(frame, pipeline)
    BY <2>1 DEF Pending
  <2>4. f \in Planes /\ Process(f, Tail(left)) = Process(frame, pipeline)
    BY <2>1, <2>2, <2>3, StageIsPlane, ProcessSteps
  <2>5. Gives(tex, KernelsOf(cur, s), f)
    BY <2>2, <2>3, KernelsGive
  <2> HIDE DEF f
  <2>6. Gives(tex', kernels', f) /\ kernels' # <<>>
    BY <2>1, <2>5 DEF Gives
  <2>7. Pending'
    BY <2>1, <2>4, <2>6 DEF Pending
  <2> QED BY <2>1, <2>2, <2>7 DEF Texture
<1>3. CASE Dispatch
  <2> DEFINE k == Head(kernels)
  <2>1. /\ kernels # <<>> /\ tex' = After(tex, k) /\ kernels' = Tail(kernels)
        /\ cur' = IF Len(kernels) = 1 THEN k.dst ELSE cur
        /\ frame' = frame /\ pipeline' = pipeline /\ left' = left
    BY <1>3 DEF Dispatch, After
  <2>2. frame # None
    BY <2>1
  <2>3. PICK f \in Planes : Gives(tex, kernels, f) /\ Process(f, left) = Process(frame, pipeline)
    BY <2>1, <2>2 DEF Pending
  <2>4. PICK u : Leaves(tex, kernels, u) /\ Texture(u) /\ u[Last(kernels).dst] = f
    BY <2>3 DEF Gives
  <2>5. kernels \in Seq(Kernel) /\ Tail(kernels) \in Seq(Kernel) /\ k \in Kernel /\ k.dst \in Pool
    <3>1. kernels \in Seq(Kernel)
      BY <2>3 DEF Gives
    <3>2. k \in Kernel /\ Tail(kernels) \in Seq(Kernel)
      BY <2>1, <3>1
    <3> QED BY <3>1, <3>2 DEF Kernel
  <2>6. Texture(tex')
    BY <2>1, <2>5, AfterIs
  <2>7. CASE Len(kernels) = 1
    <3>1. kernels' = <<>> /\ cur' = k.dst /\ Last(kernels) = k
      BY <2>1, <2>5, <2>7 DEF Last
    <3>2. u = tex'
      BY <2>1, <2>4, <2>5, <2>7, LeavesLast
    <3>3. tex'[cur'] = f
      BY <2>4, <3>1, <3>2
    <3>4. Pending'
      BY <2>1, <2>3, <3>1, <3>3 DEF Pending
    <3> QED BY <2>1, <2>2, <2>5, <2>6, <3>1, <3>4 DEF Texture
  <2>8. CASE Len(kernels) # 1
    <3>1. Tail(kernels) # <<>> /\ cur' = cur /\ Last(Tail(kernels)) = Last(kernels)
      <4>1. Tail(kernels) # <<>> /\ Last(Tail(kernels)) = Last(kernels)
        BY <2>1, <2>5, <2>8, EmptyHasNone, LastOfTail
      <4> QED BY <2>1, <2>8, <4>1
    <3>2. Leaves(tex', kernels', u)
      BY <2>1, <2>4, <2>5, LeavesRest
    <3>3. Gives(tex', kernels', f)
      BY <2>1, <2>4, <2>5, <3>1, <3>2 DEF Gives
    <3>4. Pending'
      BY <2>1, <2>3, <3>1, <3>3 DEF Pending
    <3> QED BY <2>1, <2>2, <2>6, <3>1, <3>4 DEF Texture
  <2> QED BY <2>7, <2>8
<1>4. CASE ReadBack \/ FallBack
  <2>1. /\ frame' = None /\ kernels' = <<>> /\ tex' = tex /\ cur' = cur /\ left' = left
    BY <1>4 DEF ReadBack, FallBack, Return
  <2> QED BY <2>1 DEF Texture
<1>5. CASE UNCHANGED vars
  <2>1. Pending' <=> Pending
    BY <1>5 DEF Pending, vars
  <2> QED BY <1>5, <2>1 DEF vars, Texture
<1> QED BY <1>1, <1>2, <1>3, <1>4, <1>5 DEF Next

\* What is returned is the reference's plane, from the GPU or in its stead.
LEMMA ReturnsExactly ==
  GpuInv /\ [Next]_vars => (frame # None /\ frame' = None => result' = Process(frame, pipeline))
<1> SUFFICES ASSUME GpuInv, [Next]_vars, frame # None, frame' = None
             PROVE  result' = Process(frame, pipeline)
  OBVIOUS
<1>1. ReadBack \/ FallBack
  <2>1. ASSUME NEW f \in Frames, NEW p \in Pipelines, Upload(f, p) PROVE FALSE
    BY <2>1 DEF Upload
  <2>2. ~ Stage /\ ~ Dispatch /\ ~ UNCHANGED vars
    BY DEF Stage, Dispatch, vars
  <2> QED BY <2>1, <2>2 DEF Next
<1>2. CASE FallBack
  BY <1>2 DEF FallBack, Return
<1>3. CASE ReadBack
  <2>1. result' = tex[cur] /\ kernels = <<>> /\ left = <<>>
    BY <1>3 DEF ReadBack, Return
  <2>2. tex[cur] \in Planes /\ Process(tex[cur], left) = Process(frame, pipeline)
    BY <2>1 DEF GpuInv, Pending
  <2>3. Process(tex[cur], left) = tex[cur]
    BY <2>1, <2>2, ProcessSteps DEF GpuInv
  <2> QED BY <2>1, <2>2, <2>3
<1> QED BY <1>1, <1>2, <1>3

LEMMA GpuInvariant == Spec => []GpuInv
<1> QED BY GpuInvInit, GpuInvNext, PTL DEF Spec

\* For planes of any size and number of levels, any pipeline of stages, any number of
\* frames, and whatever the textures of the pool (four or more) held before: what
\* runPipeline returns is what the reference computes, bit for bit.
THEOREM GpuIsExact == Spec => GpuExact
<1> QED BY GpuInvariant, ReturnsExactly, PTL DEF Spec, GpuExact

-----------------------------------------------------------------------------
(* The laws as invariants.                                                 *)

LEMMA FrameIsPlane == Spec => [](frame # None => frame \in Planes)
<1>1. GpuInv => (frame # None => frame \in Planes)
  BY GpuAssumption DEF GpuInv
<1> QED BY <1>1, GpuInvariant, PTL

\* For planes of any size and number of levels and every structuring element: erosion and
\* dilation are each other's negative; an opening lies between the erosion and the plane, a
\* closing between the plane and the dilation; and neither changes anything twice.
THEOREM LawsHold == Spec => []MorphologyLaws
<1>1. (frame # None => frame \in Planes) => MorphologyLaws
  <2> SUFFICES ASSUME frame \in Planes, NEW se \in StructElems
               PROVE  LET open == OpenPlane(frame, se)
                          close == ClosePlane(frame, se)
                      IN /\ Invert(Erode(frame, se)) = Dilate(Invert(frame), se)
                         /\ Below(Erode(frame, se), open) /\ Below(open, frame)
                         /\ Below(frame, close) /\ Below(close, Dilate(frame, se))
                         /\ OpenPlane(open, se) = open /\ ClosePlane(close, se) = close
    BY DEF MorphologyLaws, Uploaded
  <2> QED BY Negative, OpensAndCloses
<1> QED BY <1>1, FrameIsPlane, PTL

\* What is multiplied by a ratio of at most one does not grow.
LEMMA ScaleDown ==
  ASSUME NEW v \in Nat, NEW lin \in Nat \ {0}, NEW lout \in Nat, lout <= lin
  PROVE  (v * lout) \div lin \in 0 .. v
<1>1. v * lout \in Nat /\ v * lin \in Nat
  OBVIOUS
<1>2. v * lout <= v * lin
  OBVIOUS
<1> DEFINE q == (v * lout) \div lin
<1>3. q \in Nat /\ q * lin <= v * lout
  BY <1>1
<1>4. CASE q > v
  <2>1. q * lin >= (v + 1) * lin
    BY <1>3, <1>4
  <2>2. (v + 1) * lin = v * lin + lin
    OBVIOUS
  <2> QED BY <1>1, <1>2, <1>3, <2>1, <2>2
<1> QED BY <1>3, <1>4

LEMMA ScaleUp ==
  ASSUME NEW v \in Nat, NEW lin \in Nat \ {0}, NEW lout \in Nat, lin <= lout
  PROVE  (v * lout) \div lin \in Nat /\ v <= (v * lout) \div lin
<1> DEFINE q == (v * lout) \div lin
<1>1. v * lout \in Nat /\ v * lin \in Nat /\ v * lin <= v * lout
  OBVIOUS
<1>2. q \in Nat /\ v * lout < (q + 1) * lin
  BY <1>1
<1>3. CASE q < v
  <2>1. (q + 1) * lin <= v * lin
    BY <1>2, <1>3
  <2> QED BY <1>1, <1>2, <2>1
<1> QED BY <1>2, <1>3

LEMMA ScaleSame ==
  ASSUME NEW v \in Level, NEW lin \in Level, lin > 0
  PROVE  Recolour(v, lin, lin) = v
<1>1. v \in Nat /\ lin \in Nat \ {0} /\ v <= Top /\ Top \in Nat
  BY PlaneAssumption DEF Level
<1> DEFINE q == (v * lin) \div lin
<1>2. q \in 0 .. v /\ v <= q
  BY <1>1, ScaleDown, ScaleUp
<1>3. Recolour(v, lin, lin) = Clamp(q, 0, Top)
  BY DEF Recolour
<1> HIDE DEF q
<1>4. q = v
  BY <1>1, <1>2
<1>5. Clamp(v, 0, Top) = v
  BY <1>1 DEF Clamp
<1> QED BY <1>3, <1>4, <1>5

\* The luma of a pixel is a level: the weights add up to 256.
THEOREM LumaInRange ==
  ASSUME NEW r \in Level, NEW g \in Level, NEW b \in Level
  PROVE  LumaLevel(r, g, b) \in Level
BY PlaneAssumption DEF LumaLevel, Level

\* A pixel that loses luma gets no brighter in any channel.
THEOREM RecolourDarkens ==
  ASSUME NEW v \in Level, NEW lin \in Level, NEW lout \in Level, lout <= lin
  PROVE  Recolour(v, lin, lout) \in 0 .. v
<1>1. CASE lin = 0
  BY <1>1, PlaneAssumption DEF Recolour, Clamp, Level
<1>2. CASE lin > 0
  <2> DEFINE q == (v * lout) \div lin
  <2>1. q \in 0 .. v
    BY <1>2, ScaleDown, PlaneAssumption DEF Level
  <2>2. Recolour(v, lin, lout) = Clamp(q, 0, Top)
    BY <1>2 DEF Recolour
  <2> HIDE DEF q
  <2>3. Clamp(q, 0, Top) \in 0 .. v
    BY <2>1, PlaneAssumption DEF Level, Clamp
  <2> QED BY <2>2, <2>3
<1> QED BY <1>1, <1>2, PlaneAssumption DEF Level

\* A pixel that has luma and gains some gets no darker, whatever saturates.
THEOREM RecolourBrightens ==
  ASSUME NEW v \in Level, NEW lin \in Level, NEW lout \in Level, lin > 0, lin <= lout
  PROVE  Recolour(v, lin, lout) \in v .. Top
<1>1. (v * lout) \div lin \in Nat /\ v <= (v * lout) \div lin
  BY ScaleUp, PlaneAssumption DEF Level
<1> QED BY <1>1, ClampBounds, PlaneAssumption DEF Recolour, Level

-----------------------------------------------------------------------------
(* An image of three planes in the luma mode.                              *)

LEMMA LumaIsPlane ==
  ASSUME NEW r \in Planes, NEW g \in Planes, NEW b \in Planes
  PROVE  LumaPlane(<<r, g, b>>) \in Planes
<1> DEFINE h == [p \in Site |-> LumaLevel(r[<<p[1], p[2]>>], g[<<p[1], p[2]>>], b[<<p[1], p[2]>>])]
<1>1. LumaPlane(<<r, g, b>>) = h
  BY DEF LumaPlane, Pixels, Site
<1>2. ASSUME NEW p \in Site
      PROVE  LumaLevel(r[<<p[1], p[2]>>], g[<<p[1], p[2]>>], b[<<p[1], p[2]>>]) \in Level
  <2>1. r[<<p[1], p[2]>>] \in Level /\ g[<<p[1], p[2]>>] \in Level /\ b[<<p[1], p[2]>>] \in Level
    BY SiteParts, PlaneAt
  <2> QED BY <2>1, LumaInRange
<1>3. h \in [Site -> Level]
  BY <1>2
<1>4. h \in Planes
  BY <1>3 DEF Planes, Site, Level
<1> HIDE DEF h
<1> QED BY <1>1, <1>4

LEMMA Recoloured ==
  ASSUME NEW img, NEW lin, NEW lout, NEW c \in 1 .. 3
  PROVE  /\ DOMAIN RecolourFromLuma(img, lin, lout)[c] = Site
         /\ \A p \in Site : RecolourFromLuma(img, lin, lout)[c][p]
                              = Recolour(img[c][p], lin[p], lout[p])
<1> DEFINE h == [p \in Site |-> Recolour(img[c][<<p[1], p[2]>>], lin[<<p[1], p[2]>>],
                                         lout[<<p[1], p[2]>>])]
<1>1. RecolourFromLuma(img, lin, lout)[c] = h
  BY DEF RecolourFromLuma, Pixels, Site
<1>2. \A p \in Site : h[p] = Recolour(img[c][p], lin[p], lout[p])
  BY SiteParts
<1>3. DOMAIN h = Site
  OBVIOUS
<1> HIDE DEF h
<1> QED BY <1>1, <1>2, <1>3

LEMMA LumaMode ==
  ASSUME NEW r \in Planes, NEW g \in Planes, NEW b \in Planes, NEW p \in Seq(Stages)
  PROVE  ProcessImage(<<r, g, b>>, p, "Luma")
           = RecolourFromLuma(<<r, g, b>>, LumaPlane(<<r, g, b>>), Process(LumaPlane(<<r, g, b>>), p))
<1>1. Len(<<r, g, b>>) = 3
  OBVIOUS
<1> QED BY <1>1 DEF ProcessImage

\* With no stage, one erosion and one dilation.
LEMMA OneStage ==
  ASSUME NEW lin \in Planes, NEW se \in StructElems, NEW op \in {"Erode", "Dilate"}
  PROVE  LET p == <<[op |-> op, se |-> se, t |-> 0, invert |-> FALSE]>>
         IN /\ p \in Seq(Stages)
            /\ Process(lin, p) = IF op = "Erode" THEN Erode(lin, se) ELSE Dilate(lin, se)
<1> DEFINE s == [op |-> op, se |-> se, t |-> 0, invert |-> FALSE]
           p == <<s>>
           f == ApplyStage(lin, s)
<1>1. s \in Stages
  BY PlaneAssumption DEF Stages, Ops
<1>2. f = IF op = "Erode" THEN Erode(lin, se) ELSE Dilate(lin, se)
  <2>1. s.op = op /\ s.se = se /\ ~ s.invert
    OBVIOUS
  <2> HIDE DEF s
  <2> QED BY <2>1 DEF ApplyStage, StageCore
<1> HIDE DEF s
<1>3. p \in Seq(Stages) /\ p # <<>> /\ Head(p) = s /\ Tail(p) = <<>> /\ <<>> \in Seq(Stages)
  BY <1>1
<1>4. f \in Planes
  BY <1>1, StageIsPlane
<1> HIDE DEF p
<1>5. Process(lin, p) = Process(f, <<>>)
  <2>1. Process(lin, p) = Process(ApplyStage(lin, Head(p)), Tail(p))
    BY <1>3, ProcessSteps
  <2> QED BY <1>3, <2>1
<1> HIDE DEF f
<1>6. Process(f, <<>>) = f
  BY <1>3, <1>4, ProcessSteps
<1> QED BY <1>2, <1>3, <1>5, <1>6 DEF p, s

LEMMA LinBelow ==
  ASSUME NEW lin \in Planes, NEW se \in StructElems, NEW p \in Site
  PROVE  /\ Erode(lin, se) \in Planes /\ Dilate(lin, se) \in Planes
         /\ Erode(lin, se)[p] <= lin[p] /\ lin[p] <= Dilate(lin, se)[p]
BY Eroded, Dilated, NearSame DEF Lowest, Highest

\* The colour laws of any three planes.
LEMMA ColoursOf ==
  ASSUME NEW r \in Planes, NEW g \in Planes, NEW b \in Planes, NEW c \in 1 .. 3
  PROVE  LET img == <<r, g, b>>
             lin == LumaPlane(img)
             Luma(op, se) == ProcessImage(img, <<[op |-> op, se |-> se, t |-> 0,
                                                  invert |-> FALSE]>>, "Luma")
         IN /\ \A se \in StructElems :
                 /\ Below(Luma("Erode", se)[c], img[c])
                 /\ \A p \in DOMAIN lin : lin[p] > 0 => img[c][p] <= Luma("Dilate", se)[c][p]
            /\ \A p \in DOMAIN lin : lin[p] > 0 => ProcessImage(img, <<>>, "Luma")[c][p] = img[c][p]
<1> DEFINE img == <<r, g, b>>
           lin == LumaPlane(img)
           S(op, se) == <<[op |-> op, se |-> se, t |-> 0, invert |-> FALSE]>>
<1>1. lin \in Planes
  BY LumaIsPlane
<1>2. img[c] \in Planes
  OBVIOUS
<1>3. /\ \A p \in Seq(Stages) : ProcessImage(img, p, "Luma") = RecolourFromLuma(img, lin, Process(lin, p))
  BY LumaMode
<1> HIDE DEF img, lin
<1>4. ASSUME NEW se \in StructElems, NEW op \in {"Erode", "Dilate"}, NEW h,
             h = IF op = "Erode" THEN Erode(lin, se) ELSE Dilate(lin, se)
      PROVE  ProcessImage(img, S(op, se), "Luma") = RecolourFromLuma(img, lin, h)
  <2>1. S(op, se) \in Seq(Stages) /\ Process(lin, S(op, se)) = h
    BY <1>1, <1>4, OneStage
  <2> DEFINE q == S(op, se)
  <2> HIDE DEF S, q
  <2>2. ProcessImage(img, q, "Luma") = RecolourFromLuma(img, lin, h)
    BY <1>3, <2>1 DEF q
  <2> QED BY <2>2 DEF q
<1>5. DOMAIN lin = Site /\ \A p \in Site : lin[p] \in Level /\ lin[p] \in Nat /\ img[c][p] \in Level
  <2>1. DOMAIN lin = Site /\ \A p \in Site : lin[p] \in Level /\ lin[p] \in Nat
    BY <1>1, SiteParts, PlaneAt
  <2> DEFINE f == img[c]
  <2>2. f \in Planes
    BY <1>2
  <2> HIDE DEF f
  <2>3. \A p \in Site : f[p] \in Level
    BY <2>2, PlaneAt
  <2> QED BY <2>1, <2>3 DEF f
<1> HIDE DEF S
<1>6. ASSUME NEW se \in StructElems
      PROVE  /\ Below(ProcessImage(img, S("Erode", se), "Luma")[c], img[c])
             /\ \A p \in DOMAIN lin :
                  lin[p] > 0 => img[c][p] <= ProcessImage(img, S("Dilate", se), "Luma")[c][p]
  <2> DEFINE E == Erode(lin, se)
             D == Dilate(lin, se)
  <2>1. /\ ProcessImage(img, S("Erode", se), "Luma") = RecolourFromLuma(img, lin, E)
        /\ ProcessImage(img, S("Dilate", se), "Luma") = RecolourFromLuma(img, lin, D)
    BY <1>4
  <2>2. \A p \in Site : E[p] \in Level /\ D[p] \in Level /\ E[p] <= lin[p] /\ lin[p] <= D[p]
    BY <1>1, LinBelow, PlaneAt
  <2> HIDE DEF E, D
  <2>3. ASSUME NEW p \in Site
        PROVE  RecolourFromLuma(img, lin, E)[c][p] <= img[c][p]
    <3>1. RecolourFromLuma(img, lin, E)[c][p] = Recolour(img[c][p], lin[p], E[p])
      BY Recoloured
    <3>2. Recolour(img[c][p], lin[p], E[p]) \in 0 .. img[c][p]
      BY <1>5, <2>2, RecolourDarkens
    <3> QED BY <1>5, <3>1, <3>2 DEF Level
  <2>4. ASSUME NEW p \in Site, lin[p] > 0
        PROVE  img[c][p] <= RecolourFromLuma(img, lin, D)[c][p]
    <3>1. RecolourFromLuma(img, lin, D)[c][p] = Recolour(img[c][p], lin[p], D[p])
      BY Recoloured
    <3>2. Recolour(img[c][p], lin[p], D[p]) \in img[c][p] .. Top
      BY <1>5, <2>2, <2>4, RecolourBrightens
    <3> QED BY <1>5, <3>1, <3>2 DEF Level
  <2>5. DOMAIN RecolourFromLuma(img, lin, E)[c] = Site
    BY Recoloured
  <2> QED BY <1>5, <2>1, <2>3, <2>4, <2>5 DEF Below
<1>7. ASSUME NEW p \in DOMAIN lin, lin[p] > 0
      PROVE  ProcessImage(img, <<>>, "Luma")[c][p] = img[c][p]
  <2>1. <<>> \in Seq(Stages)
    OBVIOUS
  <2>2. Process(lin, <<>>) = lin
    BY <1>1, <2>1, ProcessSteps
  <2>3. ProcessImage(img, <<>>, "Luma") = RecolourFromLuma(img, lin, lin)
    <3>1. ProcessImage(img, <<>>, "Luma") = RecolourFromLuma(img, lin, Process(lin, <<>>))
      BY <1>3, <2>1
    <3> QED BY <2>2, <3>1
  <2>4. RecolourFromLuma(img, lin, lin)[c][p] = Recolour(img[c][p], lin[p], lin[p])
    BY <1>5, Recoloured
  <2> QED BY <1>5, <1>7, <2>3, <2>4, ScaleSame
<1> QED BY <1>6, <1>7 DEF img, lin, S

\* For planes of any size and number of levels: in the luma mode an erosion darkens every
\* channel of every pixel, a dilation brightens each that has luma, and no stage at all
\* leaves those as they were, whatever the ratio of the lumas is rounded to.
THEOREM ColoursHold == Spec => []ColourLaws
<1>1. ASSUME frame \in Planes, Uploaded PROVE ColourLaws
  <2> DEFINE cross == [shape |-> "Cross", radius |-> 1]
             r == frame
             g == Invert(frame)
             b == Dilate(frame, cross)
  <2>2. cross \in StructElems
    BY PlaneAssumption DEF StructElems
  <2>3. r \in Planes /\ g \in Planes /\ b \in Planes
    BY <1>1, <2>2, Negated, Dilated
  <2> HIDE DEF r, g, b
  <2> DEFINE img == <<r, g, b>>
             lin == LumaPlane(img)
             L(op, se) == ProcessImage(img, <<[op |-> op, se |-> se, t |-> 0,
                                               invert |-> FALSE]>>, "Luma")
             Z == ProcessImage(img, <<>>, "Luma")
  <2>4. ASSUME NEW c \in 1 .. 3
        PROVE  /\ \A se \in StructElems :
                    /\ Below(L("Erode", se)[c], img[c])
                    /\ \A p \in DOMAIN lin : lin[p] > 0 => img[c][p] <= L("Dilate", se)[c][p]
               /\ \A p \in DOMAIN lin : lin[p] > 0 => Z[c][p] = img[c][p]
    BY <2>3, ColoursOf
  <2> HIDE DEF img, lin, L, Z
  <2>5. /\ \A se \in StructElems, c \in 1 .. 3 :
             /\ Below(L("Erode", se)[c], img[c])
             /\ \A p \in DOMAIN lin : lin[p] > 0 => img[c][p] <= L("Dilate", se)[c][p]
        /\ \A c \in 1 .. 3, p \in DOMAIN lin : lin[p] > 0 => Z[c][p] = img[c][p]
    BY <2>4
  <2> QED BY <2>5 DEF ColourLaws, img, lin, L, Z, r, g, b
<1>2. (frame # None => frame \in Planes) => ColourLaws
  <2>1. CASE Uploaded
    BY <1>1, <2>1 DEF Uploaded
  <2>2. CASE ~ Uploaded
    BY <2>2 DEF ColourLaws
  <2> QED BY <2>1, <2>2
<1> QED BY <1>2, FrameIsPlane, PTL

=============================================================================
