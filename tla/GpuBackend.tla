----------------------------- MODULE GpuBackend -----------------------------
(***************************************************************************)
(* host/src/engines/filter/gpu_backend.cpp and FilterEngine::runPipeline:  *)
(* the pipeline on the GPU.  Stages are broken into kernels over a pool of *)
(* work textures, which keep what earlier stages and frames left in them;  *)
(* if anything goes wrong the reference of Morphology is run instead.      *)
(*                                                                         *)
(* A texture is one plane: the kernels treat channels alike, and alpha is  *)
(* dropped on the way back.                                                *)
(***************************************************************************)
EXTENDS Morphology, SequencesExt

CONSTANTS PoolSize,        \* 6, and no stage keeps more than three busy
          Pipelines,       \* the pipelines an operator may have set
          Frames,          \* the planes a feed may send
          MaxFrames        \* bound on the frames processed

ASSUME GpuAssumption == /\ PoolSize \in Nat /\ PoolSize > 3 /\ MaxFrames \in Nat
                        /\ Frames \subseteq Planes /\ Pipelines \subseteq Seq(Stages)

VARIABLES frame, pipeline,  \* what process was called with
          tex,      \* the contents of the pool
          cur,      \* the texture of the last stage's result
          left,     \* stages not begun
          kernels,  \* of the present stage, not dispatched
          result,   \* what runPipeline returned, or None
          frames

vars == <<frame, pipeline, tex, cur, left, kernels, result, frames>>

Pool == 1 .. PoolSize
None == [p \in {} |-> 0]

\* What a fresh texture holds, and one that is read while it is written.
Undefined == Pixels(LAMBDA x, y : Top + 1)

Init == /\ frame = None /\ pipeline = <<>>
        /\ tex = [t \in Pool |-> Undefined]
        /\ cur = 1 /\ left = <<>> /\ kernels = <<>>
        /\ result = None /\ frames = 0

\* acquire: the first texture that is not busy, or the last.
\* (Faulty variant: only the first busy texture is looked at.)
AcquireFirst(busy) == LET free == Pool \ {Head(busy)}
                      IN IF free = {} THEN PoolSize ELSE Least(free)
Acquire(busy)      == LET free == Pool \ ToSet(busy)
                      IN IF free = {} THEN PoolSize ELSE Least(free)

Morph(src, dst, se, erode) == [op |-> IF erode THEN "erode" ELSE "dilate",
                               a |-> src, b |-> src, dst |-> dst, se |-> se, t |-> 0]
Combine(a, b, dst, mode, t) ==
  [op |-> mode, a |-> a, b |-> b, dst |-> dst, se |-> [shape |-> "Box", radius |-> 0], t |-> t]

\* The kernels of stage s on texture c, before the invert toggle; the last one
\* writes the result.
Core(c, s) ==
  LET se == s.se
      t  == Acquire(<<c>>)
      u  == Acquire(<<c, t>>)
  IN CASE s.op = "Erode"    -> <<Morph(c, t, se, TRUE)>>
       [] s.op = "Dilate"   -> <<Morph(c, t, se, FALSE)>>
       [] s.op = "Open"     -> <<Morph(c, t, se, TRUE), Morph(t, u, se, FALSE)>>
       [] s.op = "Close"    -> <<Morph(c, t, se, FALSE), Morph(t, u, se, TRUE)>>
       [] s.op = "Gradient" -> <<Morph(c, t, se, FALSE), Morph(c, u, se, TRUE),
                                 Combine(t, u, Acquire(<<c, t, u>>), "sub", 0)>>
       [] s.op = "TopHat"   -> <<Morph(c, t, se, TRUE), Morph(t, u, se, FALSE),
                                 Combine(c, u, Acquire(<<c, u>>), "sub", 0)>>
       [] s.op = "BlackHat" -> <<Morph(c, t, se, FALSE), Morph(t, u, se, TRUE),
                                 Combine(u, c, Acquire(<<c, u>>), "sub", 0)>>
       [] s.op = "Threshold" -> <<Combine(c, c, t, "thresh", s.t)>>

\* (Faulty variant: the inversion reuses the texture it reads.)
InvertedIn(ks) == LET d == Last(ks).dst IN Append(ks, Combine(d, d, d, "invert", 0))
Inverted(ks)   == LET d == Last(ks).dst
                  IN Append(ks, Combine(d, d, Acquire(<<d>>), "invert", 0))

KernelsOf(c, s) == IF s.invert THEN Inverted(Core(c, s)) ELSE Core(c, s)

\* The subtraction of the kernel takes off no more than there is.
Less(a, b) == Pixels(LAMBDA x, y : a[<<x, y>>] - Least({a[<<x, y>>], b[<<x, y>>]}))

\* What kernel k computes from some textures.
Output(textures, k) ==
  LET a == textures[k.a]
      b == textures[k.b]
  IN CASE k.dst \in {k.a, k.b} -> Undefined
       [] k.op = "erode"  -> Erode(a, k.se)
       [] k.op = "dilate" -> Dilate(a, k.se)
       [] k.op = "sub"    -> Less(a, b)
       [] k.op = "thresh" -> Threshold(a, k.t)
       [] k.op = "invert" -> Invert(a)

-----------------------------------------------------------------------------
\* A frame is uploaded to the first texture of the pool.
Upload(f, p) == /\ frame = None /\ frames < MaxFrames /\ frames' = frames + 1
                /\ frame' = f /\ pipeline' = p
                /\ tex' = [tex EXCEPT ![1] = f]
                /\ cur' = 1 /\ left' = p /\ kernels' = <<>>
                /\ result' = None

Stage == /\ frame # None /\ kernels = <<>> /\ left # <<>>
         /\ kernels' = KernelsOf(cur, Head(left))
         /\ left' = Tail(left)
         /\ UNCHANGED <<frame, pipeline, tex, cur, result, frames>>

Dispatch == /\ kernels # <<>>
            /\ LET k == Head(kernels)
               IN /\ tex' = [tex EXCEPT ![k.dst] = Output(tex, k)]
                  /\ cur' = IF Len(kernels) = 1 THEN k.dst ELSE cur
            /\ kernels' = Tail(kernels)
            /\ UNCHANGED <<frame, pipeline, left, result, frames>>

\* The end of process, and of runPipeline: a failure falls back to the CPU.
\* (Only the PerChannel mode comes here: the other two always run there.)
Return(r) == /\ frame # None /\ kernels = <<>> /\ left = <<>>
             /\ result' = r /\ frame' = None
             /\ UNCHANGED <<pipeline, tex, cur, left, kernels, frames>>

ReadBack == Return(tex[cur])
FallBack == Return(Process(frame, pipeline))

Next == \/ \E f \in Frames, p \in Pipelines : Upload(f, p)
        \/ Stage \/ Dispatch \/ ReadBack \/ FallBack

Spec == Init /\ [][Next]_vars

-----------------------------------------------------------------------------
(* Properties.                                                             *)

\* What the GPU returns is what the reference computes, bit for bit, whatever
\* was in the pool (DESIGN-filter.md:243).
GpuExact == [][frame # None /\ frame' = None => result' = Process(frame, pipeline)]_vars

Below(f, g) == \A p \in DOMAIN f : f[p] <= g[p]

\* The reference obeys the laws of morphology up to the border, which no
\* operator that reads beyond it, or an asymmetric element, would: erosion and
\* dilation are each other's negative, opening and closing sandwich the plane
\* and change nothing the second time, so that no subtraction ever saturates.
\* (Every frame may be asked for with no stage at all: it is looked at then.)
Uploaded == frame # None /\ pipeline = <<>>

MorphologyLaws ==
  Uploaded => \A se \in StructElems :
    LET open == OpenPlane(frame, se)
        close == ClosePlane(frame, se)
    IN /\ Invert(Erode(frame, se)) = Dilate(Invert(frame), se)
       /\ Below(Erode(frame, se), open) /\ Below(open, frame)
       /\ Below(frame, close) /\ Below(close, Dilate(frame, se))
       /\ OpenPlane(open, se) = open /\ ClosePlane(close, se) = close

\* In the luma mode an erosion darkens every channel of every pixel and a
\* dilation brightens it, although the ratio of the lumas is rounded and the
\* product may exceed a byte; a pixel whose luma rounds to zero is the one
\* exception, and turns grey (pipeline.cpp:43).  With no stage at all, what has
\* luma is as it was.
ColourLaws ==
  Uploaded =>
    LET img == <<frame, Invert(frame), Dilate(frame, [shape |-> "Cross", radius |-> 1])>>
        lin == LumaPlane(img)
        Luma(op, se) == ProcessImage(img, <<[op |-> op, se |-> se, t |-> 0,
                                             invert |-> FALSE]>>, "Luma")
    IN /\ \A se \in StructElems, c \in 1 .. 3 :
            LET eroded  == Luma("Erode", se)[c]
                dilated == Luma("Dilate", se)[c]
            IN /\ Below(eroded, img[c])
               /\ \A p \in DOMAIN lin : lin[p] > 0 => img[c][p] <= dilated[p]
       /\ LET same == ProcessImage(img, <<>>, "Luma")
          IN \A c \in 1 .. 3, p \in DOMAIN lin : lin[p] > 0 => same[c][p] = img[c][p]

=============================================================================
