---------------------------- MODULE MCGpuBackend ----------------------------
EXTENDS GpuBackend, TLC

Disk == [shape |-> "Disk", radius |-> 1]
S(op, invert) == [op |-> op, se |-> Disk, t |-> 3, invert |-> invert]

\* Every operator, inverted or not, and an edge detector with a threshold.
Kinds == {<<S(op, invert)>> : op \in Ops, invert \in BOOLEAN}
           \cup {<<>>, <<S("Gradient", TRUE), S("Threshold", FALSE)>>,
                 <<S("BlackHat", TRUE), S("TopHat", TRUE), S("Open", FALSE)>>}

\* Three levels, one of them in between; a dim one rounds to no luma.
Levels == {0, 3, 255}

\* Planes whose first corner is the darkest: the others are mirror images.
Darkest == {f \in [Xs \X Ys -> Levels] : \A x \in {0, Width - 1}, y \in {0, Height - 1} : f[0, 0] <= f[x, y]}

=============================================================================
