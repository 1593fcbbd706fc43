------------------------------ MODULE MCFilter ------------------------------
EXTENDS Filter, TLC

CONSTANTS p1, p2, gradient, openDisk

\* One page that streams, and one that sends a single frame.
Frames == p1 :> 2 @@ p2 :> 1

=============================================================================
