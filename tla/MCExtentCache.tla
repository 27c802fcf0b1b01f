--------------------------- MODULE MCExtentCache ---------------------------
(* A small instance of ExtentCache for TLC.                                *)
EXTENDS ExtentCache, TLC

CONSTANTS c1, c2, w1, w2, w3, root, file, empty, short, long

MCClients  == {c1, c2}
MCWorkers  == {w1, w2, w3}
MCClientOf == (w1 :> c1) @@ (w2 :> c1) @@ (w3 :> c2)
MCExtents  == {file}
MCValues   == {empty, short, long}
MCSize     == (empty :> 0) @@ (short :> 1) @@ (long :> 2)

=============================================================================
