----------------------------- MODULE MCThrPool -----------------------------
(* A small instance of ThrPool for TLC.                                    *)
EXTENDS ThrPool

CONSTANTS w1, w2, a1, a2, a3

TwoWorkers == {w1, w2}
ThreeAdders == {a1, a2, a3}
=============================================================================
