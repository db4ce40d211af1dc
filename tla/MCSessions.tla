----------------------------- MODULE MCSessions -----------------------------
(* The clients of the runs of Sessions, which are alike.                    *)
EXTENDS Sessions, TLC

ClientSymmetry == Permutations(Clients)
=============================================================================
