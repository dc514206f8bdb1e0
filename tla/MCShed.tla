------------------------------- MODULE MCShed -------------------------------
(***************************************************************************)
(* Instances of the shed for TLC: sessions are interchangeable except for  *)
(* the ones with an oversized snapshot.                                    *)
(***************************************************************************)
EXTENDS Shed, TLC

Symmetry == Permutations(Sessions \ Big)
=============================================================================
