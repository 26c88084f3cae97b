---------------------------- MODULE MCIOMapper ----------------------------
(* Two ids and two blocks; both handles fit the first block, one the second. *)
EXTENDS IOMapper, TLC

CONSTANTS i1, i2, ix, iw, h1, h2

MCFitting == {<<h1, ix>>, <<h2, ix>>, <<h2, iw>>}

\* The two ids are interchangeable.
MCSymmetry == Permutations({i1, i2})
=============================================================================
