--------------------------- MODULE MCConnections ----------------------------
(* Instances of Connections for TLC. *)
EXTENDS Connections

CONSTANTS a, b, b2, c, nameA, nameB, nameC

\* b2 is created under the name of b when b has been deleted.
MCNameOf == [f \in FB |-> CASE f = a -> nameA [] f \in {b, b2} -> nameB [] OTHER -> nameC]

\* Every block has a name of its own.
MCDistinctNames == [f \in FB |-> f]
=============================================================================
