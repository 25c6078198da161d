----------------------------- MODULE MCDataPath -----------------------------
(***************************************************************************)
(* Two lanes in one state byte: on one data path, or each on a network     *)
(* path of its own.  MCSingles gives each a data path of its own, too.     *)
(***************************************************************************)
EXTENDS DataPath

Single == [l \in Lanes |-> l]

MCPairs == [f \in Families |-> IF f = "data" THEN [l \in Lanes |-> 0] ELSE Single]

MCSingles == [f \in Families |-> Single]
=============================================================================
