---------------------------- MODULE MCMemoryMap ----------------------------
(***************************************************************************)
(* Kinds of modules.                                                       *)
(***************************************************************************)
EXTENDS MemoryMap

Kind(banks, adver, dwdm, ccmis) ==
  [flat |-> FALSE, banks |-> banks, adver |-> adver, dwdm |-> dwdm, ccmis |-> ccmis]

\* With one feature each, with all but VDM, coherent without saying so and with
\* VDM, and with a reserved bank code.
MCPaged ==
  {Kind(2, {f}, FALSE, FALSE) : f \in Features}
    \cup {Kind(1, Features \ {"vdm"}, TRUE, TRUE), Kind(0, Features \ {"vdm"}, FALSE, FALSE),
          Kind(1, {"tunable", "vdm"}, TRUE, TRUE), Kind(2, {"tunable"}, TRUE, FALSE)}

MCFlat == {[Kind(1, {}, FALSE, FALSE) EXCEPT !.flat = TRUE]}
=============================================================================
