--------------------------- MODULE MCEepromAccess ---------------------------
(***************************************************************************)
(* A small module: 4 bytes of lower memory, 2 banks of 2 pages of 8 bytes, *)
(* write blocks of 4 bytes, read chunks of 3.  The factory content names   *)
(* its byte, so that two different bytes never hold the same value unless  *)
(* a call wrote them.                                                      *)
(***************************************************************************)
EXTENDS EepromAccess

Code(c) == IF DOMAIN c = {1} THEN c[1] ELSE 1000 + 100 * c[1] + 20 * c[2] + c[3]

MCFactory == [c \in Cells |-> Code(c)]

Wrote(i) == 5000 + i

Ask(op, bank, page, offset, length) ==
  [op |-> op, addrOk |-> TRUE, bank |-> bank, page |-> page, offset |-> offset,
   length |-> length, data |-> [i \in 0 .. length - 1 |-> Wrote(i)]]

\* Reads of several chunks, writes that cross block boundaries at one or both
\* ends, the lower memory, an empty call and a bad address.
MCRequests ==
  { Ask("get", 0, 0, 0, 4),
    Ask("get", 1, 1, 5, 7),
    Ask("get", 1, 0, 4, 3),
    Ask("set", 0, 0, 1, 2),
    Ask("set", 1, 1, 6, 6),
    Ask("set", 0, 1, 7, 3),
    Ask("set", 0, 1, 4, 0),
    [Ask("get", 0, 0, 0, 1) EXCEPT !.addrOk = FALSE] }

MCData == {Code(c) : c \in Cells} \cup {Wrote(i) : i \in 0 .. 6}
=============================================================================
