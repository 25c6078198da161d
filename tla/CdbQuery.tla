------------------------------ MODULE CdbQuery ------------------------------
(***************************************************************************)
(* Queries over CDB, cmis-cdb.c: one command, its reply, and what a        *)
(* display makes of the bytes.  A command is taken at the contract that    *)
(* module CdbCommand establishes: an error, a refusal, or a success with a *)
(* reply whose announced length (rpl_len) the caller gets when the length  *)
(* could be read, and whose bytes it gets when they could be read as well. *)
(* Neither failure is reported, nor is a length above that of a reply: what *)
(* was not read of reply[] then holds what the stack or the heap held.     *)
(*                                                                         *)
(* The shows of one display run in the order of "todo", each with its own  *)
(* rpl_len and reply[].  Control is kept; of the bytes, those that decide  *)
(* what is read, asked or written next.                                    *)
(***************************************************************************)
EXTENDS JsonWriter, FiniteSetsExt

CONSTANTS
  RplLens,   \* reply lengths that a module announces
  Garbage    \* what an unread reply byte may hold

LplMax == 120    \* bytes of a reply
RplMax == 255    \* and what its length byte can say

ASSUME QueryAssumption == RplLens \subseteq 0 .. RplMax /\ Garbage \subseteq 0 .. 255

VARIABLES
  mode,   \* the option of the command line, "exit" when the program has ended
  json,   \* its --json option
  todo,   \* the shows still to run
  out,    \* the JSON output
  rpl,    \* the last reply: announced length, and whether all of it was read
  top,    \* the last byte of that reply that was used, -1 for none
  ret     \* what the display returned

query == <<mode, json, todo, out, rpl, top, ret>>

NoReply == [len |-> 0, got |-> FALSE]

\* A reply as its caller has it: nothing, its length and at most the first of its
\* bytes, or all of it.  Of a length that no reply can have, nothing is read.
Replies == {NoReply} \cup {r \in [len : RplLens, got : BOOLEAN] : r.got => r.len <= LplMax}

\* A reply byte as the caller reads it.
Byte(r, value) == IF r.got THEN {value} ELSE {value} \cup Garbage

Bit(value, mask) == (value \div mask) % 2 = 1

\* The show that is due.
Due(show) == todo # <<>> /\ Head(todo) = show

\* The show returns: its output is written and the next one is due.
Leave(outs) == out' \in outs /\ todo' = Tail(todo)

\* The beginning all shows have in common: the command fails, or is refused, and
\* the show returns with what it has opened closed (and Quit says what else); or
\* there is a reply r.
Ask(opened, closing, Quit, Answered(_)) ==
  \/ /\ \E told \in {<<>>, <<"fields">>} : Leave(Play(out, opened \o told \o closing))
     /\ rpl' = NoReply /\ top' = -1 /\ Quit
  \/ \E r \in Replies : rpl' = r /\ Answered(r)

\* A field that is decoded when the reply has "need" bytes, and its last byte.
Field(need, last) == [need |-> need, last |-> last]

\* The last byte used of a reply of which the given fields are decoded.
LastUsed(r, fields) == Max({-1} \cup {f.last : f \in {g \in fields : r.len >= g.need}})

\* The raw dump that text output ends with uses all the bytes.
Dump(r) == [need |-> IF json THEN RplMax + 1 ELSE 0, last |-> r.len - 1]
=============================================================================
