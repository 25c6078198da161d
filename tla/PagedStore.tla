----------------------------- MODULE PagedStore -----------------------------
(***************************************************************************)
(* What get_eeprom_page and set_eeprom_page promise to the rest of the     *)
(* library: a store of module bytes addressed by bank, page and offset.    *)
(* A get copies the addressed bytes in order, a set stores its bytes in    *)
(* order, and nothing else is ever touched.  Bank and page selection, read *)
(* chunks and write pieces do not appear here.                             *)
(***************************************************************************)
EXTENDS Integers

CONSTANTS
  Requests,   \* the calls the library issues
  Data,       \* byte values
  Junk,       \* content of a fresh malloc
  Offsets,    \* byte offsets of the address space
  Cells,      \* the module's bytes
  Factory,    \* their content at power-up
  Place(_, _) \* Place(r, i): the byte that call r addresses at index i

VARIABLES
  store,   \* the module's bytes
  call,    \* the current or the last call
  moved,   \* how many bytes of it have been transferred
  buffer,  \* what a get has copied
  phase,   \* "idle" or "open"
  result   \* what the last call returned

vars == <<store, call, moved, buffer, phase, result>>

Empty == [i \in Offsets |-> Junk]

Init ==
  /\ store = Factory
  /\ call \in Requests
  /\ moved = 0
  /\ buffer = Empty
  /\ phase = "idle"
  /\ result = "none"

Open(r) ==
  /\ phase = "idle"
  /\ call' = r /\ moved' = 0 /\ buffer' = Empty
  /\ phase' = "open" /\ result' = "none"
  /\ UNCHANGED store

Refuse(r) ==
  /\ phase = "idle"
  /\ ~r.addrOk
  /\ call' = r /\ moved' = 0 /\ buffer' = Empty /\ result' = "einval"
  /\ UNCHANGED <<store, phase>>

\* Bytes moved .. n-1 of the current call are the ones a transfer up to n copies.
Fetch(n) ==
  /\ phase = "open" /\ call.op = "get"
  /\ buffer' = [i \in Offsets |-> IF moved <= i /\ i < n
                                  THEN store[Place(call, i)] ELSE buffer[i]]
  /\ moved' = n
  /\ UNCHANGED <<store, call, phase, result>>

\* Bytes moved .. n-1 of the current call go to their places, and nowhere else.
Stores(n) ==
  /\ store' \in [Cells -> Data]
  /\ \A i \in moved .. n - 1 : store'[Place(call, i)] = call.data[i]
  /\ \A c \in Cells : store'[c] # store[c] => \E i \in moved .. n - 1 : c = Place(call, i)

Put(n) ==
  /\ phase = "open" /\ call.op = "set"
  /\ Stores(n)
  /\ moved' = n
  /\ UNCHANGED <<call, buffer, phase, result>>

\* A set that fails may have stored a part of the bytes it was sending.
FailPut(n) ==
  /\ phase = "open" /\ call.op = "set"
  /\ Stores(n)
  /\ phase' = "idle" /\ result' = "err"
  /\ UNCHANGED <<call, moved, buffer>>

\* A get fails only when it has copied nothing.
FailGet ==
  /\ phase = "open" /\ call.op = "get" /\ moved = 0
  /\ phase' = "idle" /\ result' = "err"
  /\ UNCHANGED <<store, call, moved, buffer>>

\* Success: every byte of a set, every byte or a non-empty prefix of a get.
Succeed ==
  /\ phase = "open"
  /\ \/ moved = call.length
     \/ call.op = "get" /\ moved > 0
  /\ phase' = "idle" /\ result' = "ok"
  /\ UNCHANGED <<store, call, moved, buffer>>

Next ==
  \/ \E r \in Requests : Open(r) \/ Refuse(r)
  \/ \E n \in moved + 1 .. call.length : Fetch(n) \/ Put(n)
  \/ \E n \in moved .. call.length : FailPut(n)
  \/ FailGet
  \/ Succeed

Spec == Init /\ [][Next]_vars
=============================================================================
