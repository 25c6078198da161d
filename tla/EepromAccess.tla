---------------------------- MODULE EepromAccess ----------------------------
(***************************************************************************)
(* The access path every part of libsffcmis uses: get_eeprom_page and      *)
(* set_eeprom_page (sffcmis.c) over i2c_ioctl_read and i2c_ioctl_write     *)
(* (i2c.c).  One action is one I2C transaction, which may fail; a write    *)
(* that fails may still have reached the module.                           *)
(*                                                                         *)
(* The module is external: 0x00 .. UpperStart-1 is the lower memory, and   *)
(* UpperStart .. MemEnd-1 a window on the bank and page that bytes 0x7E    *)
(* and 0x7F select.  Those two bytes are bankSel and pageSel, and no       *)
(* request addresses them.  A write transaction wraps inside a block of    *)
(* PageBytes bytes, the reason why i2c_ioctl_write splits at that boundary.*)
(***************************************************************************)
EXTENDS Integers

CONSTANTS
  Banks, Pages,  \* values of the bank and page select registers
  UpperStart,    \* 0x80
  MemEnd,        \* 0x100
  PageBytes,     \* I2CDevice.page_bytes, 8
  ChunkBytes,    \* I2CDevice.chunk_bytes, 4096, or 32 on a CH341 adapter
  Data, Junk,    \* byte values, and the content of a fresh malloc
  Factory,       \* the module's bytes at power-up
  Requests       \* calls: [op, addrOk, bank, page, offset, length, data]

Offsets == 0 .. MemEnd - 1

\* The module byte behind an offset when a bank and a page are selected.
Cell(b, p, o) == IF o < UpperStart THEN <<o>> ELSE <<b, p, o>>

Cells == {<<o>> : o \in 0 .. UpperStart - 1}
           \cup (Banks \X Pages \X (UpperStart .. MemEnd - 1))

ASSUME SizesAssumption ==
  /\ UpperStart \in Nat /\ MemEnd \in Nat /\ UpperStart <= MemEnd
  /\ PageBytes \in Nat \ {0} /\ ChunkBytes \in Nat \ {0}
  /\ Junk \notin Data

ASSUME FactoryAssumption == Factory \in [Cells -> Data]

\* Every caller asks for bytes of one half of the address space.
ASSUME RequestsAssumption ==
  \A r \in Requests :
    /\ r.op \in {"get", "set"} /\ r.addrOk \in BOOLEAN
    /\ r.bank \in Banks /\ r.page \in Pages
    /\ r.offset \in Nat /\ r.length \in Nat
    /\ r.offset + r.length <= MemEnd
    /\ r.offset < UpperStart => r.offset + r.length <= UpperStart
    /\ r.data \in [0 .. r.length - 1 -> Data]

VARIABLES
  mem,               \* the module's bytes
  bankSel, pageSel,  \* its bytes 0x7E and 0x7F
  pc,                \* where the current call is: "idle" between calls
  req,               \* struct module_eeprom of the current or the last call
  done,              \* total_read, or cnt of a write: bytes transferred so far
  buf,               \* request->data of a get
  ret                \* what the last call returned

vars == <<mem, bankSel, pageSel, pc, req, done, buf, ret>>

Fresh == [i \in Offsets |-> Junk]

\* The byte that the selected window shows at index i of the current call.
Seen(i) == Cell(bankSel, pageSel, req.offset + i)

\* The byte that call r means at index i.
Meant(r, i) == Cell(r.bank, r.page, r.offset + i)

Remaining == req.length - done

\* A previous program may have left any bank and page selected.
Init ==
  /\ mem = Factory
  /\ bankSel \in Banks /\ pageSel \in Pages
  /\ pc = "idle"
  /\ req \in Requests
  /\ done = 0
  /\ buf = Fresh
  /\ ret = "none"

Return(value) == pc' = "idle" /\ ret' = value

\* Mutant: the bound of the lower memory is off by one, so that offset 0x80 is
\* used without a selection.
CallBoundOffByOne(r) ==
  /\ pc = "idle"
  /\ req' = r /\ done' = 0 /\ buf' = Fresh
  /\ \/ ~r.addrOk /\ Return("einval")
     \/ /\ r.addrOk
        /\ pc' = IF r.offset <= UpperStart THEN "transfer" ELSE "bank"
        /\ ret' = "none"
  /\ UNCHANGED <<mem, bankSel, pageSel>>

\* Entry of get_eeprom_page and set_eeprom_page; eeprom_select_page skips the
\* selection below 0x80.
Call(r) ==
  /\ pc = "idle"
  /\ req' = r /\ done' = 0 /\ buf' = Fresh
  /\ \/ ~r.addrOk /\ Return("einval")
     \/ /\ r.addrOk
        /\ pc' = IF r.offset < UpperStart THEN "transfer" ELSE "bank"
        /\ ret' = "none"
  /\ UNCHANGED <<mem, bankSel, pageSel>>

\* First write of eeprom_select_page: byte 0x7E.
SelectBank ==
  /\ pc = "bank"
  /\ \/ bankSel' = req.bank /\ pc' = "page" /\ ret' = ret
     \/ bankSel' \in {bankSel, req.bank} /\ Return("err")
  /\ UNCHANGED <<mem, pageSel, req, done, buf>>

\* Mutant: the error of the page select write is ignored.
SelectPageUnchecked ==
  /\ pc = "page"
  /\ pageSel' \in {pageSel, req.page} /\ pc' = "transfer" /\ ret' = ret
  /\ UNCHANGED <<mem, bankSel, req, done, buf>>

\* Second write of eeprom_select_page: byte 0x7F.
SelectPage ==
  /\ pc = "page"
  /\ \/ pageSel' = req.page /\ pc' = "transfer" /\ ret' = ret
     \/ pageSel' \in {pageSel, req.page} /\ Return("err")
  /\ UNCHANGED <<mem, bankSel, req, done, buf>>

\* Mutant: the last chunk is not cut to the bytes that remain.
ReadChunkUncut ==
  /\ pc = "transfer" /\ req.op = "get" /\ Remaining > 0
  /\ buf' = [i \in Offsets |-> IF done <= i /\ i < done + ChunkBytes
                               THEN mem[Seen(i)] ELSE buf[i]]
  /\ done' = done + ChunkBytes
  /\ UNCHANGED <<mem, bankSel, pageSel, pc, req, ret>>

\* Mutant: every chunk is read into the start of the buffer.
ReadChunkNoAdvance ==
  LET chunk == IF Remaining > ChunkBytes THEN ChunkBytes ELSE Remaining
  IN /\ pc = "transfer" /\ req.op = "get" /\ Remaining > 0
     /\ buf' = [i \in Offsets |-> IF i < chunk THEN mem[Seen(done + i)] ELSE buf[i]]
     /\ done' = done + chunk
     /\ UNCHANGED <<mem, bankSel, pageSel, pc, req, ret>>

\* One pass of the loop of i2c_ioctl_read.
ReadChunk ==
  LET chunk == IF Remaining > ChunkBytes THEN ChunkBytes ELSE Remaining
  IN /\ pc = "transfer" /\ req.op = "get" /\ Remaining > 0
     /\ buf' = [i \in Offsets |-> IF done <= i /\ i < done + chunk
                                  THEN mem[Seen(i)] ELSE buf[i]]
     /\ done' = done + chunk
     /\ UNCHANGED <<mem, bankSel, pageSel, pc, req, ret>>

\* Mutant: a read that fails starts over.
ReadErrorRestarts ==
  /\ pc = "transfer" /\ req.op = "get" /\ Remaining > 0
  /\ done' = 0
  /\ UNCHANGED <<mem, bankSel, pageSel, pc, req, buf, ret>>

\* i2c_ioctl_read returns the bytes it has when there are some, and
\* get_eeprom_page takes any value that is not negative as success.
ReadError ==
  /\ pc = "transfer" /\ req.op = "get" /\ Remaining > 0
  /\ Return(IF done > 0 THEN "ok" ELSE "err")
  /\ UNCHANGED <<mem, bankSel, pageSel, req, done, buf>>

\* Mutant: pieces are not cut at block boundaries.
WriteSizeUncut == Remaining

\* GET_WRITE_SIZE: a piece ends at the next multiple of PageBytes.
WriteSize ==
  LET start == (req.offset + done) % PageBytes
  IN IF (start + Remaining) > PageBytes THEN PageBytes - start ELSE Remaining

\* Where the module puts byte k of a piece that starts at address a.
Landing(a, k) == (a - (a % PageBytes)) + (((a % PageBytes) + k) % PageBytes)

\* The memory after the first n bytes of the next piece.
Written(n) ==
  LET a == req.offset + done
      hits(c) == {k \in 0 .. n - 1 : c = Cell(bankSel, pageSel, Landing(a, k))}
  IN [c \in Cells |-> IF hits(c) = {} THEN mem[c]
                      ELSE req.data[done + CHOOSE k \in hits(c) : TRUE]]

\* One pass of the loop of i2c_ioctl_write.
WritePiece ==
  /\ pc = "transfer" /\ req.op = "set" /\ Remaining > 0
  /\ mem' = Written(WriteSize)
  /\ done' = done + WriteSize
  /\ UNCHANGED <<bankSel, pageSel, pc, req, buf, ret>>

\* The module may have taken any part of the piece that failed.
WriteError ==
  /\ pc = "transfer" /\ req.op = "set" /\ Remaining > 0
  /\ \E n \in 0 .. WriteSize : mem' = Written(n)
  /\ Return("err")
  /\ UNCHANGED <<bankSel, pageSel, req, done, buf>>

Finish ==
  /\ pc = "transfer" /\ Remaining = 0
  /\ Return("ok")
  /\ UNCHANGED <<mem, bankSel, pageSel, req, done, buf>>

Next ==
  \/ \E r \in Requests : Call(r)
  \/ SelectBank \/ SelectPage
  \/ ReadChunk \/ ReadError
  \/ WritePiece \/ WriteError
  \/ Finish

\* The library is a sequential caller: a call it has entered goes on.
Fairness == WF_vars(SelectBank \/ SelectPage \/ ReadChunk \/ ReadError
                     \/ WritePiece \/ WriteError \/ Finish)

Spec == Init /\ [][Next]_vars /\ Fairness

-----------------------------------------------------------------------------

\* Type correctness of the access path's state.
TypeOK ==
  /\ mem \in [Cells -> Data]
  /\ bankSel \in Banks /\ pageSel \in Pages
  /\ pc \in {"idle", "bank", "page", "transfer"}
  /\ req \in Requests
  /\ done \in 0 .. req.length
  /\ buf \in [Offsets -> Data \cup {Junk}]
  /\ ret \in {"none", "ok", "err", "einval"}

\* While bytes of the upper memory move, the module shows the requested bank
\* and page (sffcmis.c, eeprom_select_page before every transfer).
WindowSelected ==
  pc = "transfer" /\ req.offset >= UpperStart
    => bankSel = req.bank /\ pageSel = req.page

\* What a get has copied is, byte for byte, what the module holds at the place
\* the caller named, and the rest of the buffer is untouched: no chunk lands at
\* a wrong index or comes from the page of an earlier call.
ReadExact ==
  req.op = "get" =>
    \A i \in Offsets :
      buf[i] = IF i < done THEN mem[Meant(req, i)] ELSE Junk

\* A set never changes a module byte outside the range its caller named, at
\* any block boundary and even when a transaction fails half way.
WriteFootprint ==
  [][\A c \in Cells : mem'[c] # mem[c] =>
       /\ req.op = "set"
       /\ \E i \in 0 .. req.length - 1 : c = Meant(req, i)]_vars

\* A set that reports success has stored all its bytes, at their places.
WriteComplete ==
  pc = "idle" /\ req.op = "set" /\ ret = "ok" =>
    \A i \in 0 .. req.length - 1 : mem[Meant(req, i)] = req.data[i]

\* Every call returns, whatever transactions fail.
CallReturns == pc # "idle" ~> pc = "idle"

Store == INSTANCE PagedStore WITH
  store <- mem, call <- req, moved <- done, buffer <- buf,
  phase <- IF pc = "idle" THEN "idle" ELSE "open", result <- ret,
  Place <- Meant

\* The access path implements the paged store: a caller need not know of the
\* select registers, the chunks and the write pieces.
ImplementsStore == Store!Spec
=============================================================================
