------------------------ MODULE EepromAccess_proofs ------------------------
(***************************************************************************)
(* Proofs about the access path, for every geometry of a module, every     *)
(* content and every set of requests that EepromAccess allows.             *)
(*                                                                         *)
(* The argument: eeprom_select_page makes the window show the requested    *)
(* bank and page (BankSelected, then WindowSelected), GET_WRITE_SIZE keeps *)
(* a piece inside one write block, so that the module's wrap never happens *)
(* (LandingExact), and two indices of a call are two bytes of the module   *)
(* (MeantInjective), so that a piece leaves the earlier ones alone.        *)
(***************************************************************************)
EXTENDS EepromAccess, TLAPS

\* Between the two writes of eeprom_select_page the bank is the requested one.
BankSelected == pc = "page" => bankSel = req.bank

\* The bytes that a set has sent without an error are in their places.
WriteProgress ==
  req.op = "set" /\ (pc # "idle" \/ ret = "ok") =>
    \A i \in 0 .. done - 1 : mem[Meant(req, i)] = req.data[i]

\* A set ends in success only when all its bytes have been sent.
WriteWhole == pc = "idle" /\ req.op = "set" /\ ret = "ok" => done = req.length

IInv ==
  TypeOK /\ BankSelected /\ WindowSelected /\ ReadExact /\ WriteProgress /\ WriteWhole

-----------------------------------------------------------------------------
(* Addresses. *)

\* The remainder by a positive number lies below it.
LEMMA ModRange ==
  ASSUME NEW a \in Nat, NEW n \in Nat \ {0}
  PROVE  a % n \in 0 .. n - 1
OBVIOUS

\* A number below the divisor is its own remainder.
LEMMA ModSmall ==
  ASSUME NEW n \in Nat \ {0}, NEW x \in 0 .. n - 1
  PROVE  x % n = x
OBVIOUS

\* GET_WRITE_SIZE: a piece is not empty, is part of what remains, and ends inside
\* the write block it starts in.
LEMMA WriteSizeInBlock ==
  ASSUME req \in Requests, done \in 0 .. req.length, Remaining > 0
  PROVE  /\ WriteSize \in 1 .. Remaining
         /\ ((req.offset + done) % PageBytes) + WriteSize <= PageBytes
<1> DEFINE start == (req.offset + done) % PageBytes
<1>1. req.offset \in Nat /\ req.length \in Nat
  BY RequestsAssumption
<1>2. PageBytes \in Nat \ {0} /\ req.offset + done \in Nat
  BY <1>1, SizesAssumption
<1>3. start \in 0 .. PageBytes - 1
  BY <1>2, ModRange
<1> HIDE DEF start
<1>4. WriteSize = IF (start + Remaining) > PageBytes THEN PageBytes - start ELSE Remaining
  BY DEF WriteSize, start
<1>5. Remaining \in Nat \ {0}
  BY <1>1 DEF Remaining
<1>6. WriteSize \in 1 .. Remaining /\ start + WriteSize <= PageBytes
  BY <1>2, <1>3, <1>4, <1>5
<1> QED
  BY <1>6 DEF start

\* A byte that stays in the block where its piece starts does not wrap.
LEMMA LandingExact ==
  ASSUME NEW a \in Nat, NEW k \in Nat, (a % PageBytes) + k < PageBytes
  PROVE  Landing(a, k) = a + k
<1>1. a % PageBytes \in 0 .. PageBytes - 1
  BY ModRange, SizesAssumption
<1>2. (a % PageBytes) + k \in 0 .. PageBytes - 1
  BY <1>1, SizesAssumption
<1>3. ((a % PageBytes) + k) % PageBytes = (a % PageBytes) + k
  BY <1>2, ModSmall, SizesAssumption
<1> QED
  BY <1>1, <1>3 DEF Landing

\* Every byte that a call means is a byte of the module.
LEMMA MeantIsCell ==
  ASSUME NEW r \in Requests, NEW i \in 0 .. r.length - 1
  PROVE  Meant(r, i) \in Cells
<1>1. /\ r.offset \in Nat /\ r.length \in Nat /\ r.offset + r.length <= MemEnd
      /\ r.bank \in Banks /\ r.page \in Pages
  BY RequestsAssumption
<1>2. r.offset + i \in 0 .. MemEnd - 1
  BY <1>1, SizesAssumption
<1>3. CASE r.offset + i < UpperStart
  BY <1>2, <1>3, SizesAssumption DEF Meant, Cell, Cells
<1>4. CASE r.offset + i >= UpperStart
  BY <1>1, <1>2, <1>4, SizesAssumption DEF Meant, Cell, Cells
<1> QED
  BY <1>2, <1>3, <1>4, SizesAssumption

\* Two indices of a call mean two bytes: a call stays in one half of the memory.
LEMMA MeantInjective ==
  ASSUME NEW r \in Requests, NEW i \in 0 .. r.length - 1, NEW j \in 0 .. r.length - 1,
         Meant(r, i) = Meant(r, j)
  PROVE  i = j
<1>1. /\ r.offset \in Nat /\ r.length \in Nat
      /\ r.offset < UpperStart => r.offset + r.length <= UpperStart
  BY RequestsAssumption
<1>2. CASE r.offset < UpperStart
  <2>1. r.offset + i < UpperStart /\ r.offset + j < UpperStart
    BY <1>1, <1>2, SizesAssumption
  <2>2. <<r.offset + i>> = <<r.offset + j>>
    BY <2>1 DEF Meant, Cell
  <2> QED
    BY <1>1, <2>2
<1>3. CASE r.offset >= UpperStart
  <2>1. ~(r.offset + i < UpperStart) /\ ~(r.offset + j < UpperStart)
    BY <1>1, <1>3, SizesAssumption
  <2>2. <<r.bank, r.page, r.offset + i>> = <<r.bank, r.page, r.offset + j>>
    BY <2>1 DEF Meant, Cell
  <2> QED
    BY <1>1, <2>2
<1> QED
  BY <1>1, <1>2, <1>3, SizesAssumption

\* During a transfer the window shows the bytes that the call means.
LEMMA SeenIsMeant ==
  ASSUME TypeOK, WindowSelected, pc = "transfer", NEW i \in 0 .. req.length - 1
  PROVE  Seen(i) = Meant(req, i)
<1>1. /\ req.offset \in Nat /\ req.length \in Nat
      /\ req.offset < UpperStart => req.offset + req.length <= UpperStart
  BY RequestsAssumption DEF TypeOK
<1>2. CASE req.offset < UpperStart
  <2>1. req.offset + i < UpperStart
    BY <1>1, <1>2, SizesAssumption
  <2> QED
    BY <2>1 DEF Seen, Meant, Cell
<1>3. CASE req.offset >= UpperStart
  BY <1>3 DEF WindowSelected, Seen, Meant
<1> QED
  BY <1>1, <1>2, <1>3, SizesAssumption

-----------------------------------------------------------------------------
(* What a piece of a write leaves in the memory. *)

\* The bytes of a piece go where the call means them to go.
LEMMA PieceLanding ==
  ASSUME TypeOK, WindowSelected, pc = "transfer", Remaining > 0,
         NEW n \in 0 .. WriteSize, NEW k \in 0 .. n - 1
  PROVE  /\ done + k \in 0 .. req.length - 1
         /\ Cell(bankSel, pageSel, Landing(req.offset + done, k)) = Meant(req, done + k)
<1>1. req.offset \in Nat /\ req.length \in Nat /\ done \in 0 .. req.length /\ req \in Requests
  BY RequestsAssumption DEF TypeOK
<1>2. /\ WriteSize \in 1 .. Remaining
      /\ ((req.offset + done) % PageBytes) + WriteSize <= PageBytes
  BY <1>1, WriteSizeInBlock
<1>3. (req.offset + done) % PageBytes \in 0 .. PageBytes - 1
  <2>1. req.offset + done \in Nat /\ PageBytes \in Nat \ {0}
    BY <1>1, SizesAssumption
  <2> QED
    BY <2>1, ModRange
<1>4. k \in Nat /\ k < WriteSize /\ done + k \in 0 .. req.length - 1
  BY <1>1, <1>2 DEF Remaining
<1>5. ((req.offset + done) % PageBytes) + k < PageBytes
  BY <1>2, <1>3, <1>4, SizesAssumption
<1>6. Landing(req.offset + done, k) = req.offset + done + k
  <2>1. req.offset + done \in Nat
    BY <1>1
  <2> QED
    BY <1>4, <1>5, <2>1, LandingExact
<1>7. Cell(bankSel, pageSel, req.offset + (done + k)) = Meant(req, done + k)
  BY <1>4, SeenIsMeant DEF Seen
<1>8. req.offset + done + k = req.offset + (done + k)
  BY <1>1, <1>4
<1> QED
  BY <1>4, <1>6, <1>7, <1>8

\* A piece, or the part of it that the module took before a failure, stores bytes
\* of the call and changes no other byte.
LEMMA PieceWritten ==
  ASSUME TypeOK, WindowSelected, pc = "transfer", Remaining > 0,
         NEW n \in 0 .. WriteSize
  PROVE  /\ Written(n) \in [Cells -> Data]
         /\ \A i \in done .. done + n - 1 :
              i \in 0 .. req.length - 1 /\ Written(n)[Meant(req, i)] = req.data[i]
         /\ \A c \in Cells : Written(n)[c] # mem[c] =>
              \E i \in done .. done + n - 1 : c = Meant(req, i)
<1> DEFINE hits(c) == {k \in 0 .. n - 1 :
                         c = Cell(bankSel, pageSel, Landing(req.offset + done, k))}
           sent(c) == CHOOSE k \in hits(c) : TRUE
<1>1. /\ req \in Requests /\ req.offset \in Nat /\ req.length \in Nat
      /\ done \in 0 .. req.length /\ req.data \in [0 .. req.length - 1 -> Data]
      /\ mem \in [Cells -> Data]
  BY RequestsAssumption DEF TypeOK
<1>2. \A k \in 0 .. n - 1 :
        /\ done + k \in 0 .. req.length - 1
        /\ Cell(bankSel, pageSel, Landing(req.offset + done, k)) = Meant(req, done + k)
  BY PieceLanding
<1>3. Written(n) = [c \in Cells |-> IF hits(c) = {} THEN mem[c] ELSE req.data[done + sent(c)]]
  BY DEF Written
<1>4. ASSUME NEW c \in Cells, hits(c) # {}
      PROVE  /\ sent(c) \in 0 .. n - 1
             /\ done + sent(c) \in 0 .. req.length - 1
             /\ c = Meant(req, done + sent(c))
  <2>1. sent(c) \in hits(c)
    BY <1>4
  <2> HIDE DEF sent
  <2>2. sent(c) \in 0 .. n - 1
        /\ c = Cell(bankSel, pageSel, Landing(req.offset + done, sent(c)))
    BY <2>1
  <2> QED
    BY <1>2, <2>2
<1> HIDE DEF sent
<1>5. Written(n) \in [Cells -> Data]
  <2>1. ASSUME NEW c \in Cells
        PROVE  (IF hits(c) = {} THEN mem[c] ELSE req.data[done + sent(c)]) \in Data
    <3> HIDE DEF hits
    <3> QED
      BY <1>1, <1>4
  <2> HIDE DEF hits
  <2> QED
    BY <1>3, <2>1
<1>6. ASSUME NEW i \in done .. done + n - 1
      PROVE  i \in 0 .. req.length - 1 /\ Written(n)[Meant(req, i)] = req.data[i]
  <2>1. i - done \in 0 .. n - 1 /\ i = done + (i - done)
    BY <1>1
  <2>2. i \in 0 .. req.length - 1 /\ Meant(req, i) \in Cells
    BY <1>1, <1>2, <2>1, MeantIsCell
  <2>3. i - done \in hits(Meant(req, i))
    BY <1>2, <2>1
  <2>4. hits(Meant(req, i)) # {}
    BY <2>3
  <2>5. /\ done + sent(Meant(req, i)) \in 0 .. req.length - 1
        /\ Meant(req, i) = Meant(req, done + sent(Meant(req, i)))
    BY <1>4, <2>2, <2>4
  <2>6. i = done + sent(Meant(req, i))
    BY <1>1, <2>2, <2>5, MeantInjective
  <2> HIDE DEF hits
  <2> QED
    BY <1>3, <2>2, <2>4, <2>6
<1>7. ASSUME NEW c \in Cells, Written(n)[c] # mem[c]
      PROVE  \E i \in done .. done + n - 1 : c = Meant(req, i)
  <2>1. hits(c) # {}
    <3> HIDE DEF hits
    <3> QED
      BY <1>3, <1>7
  <2>2. sent(c) \in 0 .. n - 1 /\ c = Meant(req, done + sent(c))
    BY <1>4, <2>1
  <2>3. done + sent(c) \in done .. done + n - 1
    BY <1>1, <2>2
  <2> QED
    BY <2>2, <2>3
<1> QED
  BY <1>5, <1>6, <1>7
-----------------------------------------------------------------------------
(* The inductive invariant. *)

\* The state before the first call satisfies the inductive invariant.
LEMMA InitIInv == Init => IInv
<1> SUFFICES ASSUME Init PROVE IInv
  OBVIOUS
<1>1. /\ req \in Requests /\ req.length \in Nat
      /\ mem \in [Cells -> Data]
      /\ bankSel \in Banks /\ pageSel \in Pages
      /\ pc = "idle" /\ done = 0 /\ ret = "none"
      /\ buf = [i \in Offsets |-> Junk]
  BY FactoryAssumption, RequestsAssumption DEF Init, Fresh
<1>2. TypeOK
  BY <1>1 DEF TypeOK
<1>3. ReadExact
  BY <1>1, SizesAssumption DEF ReadExact, Offsets
<1> QED
  BY <1>1, <1>2, <1>3 DEF IInv, BankSelected, WindowSelected, WriteProgress, WriteWhole

\* Calls, selections and the return of a call preserve the inductive invariant.
LEMMA CallIInv == ASSUME IInv, NEW r \in Requests, Call(r) PROVE IInv'
<1>1. /\ req' = r /\ done' = 0 /\ buf' = [i \in Offsets |-> Junk]
      /\ mem' = mem /\ bankSel' = bankSel /\ pageSel' = pageSel
      /\ \/ pc' = "idle" /\ ret' = "einval"
         \/ r.offset < UpperStart /\ pc' = "transfer" /\ ret' = "none"
         \/ r.offset >= UpperStart /\ pc' = "bank" /\ ret' = "none"
  <2>1. r.offset \in Nat /\ UpperStart \in Nat
    BY RequestsAssumption, SizesAssumption
  <2> QED
    BY <2>1 DEF Call, Return, Fresh
<1>2. r.length \in Nat /\ r.offset \in Nat /\ UpperStart \in Nat
  BY RequestsAssumption, SizesAssumption
<1>3. TypeOK'
  BY <1>1, <1>2 DEF IInv, TypeOK
<1>4. ReadExact'
  BY <1>1, SizesAssumption DEF ReadExact, Offsets
<1>5. BankSelected' /\ WindowSelected' /\ WriteProgress' /\ WriteWhole'
  BY <1>1, <1>2 DEF BankSelected, WindowSelected, WriteProgress, WriteWhole
<1> QED
  BY <1>3, <1>4, <1>5 DEF IInv

\* The two writes of eeprom_select_page.
LEMMA SelectIInv == ASSUME IInv, SelectBank \/ SelectPage PROVE IInv'
<1>1. /\ mem' = mem /\ req' = req /\ done' = done /\ buf' = buf
      /\ req.bank \in Banks /\ req.page \in Pages
      /\ pc' \in {"idle", "page", "transfer"}
      /\ ret' = ret \/ ret' = "err"
  BY RequestsAssumption DEF IInv, TypeOK, SelectBank, SelectPage, Return
<1>2. TypeOK'
  BY <1>1 DEF IInv, TypeOK, SelectBank, SelectPage, Return
<1>3. BankSelected' /\ WindowSelected'
  BY <1>1 DEF IInv, BankSelected, WindowSelected, SelectBank, SelectPage, Return
<1>4. ReadExact'
  BY <1>1 DEF IInv, ReadExact, Meant
<1>5. WriteProgress'
  BY <1>1 DEF IInv, WriteProgress, Meant, SelectBank, SelectPage, Return
<1>6. WriteWhole'
  BY <1>1 DEF IInv, WriteWhole, SelectBank, SelectPage, Return
<1> QED
  BY <1>2, <1>3, <1>4, <1>5, <1>6 DEF IInv

\* One chunk of a read.
LEMMA ReadChunkIInv == ASSUME IInv, ReadChunk PROVE IInv'
<1> DEFINE chunk == IF Remaining > ChunkBytes THEN ChunkBytes ELSE Remaining
<1>1. /\ req \in Requests /\ req.offset \in Nat /\ req.length \in Nat
      /\ req.offset + req.length <= MemEnd /\ MemEnd \in Nat
      /\ done \in 0 .. req.length /\ mem \in [Cells -> Data]
      /\ buf \in [Offsets -> Data \cup {Junk}]
  BY RequestsAssumption, SizesAssumption DEF IInv, TypeOK
<1>2. /\ pc = "transfer" /\ req.op = "get" /\ Remaining > 0
      /\ buf' = [i \in Offsets |-> IF done <= i /\ i < done + chunk
                                   THEN mem[Seen(i)] ELSE buf[i]]
      /\ done' = done + chunk
      /\ mem' = mem /\ bankSel' = bankSel /\ pageSel' = pageSel
      /\ pc' = pc /\ req' = req /\ ret' = ret
  BY DEF ReadChunk
<1>3. chunk \in 1 .. Remaining /\ Remaining = req.length - done
  BY <1>1, <1>2, SizesAssumption DEF Remaining
<1> HIDE DEF chunk
<1>4. done' \in 0 .. req.length
  BY <1>1, <1>2, <1>3
<1>5. ASSUME NEW i \in Offsets, done <= i, i < done + chunk
      PROVE  /\ i \in 0 .. req.length - 1
             /\ Seen(i) = Meant(req, i)
             /\ mem[Seen(i)] \in Data
  <2>1. i \in 0 .. req.length - 1
    BY <1>1, <1>3, <1>5 DEF Offsets
  <2>2. Seen(i) = Meant(req, i)
    BY <1>2, <2>1, SeenIsMeant DEF IInv
  <2>3. Meant(req, i) \in Cells
    BY <1>1, <2>1, MeantIsCell
  <2> QED
    BY <1>1, <2>1, <2>2, <2>3
<1>6. buf' \in [Offsets -> Data \cup {Junk}]
  BY <1>1, <1>2, <1>5
<1>7. TypeOK'
  BY <1>2, <1>4, <1>6 DEF IInv, TypeOK
<1>8. ReadExact'
  <2> SUFFICES ASSUME NEW i \in Offsets
               PROVE  buf'[i] = IF i < done' THEN mem[Meant(req, i)] ELSE Junk
    BY <1>2 DEF ReadExact, Meant
  <2>1. buf[i] = IF i < done THEN mem[Meant(req, i)] ELSE Junk
    BY <1>2 DEF IInv, ReadExact
  <2>2. buf'[i] = IF done <= i /\ i < done + chunk THEN mem[Seen(i)] ELSE buf[i]
    BY <1>2
  <2>3. i \in Nat
    BY <1>1 DEF Offsets
  <2> QED
    BY <1>1, <1>2, <1>3, <1>5, <2>1, <2>2, <2>3
<1>9. BankSelected' /\ WindowSelected' /\ WriteProgress' /\ WriteWhole'
  BY <1>2 DEF IInv, BankSelected, WindowSelected, WriteProgress, WriteWhole
<1> QED
  BY <1>7, <1>8, <1>9 DEF IInv

\* A piece of a write.
LEMMA WritePieceIInv == ASSUME IInv, WritePiece PROVE IInv'
<1>1. /\ req \in Requests /\ req.length \in Nat /\ done \in 0 .. req.length
      /\ Remaining = req.length - done /\ Remaining > 0
      /\ pc = "transfer" /\ req.op = "set"
      /\ mem' = Written(WriteSize) /\ done' = done + WriteSize
      /\ bankSel' = bankSel /\ pageSel' = pageSel /\ pc' = pc /\ req' = req
      /\ buf' = buf /\ ret' = ret
  BY RequestsAssumption DEF IInv, TypeOK, WritePiece, Remaining
<1>2. WriteSize \in 1 .. Remaining
  BY <1>1, WriteSizeInBlock
<1>3. WriteSize \in 0 .. WriteSize
  BY <1>1, <1>2
<1>4. /\ mem' \in [Cells -> Data]
      /\ \A i \in done .. done + WriteSize - 1 :
           i \in 0 .. req.length - 1 /\ mem'[Meant(req, i)] = req.data[i]
      /\ \A c \in Cells : mem'[c] # mem[c] =>
           \E i \in done .. done + WriteSize - 1 : c = Meant(req, i)
  BY <1>1, <1>3, PieceWritten DEF IInv
<1> HIDE DEF WriteSize
<1>5. done' \in 0 .. req.length
  BY <1>1, <1>2
<1>6. TypeOK'
  BY <1>1, <1>4, <1>5 DEF IInv, TypeOK
<1>7. WriteProgress'
  <2> SUFFICES ASSUME NEW i \in 0 .. done' - 1
               PROVE  mem'[Meant(req, i)] = req.data[i]
    BY <1>1 DEF WriteProgress, Meant
  <2>1. CASE i \in done .. done + WriteSize - 1
    BY <1>4, <2>1
  <2>2. CASE i \in 0 .. done - 1
    <3>1. mem[Meant(req, i)] = req.data[i]
      BY <1>1, <2>2 DEF IInv, WriteProgress
    <3>2. i \in 0 .. req.length - 1 /\ Meant(req, i) \in Cells
      BY <1>1, <2>2, MeantIsCell
    <3>3. \A j \in done .. done + WriteSize - 1 : Meant(req, i) # Meant(req, j)
      <4> SUFFICES ASSUME NEW j \in done .. done + WriteSize - 1,
                          Meant(req, i) = Meant(req, j)
                   PROVE  FALSE
        OBVIOUS
      <4>1. j \in 0 .. req.length - 1
        BY <1>4
      <4>2. i = j
        BY <1>1, <3>2, <4>1, MeantInjective
      <4> QED
        BY <1>1, <2>2, <4>2
    <3> QED
      BY <1>4, <3>1, <3>2, <3>3
  <2> QED
    BY <1>1, <1>2, <2>1, <2>2
<1>8. ReadExact' /\ BankSelected' /\ WindowSelected' /\ WriteWhole'
  BY <1>1 DEF IInv, ReadExact, BankSelected, WindowSelected, WriteWhole
<1> QED
  BY <1>6, <1>7, <1>8 DEF IInv

\* A piece that failed.
LEMMA WriteErrorIInv == ASSUME IInv, WriteError PROVE IInv'
<1>1. /\ pc = "transfer" /\ req.op = "set" /\ Remaining > 0
      /\ pc' = "idle" /\ ret' = "err"
      /\ bankSel' = bankSel /\ pageSel' = pageSel /\ req' = req
      /\ buf' = buf /\ done' = done
  BY DEF WriteError, Return
<1>2. PICK n \in 0 .. WriteSize : mem' = Written(n)
  BY DEF WriteError
<1>3. mem' \in [Cells -> Data]
  BY <1>1, <1>2, PieceWritten DEF IInv
<1> QED
  BY <1>1, <1>3 DEF IInv, TypeOK, BankSelected, WindowSelected, ReadExact, WriteProgress,
                    WriteWhole

\* The return of a call.
LEMMA ReturnIInv == ASSUME IInv, ReadError \/ Finish PROVE IInv'
<1>1. /\ mem' = mem /\ bankSel' = bankSel /\ pageSel' = pageSel /\ req' = req
      /\ done' = done /\ buf' = buf /\ pc' = "idle" /\ pc = "transfer"
      /\ \/ req.op = "get" /\ ret' \in {"ok", "err"}
         \/ req.length - done = 0 /\ ret' = "ok"
  BY DEF ReadError, Finish, Return, Remaining
<1>2. req.length \in Nat /\ done \in 0 .. req.length /\ req.op \in {"get", "set"}
  BY RequestsAssumption DEF IInv, TypeOK
<1>3. TypeOK' /\ BankSelected' /\ WindowSelected' /\ WriteWhole'
  BY <1>1, <1>2 DEF IInv, TypeOK, BankSelected, WindowSelected, WriteWhole
<1>4. ReadExact'
  BY <1>1 DEF IInv, ReadExact, Meant
<1>5. WriteProgress'
  BY <1>1 DEF IInv, WriteProgress, Meant
<1> QED
  BY <1>3, <1>4, <1>5 DEF IInv

\* Every step preserves the inductive invariant.
LEMMA NextIInv == IInv /\ [Next]_vars => IInv'
<1> SUFFICES ASSUME IInv, [Next]_vars PROVE IInv'
  OBVIOUS
<1>1. CASE \E r \in Requests : Call(r)
  BY <1>1, CallIInv
<1>2. CASE SelectBank \/ SelectPage
  BY <1>2, SelectIInv
<1>3. CASE ReadChunk
  BY <1>3, ReadChunkIInv
<1>4. CASE ReadError \/ Finish
  BY <1>4, ReturnIInv
<1>5. CASE WritePiece
  BY <1>5, WritePieceIInv
<1>6. CASE WriteError
  BY <1>6, WriteErrorIInv
<1>7. CASE UNCHANGED vars
  BY <1>7 DEF vars, IInv, TypeOK, BankSelected, WindowSelected, ReadExact, Meant,
              WriteProgress, WriteWhole
<1> QED
  BY <1>1, <1>2, <1>3, <1>4, <1>5, <1>6, <1>7 DEF Next

\* The inductive invariant holds in every state of every behaviour.
THEOREM Invariant == Spec => []IInv
BY InitIInv, NextIInv, PTL DEF Spec

-----------------------------------------------------------------------------
(* The properties. *)

\* Type correctness of the access path: registers, request and buffers keep their
\* ranges, and no transfer counts more bytes than were asked for.
THEOREM TypeCorrect == Spec => []TypeOK
<1>1. IInv => TypeOK
  BY DEF IInv
<1> QED
  BY <1>1, Invariant, PTL

\* get_eeprom_page and i2c_ioctl_read: what has been copied is what the module
\* holds at the addressed bank, page and offset.
THEOREM ReadIsExact == Spec => []ReadExact
<1>1. IInv => ReadExact
  BY DEF IInv
<1> QED
  BY <1>1, Invariant, PTL

\* set_eeprom_page and i2c_ioctl_write: success means that all the bytes are in
\* their places.
THEOREM WriteIsComplete == Spec => []WriteComplete
<1>1. ASSUME IInv PROVE WriteComplete
  <2>1. req.length \in Nat
    BY <1>1, RequestsAssumption DEF IInv, TypeOK
  <2> QED
    BY <1>1, <2>1 DEF IInv, WriteProgress, WriteWhole, WriteComplete
<1> QED
  BY <1>1, Invariant, PTL

\* No step changes a byte of the module that the current set does not name.
THEOREM WriteStaysInFootprint == Spec => WriteFootprint
<1> DEFINE A == \A c \in Cells : mem'[c] # mem[c] =>
                  /\ req.op = "set"
                  /\ \E i \in 0 .. req.length - 1 : c = Meant(req, i)
<1>1. ASSUME IInv, [Next]_vars PROVE A
  <2>1. ASSUME NEW n \in 0 .. WriteSize, mem' = Written(n),
               pc = "transfer", req.op = "set", Remaining > 0
        PROVE  A
    <3>1. \A i \in done .. done + n - 1 : i \in 0 .. req.length - 1
      BY <1>1, <2>1, PieceWritten DEF IInv
    <3>2. \A c \in Cells : mem'[c] # mem[c] =>
            \E i \in done .. done + n - 1 : c = Meant(req, i)
      BY <1>1, <2>1, PieceWritten DEF IInv
    <3> QED
      BY <2>1, <3>1, <3>2
  <2>2. CASE WritePiece
    <3>1. req \in Requests /\ done \in 0 .. req.length
      BY <1>1 DEF IInv, TypeOK
    <3>2. WriteSize \in 1 .. Remaining /\ req.length \in Nat
      BY <2>2, <3>1, WriteSizeInBlock, RequestsAssumption DEF WritePiece
    <3>3. WriteSize \in 0 .. WriteSize
      BY <3>1, <3>2 DEF Remaining
    <3> QED
      BY <2>1, <2>2, <3>3 DEF WritePiece
  <2>3. CASE WriteError
    BY <2>1, <2>3 DEF WriteError
  <2>4. CASE UNCHANGED mem
    BY <2>4
  <2> HIDE DEF A
  <2> QED
    BY <1>1, <2>2, <2>3, <2>4
    DEF Next, vars, Call, SelectBank, SelectPage, ReadChunk, ReadError, Finish
<1>2. IInv /\ [Next]_vars => [A]_vars
  BY <1>1
<1>3. Spec => [][A]_vars
  <2> HIDE DEF A
  <2> QED
    BY <1>2, Invariant, PTL DEF Spec
<1> QED
  BY <1>3 DEF WriteFootprint

-----------------------------------------------------------------------------
(* The access path implements the paged store. *)

\* Nothing is transferred before the selection is complete.
SelectFirst == pc \in {"bank", "page"} => done = 0

\* The selection is complete before anything is transferred.
LEMMA SelectionFirst == Spec => []SelectFirst
<1>1. Init => SelectFirst
  BY DEF Init, SelectFirst
<1>2. SelectFirst /\ [Next]_vars => SelectFirst'
  BY DEF SelectFirst, Next, vars, Call, SelectBank, SelectPage, ReadChunk, ReadError,
         WritePiece, WriteError, Finish, Return
<1> QED
  BY <1>1, <1>2, PTL DEF Spec

\* A call opens or refuses a call of the store.
LEMMA CallRefines ==
  ASSUME NEW r \in Requests, Call(r)
  PROVE  Store!Open(r) \/ Store!Refuse(r)
BY DEF Call, Return, Fresh, Store!Open, Store!Refuse, Store!Empty

\* A selection is invisible; one that fails is a get or a set that fails.
LEMMA SelectRefines ==
  ASSUME IInv, SelectFirst, SelectBank \/ SelectPage
  PROVE  Store!Next \/ UNCHANGED Store!vars
<1>1. /\ req \in Requests /\ req.op \in {"get", "set"} /\ req.length \in Nat
      /\ mem \in [Cells -> Data] /\ done = 0 /\ pc # "idle"
      /\ UNCHANGED <<mem, req, done, buf>>
  BY RequestsAssumption DEF IInv, TypeOK, SelectFirst, SelectBank, SelectPage
<1>2. CASE pc' = "idle" /\ ret' = "err"
  <2>1. CASE req.op = "get"
    BY <1>1, <1>2, <2>1 DEF Store!Next, Store!FailGet
  <2>2. CASE req.op = "set"
    <3>1. Store!FailPut(0)
      BY <1>1, <1>2, <2>2 DEF Store!FailPut, Store!Stores
    <3>2. 0 \in done .. req.length
      BY <1>1
    <3> QED
      BY <3>1, <3>2 DEF Store!Next
  <2> QED
    BY <1>1, <2>1, <2>2
<1>3. CASE pc' # "idle" /\ ret' = ret
  BY <1>1, <1>3 DEF Store!vars
<1> QED
  BY <1>2, <1>3 DEF SelectBank, SelectPage, Return

\* A chunk of a read is a transfer of the store.
LEMMA ReadChunkRefines ==
  ASSUME IInv, ReadChunk
  PROVE  Store!Next
<1> DEFINE chunk == IF Remaining > ChunkBytes THEN ChunkBytes ELSE Remaining
<1>1. /\ req \in Requests /\ req.length \in Nat /\ done \in 0 .. req.length
      /\ req.offset + req.length <= MemEnd /\ MemEnd \in Nat /\ req.offset \in Nat
  BY RequestsAssumption, SizesAssumption DEF IInv, TypeOK
<1>2. /\ pc = "transfer" /\ req.op = "get" /\ Remaining > 0
      /\ buf' = [i \in Offsets |-> IF done <= i /\ i < done + chunk
                                   THEN mem[Seen(i)] ELSE buf[i]]
      /\ done' = done + chunk
      /\ UNCHANGED <<mem, pc, req, ret>>
  BY DEF ReadChunk
<1>3. chunk \in 1 .. Remaining /\ Remaining = req.length - done
  BY <1>1, <1>2, SizesAssumption DEF Remaining
<1> HIDE DEF chunk
<1>4. done + chunk \in done + 1 .. req.length
  BY <1>1, <1>3
<1>5. ASSUME NEW i \in Offsets, done <= i, i < done + chunk
      PROVE  Seen(i) = Meant(req, i)
  <2>1. i \in 0 .. req.length - 1
    BY <1>1, <1>3, <1>5 DEF Offsets
  <2> QED
    BY <1>2, <2>1, SeenIsMeant DEF IInv
<1>6. buf' = [i \in Offsets |-> IF done <= i /\ i < done + chunk
                                THEN mem[Meant(req, i)] ELSE buf[i]]
  BY <1>2, <1>5
<1>7. Store!Fetch(done + chunk)
  BY <1>2, <1>6 DEF Store!Fetch
<1> QED
  BY <1>4, <1>7 DEF Store!Next

\* A piece of a write stores its bytes; a piece that fails stores some of them.
LEMMA WriteRefines ==
  ASSUME IInv, WritePiece \/ WriteError
  PROVE  Store!Next
<1>1. /\ req \in Requests /\ req.length \in Nat /\ done \in 0 .. req.length
      /\ pc = "transfer" /\ req.op = "set"
      /\ Remaining > 0 /\ Remaining = req.length - done
  BY RequestsAssumption DEF IInv, TypeOK, WritePiece, WriteError, Remaining
<1>2. WriteSize \in 1 .. Remaining
  BY <1>1, WriteSizeInBlock
<1> HIDE DEF WriteSize
<1>3. ASSUME NEW n \in 0 .. WriteSize, mem' = Written(n)
      PROVE  Store!Stores(done + n) /\ done + n \in done .. req.length
  <2>1. /\ mem' \in [Cells -> Data]
        /\ \A i \in done .. (done + n) - 1 : mem'[Meant(req, i)] = req.data[i]
        /\ \A c \in Cells : mem'[c] # mem[c] =>
             \E i \in done .. (done + n) - 1 : c = Meant(req, i)
    BY <1>1, <1>3, PieceWritten DEF IInv
  <2>2. done + n \in done .. req.length
    BY <1>1, <1>2
  <2> QED
    BY <2>1, <2>2 DEF Store!Stores
<1>4. CASE WritePiece
  <2>1. WriteSize \in 0 .. WriteSize /\ done + WriteSize \in done + 1 .. req.length
    BY <1>1, <1>2
  <2>2. Store!Put(done + WriteSize)
    BY <1>1, <1>3, <1>4, <2>1 DEF WritePiece, Store!Put
  <2> QED
    BY <2>1, <2>2 DEF Store!Next
<1>5. CASE WriteError
  <2>1. PICK n \in 0 .. WriteSize : mem' = Written(n)
    BY <1>5 DEF WriteError
  <2>2. Store!FailPut(done + n)
    BY <1>1, <1>3, <1>5, <2>1 DEF WriteError, Return, Store!FailPut
  <2>3. done + n \in done .. req.length
    BY <1>3, <2>1
  <2> QED
    BY <2>2, <2>3 DEF Store!Next
<1> QED
  BY <1>4, <1>5

\* The return of a call is the end of a call of the store.
LEMMA ReturnRefines ==
  ASSUME IInv, ReadError \/ Finish
  PROVE  Store!Next
<1>1. req.length \in Nat /\ done \in 0 .. req.length
  BY RequestsAssumption DEF IInv, TypeOK
<1> QED
  BY <1>1 DEF ReadError, Finish, Return, Remaining, Store!Next, Store!FailGet, Store!Succeed

\* get_eeprom_page and set_eeprom_page, with their selections, chunks and pieces,
\* implement the store of bytes that the rest of the library is written against.
THEOREM Refinement == Spec => ImplementsStore
<1>1. Init => Store!Init
  BY DEF Init, Fresh, Store!Init, Store!Empty
<1>2. ASSUME IInv, SelectFirst, [Next]_vars
      PROVE  [Store!Next]_(Store!vars)
  <2>1. CASE \E r \in Requests : Call(r)
    BY <2>1, CallRefines DEF Store!Next
  <2>2. CASE SelectBank \/ SelectPage
    BY <1>2, <2>2, SelectRefines
  <2>3. CASE ReadChunk
    BY <1>2, <2>3, ReadChunkRefines
  <2>4. CASE WritePiece \/ WriteError
    BY <1>2, <2>4, WriteRefines
  <2>5. CASE ReadError \/ Finish
    BY <1>2, <2>5, ReturnRefines
  <2>6. CASE UNCHANGED vars
    BY <2>6 DEF vars, Store!vars
  <2> QED
    BY <1>2, <2>1, <2>2, <2>3, <2>4, <2>5, <2>6 DEF Next
<1>3. IInv /\ SelectFirst /\ [Next]_vars => [Store!Next]_(Store!vars)
  BY <1>2
<1> QED
  BY <1>1, <1>3, Invariant, SelectionFirst, PTL DEF Spec, ImplementsStore, Store!Spec

-----------------------------------------------------------------------------
(* The length of a call. *)

\* The transactions that the current call can still make, and its return.
StepsLeft ==
  CASE pc = "idle" -> 0
    [] pc = "transfer" -> Remaining + 1
    [] pc = "page" -> req.length + 2
    [] pc = "bank" -> req.length + 3

\* Before the transfer nothing has been transferred.
NothingDone == pc \in {"bank", "page"} => done = 0

\* Every transaction of a call, failed or not, brings its return nearer: the loops of
\* i2c_ioctl_read and i2c_ioctl_write always move on, since no chunk and no piece is
\* empty, whatever the geometry of the module.
THEOREM CallsBounded ==
  Spec => /\ [](StepsLeft \in 0 .. req.length + 3)
          /\ [][pc # "idle" => StepsLeft' < StepsLeft]_vars
<1>1. Init => NothingDone
  BY DEF Init, NothingDone
<1>2. NothingDone /\ [Next]_vars => NothingDone'
  BY DEF NothingDone, Next, vars, Call, SelectBank, SelectPage, ReadChunk, ReadError, WritePiece,
         WriteError, Finish, Return
<1>3. IInv => StepsLeft \in 0 .. req.length + 3
  <2> SUFFICES ASSUME IInv PROVE StepsLeft \in 0 .. req.length + 3
    OBVIOUS
  <2>1. req.length \in Nat /\ done \in 0 .. req.length /\ pc \in {"idle", "bank", "page", "transfer"}
    BY RequestsAssumption DEF IInv, TypeOK
  <2> QED BY <2>1 DEF StepsLeft, Remaining
<1>4. IInv /\ NothingDone /\ [Next]_vars => [pc # "idle" => StepsLeft' < StepsLeft]_vars
  <2> SUFFICES ASSUME IInv, NothingDone, Next, pc # "idle" PROVE StepsLeft' < StepsLeft
    OBVIOUS
  <2>1. /\ req \in Requests /\ req.length \in Nat /\ done \in 0 .. req.length
        /\ ChunkBytes \in Nat \ {0}
    BY RequestsAssumption, SizesAssumption DEF IInv, TypeOK
  <2>2. ASSUME pc' = "idle", pc \in {"bank", "page", "transfer"} PROVE StepsLeft' < StepsLeft
    BY <2>1, <2>2 DEF StepsLeft, Remaining
  <2>3. CASE SelectBank
    BY <2>1, <2>2, <2>3 DEF SelectBank, Return, StepsLeft
  <2>4. CASE SelectPage
    BY <2>1, <2>2, <2>4 DEF SelectPage, Return, StepsLeft, NothingDone, Remaining
  <2>5. CASE ReadChunk
    BY <2>1, <2>5 DEF ReadChunk, StepsLeft, Remaining
  <2>6. CASE WritePiece
    <3>1. WriteSize \in 1 .. Remaining
      BY <2>1, <2>6, WriteSizeInBlock DEF WritePiece
    <3>2. pc = "transfer" /\ pc' = "transfer" /\ req' = req /\ done' = done + WriteSize
      BY <2>6 DEF WritePiece
    <3> HIDE DEF WriteSize
    <3> QED BY <2>1, <3>1, <3>2 DEF StepsLeft, Remaining
  <2>7. CASE ReadError \/ WriteError \/ Finish
    BY <2>2, <2>7 DEF ReadError, WriteError, Finish, Return
  <2>8. ~ \E r \in Requests : Call(r)
    BY DEF Call
  <2> QED BY <2>3, <2>4, <2>5, <2>6, <2>7, <2>8 DEF Next
<1> QED BY <1>1, <1>2, <1>3, <1>4, Invariant, PTL DEF Spec
=============================================================================
