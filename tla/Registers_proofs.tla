-------------------------- MODULE Registers_proofs --------------------------
(***************************************************************************)
(* The registers keep their types, and a test only uses patterns that the  *)
(* module advertises.  The first part looks at the layout of the registers *)
(* and at the programs of all calls: each write of a program is complete,  *)
(* or comes right after a read of its register, so that a write cut short  *)
(* leaves values that the register had or was to have.  The second part    *)
(* follows the order in which a test checks, selects and enables.          *)
(***************************************************************************)
EXTENDS Registers, FiniteSetTheorems, SequenceTheorems, TLAPS

-----------------------------------------------------------------------------
\* The layout of the registers

LaneRegisters ==
  DirectControls \cup StagedBits \cup NetworkBits \cup CoherentBits \cup loopback_modes
  \cup {Enable[b] : b \in Blocks} \cup {"ApplyImmediate", "ModuleMask", "DiagMask"}

Areas == {"UserEeprom", "Scratchpad", "UserPattern"}
WordRegisters == Words \cup {"PasswordEntry", "PasswordChange"}
Singles == {"LaneSwitchEnable", "LaneSwitchCommit", "LoopbackCaps"}

\* A register of nibbles has one for each lane.
LEMMA NibbleLayout ==
  ASSUME NEW r \in Nibbles
  PROVE  Fields(r) = Lanes /\ FieldValues(r) = 0 .. 15
<1>1. Bytes(r) = [b \in 1 .. NLanes \div 2 |-> 2 * b - 2 .. 2 * b - 1]
  BY DEF Bytes, Nibbles, StagedTargets, Select, Blocks, Words, thresh_descs, host_thresh_descs
<1>2. Fields(r) \subseteq Lanes
  BY <1>1, NLanesAssumption DEF Fields, Lanes, NLanesAssumption
<1>3. ASSUME NEW l \in Lanes PROVE l \in Fields(r)
  <2>1. l \div 2 + 1 \in 1 .. NLanes \div 2
    BY NLanesAssumption DEF Lanes, NLanesAssumption
  <2>2. l \in Bytes(r)[l \div 2 + 1]
    BY <1>1, <2>1 DEF Lanes
  <2> QED BY <1>1, <2>1, <2>2 DEF Fields
<1>4. FieldValues(r) = 0 .. 15
  BY DEF FieldValues, Nibbles, StagedTargets, Select, Blocks, Words, thresh_descs, host_thresh_descs
<1> QED BY <1>2, <1>3, <1>4

\* A register of lane bits is one byte, of all lanes.
LEMMA LaneLayout ==
  ASSUME NEW r \in LaneRegisters
  PROVE  Bytes(r) = <<Lanes>> /\ Fields(r) = Lanes /\ FieldValues(r) = 0 .. 1
<1>1. Bytes(r) = <<Lanes>> /\ FieldValues(r) = 0 .. 1
  BY DEF LaneRegisters, DirectControls, StagedBits, NetworkBits, CoherentBits, loopback_modes,
         Enable, Blocks, Bytes, FieldValues, Nibbles, StagedTargets, Select, Words, thresh_descs,
         host_thresh_descs
<1>2. Fields(r) = Lanes
  BY <1>1 DEF Fields
<1> QED BY <1>1, <1>2

\* A word is a high byte and a low byte.
LEMMA WordLayout ==
  ASSUME NEW r \in WordRegisters
  PROVE  Fields(r) = {"high", "low"} /\ FieldValues(r) = 0 .. 255
<1>1. Bytes(r) = <<{"high"}, {"low"}>> /\ FieldValues(r) = 0 .. 255
  BY DEF WordRegisters, Blocks, Bytes, FieldValues, Nibbles, StagedTargets, Select, Words,
         thresh_descs, host_thresh_descs
<1>2. Fields(r) = {"high", "low"}
  BY <1>1 DEF Fields
<1> QED BY <1>1, <1>2

\* An area that is written in parts is bytes.
LEMMA AreaLayout ==
  ASSUME NEW r \in Areas
  PROVE  /\ Bytes(r) = [b \in 1 .. UserSize |-> {b - 1}]
         /\ Fields(r) = 0 .. UserSize - 1 /\ FieldValues(r) = 0 .. 255
<1>1. FieldValues(r) = 0 .. 255
  BY DEF Areas, FieldValues, Nibbles, StagedTargets, Select, Blocks, Words, thresh_descs, host_thresh_descs
<1>3. Bytes(r) = [b \in 1 .. UserSize |-> {b - 1}]
  BY DEF Areas, Bytes, Nibbles, StagedTargets, Select, Blocks, Words, thresh_descs, host_thresh_descs
<1>2. Fields(r) = 0 .. UserSize - 1
  BY <1>3 DEF Fields, UserSize
<1> QED BY <1>1, <1>2, <1>3

\* A register of one flag.
LEMMA SingleLayout ==
  ASSUME NEW r \in Singles
  PROVE  Fields(r) = {0} /\ FieldValues(r) = 0 .. 1
<1>1. Bytes(r) = <<{0}>> /\ FieldValues(r) = 0 .. 1
  BY DEF Singles, Blocks, Bytes, FieldValues, Nibbles, StagedTargets, Select, Words,
         thresh_descs, host_thresh_descs
<1>2. Fields(r) = {0}
  BY <1>1 DEF Fields
<1> QED BY <1>1, <1>2

\* The registers whose layout is their own.
LEMMA OtherLayout ==
  /\ Fields("ModuleControl") = {"reset", "broadcast", "squelch"}
  /\ Fields("UseConfigured") = {"total-pwr", "sig-pwr"}
  /\ Fields("FecEnable") = {"fdd", "fed"}
  /\ Fields("HostEnable") = {"host-fdd", "host-fed"}
  /\ Fields("MeasControl") = {"start", "reset"}
  /\ \A r \in {"ModuleControl", "UseConfigured", "FecEnable", "HostEnable", "MeasControl",
               "TuningFlagMask"} : FieldValues(r) = 0 .. 1
  /\ Fields("TuningFlagMask") = Lanes \X {0, 1}
  /\ Bytes("RedirectionOfLane") = [b \in 1 .. NLanes |-> {b - 1}]
  /\ Fields("RedirectionOfLane") = Lanes /\ FieldValues("RedirectionOfLane") = 0 .. 7
  /\ Fields("TxFilterType") = Lanes /\ FieldValues("TxFilterType") = 0 .. 3
<1> USE DEF Nibbles, StagedTargets, Select, Blocks, Words, thresh_descs, host_thresh_descs
<1>1. /\ Bytes("ModuleControl") = <<{"reset", "broadcast", "squelch"}>>
      /\ Bytes("UseConfigured") = <<{"total-pwr", "sig-pwr"}>>
      /\ Bytes("FecEnable") = <<{"fdd", "fed"}>>
      /\ Bytes("HostEnable") = <<{"host-fdd", "host-fed"}>>
      /\ Bytes("MeasControl") = <<{"start", "reset"}>>
  BY DEF Bytes
<1>2. \A r \in {"ModuleControl", "UseConfigured", "FecEnable", "HostEnable", "MeasControl",
                "TuningFlagMask"} : FieldValues(r) = 0 .. 1
  BY DEF FieldValues
<1>3. /\ Fields("ModuleControl") = {"reset", "broadcast", "squelch"}
      /\ Fields("UseConfigured") = {"total-pwr", "sig-pwr"}
      /\ Fields("FecEnable") = {"fdd", "fed"}
      /\ Fields("HostEnable") = {"host-fdd", "host-fed"}
      /\ Fields("MeasControl") = {"start", "reset"}
  BY <1>1 DEF Fields
<1>4. Fields("TuningFlagMask") = Lanes \X {0, 1}
  <2>1. Bytes("TuningFlagMask") = [b \in 1 .. NLanes |-> {b - 1} \X {0, 1}]
    BY DEF Bytes
  <2>2. Fields("TuningFlagMask") \subseteq Lanes \X {0, 1}
    BY <2>1, NLanesAssumption DEF Fields, Lanes, NLanesAssumption
  <2>3. ASSUME NEW l \in Lanes, NEW x \in {0, 1} PROVE <<l, x>> \in Fields("TuningFlagMask")
    <3>1. l + 1 \in 1 .. NLanes /\ <<l, x>> \in Bytes("TuningFlagMask")[l + 1]
      BY <2>1, NLanesAssumption DEF Lanes, NLanesAssumption
    <3> QED BY <2>1, <3>1 DEF Fields
  <2>4. ASSUME NEW e \in Lanes \X {0, 1} PROVE e \in Fields("TuningFlagMask")
    <3>1. e = <<e[1], e[2]>> /\ e[1] \in Lanes /\ e[2] \in {0, 1}
      OBVIOUS
    <3> QED BY <2>3, <3>1
  <2> QED BY <2>2, <2>4
<1>5. /\ Bytes("RedirectionOfLane") = [b \in 1 .. NLanes |-> {b - 1}]
      /\ FieldValues("RedirectionOfLane") = 0 .. 7
  BY DEF Bytes, FieldValues
<1>6. Fields("RedirectionOfLane") = Lanes
  <2>1. Fields("RedirectionOfLane") \subseteq Lanes
    BY <1>5, NLanesAssumption DEF Fields, Lanes, NLanesAssumption
  <2>2. ASSUME NEW l \in Lanes PROVE l \in Fields("RedirectionOfLane")
    <3>1. l + 1 \in 1 .. NLanes /\ l \in Bytes("RedirectionOfLane")[l + 1]
      BY <1>5, NLanesAssumption DEF Lanes, NLanesAssumption
    <3> QED BY <1>5, <3>1 DEF Fields
  <2> QED BY <2>1, <2>2
<1>7. Bytes("TxFilterType") = [b \in 1 .. NLanes \div 4 |-> 4 * b - 4 .. 4 * b - 1]
  BY DEF Bytes
<1>8. Fields("TxFilterType") = Lanes
  <2>1. Fields("TxFilterType") \subseteq Lanes
    BY <1>7, NLanesAssumption DEF Fields, Lanes, NLanesAssumption
  <2>2. ASSUME NEW l \in Lanes PROVE l \in Fields("TxFilterType")
    <3>1. l \div 4 + 1 \in 1 .. NLanes \div 4
      BY NLanesAssumption DEF Lanes, NLanesAssumption
    <3>2. l \in 4 * (l \div 4 + 1) - 4 .. 4 * (l \div 4 + 1) - 1
      BY DEF Lanes
    <3> QED BY <1>7, <3>1, <3>2 DEF Fields
  <2> QED BY <2>1, <2>2
<1>9. FieldValues("TxFilterType") = 0 .. 3
  BY DEF FieldValues
<1> QED BY <1>2, <1>3, <1>4, <1>5, <1>6, <1>8, <1>9

\* A register has finitely many bytes, and its fields may all be zero.
LEMMA BytesAndZero ==
  ASSUME NEW r
  PROVE  /\ IsFiniteSet(DOMAIN Bytes(r)) /\ DOMAIN Bytes(r) \subseteq Int
         /\ 0 \in FieldValues(r) /\ FieldValues(r) \subseteq Nat
<1>1. \E n \in Nat : DOMAIN Bytes(r) = 1 .. n
  <2>1. DOMAIN Bytes(r) \in {1 .. NLanes \div 2, 1 .. NLanes \div 4, 1 .. NLanes, 1 .. UserSize,
                            1 .. 1, 1 .. 2}
    BY DEF Bytes, Nibbles, StagedTargets, Select, Blocks, Words, thresh_descs, host_thresh_descs
  <2>2. NLanes \div 2 \in Nat /\ NLanes \div 4 \in Nat /\ NLanes \in Nat /\ UserSize \in Nat
    BY NLanesAssumption DEF NLanesAssumption, UserSize
  <2>3. PICK n \in {NLanes \div 2, NLanes \div 4, NLanes, UserSize, 1, 2} :
          DOMAIN Bytes(r) = 1 .. n
    BY <2>1
  <2> QED BY <2>2, <2>3
<1>2. 0 \in FieldValues(r) /\ FieldValues(r) \subseteq Nat
  BY DEF FieldValues, Nibbles, StagedTargets, Select, Blocks, Words, thresh_descs, host_thresh_descs
<1> QED BY <1>1, <1>2, FS_Interval

-----------------------------------------------------------------------------
\* Transfers and programs

\* What a register may be written with: some of its fields, each with a value that
\* it has room for.
Contents(r) == UNION {[F -> FieldValues(r)] : F \in SUBSET Fields(r)}

\* The transfers that a program may have.
Transfers(g) ==
  {Read(r) : r \in GroupRegisters[g]}
  \cup {Advertised(b, p) : b \in Blocks, p \in Patterns}
  \cup UNION {{[do |-> "write", reg |-> r, val |-> v, span |-> s] :
               v \in Contents(r), s \in SUBSET DOMAIN Bytes(r)} : r \in GroupRegisters[g]}

Covers(t) == \A f \in DOMAIN t.val : BytesOf(t.reg, {f}) \subseteq t.span

\* A write that needs nothing of what was read: it has every field of its bytes.
Complete(t) == \A f \in Fields(t.reg) : BytesOf(t.reg, {f}) \subseteq t.span => f \in DOMAIN t.val

\* Every write of a program is complete, or comes right after a read of its
\* register.
Framed(p) ==
  \A i \in DOMAIN p : p[i].do = "write" =>
    /\ Covers(p[i])
    /\ Complete(p[i]) \/ (i > 1 /\ p[i - 1].do = "read" /\ p[i - 1].reg = p[i].reg)

\* What is left of a program, its first write made with what was read before.
Ready ==
  \A i \in DOMAIN prog : prog[i].do = "write" =>
    /\ Covers(prog[i])
    /\ \/ Complete(prog[i])
       \/ i > 1 /\ prog[i - 1].do = "read" /\ prog[i - 1].reg = prog[i].reg
       \/ i = 1 /\ buf = reg[prog[i].reg]

\* A read of a register of the group is one of its transfers.
LEMMA ReadTransfer ==
  ASSUME NEW g \in DOMAIN GroupRegisters, NEW r \in GroupRegisters[g]
  PROVE  /\ Read(r) \in Transfers(g) /\ Read(r).do = "read" /\ Read(r).reg = r
<1>1. Read(r) \in {Read(x) : x \in GroupRegisters[g]}
  OBVIOUS
<1>2. Read(r) \in Transfers(g)
  BY <1>1 DEF Transfers
<1> QED BY <1>2 DEF Read

\* A check of a pattern is one.
LEMMA CheckTransfer ==
  ASSUME NEW g \in DOMAIN GroupRegisters, NEW b \in Blocks, NEW p \in Patterns
  PROVE  /\ Advertised(b, p) \in Transfers(g) /\ Advertised(b, p).do = "check"
         /\ Advertised(b, p).reg = b /\ Advertised(b, p).val = p
<1>1. Advertised(b, p) \in {Advertised(x, y) : x \in Blocks, y \in Patterns}
  OBVIOUS
<1>2. Advertised(b, p) \in Transfers(g)
  BY <1>1 DEF Transfers
<1> QED BY <1>2 DEF Advertised

\* A write of some fields, which spans the bytes that hold them, is one,
LEMMA WriteTransfer ==
  ASSUME NEW g \in DOMAIN GroupRegisters, NEW r \in GroupRegisters[g],
         NEW F \in SUBSET Fields(r), NEW v \in [F -> FieldValues(r)]
  PROVE  /\ Write(r, v) \in Transfers(g) /\ Covers(Write(r, v))
         /\ Write(r, v).do = "write" /\ Write(r, v).reg = r /\ Write(r, v).val = v
         /\ Write(r, v).span = BytesOf(r, F)
<1>1. /\ Write(r, v).do = "write" /\ Write(r, v).reg = r /\ Write(r, v).val = v
      /\ Write(r, v).span = BytesOf(r, F)
  BY DEF Write
<1>2. BytesOf(r, F) \in SUBSET DOMAIN Bytes(r)
  BY DEF BytesOf
<1>3. v \in Contents(r) /\ DOMAIN v = F
  BY DEF Contents
<1>4. Write(r, v) \in Transfers(g)
  BY <1>2, <1>3 DEF Transfers, Write
<1>5. Covers(Write(r, v))
  BY <1>1, <1>3 DEF Covers, BytesOf
<1> QED BY <1>1, <1>4, <1>5

\* and so is a write that spans all bytes of its register.
LEMMA WriteAllTransfer ==
  ASSUME NEW g \in DOMAIN GroupRegisters, NEW r \in GroupRegisters[g],
         NEW F \in SUBSET Fields(r), NEW v \in [F -> FieldValues(r)]
  PROVE  /\ WriteAll(r, v) \in Transfers(g) /\ Covers(WriteAll(r, v))
         /\ WriteAll(r, v).do = "write" /\ WriteAll(r, v).reg = r /\ WriteAll(r, v).val = v
<1>1. /\ WriteAll(r, v).do = "write" /\ WriteAll(r, v).reg = r /\ WriteAll(r, v).val = v
      /\ WriteAll(r, v).span = DOMAIN Bytes(r)
  BY DEF WriteAll
<1>3. v \in Contents(r) /\ DOMAIN v = F
  BY DEF Contents
<1>4. WriteAll(r, v) \in Transfers(g)
  BY <1>3 DEF Transfers, WriteAll
<1>5. Covers(WriteAll(r, v))
  BY <1>1, <1>3 DEF Covers, BytesOf
<1> QED BY <1>1, <1>4, <1>5

\* What a transfer is, of which only its kind is known.
LEMMA TransferParts ==
  ASSUME NEW g \in DOMAIN GroupRegisters, NEW t \in Transfers(g)
  PROVE  /\ t.do \in {"read", "check", "write"}
         /\ t.do = "read" => t.reg \in GroupRegisters[g]
         /\ t.do = "check" => t.reg \in Blocks /\ t.val \in Patterns
         /\ t.do = "write" => /\ t.reg \in GroupRegisters[g]
                              /\ DOMAIN t.val \subseteq Fields(t.reg)
                              /\ \A f \in DOMAIN t.val : t.val[f] \in FieldValues(t.reg)
                              /\ t.span \subseteq DOMAIN Bytes(t.reg)
<1>1. CASE \E r \in GroupRegisters[g] : t = Read(r)
  BY <1>1 DEF Read
<1>2. CASE \E b \in Blocks, p \in Patterns : t = Advertised(b, p)
  BY <1>2 DEF Advertised
<1>3. CASE \E r \in GroupRegisters[g] :
             t \in {[do |-> "write", reg |-> r, val |-> v, span |-> s] :
                     v \in Contents(r), s \in SUBSET DOMAIN Bytes(r)}
  <2>1. PICK r \in GroupRegisters[g] :
          \E v \in Contents(r), s \in SUBSET DOMAIN Bytes(r) :
            t = [do |-> "write", reg |-> r, val |-> v, span |-> s]
    BY <1>3
  <2>2. PICK v \in Contents(r), s \in SUBSET DOMAIN Bytes(r) :
          t = [do |-> "write", reg |-> r, val |-> v, span |-> s]
    BY <2>1
  <2>3. PICK F \in SUBSET Fields(r) : v \in [F -> FieldValues(r)]
    BY DEF Contents
  <2> QED BY <2>2, <2>3
<1> QED BY <1>1, <1>2, <1>3 DEF Transfers

\* Programs are put together from parts.
LEMMA FramedConcat ==
  ASSUME NEW S, NEW p \in Seq(S), NEW q \in Seq(S), Framed(p), Framed(q)
  PROVE  p \o q \in Seq(S) /\ Framed(p \o q)
<1>1. /\ p \o q \in Seq(S) /\ Len(p \o q) = Len(p) + Len(q)
      /\ \A i \in 1 .. Len(p) + Len(q) : (p \o q)[i] = IF i <= Len(p) THEN p[i] ELSE q[i - Len(p)]
  BY ConcatProperties
<1>2. ASSUME NEW i \in DOMAIN (p \o q), (p \o q)[i].do = "write"
      PROVE  /\ Covers((p \o q)[i])
             /\ \/ Complete((p \o q)[i])
                \/ i > 1 /\ (p \o q)[i - 1].do = "read" /\ (p \o q)[i - 1].reg = (p \o q)[i].reg
  <2>1. CASE i <= Len(p)
    <3>1. i \in DOMAIN p /\ (p \o q)[i] = p[i] /\ (i > 1 => (p \o q)[i - 1] = p[i - 1])
      BY <1>1, <2>1
    <3> QED BY <1>2, <3>1 DEF Framed
  <2>2. CASE i > Len(p)
    <3> DEFINE k == i - Len(p)
    <3>1. k \in DOMAIN q /\ (p \o q)[i] = q[k] /\ (k > 1 => i > 1 /\ (p \o q)[i - 1] = q[k - 1])
      BY <1>1, <2>2
    <3> QED BY <1>2, <3>1 DEF Framed
  <2> QED BY <1>1, <2>1, <2>2
<1> QED BY <1>1, <1>2 DEF Framed

\* A read, modify and write of one register is framed: the write follows the read.
LEMMA FramedRmw ==
  ASSUME NEW g \in DOMAIN GroupRegisters, NEW r \in GroupRegisters[g],
         NEW F \in SUBSET Fields(r), NEW v \in [F -> FieldValues(r)]
  PROVE  Rmw(r, v) \in Seq(Transfers(g)) /\ Framed(Rmw(r, v)) /\ Rmw(r, v) # <<>>
<1> DEFINE R == Read(r)
           W == Write(r, v)
<1>1. R \in Transfers(g) /\ R.do = "read" /\ R.reg = r
  BY ReadTransfer
<1>2. W \in Transfers(g) /\ Covers(W) /\ W.do = "write" /\ W.reg = r
  BY WriteTransfer
<1>3. Rmw(r, v) = <<R, W>>
  BY DEF Rmw
<1> HIDE DEF R, W
<1>4. Framed(<<R, W>>)
  BY <1>1, <1>2 DEF Framed
<1> QED BY <1>1, <1>2, <1>3, <1>4

\* A complete write needs no read.
LEMMA FramedWrite ==
  ASSUME NEW g \in DOMAIN GroupRegisters, NEW w \in Transfers(g),
         w.do = "write", Covers(w), Complete(w)
  PROVE  <<w>> \in Seq(Transfers(g)) /\ Framed(<<w>>) /\ <<w>> # <<>>
  BY DEF Framed

\* A write that has all the fields of its register.
LEMMA FramedPut ==
  ASSUME NEW g \in DOMAIN GroupRegisters, NEW r \in GroupRegisters[g],
         NEW v \in [Fields(r) -> FieldValues(r)]
  PROVE  /\ <<Write(r, v)>> \in Seq(Transfers(g)) /\ Framed(<<Write(r, v)>>)
         /\ <<Write(r, v)>> # <<>>
<1> DEFINE w == Write(r, v)
<1>1. /\ w \in Transfers(g) /\ Covers(w) /\ w.do = "write" /\ w.reg = r /\ w.val = v
  BY WriteTransfer
<1>2. Complete(w)
  BY <1>1 DEF Complete
<1>3. <<w>> \in Seq(Transfers(g)) /\ Framed(<<w>>) /\ <<w>> # <<>>
  <2> HIDE DEF w
  <2> QED BY <1>1, <1>2, FramedWrite
<1> QED BY <1>3

\* A write to a register that has a byte for every field.
LEMMA FramedBytes ==
  ASSUME NEW g \in DOMAIN GroupRegisters, NEW r \in GroupRegisters[g], NEW n \in Nat,
         NEW F \in SUBSET Fields(r), NEW v \in [F -> FieldValues(r)],
         Bytes(r) = [b \in 1 .. n |-> {b - 1}] /\ Fields(r) = 0 .. n - 1
  PROVE  /\ <<Write(r, v)>> \in Seq(Transfers(g)) /\ Framed(<<Write(r, v)>>)
         /\ <<Write(r, v)>> # <<>>
<1> DEFINE w == Write(r, v)
<1>1. /\ w \in Transfers(g) /\ Covers(w) /\ w.do = "write" /\ w.reg = r /\ w.val = v
      /\ w.span = BytesOf(r, F)
  BY WriteTransfer
<1>2. ASSUME NEW f \in Fields(r), BytesOf(r, {f}) \subseteq BytesOf(r, F) PROVE f \in F
  <2>1. f + 1 \in BytesOf(r, {f})
    <3>1. f + 1 \in 1 .. n /\ f + 1 - 1 = f
      OBVIOUS
    <3>2. f + 1 \in DOMAIN Bytes(r) /\ Bytes(r)[f + 1] = {f}
      BY <3>1
    <3> QED BY <3>2 DEF BytesOf
  <2>2. f + 1 \in BytesOf(r, F)
    BY <1>2, <2>1
  <2>3. {f + 1 - 1} \cap F # {} /\ f + 1 - 1 = f
    BY <2>2 DEF BytesOf
  <2> QED BY <2>3
<1>3. Complete(w)
  BY <1>1, <1>2 DEF Complete
<1>4. <<w>> \in Seq(Transfers(g)) /\ Framed(<<w>>) /\ <<w>> # <<>>
  <2> HIDE DEF w
  <2> QED BY <1>1, <1>3, FramedWrite
<1> QED BY <1>4

-----------------------------------------------------------------------------
\* The calls and the programs of each group

FlagRegisters == {"UseConfigured", "FecEnable", "HostEnable"}

\* A mask of lanes or of flags.
LEMMA MaskParts ==
  ASSUME NEW rs, NEW c \in MaskCalls(rs)
  PROVE  c.op = "mask" /\ c.reg \in rs /\ c.fields \in LaneMasks /\ c.on \in {0, 1}
  BY DEF MaskCalls, Bits

\* The calls that set one flag of a byte.
LEMMA FlagParts ==
  ASSUME NEW r, NEW flags, NEW c \in FlagCalls(r, flags)
  PROVE  /\ c.op = "mask" /\ c.reg = r /\ c.on \in {0, 1}
         /\ \E f \in flags : c.fields = {f}
  BY DEF FlagCalls, Bits

\* Every helper for a mask reads, changes and writes the one register, except that
\* the adaptive equaliser is applied at once.
LEMMA SetMaskIs ==
  ASSUME NEW r, NEW fields, NEW on \in {0, 1},
         r \in FlagRegisters => \E f : fields = {f},
         r = "LaneSwitchEnable" => fields = {0},
         r = "TuningFlagMask" => \E l, b : b # {} /\ fields = {l} \X b
  PROVE  IF r = "AdaptiveInputEqEnableTx"
         THEN SetMask(r, fields, on) =
                Rmw(r, All(fields, on)) \o Rmw("ApplyImmediate", All(fields, 1))
         ELSE SetMask(r, fields, on) = Rmw(r, All(fields, on))
<1> USE DEF NetworkBits, CoherentBits
<1>1. CASE r = "OutputDisableTx"
  BY <1>1 DEF SetMask, cmis_dp_tx_disable, cmis_dp_tx_enable
<1>2. CASE r = "AdaptiveInputEqEnableTx"
  BY <1>2 DEF SetMask, cmis_dp_set_adapt_eq_enable_tx, dp_rmw_byte
<1>3. CASE r \in NetworkBits
  BY <1>3 DEF SetMask, cmis_np_set_state_mask, np_rmw_byte
<1>4. CASE r = "TuningFlagMask"
  <2>1. PICK l, b : b # {} /\ fields = {l} \X b
    BY <1>4
  <2>2. (CHOOSE f \in fields : TRUE) \in fields
    <3>1. PICK x : x \in b
      BY <2>1
    <3>2. <<l, x>> \in fields
      BY <2>1, <3>1
    <3> QED BY <3>2
  <2>3. (CHOOSE f \in fields : TRUE)[1] = l
    BY <2>1, <2>2
  <2>4. {f[2] : f \in fields} = b
    <3>1. \A x \in b : <<l, x>> \in fields /\ <<l, x>>[2] = x
      BY <2>1
    <3>2. \A f \in fields : f[2] \in b
      BY <2>1
    <3>3. b \subseteq {f[2] : f \in fields}
      BY <3>1, Zenon
    <3> QED BY <3>2, <3>3
  <2>5. SetMask(r, fields, on) =
          cmis_tunable_set_mask((CHOOSE f \in fields : TRUE)[1], {f[2] : f \in fields}, on)
    BY <1>4 DEF SetMask
  <2> QED BY <1>4, <2>1, <2>3, <2>4, <2>5 DEF cmis_tunable_set_mask
<1>5. CASE r = "LaneSwitchEnable"
  BY <1>5 DEF SetMask, cmis_lane_switch_enable
<1>6. CASE r \in {"ModuleControl", "ModuleMask"}
  BY <1>6 DEF SetMask, module_rmw_byte
<1>7. CASE r \in FlagRegisters
  <2>1. PICK f : fields = {f}
    BY <1>7
  <2>2. (CHOOSE x \in fields : TRUE) = f
    BY <2>1
  <2> QED BY <1>7, <2>1, <2>2
      DEF FlagRegisters, SetMask, cmis_coherent_threshold_enable,
          cmis_coherent_host_threshold_enable, ccmis_rmw_byte
<1>8. CASE r \in CoherentBits
  BY <1>8 DEF SetMask, ccmis_rmw_byte
<1>9. CASE r = "DiagMask"
  BY <1>9 DEF SetMask, cmis_diag_set_mask
<1>10. CASE r \notin {"OutputDisableTx", "AdaptiveInputEqEnableTx", "TuningFlagMask",
                      "LaneSwitchEnable", "ModuleControl", "ModuleMask", "DiagMask"}
                     \cup NetworkBits \cup FlagRegisters \cup CoherentBits
  BY <1>10 DEF SetMask, dp_rmw_byte, FlagRegisters
<1> QED BY <1>1, <1>2, <1>3, <1>4, <1>5, <1>6, <1>7, <1>8, <1>9, <1>10

\* The calls, group by group.
LEMMA CallsOfGroups ==
  /\ CallsOf["direct"] = MaskCalls(DirectControls)
  /\ CallsOf["staged"] =
       MaskCalls({"AdaptiveInputEqEnableTx"})
       \cup [op : {"cdr"}, lanes : LaneMasks, tx : Bits, rx : Bits]
       \cup [op : {"target"}, reg : StagedTargets, lane : {0, 1, NLanes}, target : Targets]
  /\ CallsOf["network"] = MaskCalls(NetworkBits)
  /\ \A c \in CallsOf["tuning"] :
       /\ c.op = "mask" /\ c.reg = "TuningFlagMask" /\ c.on \in Bits
       /\ c.fields \in {{l} \X b : l \in {0, 1, NLanes}, b \in {{0}, {0, 1}}}
  /\ CallsOf["switch"] =
       [op : {"redir"}, lane : {0, 1, NLanes}, redir : {0, 1, 8}]
       \cup FlagCalls("LaneSwitchEnable", {0}) \cup {[op |-> "commit"], [op |-> "result"]}
  /\ CallsOf["module"] =
       MaskCalls({"ModuleMask"}) \cup FlagCalls("ModuleControl", {"broadcast", "squelch"})
       \cup {[op |-> "sw_reset"]}
       \cup [op : {"password_entry"}, pw : Passwords]
       \cup [op : {"password_change"}, current : Passwords, new : Passwords]
       \cup [op : {"eeprom_write"}, offset : -1 .. UserSize, data : Texts]
       \cup [op : {"eeprom_read"}, offset : {-1, 0, UserSize}, len : {0, 1, UserSize}]
  /\ CallsOf["coherent"] =
       MaskCalls(CoherentBits) \cup FlagCalls("UseConfigured", Fields("UseConfigured"))
       \cup FlagCalls("FecEnable", Fields("FecEnable"))
       \cup FlagCalls("HostEnable", Fields("HostEnable"))
  /\ \A c \in CallsOf["filter"] : c.op = "filter" /\ c.lane \in {0, 1, NLanes} /\ c.type \in {0, 1, 4}
  /\ \A c \in CallsOf["power"] :
       c.op = "threshold" /\ c.reg \in thresh_descs.s16 \cup {"no-such-type"} /\ c.value \in Powers
  /\ CallsOf["ber"] =
       [op : {"threshold"}, reg : thresh_descs.f16, value : BitErrors]
       \cup [op : {"host_threshold"}, reg : host_thresh_descs \cup {"no-such-type"},
             value : BitErrors]
  /\ CallsOf["bert"] =
       [op : {"bert_start"}, blocks : BertBlocks, pattern : Patterns, lanes : LaneMasks]
       \cup {[op |-> "bert_stop"]}
  /\ CallsOf["loopback"] =
       [op : {"loopback_start"}, mode : loopback_modes \cup {"no-such-mode"}, lanes : LaneMasks]
       \cup {[op |-> "loopback_stop"]}
  /\ CallsOf["diag"] =
       MaskCalls({"DiagMask"}) \cup {[op |-> "scratchpad_read"]}
       \cup [op : {"padded"}, reg : {"Scratchpad", "UserPattern"}, data : Texts]
<1>1. CallsOf["direct"] = MaskCalls(DirectControls)
  BY DEF CallsOf
<1>2. CallsOf["staged"] =
         MaskCalls({"AdaptiveInputEqEnableTx"})
         \cup [op : {"cdr"}, lanes : LaneMasks, tx : Bits, rx : Bits]
         \cup [op : {"target"}, reg : StagedTargets, lane : {0, 1, NLanes}, target : Targets]
  BY DEF CallsOf
<1>3. CallsOf["network"] = MaskCalls(NetworkBits)
  BY DEF CallsOf
<1>4. \A c \in CallsOf["tuning"] :
         /\ c.op = "mask" /\ c.reg = "TuningFlagMask" /\ c.on \in Bits
         /\ c.fields \in {{l} \X b : l \in {0, 1, NLanes}, b \in {{0}, {0, 1}}}
  BY DEF CallsOf
<1>5. CallsOf["switch"] =
         [op : {"redir"}, lane : {0, 1, NLanes}, redir : {0, 1, 8}]
         \cup FlagCalls("LaneSwitchEnable", {0}) \cup {[op |-> "commit"], [op |-> "result"]}
  BY DEF CallsOf
<1>6. CallsOf["module"] =
         MaskCalls({"ModuleMask"}) \cup FlagCalls("ModuleControl", {"broadcast", "squelch"})
         \cup {[op |-> "sw_reset"]}
         \cup [op : {"password_entry"}, pw : Passwords]
         \cup [op : {"password_change"}, current : Passwords, new : Passwords]
         \cup [op : {"eeprom_write"}, offset : -1 .. UserSize, data : Texts]
         \cup [op : {"eeprom_read"}, offset : {-1, 0, UserSize}, len : {0, 1, UserSize}]
  BY DEF CallsOf
<1>7. CallsOf["coherent"] =
         MaskCalls(CoherentBits) \cup FlagCalls("UseConfigured", Fields("UseConfigured"))
         \cup FlagCalls("FecEnable", Fields("FecEnable"))
         \cup FlagCalls("HostEnable", Fields("HostEnable"))
  BY DEF CallsOf
<1>8. \A c \in CallsOf["filter"] : c.op = "filter" /\ c.lane \in {0, 1, NLanes} /\ c.type \in {0, 1, 4}
  BY DEF CallsOf
<1>9. \A c \in CallsOf["power"] :
         c.op = "threshold" /\ c.reg \in thresh_descs.s16 \cup {"no-such-type"} /\ c.value \in Powers
  BY DEF CallsOf
<1>10. CallsOf["ber"] =
         [op : {"threshold"}, reg : thresh_descs.f16, value : BitErrors]
         \cup [op : {"host_threshold"}, reg : host_thresh_descs \cup {"no-such-type"},
               value : BitErrors]
  BY DEF CallsOf
<1>11. CallsOf["bert"] =
         [op : {"bert_start"}, blocks : BertBlocks, pattern : Patterns, lanes : LaneMasks]
         \cup {[op |-> "bert_stop"]}
  BY DEF CallsOf
<1>12. CallsOf["loopback"] =
         [op : {"loopback_start"}, mode : loopback_modes \cup {"no-such-mode"}, lanes : LaneMasks]
         \cup {[op |-> "loopback_stop"]}
  BY DEF CallsOf
<1>13. CallsOf["diag"] =
         MaskCalls({"DiagMask"}) \cup {[op |-> "scratchpad_read"]}
         \cup [op : {"padded"}, reg : {"Scratchpad", "UserPattern"}, data : Texts]
  BY DEF CallsOf
<1> QED
  BY <1>1, <1>2, <1>3, <1>4, <1>5, <1>6, <1>7, <1>8, <1>9, <1>10, <1>11, <1>12, <1>13

\* A program of the group, of one transfer at least, whose writes are framed.
IsProgram(g, p) == p \in Seq(Transfers(g)) /\ p # <<>> /\ Framed(p)

\* Two programs in turn are a program.
LEMMA ProgramConcat ==
  ASSUME NEW g, NEW p, NEW q, IsProgram(g, p), IsProgram(g, q)
  PROVE  IsProgram(g, p \o q)
<1>1. p \o q \in Seq(Transfers(g)) /\ Framed(p \o q)
  BY FramedConcat DEF IsProgram
<1>2. p \o q # <<>>
  BY ConcatEmptySeq DEF IsProgram
<1> QED BY <1>1, <1>2 DEF IsProgram

\* A read, modify and write is a program,
LEMMA RmwProgram ==
  ASSUME NEW g \in DOMAIN GroupRegisters, NEW r \in GroupRegisters[g],
         NEW F \in SUBSET Fields(r), NEW v \in FieldValues(r)
  PROVE  IsProgram(g, Rmw(r, All(F, v)))
<1>1. All(F, v) \in [F -> FieldValues(r)]
  BY DEF All
<1> QED BY <1>1, FramedRmw DEF IsProgram

\* and so is a write of a whole register,
LEMMA PutProgram ==
  ASSUME NEW g \in DOMAIN GroupRegisters, NEW r \in GroupRegisters[g],
         NEW v \in [Fields(r) -> FieldValues(r)]
  PROVE  IsProgram(g, <<Write(r, v)>>)
  BY FramedPut DEF IsProgram

\* of lane bits in particular,
LEMMA LanesProgram ==
  ASSUME NEW g \in DOMAIN GroupRegisters, NEW r \in GroupRegisters[g], r \in LaneRegisters,
         NEW lanes
  PROVE  IsProgram(g, PutLanes(r, lanes))
<1>1. [l \in Lanes |-> IF l \in lanes THEN 1 ELSE 0] \in [Fields(r) -> FieldValues(r)]
  BY LaneLayout
<1>2. IsProgram(g, <<Write(r, [l \in Lanes |-> IF l \in lanes THEN 1 ELSE 0])>>)
  BY <1>1, PutProgram
<1> QED BY <1>2 DEF PutLanes

\* a read,
LEMMA ReadProgram ==
  ASSUME NEW g \in DOMAIN GroupRegisters, NEW r \in GroupRegisters[g]
  PROVE  IsProgram(g, <<Read(r)>>)
<1>1. Read(r) \in Transfers(g) /\ Read(r).do = "read"
  BY ReadTransfer
<1> DEFINE t == Read(r)
<1>2. IsProgram(g, <<t>>)
  <2> HIDE DEF t
  <2>1. t \in Transfers(g) /\ t.do = "read"
    BY <1>1 DEF t
  <2> QED BY <2>1 DEF IsProgram, Framed
<1> QED BY <1>2

\* and a check of a pattern.
LEMMA CheckProgram ==
  ASSUME NEW g \in DOMAIN GroupRegisters, NEW b \in Blocks, NEW x \in Patterns
  PROVE  IsProgram(g, <<Advertised(b, x)>>)
<1> DEFINE t == Advertised(b, x)
<1>1. t \in Transfers(g) /\ t.do = "check"
  BY CheckTransfer
<1>2. IsProgram(g, <<t>>)
  <2> HIDE DEF t
  <2> QED BY <1>1 DEF IsProgram, Framed
<1> QED BY <1>2

\* Whatever helper a mask is written with, it makes a program.
LEMMA MaskProgram ==
  ASSUME NEW g \in DOMAIN GroupRegisters, NEW r \in GroupRegisters[g],
         NEW fields \in SUBSET Fields(r), NEW on \in {0, 1},
         r \in FlagRegisters => \E f : fields = {f},
         r = "LaneSwitchEnable" => fields = {0},
         r = "TuningFlagMask" => \E l, b : b # {} /\ fields = {l} \X b,
         r = "AdaptiveInputEqEnableTx" => "ApplyImmediate" \in GroupRegisters[g],
         1 \in FieldValues(r)
  PROVE  IsProgram(g, SetMask(r, fields, on))
<1>1. IsProgram(g, Rmw(r, All(fields, on)))
  BY BytesAndZero, RmwProgram
<1>2. CASE r = "AdaptiveInputEqEnableTx"
  <2>1. r \in LaneRegisters /\ "ApplyImmediate" \in LaneRegisters
    BY <1>2 DEF LaneRegisters, StagedBits
  <2>2. fields \subseteq Fields("ApplyImmediate") /\ 1 \in FieldValues("ApplyImmediate")
    BY <2>1, LaneLayout
  <2>3. IsProgram(g, Rmw("ApplyImmediate", All(fields, 1)))
    BY <1>2, <2>2, RmwProgram
  <2>4. SetMask(r, fields, on) = Rmw(r, All(fields, on)) \o Rmw("ApplyImmediate", All(fields, 1))
    BY <1>2, SetMaskIs
  <2> QED BY <1>1, <2>3, <2>4, ProgramConcat
<1>3. CASE r # "AdaptiveInputEqEnableTx"
  BY <1>1, <1>3, SetMaskIs
<1> QED BY <1>2, <1>3

\* The registers with one field for each lane.
LEMMA LaneMaskProgram ==
  ASSUME NEW g \in DOMAIN GroupRegisters, NEW r \in GroupRegisters[g], r \in LaneRegisters,
         r = "AdaptiveInputEqEnableTx" => "ApplyImmediate" \in GroupRegisters[g],
         NEW fields \in LaneMasks, NEW on \in {0, 1}
  PROVE  IsProgram(g, SetMask(r, fields, on))
<1>1. fields \subseteq Fields(r) /\ 1 \in FieldValues(r)
  <2>1. Fields(r) = Lanes /\ FieldValues(r) = 0 .. 1
    BY LaneLayout
  <2>2. fields \subseteq Lanes
    BY LaneMasksAssumption DEF LaneMasksAssumption, Lanes
  <2> QED BY <2>1, <2>2
<1>2. r \notin FlagRegisters \cup {"LaneSwitchEnable", "TuningFlagMask"}
  BY DEF FlagRegisters, LaneRegisters, DirectControls, StagedBits, NetworkBits, CoherentBits,
         loopback_modes, Enable, Blocks
<1> QED BY <1>1, <1>2, MaskProgram

\* Sixteen bits are two bytes.
LEMMA TwoBytes ==
  ASSUME NEW raw \in Nat, raw < 65536
  PROVE  /\ raw \div 256 \in 0 .. 255 /\ raw % 256 \in 0 .. 255
         /\ raw = (256 * (raw \div 256)) + (raw % 256)
<1>1. raw \in Int /\ 0 <= raw /\ raw < 65536
  OBVIOUS
<1>2. raw \div 256 <= 255
  BY <1>1
<1>3. raw \div 256 >= 0
  BY <1>1
<1>4. raw \div 256 \in Int
  BY <1>1
<1>5. raw % 256 \in 0 .. 255
  BY <1>1
<1>6. raw = (256 * (raw \div 256)) + (raw % 256)
  BY <1>1
<1> QED BY <1>2, <1>3, <1>4, <1>5, <1>6

\* A word of 16 bits, for a register of two bytes.
LEMMA WordProgram ==
  ASSUME NEW g \in DOMAIN GroupRegisters, NEW r \in GroupRegisters[g], r \in WordRegisters,
         NEW raw \in Nat, raw < 65536
  PROVE  /\ WordOf(raw) \in [{"high", "low"} -> 0 .. 255]
         /\ IsProgram(g, <<Write(r, WordOf(raw))>>)
<1> DEFINE v == WordOf(raw)
           hi == raw \div 256
           lo == raw % 256
<1>1. v \in [{"high", "low"} -> 0 .. 255]
  <2>1. hi \in 0 .. 255 /\ lo \in 0 .. 255
    BY TwoBytes
  <2>2. v = [f \in {"high", "low"} |-> IF f = "high" THEN hi ELSE lo]
    BY DEF WordOf
  <2> HIDE DEF v, hi, lo
  <2> QED BY <2>1, <2>2
<1>2. Fields(r) = {"high", "low"} /\ FieldValues(r) = 0 .. 255
  BY WordLayout
<1>3. IsProgram(g, <<Write(r, v)>>)
  <2> HIDE DEF v, hi, lo
  <2> QED BY <1>1, <1>2, PutProgram
<1> QED BY <1>1, <1>3

\* The programs of the lane controls that act at once are framed.
LEMMA DirectPrograms ==
  ASSUME NEW c \in CallsOf["direct"], NEW p \in Programs(c)
  PROVE  IsProgram("direct", p)
<1>1. c.op = "mask" /\ c.reg \in DirectControls /\ c.fields \in LaneMasks /\ c.on \in {0, 1}
  BY CallsOfGroups, MaskParts
<1>2. p = SetMask(c.reg, c.fields, c.on)
  BY <1>1 DEF Programs
<1>3. /\ "direct" \in DOMAIN GroupRegisters /\ c.reg \in GroupRegisters["direct"]
      /\ c.reg \in LaneRegisters /\ c.reg # "AdaptiveInputEqEnableTx"
  BY <1>1 DEF GroupRegisters, LaneRegisters, DirectControls
<1> QED BY <1>1, <1>2, <1>3, LaneMaskProgram

\* So are those of the network paths,
LEMMA NetworkPrograms ==
  ASSUME NEW c \in CallsOf["network"], NEW p \in Programs(c)
  PROVE  IsProgram("network", p)
<1>1. c.op = "mask" /\ c.reg \in NetworkBits /\ c.fields \in LaneMasks /\ c.on \in {0, 1}
  BY CallsOfGroups, MaskParts
<1>2. p = SetMask(c.reg, c.fields, c.on)
  BY <1>1 DEF Programs
<1>3. /\ "network" \in DOMAIN GroupRegisters /\ c.reg \in GroupRegisters["network"]
      /\ c.reg \in LaneRegisters /\ c.reg # "AdaptiveInputEqEnableTx"
  BY <1>1 DEF GroupRegisters, LaneRegisters, NetworkBits
<1> QED BY <1>1, <1>2, <1>3, LaneMaskProgram

\* and of the masks of the tuning flags.
LEMMA TuningPrograms ==
  ASSUME NEW c \in CallsOf["tuning"], Valid(c), NEW p \in Programs(c)
  PROVE  IsProgram("tuning", p)
<1>1. /\ c.op = "mask" /\ c.reg = "TuningFlagMask" /\ c.on \in {0, 1}
      /\ c.fields \in {{l} \X b : l \in {0, 1, NLanes}, b \in {{0}, {0, 1}}}
  BY CallsOfGroups DEF Bits
<1>2. p = SetMask(c.reg, c.fields, c.on)
  BY <1>1 DEF Programs
<1>3. "tuning" \in DOMAIN GroupRegisters /\ c.reg \in GroupRegisters["tuning"]
  BY <1>1 DEF GroupRegisters
<1>4. PICK l \in {0, 1, NLanes}, b \in {{0}, {0, 1}} : c.fields = {l} \X b
  BY <1>1
<1>5. l \in Lanes
  <2>1. \A f \in c.fields : f[1] \in Lanes
    BY <1>1 DEF Valid
  <2>2. <<l, 0>> \in c.fields
    BY <1>4
  <2> QED BY <2>1, <2>2
<1>6. c.fields \subseteq Fields(c.reg) /\ 1 \in FieldValues(c.reg)
  BY <1>1, <1>4, <1>5, OtherLayout
<1>7. c.reg \notin FlagRegisters \cup {"LaneSwitchEnable", "AdaptiveInputEqEnableTx"}
  BY <1>1 DEF FlagRegisters
<1>8. \E x, y : y # {} /\ c.fields = {x} \X y
  <2>1. b # {}
    BY <1>4
  <2> QED BY <1>4, <2>1
<1>9. IsProgram("tuning", SetMask(c.reg, c.fields, c.on))
  <2> DEFINE g == "tuning"
             r == c.reg
             fields == c.fields
  <2>1. /\ g \in DOMAIN GroupRegisters /\ r \in GroupRegisters[g]
        /\ fields \in SUBSET Fields(r) /\ c.on \in {0, 1} /\ 1 \in FieldValues(r)
        /\ r \notin FlagRegisters /\ r # "LaneSwitchEnable" /\ r # "AdaptiveInputEqEnableTx"
        /\ \E x, y : y # {} /\ fields = {x} \X y
    BY <1>1, <1>3, <1>6, <1>7, <1>8
  <2> HIDE DEF g, r, fields
  <2>2. IsProgram(g, SetMask(r, fields, c.on))
    BY <2>1, MaskProgram
  <2> QED BY <2>2 DEF g, r, fields
<1> QED BY <1>2, <1>9

\* The writer and the display agree on the nibble of a lane.
LEMMA NibbleIsLane ==
  ASSUME NEW l \in Lanes
  PROVE  /\ NibbleAt(l) = l /\ NibbleShownAt(l) = l
  BY NLanesAssumption DEF NLanesAssumption, Lanes, NibbleAt, NibbleShownAt

\* The programs of the settings that are staged and then applied.
LEMMA StagedPrograms ==
  ASSUME NEW c \in CallsOf["staged"], Valid(c), NEW p \in Programs(c)
  PROVE  IsProgram("staged", p)
<1> DEFINE g == "staged"
<1>1. /\ g \in DOMAIN GroupRegisters
      /\ {"CDREnableTx", "CDREnableRx", "AdaptiveInputEqEnableTx", "ApplyImmediate"}
            \subseteq GroupRegisters[g] \cap LaneRegisters
      /\ StagedTargets \subseteq GroupRegisters[g] \cap Nibbles
  BY DEF GroupRegisters, LaneRegisters, StagedBits, Nibbles
<1>2. CASE c \in MaskCalls({"AdaptiveInputEqEnableTx"})
  <2>1. /\ c.op = "mask" /\ c.reg = "AdaptiveInputEqEnableTx" /\ c.fields \in LaneMasks
        /\ c.on \in {0, 1}
    BY <1>2, MaskParts
  <2>2. p = SetMask(c.reg, c.fields, c.on)
    BY <2>1 DEF Programs
  <2> HIDE DEF g
  <2>3. IsProgram(g, p)
    BY <1>1, <2>1, <2>2, LaneMaskProgram
  <2> QED BY <2>3 DEF g
<1>3. CASE c \in [op : {"cdr"}, lanes : LaneMasks, tx : Bits, rx : Bits]
  <2>1. c.op = "cdr" /\ c.lanes \in LaneMasks /\ c.tx \in {0, 1} /\ c.rx \in {0, 1}
    BY <1>3 DEF Bits
  <2>2. p = Rmw("CDREnableTx", All(c.lanes, c.tx)) \o Rmw("CDREnableRx", All(c.lanes, c.rx))
              \o PutLanes("ApplyImmediate", c.lanes)
    BY <2>1 DEF Programs, cmis_dp_set_cdr
  <2>3. c.lanes \subseteq Lanes
    BY <2>1, LaneMasksAssumption DEF LaneMasksAssumption, Lanes
  <2> HIDE DEF g
  <2>4. ASSUME NEW r \in {"CDREnableTx", "CDREnableRx"}, NEW v \in {0, 1}
        PROVE  IsProgram(g, Rmw(r, All(c.lanes, v)))
    <3>1. Fields(r) = Lanes /\ FieldValues(r) = 0 .. 1
      BY <1>1, LaneLayout
    <3>2. r \in GroupRegisters[g] /\ c.lanes \in SUBSET Fields(r) /\ v \in FieldValues(r)
      BY <1>1, <2>3, <3>1
    <3> QED BY <1>1, <3>2, RmwProgram
  <2>5. IsProgram(g, PutLanes("ApplyImmediate", c.lanes))
    BY <1>1, LanesProgram
  <2>6. /\ IsProgram(g, Rmw("CDREnableTx", All(c.lanes, c.tx)))
        /\ IsProgram(g, Rmw("CDREnableRx", All(c.lanes, c.rx)))
    BY <2>1, <2>4
  <2>7. IsProgram(g, p)
    BY <2>2, <2>5, <2>6, ProgramConcat
  <2> QED BY <2>7 DEF g
<1>4. CASE c \in [op : {"target"}, reg : StagedTargets, lane : {0, 1, NLanes}, target : Targets]
  <2>1. c.op = "target" /\ c.reg \in StagedTargets /\ c.target \in Nat
    <3>1. Targets \subseteq Nat
      BY ArgumentsAssumption DEF ArgumentsAssumption
    <3> QED BY <1>4, <3>1
  <2>2. c.lane \in Lanes /\ c.target <= 15
    BY <2>1 DEF Valid, NibbleValid
  <2>3. p = Rmw(c.reg, All({NibbleAt(c.lane)}, c.target)) \o PutLanes("ApplyImmediate", {c.lane})
    BY <2>1 DEF Programs, SetTarget, dp_rmw_nibble
  <2>4. Fields(c.reg) = Lanes /\ FieldValues(c.reg) = 0 .. 15
    BY <1>1, <2>1, NibbleLayout
  <2>5. {NibbleAt(c.lane)} \in SUBSET Fields(c.reg) /\ c.target \in FieldValues(c.reg)
    BY <2>1, <2>2, <2>4, NibbleIsLane
  <2> HIDE DEF g
  <2>6. IsProgram(g, Rmw(c.reg, All({NibbleAt(c.lane)}, c.target)))
    BY <1>1, <2>1, <2>5, RmwProgram
  <2>7. IsProgram(g, PutLanes("ApplyImmediate", {c.lane}))
    BY <1>1, LanesProgram
  <2>8. IsProgram(g, p)
    BY <2>3, <2>6, <2>7, ProgramConcat
  <2> QED BY <2>8 DEF g
<1> QED BY <1>2, <1>3, <1>4, CallsOfGroups

\* A flag is set by a program.
LEMMA FlagProgram ==
  ASSUME NEW g \in DOMAIN GroupRegisters, NEW r \in GroupRegisters[g],
         NEW f \in Fields(r), NEW on \in {0, 1}, FieldValues(r) = 0 .. 1,
         r \notin {"TuningFlagMask", "AdaptiveInputEqEnableTx"},
         r = "LaneSwitchEnable" => f = 0
  PROVE  IsProgram(g, SetMask(r, {f}, on))
<1>1. {f} \in SUBSET Fields(r) /\ 1 \in FieldValues(r)
  OBVIOUS
<1> QED BY <1>1, MaskProgram

\* The programs of the lane switch,
LEMMA SwitchPrograms ==
  ASSUME NEW c \in CallsOf["switch"], Valid(c), NEW p \in Programs(c)
  PROVE  IsProgram("switch", p)
<1> DEFINE g == "switch"
<1>1. g \in DOMAIN GroupRegisters
  BY DEF GroupRegisters
<1>2. {"RedirectionOfLane", "LaneSwitchEnable", "LaneSwitchCommit"} \subseteq GroupRegisters[g]
  BY DEF GroupRegisters
<1>3. /\ Fields("LaneSwitchEnable") = {0} /\ FieldValues("LaneSwitchEnable") = 0 .. 1
      /\ Fields("LaneSwitchCommit") = {0} /\ FieldValues("LaneSwitchCommit") = 0 .. 1
  BY SingleLayout DEF Singles
<1>4. CASE c \in [op : {"redir"}, lane : {0, 1, NLanes}, redir : {0, 1, 8}]
  <2>1. c.op = "redir" /\ c.lane \in Lanes /\ c.redir \in 0 .. 7
    BY <1>4 DEF Valid
  <2>2. p = <<Write("RedirectionOfLane", All({c.lane}, c.redir))>>
    BY <2>1 DEF Programs, cmis_lane_switch_set_redir
  <2> DEFINE v == All({c.lane}, c.redir)
             r == "RedirectionOfLane"
  <2>3. /\ Bytes(r) = [b \in 1 .. NLanes |-> {b - 1}] /\ Fields(r) = 0 .. NLanes - 1
        /\ {c.lane} \in SUBSET Fields(r) /\ v \in [{c.lane} -> FieldValues(r)]
    BY <2>1, OtherLayout DEF All, Lanes
  <2>4. NLanes \in Nat /\ r \in GroupRegisters[g]
    BY <1>2, NLanesAssumption DEF NLanesAssumption
  <2> HIDE DEF g, v, r
  <2>5. IsProgram(g, <<Write(r, v)>>)
    BY <1>1, <2>3, <2>4, FramedBytes DEF IsProgram
  <2> QED BY <2>2, <2>5 DEF g, v, r
<1>5. CASE c \in FlagCalls("LaneSwitchEnable", {0})
  <2>1. c.op = "mask" /\ c.reg = "LaneSwitchEnable" /\ c.on \in {0, 1} /\ c.fields = {0}
    BY <1>5, FlagParts
  <2>2. p = SetMask("LaneSwitchEnable", {0}, c.on)
    BY <2>1 DEF Programs
  <2> HIDE DEF g
  <2>3. IsProgram(g, SetMask("LaneSwitchEnable", {0}, c.on))
    BY <1>1, <1>2, <1>3, <2>1, FlagProgram
  <2> QED BY <2>2, <2>3 DEF g
<1>6. CASE c = [op |-> "commit"]
  <2>1. p = <<Write("LaneSwitchCommit", All({0}, 1))>>
    BY <1>6 DEF Programs, cmis_lane_switch_commit
  <2>2. All({0}, 1) \in [Fields("LaneSwitchCommit") -> FieldValues("LaneSwitchCommit")]
    BY <1>3 DEF All
  <2> HIDE DEF g
  <2>3. IsProgram(g, p)
    BY <1>1, <1>2, <2>1, <2>2, PutProgram
  <2> QED BY <2>3 DEF g
<1>7. CASE c = [op |-> "result"]
  <2>1. p = <<Read("LaneSwitchCommit")>>
    BY <1>7 DEF Programs
  <2> QED BY <1>1, <1>2, <2>1, ReadProgram
<1> QED BY <1>4, <1>5, <1>6, <1>7, CallsOfGroups

\* of the masks and flags of the coherent pages,
LEMMA CoherentPrograms ==
  ASSUME NEW c \in CallsOf["coherent"], NEW p \in Programs(c)
  PROVE  IsProgram("coherent", p)
<1> DEFINE g == "coherent"
<1>1. /\ g \in DOMAIN GroupRegisters
      /\ CoherentBits \cup FlagRegisters \subseteq GroupRegisters[g]
  BY DEF GroupRegisters, FlagRegisters
<1>2. CASE c \in MaskCalls(CoherentBits)
  <2>1. c.op = "mask" /\ c.reg \in CoherentBits /\ c.fields \in LaneMasks /\ c.on \in {0, 1}
    BY <1>2, MaskParts
  <2>2. p = SetMask(c.reg, c.fields, c.on)
    BY <2>1 DEF Programs
  <2>3. c.reg \in LaneRegisters /\ c.reg # "AdaptiveInputEqEnableTx"
    BY <2>1 DEF LaneRegisters, CoherentBits
  <2> HIDE DEF g
  <2>4. IsProgram(g, p)
    BY <1>1, <2>1, <2>2, <2>3, LaneMaskProgram
  <2> QED BY <2>4 DEF g
<1>3. CASE \E r \in FlagRegisters : c \in FlagCalls(r, Fields(r))
  <2>1. PICK r \in FlagRegisters : c \in FlagCalls(r, Fields(r))
    BY <1>3
  <2>2. c.op = "mask" /\ c.reg = r /\ c.on \in {0, 1} /\ \E f \in Fields(r) : c.fields = {f}
    BY <2>1, FlagParts
  <2>3. PICK f \in Fields(r) : c.fields = {f}
    BY <2>2
  <2>4. p = SetMask(r, {f}, c.on)
    BY <2>2, <2>3 DEF Programs
  <2>5. /\ FieldValues(r) = 0 .. 1 /\ r # "LaneSwitchEnable"
        /\ r \notin {"TuningFlagMask", "AdaptiveInputEqEnableTx"}
    BY OtherLayout DEF FlagRegisters
  <2> HIDE DEF g
  <2>6. IsProgram(g, p)
    BY <1>1, <2>2, <2>4, <2>5, FlagProgram
  <2> QED BY <2>6 DEF g
<1> QED BY <1>2, <1>3, CallsOfGroups DEF FlagRegisters

\* of the filter type,
LEMMA FilterPrograms ==
  ASSUME NEW c \in CallsOf["filter"], Valid(c), NEW p \in Programs(c)
  PROVE  IsProgram("filter", p)
<1> DEFINE g == "filter"
           r == "TxFilterType"
<1>1. c.op = "filter" /\ c.lane \in Lanes /\ c.type \in 0 .. 3
  BY CallsOfGroups DEF Valid
<1>2. p = Rmw(r, All({TypeAt(c.lane)}, c.type))
  BY <1>1 DEF Programs, cmis_coherent_set_tx_filter_type
<1>3. g \in DOMAIN GroupRegisters /\ r \in GroupRegisters[g]
  BY DEF GroupRegisters
<1>4. TypeAt(c.lane) \in Lanes
  BY <1>1, NLanesAssumption DEF NLanesAssumption, Lanes, TypeAt
<1>5. {TypeAt(c.lane)} \in SUBSET Fields(r) /\ c.type \in FieldValues(r)
  BY <1>1, <1>4, OtherLayout
<1> HIDE DEF g, r
<1>6. IsProgram(g, p)
  BY <1>2, <1>3, <1>5, RmwProgram
<1> QED BY <1>6 DEF g

\* and of the loopbacks.
LEMMA LoopbackPrograms ==
  ASSUME NEW c \in CallsOf["loopback"], Valid(c), NEW p \in Programs(c)
  PROVE  IsProgram("loopback", p)
<1> DEFINE g == "loopback"
<1>1. /\ g \in DOMAIN GroupRegisters /\ "LoopbackCaps" \in GroupRegisters[g]
      /\ loopback_modes \subseteq GroupRegisters[g] \cap LaneRegisters
  BY DEF GroupRegisters, LaneRegisters
<1> HIDE DEF g
<1>2. ASSUME NEW m \in loopback_modes, NEW lanes PROVE IsProgram(g, PutLanes(m, lanes))
  BY <1>1, LanesProgram
<1>3. CASE c.op = "loopback_start" /\ c.mode \in loopback_modes
  <2>1. p = <<Read("LoopbackCaps")>> \o PutLanes(c.mode, c.lanes)
    BY <1>3 DEF Programs, cmis_diag_loopback_start
  <2>2. IsProgram(g, p)
    BY <1>1, <1>2, <1>3, <2>1, ReadProgram, ProgramConcat
  <2> QED BY <2>2 DEF g
<1>4. CASE c.op = "loopback_stop"
  <2>1. p = PutLanes("media-output", {}) \o PutLanes("media-input", {})
              \o PutLanes("host-output", {}) \o PutLanes("host-input", {})
    BY <1>4 DEF Programs, cmis_diag_loopback_stop
  <2>2. /\ IsProgram(g, PutLanes("media-output", {})) /\ IsProgram(g, PutLanes("media-input", {}))
        /\ IsProgram(g, PutLanes("host-output", {})) /\ IsProgram(g, PutLanes("host-input", {}))
    BY <1>2 DEF loopback_modes
  <2>3. IsProgram(g, p)
    BY <2>1, <2>2, ProgramConcat
  <2> QED BY <2>3 DEF g
<1>5. \/ c.op = "loopback_start" /\ c.mode \in loopback_modes
      \/ c.op = "loopback_stop"
  BY CallsOfGroups DEF Valid
<1> QED BY <1>3, <1>4, <1>5

\* Padded data fills an area.
LEMMA PaddedIsFull ==
  ASSUME NEW data \in Seq(0 .. 255)
  PROVE  Padded(data) \in [0 .. UserSize - 1 -> 0 .. 255]
<1>1. ASSUME NEW f \in 0 .. UserSize - 1, f < Len(data) PROVE data[f + 1] \in 0 .. 255
  <2>1. f + 1 \in 1 .. Len(data)
    BY <1>1 DEF UserSize
  <2> QED BY <2>1, ElementOfSeq
<1>2. \A f \in 0 .. UserSize - 1 : (IF f < Len(data) THEN data[f + 1] ELSE 0) \in 0 .. 255
  BY <1>1
<1> QED BY <1>2 DEF Padded

\* The programs of the masks and areas of the diagnostics,
LEMMA DiagPrograms ==
  ASSUME NEW c \in CallsOf["diag"], Valid(c), NEW p \in Programs(c)
  PROVE  IsProgram("diag", p)
<1> DEFINE g == "diag"
<1>1. /\ g \in DOMAIN GroupRegisters
      /\ {"DiagMask", "Scratchpad", "UserPattern"} \subseteq GroupRegisters[g]
  BY DEF GroupRegisters
<1> HIDE DEF g
<1>2. CASE c \in MaskCalls({"DiagMask"})
  <2>1. c.op = "mask" /\ c.reg = "DiagMask" /\ c.fields \in LaneMasks /\ c.on \in {0, 1}
    BY <1>2, MaskParts
  <2>2. p = SetMask(c.reg, c.fields, c.on)
    BY <2>1 DEF Programs
  <2>3. c.reg \in LaneRegisters /\ c.reg # "AdaptiveInputEqEnableTx" /\ c.reg \in GroupRegisters[g]
    BY <1>1, <2>1 DEF LaneRegisters
  <2> QED BY <1>1, <2>1, <2>2, <2>3, LaneMaskProgram DEF g
<1>3. CASE c = [op |-> "scratchpad_read"]
  <2>1. p = <<Read("Scratchpad")>>
    BY <1>3 DEF Programs
  <2> QED BY <1>1, <2>1, ReadProgram DEF g
<1>4. CASE c \in [op : {"padded"}, reg : {"Scratchpad", "UserPattern"}, data : Texts]
  <2>1. c.op = "padded" /\ c.reg \in {"Scratchpad", "UserPattern"} /\ c.data \in Texts
    BY <1>4
  <2>2. c.data \in Seq(0 .. 255)
    BY <2>1, ArgumentsAssumption DEF ArgumentsAssumption
  <2>3. p = <<Write(c.reg, Padded(c.data))>>
    BY <2>1 DEF Programs, PutPadded
  <2>4. c.reg \in Areas /\ c.reg \in GroupRegisters[g]
    BY <1>1, <2>1 DEF Areas
  <2>5. Padded(c.data) \in [Fields(c.reg) -> FieldValues(c.reg)]
    BY <2>2, <2>4, PaddedIsFull, AreaLayout
  <2>6. IsProgram(g, p)
    BY <1>1, <2>3, <2>4, <2>5, PutProgram
  <2> QED BY <2>6 DEF g
<1> QED BY <1>2, <1>3, <1>4, CallsOfGroups

\* and of the module controls, the passwords and the user EEPROM.
LEMMA ModulePrograms ==
  ASSUME NEW c \in CallsOf["module"], Valid(c), NEW p \in Programs(c)
  PROVE  IsProgram("module", p)
<1> DEFINE g == "module"
<1>1. /\ g \in DOMAIN GroupRegisters
      /\ {"ModuleControl", "ModuleMask", "PasswordEntry", "PasswordChange", "UserEeprom"}
            \subseteq GroupRegisters[g]
  BY DEF GroupRegisters
<1>2. /\ Fields("ModuleControl") = {"reset", "broadcast", "squelch"}
      /\ FieldValues("ModuleControl") = 0 .. 1
  BY OtherLayout
<1>3. {"PasswordEntry", "PasswordChange"} \subseteq WordRegisters
  BY DEF WordRegisters
<1> HIDE DEF g
<1>4. ASSUME NEW r \in {"PasswordEntry", "PasswordChange"}, NEW pw \in Passwords
      PROVE  IsProgram(g, <<Write(r, WordOf(pw))>>)
  <2>1. pw \in Nat /\ pw < 65536
    BY ArgumentsAssumption DEF ArgumentsAssumption
  <2> QED BY <1>1, <1>3, <2>1, WordProgram
<1>5. CASE c \in MaskCalls({"ModuleMask"})
  <2>1. c.op = "mask" /\ c.reg = "ModuleMask" /\ c.fields \in LaneMasks /\ c.on \in {0, 1}
    BY <1>5, MaskParts
  <2>2. p = SetMask(c.reg, c.fields, c.on)
    BY <2>1 DEF Programs
  <2>3. c.reg \in LaneRegisters /\ c.reg # "AdaptiveInputEqEnableTx" /\ c.reg \in GroupRegisters[g]
    BY <1>1, <2>1 DEF LaneRegisters
  <2> QED BY <1>1, <2>1, <2>2, <2>3, LaneMaskProgram DEF g
<1>6. CASE c \in FlagCalls("ModuleControl", {"broadcast", "squelch"})
  <2>1. /\ c.op = "mask" /\ c.reg = "ModuleControl" /\ c.on \in {0, 1}
        /\ \E f \in {"broadcast", "squelch"} : c.fields = {f}
    BY <1>6, FlagParts
  <2>2. PICK f \in {"broadcast", "squelch"} : c.fields = {f}
    BY <2>1
  <2>3. p = SetMask("ModuleControl", {f}, c.on)
    BY <2>1, <2>2 DEF Programs
  <2>4. f \in Fields("ModuleControl")
    BY <1>2
  <2>5. IsProgram(g, SetMask("ModuleControl", {f}, c.on))
    BY <1>1, <1>2, <2>1, <2>4, FlagProgram
  <2> QED BY <2>3, <2>5 DEF g
<1>7. CASE c = [op |-> "sw_reset"]
  <2>1. p = Rmw("ModuleControl", All({"reset"}, 1))
    BY <1>7 DEF Programs, cmis_module_sw_reset
  <2>2. {"reset"} \in SUBSET Fields("ModuleControl") /\ 1 \in FieldValues("ModuleControl")
    BY <1>2
  <2>3. IsProgram(g, p)
    BY <1>1, <2>1, <2>2, RmwProgram
  <2> QED BY <2>3 DEF g
<1>8. CASE c \in [op : {"password_entry"}, pw : Passwords]
  <2>1. p = <<Write("PasswordEntry", WordOf(c.pw))>> /\ c.pw \in Passwords
    BY <1>8 DEF Programs, cmis_module_password_entry
  <2> QED BY <1>4, <2>1 DEF g
<1>9. CASE c \in [op : {"password_change"}, current : Passwords, new : Passwords]
  <2>1. /\ p = <<Write("PasswordEntry", WordOf(c.current))>>
                  \o <<Write("PasswordChange", WordOf(c.new))>>
        /\ c.current \in Passwords /\ c.new \in Passwords
    BY <1>9 DEF Programs, cmis_module_password_entry, cmis_module_password_change
  <2>2. /\ IsProgram(g, <<Write("PasswordEntry", WordOf(c.current))>>)
        /\ IsProgram(g, <<Write("PasswordChange", WordOf(c.new))>>)
    BY <1>4, <2>1
  <2> QED BY <2>1, <2>2, ProgramConcat DEF g
<1>10. CASE c \in [op : {"eeprom_write"}, offset : -1 .. UserSize, data : Texts]
  <2> DEFINE r == "UserEeprom"
             F == c.offset .. c.offset + Len(c.data) - 1
             v == [f \in F |-> c.data[f - c.offset + 1]]
  <2>1. c.op = "eeprom_write" /\ c.offset \in Int /\ c.data \in Texts
    BY <1>10 DEF UserSize
  <2>2. p = <<Write(r, v)>>
    BY <2>1 DEF Programs, cmis_user_eeprom_write
  <2>3. c.data \in Seq(0 .. 255)
    BY <2>1, ArgumentsAssumption DEF ArgumentsAssumption
  <2>4. c.offset >= 0 /\ c.offset + Len(c.data) <= UserSize
    BY <2>1 DEF Valid
  <2>5. /\ Bytes(r) = [b \in 1 .. UserSize |-> {b - 1}] /\ Fields(r) = 0 .. UserSize - 1
        /\ FieldValues(r) = 0 .. 255
    BY AreaLayout DEF Areas
  <2>6. F \in SUBSET Fields(r)
    BY <2>1, <2>3, <2>4, <2>5 DEF UserSize
  <2>7. v \in [F -> FieldValues(r)]
    <3>1. ASSUME NEW f \in F PROVE c.data[f - c.offset + 1] \in 0 .. 255
      <4>1. f - c.offset + 1 \in 1 .. Len(c.data)
        BY <2>1, <2>3
      <4> QED BY <2>3, <4>1, ElementOfSeq
    <3> QED BY <2>5, <3>1
  <2>8. UserSize \in Nat /\ r \in GroupRegisters[g]
    BY <1>1 DEF UserSize
  <2> HIDE DEF r, F, v
  <2>9. IsProgram(g, <<Write(r, v)>>)
    BY <1>1, <2>5, <2>6, <2>7, <2>8, FramedBytes DEF IsProgram
  <2> QED BY <2>2, <2>9 DEF g
<1>11. CASE c \in [op : {"eeprom_read"}, offset : {-1, 0, UserSize}, len : {0, 1, UserSize}]
  <2>1. p = <<Read("UserEeprom")>>
    BY <1>11 DEF Programs
  <2> QED BY <1>1, <2>1, ReadProgram DEF g
<1> QED BY <1>5, <1>6, <1>7, <1>8, <1>9, <1>10, <1>11, CallsOfGroups

\* A threshold in hundredths is a whole number.
LEMMA HundredthsAreWhole ==
  ASSUME NEW v \in Int, NEW h \in Hundredths(v)
  PROVE  h \in Int
<1>1. Abs(v) \in Nat
  BY DEF Abs
<1>2. Abs(v) \div 10 \in Int
  BY <1>1
<1> DEFINE m == Abs(v) \div 10
           k == Abs(v)
<1>3. \E sign \in {-1, 1} : h = sign * m \/ h = sign * (m - 1)
  BY DEF Hundredths
<1> HIDE DEF m
<1> QED BY <1>2, <1>3 DEF m

\* The programs of the thresholds of the powers, which wrap to 16 bits.
LEMMA PowerPrograms ==
  ASSUME NEW c \in CallsOf["power"], Valid(c), NEW p \in Programs(c)
  PROVE  IsProgram("power", p)
<1> DEFINE g == "power"
<1>1. /\ c.op = "threshold" /\ c.reg \in thresh_descs.s16 /\ c.value \in Int
      /\ c.reg \notin thresh_descs.f16
  BY CallsOfGroups, ArgumentsAssumption
     DEF ArgumentsAssumption, Valid, Words, thresh_descs, host_thresh_descs
<1>2. PICK h \in Hundredths(c.value) : p = <<Write(c.reg, WordOf(h % 65536))>>
  BY <1>1 DEF Programs, cmis_coherent_set_threshold
<1>3. h % 65536 \in Nat /\ h % 65536 < 65536
  <2>1. h \in Int
    BY <1>1, HundredthsAreWhole
  <2> QED BY <2>1
<1>4. /\ g \in DOMAIN GroupRegisters /\ c.reg \in GroupRegisters[g] /\ c.reg \in WordRegisters
  BY <1>1 DEF GroupRegisters, WordRegisters, Words
<1> HIDE DEF g
<1>5. IsProgram(g, p)
  <2> DEFINE w == h % 65536
  <2>1. w \in Nat /\ w < 65536 /\ p = <<Write(c.reg, WordOf(w))>>
    BY <1>2, <1>3
  <2> HIDE DEF w
  <2> QED BY <1>4, <2>1, WordProgram
<1> QED BY <1>5 DEF g

-----------------------------------------------------------------------------
\* Half precision

\* The distances of two numbers in half precision, in units of 2^-30.
Units == {64, 128, 256, 512, 1024, 2048, 4096, 8192, 16384, 32768, 65536, 131072, 262144,
          524288, 1048576}

\* A power of two, under a name: the provers compute one of a number they know.
Two(n) == 2^n

\* The powers of two, as the provers need them: one by one.
LEMMA PowersOfTwo ==
  ASSUME NEW n \in 16 .. 30
  PROVE  /\ Two(n - 10) \in Units /\ Two(n) = 1024 * Two(n - 10)
         /\ Two(n + 1) = 2048 * Two(n - 10) /\ Two(n - 10) = 2 * Two(n - 11)
         /\ Two(n - 11) \in Int
<1>1. CASE n = 16
  BY <1>1, SMT DEF Units, Two
<1>2. CASE n = 17
  BY <1>2, SMT DEF Units, Two
<1>3. CASE n = 18
  BY <1>3, SMT DEF Units, Two
<1>4. CASE n = 19
  BY <1>4, SMT DEF Units, Two
<1>5. CASE n = 20
  BY <1>5, SMT DEF Units, Two
<1>6. CASE n = 21
  BY <1>6, SMT DEF Units, Two
<1>7. CASE n = 22
  BY <1>7, SMT DEF Units, Two
<1>8. CASE n = 23
  BY <1>8, SMT DEF Units, Two
<1>9. CASE n = 24
  BY <1>9, SMT DEF Units, Two
<1>10. CASE n = 25
  BY <1>10, SMT DEF Units, Two
<1>11. CASE n = 26
  BY <1>11, SMT DEF Units, Two
<1>12. CASE n = 27
  BY <1>12, SMT DEF Units, Two
<1>13. CASE n = 28
  BY <1>13, SMT DEF Units, Two
<1>14. CASE n = 29
  BY <1>14, SMT DEF Units, Two
<1>15. CASE n = 30
  BY <1>15, SMT DEF Units, Two
<1> QED
  BY <1>1, <1>2, <1>3, <1>4, <1>5, <1>6, <1>7, <1>8, <1>9, <1>10, <1>11, <1>12, <1>13, <1>14, <1>15, SMT

\* The powers of two of the subnormal numbers.
LEMMA SmallPowersOfTwo ==
  ASSUME NEW n \in 6 .. 15
  PROVE  2^(n - 6) \in Nat /\ 2^(n - 6) <= 512
<1>1. CASE n = 6
  BY <1>1, SMT
<1>2. CASE n = 7
  BY <1>2, SMT
<1>3. CASE n = 8
  BY <1>3, SMT
<1>4. CASE n = 9
  BY <1>4, SMT
<1>5. CASE n = 10
  BY <1>5, SMT
<1>6. CASE n = 11
  BY <1>6, SMT
<1>7. CASE n = 12
  BY <1>7, SMT
<1>8. CASE n = 13
  BY <1>8, SMT
<1>9. CASE n = 14
  BY <1>9, SMT
<1>10. CASE n = 15
  BY <1>10, SMT
<1> QED
  BY <1>1, <1>2, <1>3, <1>4, <1>5, <1>6, <1>7, <1>8, <1>9, <1>10, SMT

\* The exponent of a number is the one that fits.
LEMMA Log2Fits ==
  ASSUME NEW k \in Nat, k > 0
  PROVE  /\ Log2(k) \in 0 .. 30 /\ 2^Log2(k) <= k
         /\ Log2(k) = 30 \/ k < 2^(Log2(k) + 1)
<1> DEFINE S == 0 .. 30
           P(n) == 2^n <= k /\ (n = 30 \/ k < 2^(n + 1))
<1>1. \E n \in S : P(n)
  BY SMT
<1>2. Log2(k) = CHOOSE n \in S : P(n)
  BY SMT DEF Log2
<1>3. Log2(k) \in S /\ P(Log2(k))
  <2> HIDE DEF S, P
  <2> QED BY <1>1, <1>2, Zenon
<1> QED BY <1>3, SMT

\* The rounded mantissa has at most eleven bits, and then it is a carry.
LEMMA Mantissa ==
  ASSUME NEW u \in Units, NEW h \in Int, u = 2 * h, NEW k \in Nat, 1024 * u <= k, k < 2048 * u
  PROVE  (k - 1024 * u + h) \div u \in 0 .. 1024
  BY SMT DEF Units

\* The bits of half precision fit a register of two bytes.
LEMMA F16Range ==
  ASSUME NEW k \in Nat, k <= 2^30
  PROVE  double_to_f16(k) \in Nat /\ double_to_f16(k) < 65536
<1> DEFINE n == Log2(k)
           low == 2^(n - 6)
           subnormal == IF (k + 32) \div 64 > low THEN low ELSE (k + 32) \div 64
           mant == (k - 2^n + 2^(n - 11)) \div 2^(n - 10)
<1>1. CASE k = 0
  BY <1>1, SMT DEF double_to_f16
<1>2. CASE k > 0
  <2>1. /\ n \in 0 .. 30 /\ 2^n <= k /\ (n = 30 \/ k < 2^(n + 1))
    BY <1>2, Log2Fits, SMT
  <2>2. double_to_f16(k) =
          CASE n < 6 -> 0
            [] n \in 6 .. 15 -> subnormal
            [] OTHER -> IF mant >= 1024 THEN (n - 14) * 1024 ELSE (n - 15) * 1024 + mant
    BY <1>2, SMT DEF double_to_f16
  <2>3. CASE n < 6
    BY <2>2, <2>3, SMT
  <2>4. CASE n \in 6 .. 15
    <3>1. low \in Nat /\ low <= 512
      BY <2>4, SmallPowersOfTwo, Zenon
    <3>2. (k + 32) \div 64 \in Nat
      BY SMT
    <3>3. subnormal \in Nat /\ subnormal <= 512
      BY <3>1, <3>2, SMT
    <3>4. double_to_f16(k) = subnormal
      BY <2>2, <2>4, SMT
    <3> QED BY <3>3, <3>4, SMT
  <2>5. CASE n \in 16 .. 30
    <3>1. mant \in 0 .. 1024
      <4> DEFINE u == Two(n - 10)
                 h == Two(n - 11)
      <4>1. /\ mant = (k - Two(n) + h) \div u /\ Two(n) <= k
            /\ n = 30 \/ k < Two(n + 1)
            /\ k <= Two(30) /\ Two(30) = 1073741824
        BY <2>1, SMT DEF Two
      <4>2. /\ u \in Units /\ Two(n) = 1024 * u /\ Two(n + 1) = 2048 * u
            /\ u = 2 * h /\ h \in Int
        <5> HIDE DEF n
        <5> QED BY <2>5, PowersOfTwo, SMT
      <4>3. k < 2048 * u
        <5> HIDE DEF n
        <5> QED BY <4>1, <4>2, SMT DEF Units
      <4>4. (k - 1024 * u + h) \div u \in 0 .. 1024
        <5> HIDE DEF u, h, n
        <5> QED BY <4>1, <4>2, <4>3, Mantissa, SMT
      <4> HIDE DEF u, h, n, mant
      <4> QED BY <4>1, <4>2, <4>4, SMT
    <3>2. double_to_f16(k) = IF mant >= 1024 THEN (n - 14) * 1024 ELSE (n - 15) * 1024 + mant
      BY <2>2, <2>5, SMT
    <3> HIDE DEF n, mant
    <3> QED BY <2>5, <3>1, <3>2, SMT
  <2> QED BY <2>1, <2>3, <2>4, <2>5, SMT
<1> QED BY <1>1, <1>2, SMT

\* The programs of the thresholds of the bit error rates, in half precision.
LEMMA BerPrograms ==
  ASSUME NEW c \in CallsOf["ber"], Valid(c), NEW p \in Programs(c)
  PROVE  IsProgram("ber", p)
<1> DEFINE g == "ber"
           w == double_to_f16(c.value)
<1>1. c.value \in BitErrors
  BY CallsOfGroups
<1>2. w \in Nat /\ w < 65536
  BY <1>1, BitErrorsAssumption, F16Range DEF BitErrorsAssumption
<1>3. \/ c.op = "threshold" /\ c.reg \in thresh_descs.f16
      \/ c.op = "host_threshold" /\ c.reg \in host_thresh_descs
  BY CallsOfGroups DEF Valid, Words, thresh_descs, host_thresh_descs
<1>4. /\ g \in DOMAIN GroupRegisters /\ c.reg \in GroupRegisters[g] /\ c.reg \in WordRegisters
  BY <1>3 DEF GroupRegisters, WordRegisters, Words
<1>5. p = <<Write(c.reg, WordOf(w))>>
  BY <1>3 DEF Programs, cmis_coherent_set_threshold, cmis_coherent_set_host_threshold
<1> HIDE DEF g, w
<1>6. IsProgram(g, p)
  BY <1>2, <1>4, <1>5, WordProgram
<1> QED BY <1>6 DEF g

-----------------------------------------------------------------------------
\* Tests with patterns

SelectWrite(b, pattern, lanes) == WriteAll(Select[b], All({NibbleAt(l) : l \in lanes}, pattern))
EnableWrite(b, lanes) == Write(Enable[b], [l \in Lanes |-> IF l \in lanes THEN 1 ELSE 0])

\* The generators and checkers have their own registers in the group.
LEMMA BlockRegisters ==
  /\ "bert" \in DOMAIN GroupRegisters /\ "MeasControl" \in GroupRegisters["bert"]
  /\ \A b \in Blocks :
       /\ Select[b] \in GroupRegisters["bert"] \cap Nibbles
       /\ Enable[b] \in GroupRegisters["bert"] \cap LaneRegisters
  BY DEF GroupRegisters, Nibbles, LaneRegisters

\* The selection of a pattern is written after it is read, with all bytes of its register.
LEMMA SelectTransfer ==
  ASSUME NEW b \in Blocks, NEW pattern \in Patterns, NEW lanes \in SUBSET Lanes
  PROVE  /\ SelectWrite(b, pattern, lanes) \in Transfers("bert")
         /\ Covers(SelectWrite(b, pattern, lanes))
         /\ SelectWrite(b, pattern, lanes).do = "write"
         /\ SelectWrite(b, pattern, lanes).reg = Select[b]
         /\ SelectWrite(b, pattern, lanes).val = [l \in lanes |-> pattern]
<1>1. {NibbleAt(l) : l \in lanes} = lanes
  BY NibbleIsLane
<1> DEFINE v == [l \in lanes |-> pattern]
<1>2. All({NibbleAt(l) : l \in lanes}, pattern) = v
  BY <1>1 DEF All
<1>3. Fields(Select[b]) = Lanes /\ FieldValues(Select[b]) = 0 .. 15
  BY BlockRegisters, NibbleLayout
<1>4. lanes \in SUBSET Fields(Select[b]) /\ v \in [lanes -> FieldValues(Select[b])]
  BY <1>3, PatternsAssumption DEF PatternsAssumption
<1>5. SelectWrite(b, pattern, lanes) = WriteAll(Select[b], v)
  BY <1>2 DEF SelectWrite
<1> HIDE DEF v
<1> QED BY <1>4, <1>5, BlockRegisters, WriteAllTransfer DEF v

\* The enables of a block are overwritten whole.
LEMMA EnableTransfer ==
  ASSUME NEW b \in Blocks, NEW lanes
  PROVE  /\ IsProgram("bert", PutLanes(Enable[b], lanes))
         /\ PutLanes(Enable[b], lanes) = <<EnableWrite(b, lanes)>>
         /\ EnableWrite(b, lanes) \in Transfers("bert")
         /\ EnableWrite(b, lanes).do = "write" /\ EnableWrite(b, lanes).reg = Enable[b]
         /\ EnableWrite(b, lanes).val = [l \in Lanes |-> IF l \in lanes THEN 1 ELSE 0]
<1> DEFINE v == [l \in Lanes |-> IF l \in lanes THEN 1 ELSE 0]
<1>1. Fields(Enable[b]) = Lanes /\ FieldValues(Enable[b]) = 0 .. 1
  BY BlockRegisters, LaneLayout
<1>2. v \in [Lanes -> FieldValues(Enable[b])]
  BY <1>1
<1>3. EnableWrite(b, lanes) = Write(Enable[b], v) /\ PutLanes(Enable[b], lanes) = <<Write(Enable[b], v)>>
  BY DEF EnableWrite, PutLanes
<1>4. IsProgram("bert", PutLanes(Enable[b], lanes))
  BY BlockRegisters, LanesProgram
<1> HIDE DEF v
<1> QED BY <1>1, <1>2, <1>3, <1>4, BlockRegisters, WriteTransfer DEF v

Fragment(g, p) == p \in Seq(Transfers(g)) /\ Framed(p)

\* The parts of the blocks, one after the other.
LEMMA InOrderFragment ==
  ASSUME NEW g, NEW blocks, NEW part, \A b \in Blocks : Fragment(g, part[b])
  PROVE  Fragment(g, InOrder(blocks, part))
<1>1. Fragment(g, <<>>)
  BY DEF Fragment, Framed
<1> DEFINE of(b) == IF b \in blocks THEN part[b] ELSE <<>>
<1>2. InOrder(blocks, part) = of("host_gen") \o (of("media_chk") \o (of("host_chk") \o of("media_gen")))
  BY DEF InOrder, BlockOrder
<1>3. \A b \in Blocks : Fragment(g, of(b))
  BY <1>1
<1> HIDE DEF of
<1>4. ASSUME NEW p, NEW q, Fragment(g, p), Fragment(g, q) PROVE Fragment(g, p \o q)
  BY <1>4, FramedConcat DEF Fragment
<1>5. Fragment(g, of("host_chk") \o of("media_gen"))
  BY <1>3, <1>4 DEF Blocks
<1>6. Fragment(g, of("media_chk") \o (of("host_chk") \o of("media_gen")))
  BY <1>3, <1>4, <1>5 DEF Blocks
<1>7. Fragment(g, of("host_gen") \o (of("media_chk") \o (of("host_chk") \o of("media_gen"))))
  BY <1>3, <1>4, <1>6 DEF Blocks
<1> QED BY <1>2, <1>7

\* The measurement is started and stopped by a write of both flags.
LEMMA MeasProgram ==
  ASSUME NEW on \in {0, 1}
  PROVE  IsProgram("bert", <<Write("MeasControl", All({"start", "reset"}, on))>>)
<1>1. /\ Fields("MeasControl") = {"start", "reset"} /\ FieldValues("MeasControl") = 0 .. 1
  BY OtherLayout
<1>2. All({"start", "reset"}, on) \in [Fields("MeasControl") -> FieldValues("MeasControl")]
  BY <1>1 DEF All
<1> QED BY <1>2, BlockRegisters, PutProgram

\* The selection of a pattern is a program.
LEMMA SelectProgram ==
  ASSUME NEW b \in Blocks, NEW pattern \in Patterns, NEW lanes \in SUBSET Lanes
  PROVE  /\ diag_write_pattern_select(b, pattern, lanes) =
              <<Read(Select[b]), SelectWrite(b, pattern, lanes)>>
         /\ IsProgram("bert", diag_write_pattern_select(b, pattern, lanes))
<1> DEFINE R == Read(Select[b])
           W == SelectWrite(b, pattern, lanes)
<1>1. diag_write_pattern_select(b, pattern, lanes) = <<R, W>>
  BY DEF diag_write_pattern_select, SelectWrite
<1>2. /\ R \in Transfers("bert") /\ R.do = "read" /\ R.reg = Select[b]
  BY BlockRegisters, ReadTransfer
<1>3. /\ W \in Transfers("bert") /\ Covers(W) /\ W.do = "write" /\ W.reg = Select[b]
  <2>1. /\ SelectWrite(b, pattern, lanes) \in Transfers("bert")
        /\ Covers(SelectWrite(b, pattern, lanes))
        /\ SelectWrite(b, pattern, lanes).do = "write"
        /\ SelectWrite(b, pattern, lanes).reg = Select[b]
        /\ SelectWrite(b, pattern, lanes).val = [l \in lanes |-> pattern]
    BY SelectTransfer
  <2> QED BY <2>1
<1>4. IsProgram("bert", <<R, W>>)
  <2> HIDE DEF R, W
  <2> QED BY <1>2, <1>3 DEF IsProgram, Framed
<1> QED BY <1>1, <1>4

\* The programs of the bit error tests.
LEMMA BertPrograms ==
  ASSUME NEW c \in CallsOf["bert"], NEW p \in Programs(c)
  PROVE  IsProgram("bert", p)
<1>1. CASE c \in [op : {"bert_start"}, blocks : BertBlocks, pattern : Patterns, lanes : LaneMasks]
  <2> DEFINE checks == [b \in Blocks |-> diag_validate_pattern(b, c.pattern)]
             parts == [b \in Blocks |-> diag_write_pattern_select(b, c.pattern, c.lanes)
                                         \o PutLanes(Enable[b], c.lanes)]
             meas == <<Write("MeasControl", All({"start", "reset"}, 1))>>
  <2>1. c.op = "bert_start" /\ c.pattern \in Patterns /\ c.lanes \in SUBSET Lanes
    BY <1>1, LaneMasksAssumption DEF LaneMasksAssumption, Lanes
  <2>2. p = InOrder(c.blocks, checks) \o InOrder(c.blocks, parts) \o meas
    BY <2>1 DEF Programs, cmis_diag_bert_start
  <2>3. ASSUME NEW b \in Blocks PROVE Fragment("bert", checks[b])
    BY <2>1, BlockRegisters, CheckProgram DEF diag_validate_pattern, IsProgram, Fragment
  <2>4. ASSUME NEW b \in Blocks PROVE Fragment("bert", parts[b])
    <3>1. IsProgram("bert", diag_write_pattern_select(b, c.pattern, c.lanes)
                              \o PutLanes(Enable[b], c.lanes))
      BY <2>1, SelectProgram, EnableTransfer, ProgramConcat
    <3> QED BY <3>1 DEF IsProgram, Fragment
  <2>5. IsProgram("bert", meas)
    BY MeasProgram
  <2> HIDE DEF checks, parts, meas
  <2>6. Fragment("bert", InOrder(c.blocks, checks)) /\ Fragment("bert", InOrder(c.blocks, parts))
    BY <2>3, <2>4, InOrderFragment
  <2> DEFINE q == InOrder(c.blocks, checks) \o InOrder(c.blocks, parts)
  <2>7. Fragment("bert", q)
    BY <2>6, FramedConcat DEF Fragment
  <2> HIDE DEF q
  <2>8. q \o meas \in Seq(Transfers("bert")) /\ Framed(q \o meas)
    BY <2>5, <2>7, FramedConcat DEF Fragment, IsProgram
  <2>9. q \o meas # <<>>
    BY <2>5, <2>7, ConcatEmptySeq DEF Fragment, IsProgram
  <2> QED BY <2>2, <2>8, <2>9 DEF q, IsProgram
<1>2. CASE c = [op |-> "bert_stop"]
  <2>1. p = <<Write("MeasControl", All({"start", "reset"}, 0))>>
              \o PutLanes(Enable["host_gen"], {}) \o PutLanes(Enable["media_gen"], {})
              \o PutLanes(Enable["host_chk"], {}) \o PutLanes(Enable["media_chk"], {})
    BY <1>2 DEF Programs, cmis_diag_bert_stop
  <2>2. \A b \in Blocks : IsProgram("bert", PutLanes(Enable[b], {}))
    BY EnableTransfer
  <2>3. IsProgram("bert", <<Write("MeasControl", All({"start", "reset"}, 0))>>)
    BY MeasProgram
  <2>4. /\ IsProgram("bert", PutLanes(Enable["host_gen"], {}))
        /\ IsProgram("bert", PutLanes(Enable["media_gen"], {}))
        /\ IsProgram("bert", PutLanes(Enable["host_chk"], {}))
        /\ IsProgram("bert", PutLanes(Enable["media_chk"], {}))
    BY <2>2 DEF Blocks
  <2> QED BY <2>1, <2>3, <2>4, ProgramConcat
<1> QED BY <1>1, <1>2, CallsOfGroups

\* The program of every call, in every group.
LEMMA ProgramsAreFramed ==
  ASSUME NEW g \in DOMAIN GroupRegisters, NEW c \in CallsOf[g], Valid(c), NEW p \in Programs(c)
  PROVE  IsProgram(g, p)
<1>1. g \in {"direct", "staged", "network", "tuning", "switch", "module", "coherent", "filter",
             "power", "ber", "bert", "loopback", "diag"}
  BY DEF GroupRegisters
<1> QED BY <1>1, DirectPrograms, StagedPrograms, NetworkPrograms, TuningPrograms, SwitchPrograms,
           ModulePrograms, CoherentPrograms, FilterPrograms, PowerPrograms, BerPrograms,
           BertPrograms, LoopbackPrograms, DiagPrograms

-----------------------------------------------------------------------------
\* What a write stores, whole or cut

\* Once n bytes are stored a field that the operation does not change is what it
\* was, another is that or what the operation makes of it; in the end it is that.
LEMMA StoredFields ==
  ASSUME NEW g \in DOMAIN GroupRegisters, NEW w \in Transfers(g), w.do = "write", Covers(w),
         Complete(w) \/ buf = reg[w.reg], w.reg \in DOMAIN reg,
         NEW n \in 0 .. Cardinality(w.span)
  PROVE  /\ DOMAIN Stored(w, n) = DOMAIN reg
         /\ \A r \in DOMAIN reg : r # w.reg => Stored(w, n)[r] = reg[r]
         /\ Stored(w, n)[w.reg] = [f \in Fields(w.reg) |-> Stored(w, n)[w.reg][f]]
         /\ \A f \in Fields(w.reg) :
              \/ Stored(w, n)[w.reg][f] = reg[w.reg][f]
              \/ f \in DOMAIN w.val /\ Stored(w, n)[w.reg][f] = w.val[f]
         /\ n = Cardinality(w.span) =>
              \A f \in DOMAIN w.val : Stored(w, n)[w.reg][f] = w.val[f]
<1> DEFINE done == {b \in w.span : Cardinality({x \in w.span : x < b}) < n}
           new == [f \in Fields(w.reg) |->
                     IF BytesOf(w.reg, {f}) \subseteq done
                     THEN IF f \in DOMAIN w.val THEN w.val[f] ELSE buf[f]
                     ELSE reg[w.reg][f]]
<1>1. Stored(w, n) = [reg EXCEPT ![w.reg] = new]
  BY DEF Stored
<1>2. Stored(w, n)[w.reg] = new
  BY <1>1
<1>3. DOMAIN w.val \subseteq Fields(w.reg)
  BY TransferParts
<1>4. ASSUME NEW f \in Fields(w.reg), f \notin DOMAIN w.val PROVE new[f] = reg[w.reg][f]
  <2>1. CASE BytesOf(w.reg, {f}) \subseteq done
    <3>1. BytesOf(w.reg, {f}) \subseteq w.span
      BY <2>1
    <3>2. ~Complete(w)
      BY <1>4, <3>1 DEF Complete
    <3>3. buf = reg[w.reg]
      BY <3>2
    <3> QED BY <1>4, <2>1, <3>3
  <2>2. CASE ~(BytesOf(w.reg, {f}) \subseteq done)
    BY <2>2
  <2> QED BY <2>1, <2>2
<1>5. ASSUME NEW f \in DOMAIN w.val PROVE new[f] \in {reg[w.reg][f], w.val[f]}
  <2> HIDE DEF done
  <2> QED BY <1>3
<1>6. ASSUME n = Cardinality(w.span), NEW f \in DOMAIN w.val PROVE new[f] = w.val[f]
  <2>1. IsFiniteSet(w.span)
    <3>1. w.span \in SUBSET DOMAIN Bytes(w.reg)
      BY TransferParts
    <3> QED BY <3>1, BytesAndZero, FS_Subset
  <2>2. ASSUME NEW b \in w.span PROVE b \in done
    <3> DEFINE less == {x \in w.span : x < b}
    <3>1. less \in SUBSET w.span /\ b \notin less
      <4>1. \A x \in w.span : x \in Int
        <5>1. w.span \subseteq DOMAIN Bytes(w.reg)
          BY TransferParts
        <5>2. DOMAIN Bytes(w.reg) \subseteq Int
          BY BytesAndZero
        <5> QED BY <5>1, <5>2
      <4> QED BY <4>1
    <3> HIDE DEF less
    <3>2. Cardinality(less) <= Cardinality(w.span) /\ Cardinality(less) # Cardinality(w.span)
      BY <2>1, <3>1, FS_Subset
    <3>3. Cardinality(less) \in Nat /\ Cardinality(w.span) \in Nat
      BY <2>1, <3>1, FS_Subset, FS_CardinalityType
    <3>4. Cardinality(less) < n
      BY <1>6, <3>2, <3>3
    <3> QED BY <3>4 DEF less
  <2>3. BytesOf(w.reg, {f}) \subseteq w.span
    BY DEF Covers
  <2>4. BytesOf(w.reg, {f}) \subseteq done
    BY <2>2, <2>3
  <2> QED BY <1>3, <2>4
<1> HIDE DEF new, done
<1>7. new = [f \in Fields(w.reg) |-> new[f]]
  BY DEF new
<1>8. DOMAIN Stored(w, n) = DOMAIN reg /\ \A r \in DOMAIN reg : r # w.reg => Stored(w, n)[r] = reg[r]
  BY <1>1
<1>9. \A f \in Fields(w.reg) :
        new[f] = reg[w.reg][f] \/ (f \in DOMAIN w.val /\ new[f] = w.val[f])
  BY <1>4, <1>5
<1>10. n = Cardinality(w.span) => \A f \in DOMAIN w.val : new[f] = w.val[f]
  BY <1>6
<1> QED BY <1>2, <1>7, <1>8, <1>9, <1>10

-----------------------------------------------------------------------------
\* Types

Typed(g, regs) ==
  /\ DOMAIN regs = GroupRegisters[g]
  /\ \A r \in DOMAIN regs : regs[r] \in [Fields(r) -> FieldValues(r)]

\* The inductive invariant: types, the staged registers, and what is left of the
\* program that runs.
RegistersInv ==
  /\ TypeOK
  /\ DOMAIN active = StagedRegisters
  /\ prog \in Seq(Transfers(group)) /\ Ready

\* Registers with some bytes of a write stored have the values of their types,
LEMMA StoredTyped ==
  ASSUME NEW g \in DOMAIN GroupRegisters, Typed(g, reg), NEW w \in Transfers(g), w.do = "write",
         Covers(w), Complete(w) \/ buf = reg[w.reg], NEW n \in 0 .. Cardinality(w.span)
  PROVE  Typed(g, Stored(w, n))
<1>1. /\ w.reg \in DOMAIN reg /\ \A f \in DOMAIN w.val : w.val[f] \in FieldValues(w.reg)
  BY TransferParts DEF Typed
<1> DEFINE regs == Stored(w, n)
<1>2. /\ DOMAIN regs = DOMAIN reg
      /\ \A r \in DOMAIN reg : r # w.reg => regs[r] = reg[r]
      /\ regs[w.reg] = [f \in Fields(w.reg) |-> regs[w.reg][f]]
      /\ \A f \in Fields(w.reg) :
           \/ regs[w.reg][f] = reg[w.reg][f]
           \/ f \in DOMAIN w.val /\ regs[w.reg][f] = w.val[f]
  BY <1>1, StoredFields
<1> HIDE DEF regs
<1>3. \A f \in Fields(w.reg) : regs[w.reg][f] \in FieldValues(w.reg)
  BY <1>1, <1>2 DEF Typed
<1>4. regs[w.reg] \in [Fields(w.reg) -> FieldValues(w.reg)]
  BY <1>2, <1>3
<1>5. Typed(g, regs)
  BY <1>1, <1>2, <1>4 DEF Typed
<1> QED BY <1>5 DEF regs

\* also after the module has obeyed the write,
LEMMA ObeyedTyped ==
  ASSUME NEW g \in DOMAIN GroupRegisters, NEW regs, Typed(g, regs), NEW r \in GroupRegisters[g]
  PROVE  Typed(g, Obeyed(r, regs))
<1>1. ASSUME NEW q PROVE [f \in Fields(q) |-> 0] \in [Fields(q) -> FieldValues(q)]
  BY BytesAndZero
<1>2. CASE r \in {"ApplyImmediate", "LaneSwitchCommit"}
  <2>1. Obeyed(r, regs) = [regs EXCEPT ![r] = [f \in Fields(r) |-> 0]]
    BY <1>2 DEF Obeyed
  <2> QED BY <1>1, <2>1 DEF Typed
<1>3. CASE r = "ModuleControl" /\ regs[r]["reset"] = 1
  <2>1. Obeyed(r, regs) = [q \in DOMAIN regs |->
            IF q \in {"UserEeprom", "Password"} THEN regs[q] ELSE [f \in Fields(q) |-> 0]]
    BY <1>3 DEF Obeyed
  <2> QED BY <1>1, <2>1 DEF Typed
<1>4. CASE r = "PasswordChange" /\ regs["PasswordEntry"] = regs["Password"]
  <2>1. Obeyed(r, regs) = [regs EXCEPT !["Password"] = regs[r]]
    BY <1>4 DEF Obeyed
  <2>2. /\ Fields("Password") = {"high", "low"} /\ FieldValues("Password") = 0 .. 255
        /\ Fields(r) = {"high", "low"} /\ FieldValues(r) = 0 .. 255
    BY <1>4, WordLayout DEF WordRegisters, Words
  <2>3. regs[r] \in [Fields("Password") -> FieldValues("Password")]
    BY <2>2 DEF Typed
  <2> QED BY <2>1, <2>3 DEF Typed
<1>5. CASE /\ r \notin {"ApplyImmediate", "LaneSwitchCommit"}
           /\ ~(r = "ModuleControl" /\ regs[r]["reset"] = 1)
           /\ ~(r = "PasswordChange" /\ regs["PasswordEntry"] = regs["Password"])
  <2>1. Obeyed(r, regs) = regs
    BY <1>5 DEF Obeyed
  <2> QED BY <2>1
<1> QED BY <1>2, <1>3, <1>4, <1>5

\* What may come into force, by group.
LEMMA StagedAre ==
  /\ group = "staged" => StagedRegisters = StagedBits \cup StagedTargets
  /\ group = "switch" => StagedRegisters = {"RedirectionOfLane"}
  /\ group \notin {"staged", "switch"} => StagedRegisters = {}
  /\ group \in DOMAIN GroupRegisters => StagedRegisters \subseteq GroupRegisters[group]
  /\ \A q \in StagedRegisters : Fields(q) = Lanes
<1>1. /\ group = "staged" => StagedRegisters = StagedBits \cup StagedTargets
      /\ group = "switch" => StagedRegisters = {"RedirectionOfLane"}
      /\ group \notin {"staged", "switch"} => StagedRegisters = {}
  BY DEF StagedRegisters
<1>2. group \in DOMAIN GroupRegisters => StagedRegisters \subseteq GroupRegisters[group]
  BY <1>1 DEF GroupRegisters
<1>3. \A q \in StagedBits : Fields(q) = Lanes
  BY LaneLayout DEF LaneRegisters
<1>4. \A q \in StagedTargets : Fields(q) = Lanes
  BY NibbleLayout DEF Nibbles
<1> QED BY <1>1, <1>2, <1>3, <1>4, OtherLayout

\* and so have the values that come into force.
LEMMA InForceTyped ==
  ASSUME NEW regs, NEW r \in GroupRegisters[group], group \in DOMAIN GroupRegisters,
         Typed(group, regs), DOMAIN active = StagedRegisters,
         \A q \in DOMAIN active : active[q] \in [Fields(q) -> FieldValues(q)]
  PROVE  /\ DOMAIN InForce(r, regs) = DOMAIN active
         /\ \A q \in DOMAIN active : InForce(r, regs)[q] \in [Fields(q) -> FieldValues(q)]
<1>1. \A q \in DOMAIN active :
        /\ regs[q] \in [Fields(q) -> FieldValues(q)] /\ Fields(q) = Lanes
  BY StagedAre DEF Typed
<1>2. CASE r = "ApplyImmediate"
  <2>1. InForce(r, regs) = [q \in DOMAIN active |->
            [l \in Lanes |-> IF regs[r][l] = 1 THEN regs[q][l] ELSE active[q][l]]]
    BY <1>2 DEF InForce
  <2> QED BY <1>1, <2>1
<1>3. CASE r = "LaneSwitchCommit"
  <2>1. InForce(r, regs) = [q \in DOMAIN active |-> regs[q]]
    BY <1>3 DEF InForce
  <2> QED BY <1>1, <2>1
<1>4. CASE r \notin {"ApplyImmediate", "LaneSwitchCommit"}
  BY <1>4 DEF InForce
<1> QED BY <1>2, <1>3, <1>4

\* The invariant holds initially.
LEMMA InitTyped ==
  ASSUME Init
  PROVE  RegistersInv
<1>1. group \in Groups /\ group \in DOMAIN GroupRegisters
  BY GroupsAssumption DEF GroupsAssumption, Init
<1>2. PICK v \in Fills :
        reg = [r \in GroupRegisters[group] |-> [f \in Fields(r) |->
                 IF r \in {"ApplyImmediate", "LaneSwitchCommit", "MeasControl"}
                           \cup {Enable[b] : b \in Blocks}
                    \/ (r = "ModuleControl" /\ f = "reset")
                 THEN 0 ELSE v]]
  BY DEF Init
<1>3. \A r : 0 \in FieldValues(r) /\ v \in FieldValues(r)
  <2>1. v \in {0, 1}
    BY FillsAssumption DEF FillsAssumption
  <2>2. \A r : {0, 1} \subseteq FieldValues(r)
    BY DEF FieldValues, Nibbles, StagedTargets, Select, Blocks, Words, thresh_descs,
           host_thresh_descs
  <2> QED BY <2>1, <2>2
<1>4. Typed(group, reg)
  BY <1>2, <1>3 DEF Typed
<1>5. /\ active = [r \in StagedRegisters |-> reg[r]] /\ prog = <<>> /\ ret = "ok" /\ calls = 0
  BY DEF Init
<1>6. \A r \in DOMAIN active : active[r] \in [Fields(r) -> FieldValues(r)]
  BY <1>1, <1>4, <1>5, StagedAre DEF Typed
<1>7. caps \in [Blocks -> SUBSET Patterns]
  BY DEF Init
<1>8. prog \in Seq(Transfers(group)) /\ Ready
  BY <1>5 DEF Ready
<1> QED BY <1>1, <1>4, <1>5, <1>6, <1>7, <1>8, MaxCallsAssumption
        DEF RegistersInv, TypeOK, Typed, MaxCallsAssumption

\* The transfer that is due, and what is left after it.
LEMMA HeadAndTail ==
  ASSUME NEW S, NEW p \in Seq(S), p # <<>>
  PROVE  /\ Head(p) = p[1] /\ Head(p) \in S /\ 1 \in DOMAIN p
         /\ Tail(p) \in Seq(S) /\ \A i \in DOMAIN Tail(p) : i + 1 \in DOMAIN p /\ Tail(p)[i] = p[i + 1]
<1>1. Tail(p) \in Seq(S) /\ Len(Tail(p)) = Len(p) - 1 /\ Head(p) \in S
      /\ \A i \in 1 .. Len(Tail(p)) : Tail(p)[i] = p[i + 1]
  BY HeadTailProperties
<1>2. Head(p) = p[1] /\ Len(p) \in Nat /\ Len(p) > 0
  BY EmptySeq, LenProperties
<1> QED BY <1>1, <1>2

\* What is left of a program stays ready: a read fills the buffer for the write
\* after it, and nothing comes between them.
LEMMA ReadyStep ==
  ASSUME RegistersInv, prog # <<>>,
         prog' = <<>> \/ prog' = Tail(prog),
         Head(prog).do = "read" /\ prog' # <<>> => buf' = reg[Head(prog).reg] /\ reg' = reg
  PROVE  Ready' /\ prog' \in Seq(Transfers(group))
<1>1. CASE prog' = <<>>
  BY <1>1 DEF Ready
<1>2. CASE prog' = Tail(prog) /\ prog' # <<>>
  <2>1. /\ Head(prog) = prog[1] /\ prog' \in Seq(Transfers(group)) /\ 1 \in DOMAIN prog
        /\ \A i \in DOMAIN prog' : i + 1 \in DOMAIN prog /\ prog'[i] = prog[i + 1]
    BY <1>2, HeadAndTail DEF RegistersInv
  <2>2. ASSUME NEW i \in DOMAIN prog', prog'[i].do = "write"
        PROVE  /\ Covers(prog'[i])
               /\ \/ Complete(prog'[i])
                  \/ i > 1 /\ prog'[i - 1].do = "read" /\ prog'[i - 1].reg = prog'[i].reg
                  \/ i = 1 /\ buf' = reg'[prog'[i].reg]
    <3>1. i \in Nat /\ i >= 1 /\ (i > 1 => i - 1 \in DOMAIN prog')
      BY <2>1
    <3>2. /\ Covers(prog[i + 1])
          /\ Complete(prog[i + 1]) \/ (prog[i].do = "read" /\ prog[i].reg = prog[i + 1].reg)
      <4>1. i + 1 \in DOMAIN prog /\ prog[i + 1].do = "write" /\ i + 1 # 1 /\ (i + 1) - 1 = i
        BY <2>1, <2>2, <3>1
      <4> QED BY <4>1 DEF RegistersInv, Ready
    <3>3. CASE i > 1
      <4>1. prog'[i - 1] = prog[i] /\ prog'[i] = prog[i + 1]
        BY <2>1, <3>1, <3>3
      <4> QED BY <3>2, <3>3, <4>1
    <3>4. CASE i = 1
      <4>1. Complete(prog'[i]) \/ (Head(prog).do = "read" /\ Head(prog).reg = prog'[i].reg)
        BY <2>1, <3>2, <3>4
      <4> QED BY <1>2, <2>1, <3>2, <3>4, <4>1
    <3> QED BY <3>1, <3>3, <3>4
  <2> QED BY <2>1, <2>2 DEF Ready
<1> QED BY <1>1, <1>2

\* A program that begins is ready.
LEMMA FramedIsReady ==
  ASSUME NEW g, IsProgram(g, prog')
  PROVE  Ready' /\ prog' \in Seq(Transfers(g)) /\ prog' # <<>>
  BY DEF IsProgram, Framed, Ready

\* Every step keeps the invariant.
LEMMA RegistersStep ==
  ASSUME RegistersInv, [Next]_vars
  PROVE  RegistersInv'
<1> USE DEF RegistersInv
<1>1. group \in DOMAIN GroupRegisters /\ Typed(group, reg)
  BY GroupsAssumption DEF GroupsAssumption, TypeOK, Typed
<1>2. ASSUME ret = "none"
      PROVE  prog # <<>> /\ Head(prog) \in Transfers(group) /\ Head(prog) = prog[1] /\ 1 \in DOMAIN prog
  BY <1>2, HeadAndTail DEF TypeOK
<1>3. CASE Call
  <2>1. /\ UNCHANGED <<group, reg, active, caps>> /\ calls' \in 0 .. MaxCalls
        /\ StagedRegisters' = StagedRegisters
    BY <1>3, MaxCallsAssumption DEF Call, TypeOK, MaxCallsAssumption, StagedRegisters
  <2>2. PICK c \in CallsOf[group] :
          \/ ~Valid(c) /\ prog' = <<>> /\ ret' = "invalid"
          \/ Valid(c) /\ prog' \in Programs(c) /\ ret' = "none"
    BY <1>3 DEF Call
  <2>3. CASE prog' = <<>> /\ ret' = "invalid"
    <3>1. Ready' /\ prog' \in Seq(Transfers(group))
      BY <2>3 DEF Ready
    <3> QED BY <2>1, <2>3, <3>1 DEF TypeOK
  <2>4. CASE Valid(c) /\ prog' \in Programs(c) /\ ret' = "none"
    <3>1. IsProgram(group, prog')
      BY <1>1, <2>4, ProgramsAreFramed
    <3>2. Ready' /\ prog' \in Seq(Transfers(group)) /\ prog' # <<>>
      BY <3>1, FramedIsReady
    <3> QED BY <2>1, <2>4, <3>2 DEF TypeOK
  <2> QED BY <2>2, <2>3, <2>4
<1>4. ASSUME ret = "none", Continue \/ Leave
      PROVE  /\ prog' = <<>> \/ prog' = Tail(prog)
             /\ ret' \in {"none", "ok", "failed", "invalid"} /\ (ret' = "none" <=> prog' # <<>>)
  BY <1>4 DEF Continue, Leave
<1>5. CASE ReadStep
  <2>1. ret = "none" /\ (Continue \/ Leave) /\ UNCHANGED <<group, reg, active, caps, call, calls>>
    BY <1>5 DEF ReadStep, Due
  <2>2. prog' # <<>> => buf' = reg[Head(prog).reg]
    BY <1>5 DEF ReadStep, Leave
  <2>3. Ready' /\ prog' \in Seq(Transfers(group))
    BY <1>2, <1>4, <2>1, <2>2, ReadyStep
  <2>4. StagedRegisters' = StagedRegisters
    BY <2>1 DEF StagedRegisters
  <2> QED BY <1>4, <2>1, <2>3, <2>4 DEF TypeOK
<1>6. CASE CheckStep
  <2>1. /\ ret = "none" /\ (Continue \/ Leave) /\ UNCHANGED <<group, reg, active, caps, buf, call, calls>>
        /\ Head(prog).do = "check"
    BY <1>6 DEF CheckStep, Due
  <2>2. Ready' /\ prog' \in Seq(Transfers(group))
    BY <1>2, <1>4, <2>1, ReadyStep
  <2>3. StagedRegisters' = StagedRegisters
    BY <2>1 DEF StagedRegisters
  <2> QED BY <1>4, <2>1, <2>2, <2>3 DEF TypeOK
<1>7. CASE WriteStep
  <2> DEFINE w == Head(prog)
  <2>1. ret = "none" /\ w.do = "write" /\ (Continue \/ Leave) /\ UNCHANGED <<group, caps, call, calls>>
    BY <1>7 DEF WriteStep, Due
  <2>2. PICK n \in 0 .. Cardinality(w.span) :
          /\ reg' = IF n = Cardinality(w.span) THEN Obeyed(w.reg, Stored(w, n)) ELSE Stored(w, n)
          /\ active' = IF n = Cardinality(w.span) THEN InForce(w.reg, Stored(w, n)) ELSE active
    BY <1>7 DEF WriteStep
  <2>3. /\ w \in Transfers(group) /\ Covers(w) /\ (Complete(w) \/ buf = reg[w.reg])
        /\ w.reg \in GroupRegisters[group]
    <3>1. w \in Transfers(group) /\ w = prog[1] /\ 1 \in DOMAIN prog
      BY <1>2, <2>1
    <3>2. w.reg \in GroupRegisters[group]
      BY <1>1, <2>1, <3>1, TransferParts
    <3> HIDE DEF w
    <3> QED BY <2>1, <3>1, <3>2 DEF Ready
  <2>4. Ready' /\ prog' \in Seq(Transfers(group))
    BY <1>2, <1>4, <2>1, ReadyStep
  <2> DEFINE regs == Stored(w, n)
  <2>5. Typed(group, regs)
    <3>1. n \in 0 .. Cardinality(w.span)
      BY <2>2
    <3>2. /\ group \in DOMAIN GroupRegisters /\ Typed(group, reg) /\ w \in Transfers(group)
          /\ w.do = "write" /\ Covers(w) /\ (Complete(w) \/ buf = reg[w.reg])
      BY <1>1, <2>1, <2>3
    <3> HIDE DEF w
    <3>3. Typed(group, Stored(w, n))
      BY <3>1, <3>2, StoredTyped
    <3> QED BY <3>3
  <2> HIDE DEF w, regs
  <2>6. Typed(group, Obeyed(w.reg, regs))
    BY <1>1, <2>3, <2>5, ObeyedTyped
  <2>7. Typed(group, reg')
    BY <2>2, <2>5, <2>6 DEF regs
  <2>8. /\ DOMAIN InForce(w.reg, regs) = DOMAIN active
        /\ \A q \in DOMAIN active : InForce(w.reg, regs)[q] \in [Fields(q) -> FieldValues(q)]
    BY <1>1, <2>3, <2>5, InForceTyped DEF TypeOK
  <2>9. /\ DOMAIN active' = DOMAIN active
        /\ \A q \in DOMAIN active' : active'[q] \in [Fields(q) -> FieldValues(q)]
    BY <2>2, <2>8 DEF regs, TypeOK
  <2>10. StagedRegisters' = StagedRegisters
    BY <2>1 DEF StagedRegisters
  <2> QED BY <1>4, <2>1, <2>4, <2>7, <2>9, <2>10 DEF TypeOK, Typed
<1>8. CASE UNCHANGED vars
  BY <1>8 DEF vars, TypeOK, Ready, StagedRegisters
<1> QED BY <1>3, <1>5, <1>6, <1>7, <1>8 DEF Next

\* The inductive invariant of the registers, in every group.
THEOREM RegistersInvariant == Spec => []RegistersInv
<1>1. Init => RegistersInv
  BY InitTyped
<1>2. RegistersInv /\ [Next]_vars => RegistersInv'
  BY RegistersStep
<1> QED BY <1>1, <1>2, PTL DEF Spec

\* Whatever is called, with whatever arguments and cut wherever, every field of
\* every register holds a value that it has room for.
THEOREM RegistersTypeCorrect == Spec => []TypeOK
BY RegistersInvariant, PTL DEF RegistersInv

-----------------------------------------------------------------------------
\* Patterns are selected before a block is enabled

\* The pattern of the test that runs is selected on all its lanes, and advertised.
Selected(b) ==
  /\ call.pattern \in caps[b]
  /\ \A l \in call.lanes : reg[Select[b]][l] = call.pattern

Checks(t, b, pattern) == t.do = "check" /\ t.reg = b /\ t.val = pattern
Selects(t, b) == t.do = "write" /\ t.reg = Select[b]

\* A write of the program p of the call c: a pattern is selected after it was
\* checked, unless that was before, and a block enabled after its pattern was
\* selected.
InSequence(c, checked, p, i, b) ==
  /\ p[i].reg = Select[b] =>
       /\ c.op = "bert_start" /\ p[i].val = [l \in c.lanes |-> c.pattern]
       /\ b \in checked \/ \E j \in 1 .. i - 1 : Checks(p[j], b, c.pattern)
  /\ p[i].reg = Enable[b] =>
       \/ \A l \in Lanes : p[i].val[l] = 0
       \/ /\ c.op = "bert_start" /\ p[i].val = [l \in Lanes |-> IF l \in c.lanes THEN 1 ELSE 0]
          /\ \E j \in 1 .. i - 1 : Selects(p[j], b)

BertOrder(c, checked, p) ==
  \A i \in DOMAIN p : p[i].do = "write" => \A b \in Blocks : InSequence(c, checked, p, i, b)

\* What is left of it: what is no longer before a write in the program is done.
LeftInSequence(i, b) ==
  /\ prog[i].reg = Select[b] =>
       /\ call.op = "bert_start" /\ prog[i].val = [l \in call.lanes |-> call.pattern]
       /\ call.pattern \in caps[b] \/ \E j \in 1 .. i - 1 : Checks(prog[j], b, call.pattern)
  /\ prog[i].reg = Enable[b] =>
       \/ \A l \in Lanes : prog[i].val[l] = 0
       \/ /\ call.op = "bert_start"
          /\ prog[i].val = [l \in Lanes |-> IF l \in call.lanes THEN 1 ELSE 0]
          /\ Selected(b) \/ \E j \in 1 .. i - 1 : Selects(prog[j], b)

BertLeft == \A i \in DOMAIN prog : prog[i].do = "write" => \A b \in Blocks : LeftInSequence(i, b)

\* The inductive invariant of the tests.
BertInv ==
  group = "bert" =>
    /\ call.op = "bert_start" => call.pattern \in Patterns /\ call.lanes \subseteq Lanes
    /\ BertLeft
    /\ PatternsSupported

\* The registers of the blocks are all different.
LEMMA BlocksApart ==
  /\ \A b \in Blocks, x \in Blocks :
       /\ Select[b] # Enable[x] /\ (Select[b] = Select[x] => b = x) /\ (Enable[b] = Enable[x] => b = x)
  /\ \A b \in Blocks : Select[b] # "MeasControl" /\ Enable[b] # "MeasControl"
  BY DEF Blocks, Select, Enable

\* A program in two parts keeps its order, when the blocks that the second part
\* takes as checked are checked in the first or before it.
LEMMA BertOrderConcat ==
  ASSUME NEW c, NEW S, NEW p \in Seq(S), NEW q \in Seq(S), NEW checked, NEW more,
         BertOrder(c, checked, p), BertOrder(c, more, q),
         \A b \in more : b \in checked \/ \E j \in DOMAIN p : Checks(p[j], b, c.pattern)
  PROVE  BertOrder(c, checked, p \o q)
<1> DEFINE r == p \o q
<1>1. /\ Len(r) = Len(p) + Len(q) /\ r \in Seq(S)
      /\ \A i \in 1 .. Len(p) + Len(q) : r[i] = IF i <= Len(p) THEN p[i] ELSE q[i - Len(p)]
  BY ConcatProperties
<1> HIDE DEF r
<1>2. /\ \A j \in DOMAIN p : j \in DOMAIN r /\ r[j] = p[j]
      /\ \A j \in DOMAIN q : j + Len(p) \in DOMAIN r /\ r[j + Len(p)] = q[j]
  BY <1>1
<1>3. ASSUME NEW i \in DOMAIN r, r[i].do = "write", NEW b \in Blocks
      PROVE  InSequence(c, checked, r, i, b)
  <2>1. CASE i <= Len(p)
    <3>1. i \in DOMAIN p /\ r[i] = p[i] /\ \A j \in 1 .. i - 1 : r[j] = p[j]
      BY <1>1, <2>1
    <3>2. InSequence(c, checked, p, i, b)
      BY <1>3, <3>1 DEF BertOrder
    <3> QED BY <3>1, <3>2 DEF InSequence
  <2>2. CASE i > Len(p)
    <3> DEFINE k == i - Len(p)
    <3>1. k \in DOMAIN q /\ r[i] = q[k] /\ k + Len(p) = i
      BY <1>1, <2>2
    <3>2. ASSUME NEW j \in 1 .. k - 1 PROVE j + Len(p) \in 1 .. i - 1 /\ r[j + Len(p)] = q[j]
      <4>1. j \in DOMAIN q /\ j + Len(p) \in 1 .. i - 1
        BY <1>1, <2>2
      <4> QED BY <1>2, <4>1
    <3>3. \A j \in DOMAIN p : j \in 1 .. i - 1
      BY <1>1, <2>2
    <3> HIDE DEF k
    <3>4. InSequence(c, more, q, k, b)
      BY <1>3, <3>1 DEF BertOrder
    <3>5. ASSUME \E j \in 1 .. k - 1 : Checks(q[j], b, c.pattern)
          PROVE  \E x \in 1 .. i - 1 : Checks(r[x], b, c.pattern)
      BY <3>2, <3>5
    <3>6. ASSUME \E j \in 1 .. k - 1 : Selects(q[j], b)
          PROVE  \E x \in 1 .. i - 1 : Selects(r[x], b)
      BY <3>2, <3>6
    <3>7. ASSUME b \in more
          PROVE  b \in checked \/ \E x \in 1 .. i - 1 : Checks(r[x], b, c.pattern)
      BY <1>2, <3>3, <3>7
    <3> QED BY <3>1, <3>4, <3>5, <3>6, <3>7 DEF InSequence
  <2> QED BY <1>1, <2>1, <2>2
<1> QED BY <1>3 DEF BertOrder, r

\* Two parts that may each come when the same blocks are checked.
LEMMA BertOrderBoth ==
  ASSUME NEW c, NEW S, NEW p \in Seq(S), NEW q \in Seq(S), NEW checked,
         BertOrder(c, checked, p), BertOrder(c, checked, q)
  PROVE  p \o q \in Seq(S) /\ BertOrder(c, checked, p \o q)
<1>1. p \o q \in Seq(S)
  BY ConcatProperties
<1>2. \A b \in checked : b \in checked \/ \E j \in DOMAIN p : Checks(p[j], b, c.pattern)
  OBVIOUS
<1> QED BY <1>1, <1>2, BertOrderConcat

\* The order of the parts of the blocks, one after the other.
LEMMA BertOrderInOrder ==
  ASSUME NEW c, NEW S, NEW blocks, NEW part, NEW checked,
         \A b \in Blocks : b \in blocks => part[b] \in Seq(S) /\ BertOrder(c, checked, part[b])
  PROVE  InOrder(blocks, part) \in Seq(S) /\ BertOrder(c, checked, InOrder(blocks, part))
<1> DEFINE of(b) == IF b \in blocks THEN part[b] ELSE <<>>
           Fits(p) == p \in Seq(S) /\ BertOrder(c, checked, p)
<1>1. InOrder(blocks, part) = of("host_gen") \o (of("media_chk") \o (of("host_chk") \o of("media_gen")))
  BY DEF InOrder, BlockOrder
<1>2. \A b \in Blocks : Fits(of(b))
  BY DEF BertOrder
<1>3. ASSUME NEW p, NEW q, Fits(p), Fits(q) PROVE Fits(p \o q)
  BY <1>3, BertOrderBoth
<1> HIDE DEF of, Fits
<1>4. Fits(of("host_gen") \o (of("media_chk") \o (of("host_chk") \o of("media_gen"))))
  BY <1>2, <1>3 DEF Blocks
<1> QED BY <1>1, <1>4 DEF Fits

\* Every block of a test is checked.
LEMMA AllChecked ==
  ASSUME NEW blocks \in SUBSET Blocks, NEW part, NEW S, NEW pattern,
         \A b \in Blocks : part[b] \in Seq(S) /\ part[b] = <<Advertised(b, pattern)>>
  PROVE  \A b \in blocks : \E j \in DOMAIN InOrder(blocks, part) :
           Checks(InOrder(blocks, part)[j], b, pattern)
<1> DEFINE of(b) == IF b \in blocks THEN part[b] ELSE <<>>
           Has(p, b) == \E j \in DOMAIN p : Checks(p[j], b, pattern)
<1>1. InOrder(blocks, part) = of("host_gen") \o (of("media_chk") \o (of("host_chk") \o of("media_gen")))
  BY DEF InOrder, BlockOrder
<1>2. \A b \in Blocks : of(b) \in Seq(S)
  OBVIOUS
<1>3. ASSUME NEW b \in blocks PROVE Has(of(b), b)
  <2>1. of(b) = <<Advertised(b, pattern)>>
    BY <1>3
  <2>2. Checks(Advertised(b, pattern), b, pattern)
    BY DEF Checks, Advertised
  <2> QED BY <2>1, <2>2
<1>4. ASSUME NEW p \in Seq(S), NEW q \in Seq(S)
      PROVE  p \o q \in Seq(S) /\ \A b : Has(p, b) \/ Has(q, b) => Has(p \o q, b)
  <2>1. /\ p \o q \in Seq(S) /\ Len(p \o q) = Len(p) + Len(q)
        /\ \A i \in 1 .. Len(p) + Len(q) : (p \o q)[i] = IF i <= Len(p) THEN p[i] ELSE q[i - Len(p)]
    BY ConcatProperties
  <2>2. /\ \A j \in DOMAIN p : j \in DOMAIN (p \o q) /\ (p \o q)[j] = p[j]
        /\ \A j \in DOMAIN q : j + Len(p) \in DOMAIN (p \o q) /\ (p \o q)[j + Len(p)] = q[j]
    BY <2>1
  <2> QED BY <2>1, <2>2
<1> HIDE DEF of, Has
<1>5. ASSUME NEW w \in Seq(S), NEW x \in Seq(S), NEW y \in Seq(S), NEW z \in Seq(S), NEW b,
             Has(w, b) \/ Has(x, b) \/ Has(y, b) \/ Has(z, b)
      PROVE  Has(w \o (x \o (y \o z)), b)
  <2>1. y \o z \in Seq(S) /\ (Has(y, b) \/ Has(z, b) => Has(y \o z, b))
    BY <1>4
  <2>2. x \o (y \o z) \in Seq(S) /\ (Has(x, b) \/ Has(y \o z, b) => Has(x \o (y \o z), b))
    BY <1>4, <2>1
  <2>3. Has(w, b) \/ Has(x \o (y \o z), b) => Has(w \o (x \o (y \o z)), b)
    BY <1>4, <2>2
  <2> QED BY <1>5, <2>1, <2>2, <2>3
<1>6. ASSUME NEW b \in blocks
      PROVE  Has(of("host_gen") \o (of("media_chk") \o (of("host_chk") \o of("media_gen"))), b)
  <2>1. b = "host_gen" \/ b = "media_chk" \/ b = "host_chk" \/ b = "media_gen"
    BY DEF Blocks
  <2>2. \/ Has(of("host_gen"), b) \/ Has(of("media_chk"), b)
        \/ Has(of("host_chk"), b) \/ Has(of("media_gen"), b)
    BY <1>3, <2>1
  <2>3. /\ of("host_gen") \in Seq(S) /\ of("media_chk") \in Seq(S)
        /\ of("host_chk") \in Seq(S) /\ of("media_gen") \in Seq(S)
    BY <1>2 DEF Blocks
  <2> QED BY <1>5, <2>2, <2>3
<1> QED BY <1>1, <1>6 DEF Has

\* The writes of one block: its pattern, then what enables it.
LEMMA SelectThenEnable ==
  ASSUME NEW c, c.op = "bert_start", c.pattern \in Patterns, c.lanes \in SUBSET Lanes,
         NEW b \in Blocks, NEW checked, b \in checked
  PROVE  LET part == diag_write_pattern_select(b, c.pattern, c.lanes) \o PutLanes(Enable[b], c.lanes) IN
         part \in Seq(Transfers("bert")) /\ BertOrder(c, checked, part)
<1> DEFINE R == Read(Select[b])
           W == SelectWrite(b, c.pattern, c.lanes)
           E == EnableWrite(b, c.lanes)
           part == diag_write_pattern_select(b, c.pattern, c.lanes) \o PutLanes(Enable[b], c.lanes)
<1>1. /\ R \in Transfers("bert") /\ R.do = "read"
  BY BlockRegisters, ReadTransfer
<1>2. /\ W \in Transfers("bert") /\ W.do = "write" /\ W.reg = Select[b]
      /\ W.val = [l \in c.lanes |-> c.pattern]
  BY SelectTransfer
<1>3. /\ E \in Transfers("bert") /\ E.do = "write" /\ E.reg = Enable[b]
      /\ E.val = [l \in Lanes |-> IF l \in c.lanes THEN 1 ELSE 0]
  BY EnableTransfer
<1>4. diag_write_pattern_select(b, c.pattern, c.lanes) = <<R, W>> /\ PutLanes(Enable[b], c.lanes) = <<E>>
  <2>1. diag_write_pattern_select(b, c.pattern, c.lanes) = <<R, W>>
    BY SelectProgram
  <2>2. PutLanes(Enable[b], c.lanes) = <<E>>
    BY EnableTransfer
  <2> QED BY <2>1, <2>2
<1>5. /\ part \in Seq(Transfers("bert")) /\ DOMAIN part = 1 .. 3
      /\ part[1] = R /\ part[2] = W /\ part[3] = E
  <2> HIDE DEF R, W, E
  <2>1. part = <<R, W>> \o <<E>>
    BY <1>4
  <2>2. <<R, W>> \in Seq(Transfers("bert")) /\ <<E>> \in Seq(Transfers("bert"))
    BY <1>1, <1>2, <1>3
  <2> DEFINE s == <<R, W>>
             t == <<E>>
  <2>3. Len(s) = 2 /\ s[1] = R /\ s[2] = W /\ Len(t) = 1 /\ t[1] = E
    OBVIOUS
  <2>4. part = s \o t /\ s \in Seq(Transfers("bert")) /\ t \in Seq(Transfers("bert"))
    BY <2>1, <2>2
  <2> HIDE DEF part, s, t
  <2>5. /\ part \in Seq(Transfers("bert")) /\ Len(part) = Len(s) + Len(t)
        /\ \A i \in 1 .. Len(s) + Len(t) : part[i] = IF i <= Len(s) THEN s[i] ELSE t[i - Len(s)]
    BY <2>4, ConcatProperties
  <2>6. Len(part) = 3 /\ part[1] = s[1] /\ part[2] = s[2] /\ part[3] = t[1]
    BY <2>3, <2>5
  <2> QED BY <2>3, <2>5, <2>6
<1> HIDE DEF R, W, E, part
<1>6. ASSUME NEW x \in Blocks PROVE InSequence(c, checked, part, 2, x) /\ InSequence(c, checked, part, 3, x)
  <2>1. Select[b] # Enable[x] /\ Enable[b] # Select[x] /\ (Select[b] = Select[x] => b = x) /\ (Enable[b] = Enable[x] => b = x)
    BY BlocksApart
  <2>2. /\ part[2].reg = Select[b] /\ part[2].val = [l \in c.lanes |-> c.pattern]
        /\ part[3].reg = Enable[b] /\ part[3].val = [l \in Lanes |-> IF l \in c.lanes THEN 1 ELSE 0]
        /\ Selects(part[2], b)
    BY <1>2, <1>3, <1>5 DEF Selects
  <2>3. \E j \in 1 .. 3 - 1 : Selects(part[j], b)
    BY <2>2
  <2> QED BY <2>1, <2>2, <2>3 DEF InSequence
<1>7. ASSUME NEW i \in DOMAIN part, part[i].do = "write" PROVE i = 2 \/ i = 3
  <2>1. part[1].do = "read" /\ i \in 1 .. 3
    BY <1>1, <1>5
  <2> QED BY <1>7, <2>1
<1>8. BertOrder(c, checked, part)
  BY <1>6, <1>7 DEF BertOrder
<1> QED BY <1>5, <1>8 DEF part

\* A write of another register, or one that disables a block, may come at any time.
LEMMA AnyTime ==
  ASSUME NEW c, NEW w, NEW checked,
         \A b \in Blocks : w.reg # Select[b],
         \A b \in Blocks : w.reg = Enable[b] => \A l \in Lanes : w.val[l] = 0
  PROVE  BertOrder(c, checked, <<w>>)
<1>1. \A i \in DOMAIN <<w>> : <<w>>[i] = w
  OBVIOUS
<1> DEFINE p == <<w>>
<1>2. \A i \in DOMAIN p : p[i] = w
  BY <1>1
<1> HIDE DEF p
<1>3. BertOrder(c, checked, p)
  BY <1>2 DEF BertOrder, InSequence
<1> QED BY <1>3 DEF p

\* Every program of a test or of the end of one is in sequence.
LEMMA BertInSequence ==
  ASSUME NEW c \in CallsOf["bert"], NEW p \in Programs(c)
  PROVE  BertOrder(c, {}, p)
<1> DEFINE S == Transfers("bert")
           meas(on) == <<Write("MeasControl", All({"start", "reset"}, on))>>
<1>1. ASSUME NEW on \in {0, 1} PROVE \A x : meas(on) \in Seq(S) /\ BertOrder(c, x, meas(on))
  <2>1. meas(on) \in Seq(S)
    BY MeasProgram DEF IsProgram
  <2>2. Write("MeasControl", All({"start", "reset"}, on)).reg = "MeasControl"
    BY DEF Write
  <2>3. \A x : BertOrder(c, x, meas(on))
    BY <2>2, BlocksApart, AnyTime
  <2> QED BY <2>1, <2>3
<1> HIDE DEF meas
<1>2. CASE c \in [op : {"bert_start"}, blocks : BertBlocks, pattern : Patterns, lanes : LaneMasks]
  <2> DEFINE checks == [b \in Blocks |-> diag_validate_pattern(b, c.pattern)]
             parts == [b \in Blocks |-> diag_write_pattern_select(b, c.pattern, c.lanes)
                                         \o PutLanes(Enable[b], c.lanes)]
             C == InOrder(c.blocks, checks)
             P == InOrder(c.blocks, parts)
  <2>1. /\ c.op = "bert_start" /\ c.pattern \in Patterns /\ c.lanes \in SUBSET Lanes
        /\ c.blocks \in SUBSET Blocks
    BY <1>2, LaneMasksAssumption, BertBlocksAssumption
       DEF LaneMasksAssumption, BertBlocksAssumption, Lanes
  <2>2. p = (C \o P) \o meas(1)
    BY <2>1 DEF Programs, cmis_diag_bert_start, meas
  <2>3. ASSUME NEW b \in Blocks
        PROVE  /\ checks[b] = <<Advertised(b, c.pattern)>> /\ checks[b] \in Seq(S)
               /\ BertOrder(c, {}, checks[b])
    <3>1. checks[b] = <<Advertised(b, c.pattern)>>
      BY DEF diag_validate_pattern
    <3>2. Advertised(b, c.pattern) \in S /\ Advertised(b, c.pattern).do = "check"
      BY <2>1, BlockRegisters, CheckTransfer
    <3> DEFINE t == Advertised(b, c.pattern)
               q == <<t>>
    <3>3. \A i \in DOMAIN q : q[i] = t
      OBVIOUS
    <3>4. BertOrder(c, {}, q)
      <4> HIDE DEF t, q
      <4>1. t.do # "write"
        BY <3>2 DEF t
      <4> QED BY <3>3, <4>1 DEF BertOrder
    <3>5. q \in Seq(S)
      <4> HIDE DEF t, S
      <4> QED BY <3>2 DEF t
    <3> QED BY <3>1, <3>4, <3>5
  <2>4. ASSUME NEW b \in Blocks, b \in c.blocks
        PROVE  parts[b] \in Seq(S) /\ BertOrder(c, c.blocks, parts[b])
    BY <2>1, <2>4, SelectThenEnable
  <2> HIDE DEF checks, parts
  <2>5. C \in Seq(S) /\ BertOrder(c, {}, C)
    BY <2>3, BertOrderInOrder
  <2>6. P \in Seq(S) /\ BertOrder(c, c.blocks, P)
    BY <2>4, BertOrderInOrder
  <2>7. \A b \in c.blocks : \E j \in DOMAIN C : Checks(C[j], b, c.pattern)
    BY <2>1, <2>3, AllChecked
  <2> HIDE DEF C, P, S
  <2>8. BertOrder(c, {}, C \o P)
    BY <2>5, <2>6, <2>7, BertOrderConcat
  <2>9. C \o P \in Seq(S)
    BY <2>5, <2>6, ConcatProperties
  <2>10. meas(1) \in Seq(S) /\ BertOrder(c, {}, meas(1))
    BY <1>1
  <2> DEFINE q == C \o P
  <2>11. q \in Seq(S) /\ BertOrder(c, {}, q)
    BY <2>8, <2>9
  <2> HIDE DEF q
  <2>12. BertOrder(c, {}, q \o meas(1))
    BY <2>10, <2>11, BertOrderBoth
  <2> QED BY <2>2, <2>12 DEF q
<1>3. CASE c = [op |-> "bert_stop"]
  <2> DEFINE off(b) == PutLanes(Enable[b], {})
             Fits(q) == q \in Seq(S) /\ BertOrder(c, {}, q)
  <2>1. p = meas(0) \o off("host_gen") \o off("media_gen") \o off("host_chk") \o off("media_chk")
    BY <1>3 DEF Programs, cmis_diag_bert_stop, meas
  <2>2. ASSUME NEW b \in Blocks PROVE Fits(off(b))
    <3>1. /\ off(b) = <<EnableWrite(b, {})>> /\ EnableWrite(b, {}) \in S
          /\ EnableWrite(b, {}).reg = Enable[b]
          /\ EnableWrite(b, {}).val = [l \in Lanes |-> IF l \in {} THEN 1 ELSE 0]
      BY EnableTransfer
    <3>2. \A l \in Lanes : EnableWrite(b, {}).val[l] = 0
      BY <3>1
    <3>3. BertOrder(c, {}, <<EnableWrite(b, {})>>)
      BY <3>1, <3>2, BlocksApart, AnyTime
    <3> DEFINE w == EnableWrite(b, {})
    <3>4. <<w>> \in Seq(S)
      <4> HIDE DEF w, S
      <4> QED BY <3>1 DEF w
    <3>5. off(b) = <<w>> /\ BertOrder(c, {}, <<w>>)
      BY <3>1, <3>3
    <3> HIDE DEF w, off, S
    <3> QED BY <3>4, <3>5
  <2>3. ASSUME NEW q, NEW r, Fits(q), Fits(r) PROVE Fits(q \o r)
    BY <2>3, BertOrderBoth
  <2>4. Fits(meas(0))
    BY <1>1
  <2> HIDE DEF Fits, off
  <2>5. Fits(off("host_gen")) /\ Fits(off("media_gen")) /\ Fits(off("host_chk")) /\ Fits(off("media_chk"))
    BY <2>2 DEF Blocks
  <2>6. Fits(meas(0) \o off("host_gen") \o off("media_gen") \o off("host_chk") \o off("media_chk"))
    BY <2>3, <2>4, <2>5
  <2> QED BY <2>1, <2>6 DEF Fits
<1> QED BY <1>2, <1>3, CallsOfGroups

\* The registers of the tests do nothing of their own.
LEMMA BertObeyed ==
  ASSUME NEW r \in GroupRegisters["bert"], NEW regs
  PROVE  Obeyed(r, regs) = regs
<1>1. r \notin {"ApplyImmediate", "LaneSwitchCommit", "ModuleControl", "PasswordChange"}
  BY DEF GroupRegisters, Blocks, Select, Enable
<1> QED BY <1>1 DEF Obeyed

\* A test that begins has everything before it.
LEMMA BertCall ==
  ASSUME RegistersInv, BertInv, group = "bert", Call
  PROVE  BertInv'
<1>1. PICK c \in CallsOf["bert"] :
        /\ call' = IF c.op = "password_change"
                   THEN [op |-> c.op, current |-> c.current, new |-> c.new,
                         right |-> WordOf(c.current) = reg["Password"]]
                   ELSE c
        /\ prog' = <<>> \/ prog' \in Programs(c)
  BY DEF Call
<1>2. UNCHANGED <<group, reg, caps>>
  BY DEF Call
<1>3. /\ c.op \in {"bert_start", "bert_stop"}
      /\ c.op = "bert_start" => c.pattern \in Patterns /\ c.lanes \subseteq Lanes
  BY CallsOfGroups, LaneMasksAssumption DEF LaneMasksAssumption, Lanes
<1>4. call' = c
  BY <1>1, <1>3
<1>5. BertOrder(c, {}, prog')
  <2>1. CASE prog' = <<>>
    BY <2>1 DEF BertOrder
  <2>2. CASE prog' \in Programs(c)
    BY <2>2, BertInSequence
  <2> QED BY <1>1, <2>1, <2>2
<1>6. BertLeft'
  BY <1>4, <1>5 DEF BertLeft, LeftInSequence, BertOrder, InSequence
<1>7. PatternsSupported'
  BY <1>2 DEF BertInv, PatternsSupported
<1> QED BY <1>3, <1>4, <1>6, <1>7 DEF BertInv

\* A step of a test leaves the rest of it in sequence: what the step has done
\* holds from then on.
LEMMA BertLeftStep ==
  ASSUME RegistersInv, BertInv, group = "bert", prog # <<>>,
         prog' = <<>> \/ prog' = Tail(prog),
         UNCHANGED <<call, caps>>,
         \A b \in Blocks : Selected(b) => Selected(b)',
         prog' # <<>> =>
           \A b \in Blocks :
             /\ Checks(Head(prog), b, call.pattern) => call.pattern \in caps[b]
             /\ Selects(Head(prog), b) => Selected(b)'
  PROVE  BertLeft'
<1>1. CASE prog' = <<>>
  BY <1>1 DEF BertLeft
<1>2. CASE prog' = Tail(prog) /\ prog' # <<>>
  <2>1. /\ Head(prog) = prog[1] /\ prog' \in Seq(Transfers(group)) /\ 1 \in DOMAIN prog
        /\ \A i \in DOMAIN prog' : i + 1 \in DOMAIN prog /\ prog'[i] = prog[i + 1]
    BY <1>2, HeadAndTail DEF RegistersInv
  <2>2. ASSUME NEW i \in DOMAIN prog', prog'[i].do = "write", NEW b \in Blocks
        PROVE  LeftInSequence(i, b)'
    <3>1. i \in Nat /\ i >= 1 /\ i + 1 \in DOMAIN prog /\ prog[i + 1].do = "write" /\ prog'[i] = prog[i + 1]
      BY <2>1, <2>2
    <3>2. LeftInSequence(i + 1, b)
      BY <3>1 DEF BertInv, BertLeft
    <3>3. ASSUME NEW j \in 1 .. (i + 1) - 1
          PROVE  j = 1 \/ (j - 1 \in 1 .. i - 1 /\ prog'[j - 1] = prog[j])
      <4>1. CASE j > 1
        <5>1. j - 1 \in 1 .. i - 1 /\ j - 1 \in DOMAIN prog' /\ (j - 1) + 1 = j
          BY <2>1, <3>1, <4>1
        <5> QED BY <2>1, <5>1
      <4> QED BY <3>1, <4>1
    <3>4. ASSUME \E j \in 1 .. (i + 1) - 1 : Checks(prog[j], b, call.pattern)
          PROVE  call.pattern \in caps[b] \/ \E x \in 1 .. i - 1 : Checks(prog'[x], b, call.pattern)
      BY <1>2, <2>1, <3>3, <3>4
    <3>5. ASSUME \E j \in 1 .. (i + 1) - 1 : Selects(prog[j], b)
          PROVE  Selected(b)' \/ \E x \in 1 .. i - 1 : Selects(prog'[x], b)
      BY <1>2, <2>1, <3>3, <3>5
    <3>6. UNCHANGED <<call, caps>> /\ (Selected(b) => Selected(b)')
      OBVIOUS
    <3> QED BY <3>1, <3>2, <3>4, <3>5, <3>6 DEF LeftInSequence
  <2> QED BY <2>2 DEF BertLeft
<1> QED BY <1>1, <1>2

\* A write of a test, whole or cut, of any of the registers.
LEMMA BertWrite ==
  ASSUME RegistersInv, BertInv, group = "bert", WriteStep
  PROVE  BertInv'
<1> DEFINE w == Head(prog)
<1>1. /\ ret = "none" /\ w.do = "write" /\ (Continue \/ Leave) /\ UNCHANGED <<group, caps, call, calls>>
  BY DEF WriteStep, Due
<1>2. PICK n \in 0 .. Cardinality(w.span) :
        /\ reg' = IF n = Cardinality(w.span) THEN Obeyed(w.reg, Stored(w, n)) ELSE Stored(w, n)
        /\ (n = Cardinality(w.span) /\ Continue) \/ Leave
  BY DEF WriteStep
<1>3. prog # <<>> /\ prog \in Seq(Transfers("bert"))
  BY <1>1 DEF RegistersInv, TypeOK
<1>4. w = prog[1] /\ w \in Transfers("bert") /\ 1 \in DOMAIN prog
  BY <1>3, HeadAndTail
<1>5. DOMAIN reg = GroupRegisters["bert"] /\ "bert" \in DOMAIN GroupRegisters
  BY BlockRegisters DEF RegistersInv, TypeOK
<1> HIDE DEF w
<1>6. /\ w.reg \in DOMAIN reg /\ DOMAIN w.val \subseteq Fields(w.reg)
      /\ Covers(w) /\ (Complete(w) \/ buf = reg[w.reg])
  <2>1. w.reg \in DOMAIN reg /\ DOMAIN w.val \subseteq Fields(w.reg)
    BY <1>1, <1>4, <1>5, TransferParts
  <2>2. Covers(w) /\ (Complete(w) \/ buf = reg[w.reg])
    BY <1>1, <1>4 DEF RegistersInv, Ready
  <2> QED BY <2>1, <2>2
<1>7. Obeyed(w.reg, Stored(w, n)) = Stored(w, n)
  BY <1>5, <1>6, BertObeyed
<1>8. reg' = Stored(w, n)
  BY <1>2, <1>7
<1>9. /\ \A r \in DOMAIN reg : r # w.reg => reg'[r] = reg[r]
      /\ \A f \in Fields(w.reg) :
           \/ reg'[w.reg][f] = reg[w.reg][f]
           \/ f \in DOMAIN w.val /\ reg'[w.reg][f] = w.val[f]
      /\ n = Cardinality(w.span) => \A f \in DOMAIN w.val : reg'[w.reg][f] = w.val[f]
  <2>1. n \in 0 .. Cardinality(w.span)
    BY <1>2
  <2>2. /\ "bert" \in DOMAIN GroupRegisters /\ w \in Transfers("bert") /\ w.do = "write"
        /\ Covers(w) /\ (Complete(w) \/ buf = reg[w.reg]) /\ w.reg \in DOMAIN reg
    BY <1>1, <1>4, <1>5, <1>6
  <2>3. /\ \A r \in DOMAIN reg : r # w.reg => Stored(w, n)[r] = reg[r]
        /\ \A f \in Fields(w.reg) :
             \/ Stored(w, n)[w.reg][f] = reg[w.reg][f]
             \/ f \in DOMAIN w.val /\ Stored(w, n)[w.reg][f] = w.val[f]
        /\ n = Cardinality(w.span) => \A f \in DOMAIN w.val : Stored(w, n)[w.reg][f] = w.val[f]
    BY <2>1, <2>2, StoredFields
  <2> QED BY <1>8, <2>3
<1>10. \A b \in Blocks :
         /\ Select[b] \in DOMAIN reg /\ Enable[b] \in DOMAIN reg
         /\ Fields(Select[b]) = Lanes /\ Fields(Enable[b]) = Lanes
  BY <1>5, BlockRegisters, NibbleLayout, LaneLayout
<1>11. ASSUME NEW b \in Blocks, w.reg = Select[b]
       PROVE  /\ call.op = "bert_start" /\ call.lanes \subseteq Lanes
              /\ w.val = [l \in call.lanes |-> call.pattern] /\ call.pattern \in caps[b]
  <2>1. LeftInSequence(1, b)
    BY <1>1, <1>4 DEF BertInv, BertLeft
  <2>2. ~\E j \in 1 .. 1 - 1 : Checks(prog[j], b, call.pattern)
    OBVIOUS
  <2> QED BY <1>4, <1>11, <2>1, <2>2 DEF LeftInSequence, BertInv
<1>12. ASSUME NEW b \in Blocks, w.reg = Enable[b], NEW l \in Lanes, w.val[l] = 1
       PROVE  Selected(b) /\ l \in call.lanes
  <2>1. LeftInSequence(1, b)
    BY <1>1, <1>4 DEF BertInv, BertLeft
  <2>2. ~\E j \in 1 .. 1 - 1 : Selects(prog[j], b)
    OBVIOUS
  <2>3. w.val = [x \in Lanes |-> IF x \in call.lanes THEN 1 ELSE 0] /\ Selected(b)
    BY <1>4, <1>12, <2>1, <2>2 DEF LeftInSequence
  <2> QED BY <1>12, <2>3
<1>13. ASSUME NEW b \in Blocks, Selected(b) PROVE Selected(b)'
  <2>1. ASSUME NEW l \in call.lanes PROVE reg'[Select[b]][l] = call.pattern
    <3>1. reg[Select[b]][l] = call.pattern
      BY <1>13 DEF Selected
    <3>2. CASE w.reg = Select[b]
      <4>1. w.val = [x \in call.lanes |-> call.pattern] /\ l \in Fields(w.reg)
        BY <1>10, <1>11, <3>2
      <4> QED BY <1>9, <3>1, <3>2, <4>1
    <3>3. CASE w.reg # Select[b]
      BY <1>9, <1>10, <3>1, <3>3
    <3> QED BY <3>2, <3>3
  <2> QED BY <1>1, <1>13, <2>1 DEF Selected
<1>14. ASSUME NEW b \in Blocks, Selects(w, b), prog' # <<>> PROVE Selected(b)'
  <2>1. n = Cardinality(w.span)
    BY <1>2, <1>14 DEF Leave
  <2>2. w.reg = Select[b]
    BY <1>14 DEF Selects
  <2>3. w.val = [l \in call.lanes |-> call.pattern] /\ call.pattern \in caps[b]
    BY <1>11, <2>2
  <2> QED BY <1>1, <1>9, <2>1, <2>2, <2>3 DEF Selected
<1>15. BertLeft'
  <2>1. prog' = <<>> \/ prog' = Tail(prog)
    BY <1>1 DEF Continue, Leave
  <2>2. \A b \in Blocks : ~Checks(w, b, call.pattern)
    BY <1>1 DEF Checks
  <2> QED BY <1>1, <1>3, <1>13, <1>14, <2>1, <2>2, BertLeftStep DEF w
<1>16. PatternsSupported'
  <2> SUFFICES ASSUME NEW b \in Blocks, NEW l \in Lanes, reg'[Enable[b]][l] = 1
               PROVE  reg'[Select[b]][l] \in caps[b]
    BY <1>1, NibbleIsLane DEF PatternsSupported
  <2>1. reg[Enable[b]][l] = 1 => reg[Select[b]][l] \in caps[b]
    BY NibbleIsLane DEF BertInv, PatternsSupported
  <2>2. Select[b] # Enable[b]
    BY BlocksApart
  <2>3. CASE w.reg = Enable[b]
    <3>1. reg'[Select[b]] = reg[Select[b]]
      BY <1>9, <1>10, <2>2, <2>3
    <3>2. CASE reg'[Enable[b]][l] = reg[Enable[b]][l]
      BY <2>1, <3>1, <3>2
    <3>3. CASE w.val[l] = 1
      BY <1>12, <2>3, <3>1, <3>3 DEF Selected
    <3> QED BY <1>9, <1>10, <2>3, <3>2, <3>3
  <2>4. CASE w.reg = Select[b]
    <3>1. reg'[Enable[b]] = reg[Enable[b]]
      BY <1>9, <1>10, <2>2, <2>4
    <3>2. w.val = [x \in call.lanes |-> call.pattern] /\ call.pattern \in caps[b]
      BY <1>11, <2>4
    <3>3. reg'[Select[b]][l] = reg[Select[b]][l] \/ reg'[Select[b]][l] = call.pattern
      BY <1>9, <1>10, <2>4, <3>2
    <3> QED BY <2>1, <3>1, <3>2, <3>3
  <2>5. CASE w.reg # Enable[b] /\ w.reg # Select[b]
    BY <1>9, <1>10, <2>1, <2>5
  <2> QED BY <2>3, <2>4, <2>5
<1> QED BY <1>1, <1>15, <1>16 DEF BertInv

\* Every step keeps what makes the patterns supported.
LEMMA BertStep ==
  ASSUME RegistersInv, BertInv, [Next]_vars
  PROVE  BertInv'
<1> SUFFICES ASSUME group = "bert" PROVE BertInv'
  BY DEF Next, vars, Call, ReadStep, CheckStep, WriteStep, BertInv
<1>1. CASE Call
  BY <1>1, BertCall
<1>2. CASE ReadStep
  <2>1. /\ ret = "none" /\ Head(prog).do = "read" /\ (Continue \/ Leave)
        /\ UNCHANGED <<group, reg, caps, call>>
    BY <1>2 DEF ReadStep, Due
  <2>2. prog # <<>> /\ (prog' = <<>> \/ prog' = Tail(prog))
    BY <2>1 DEF RegistersInv, TypeOK, Continue, Leave
  <2>3. \A b \in Blocks : ~Checks(Head(prog), b, call.pattern) /\ ~Selects(Head(prog), b)
    BY <2>1 DEF Checks, Selects
  <2>4. \A b \in Blocks : Selected(b) => Selected(b)'
    BY <2>1 DEF Selected
  <2>5. BertLeft'
    BY <2>1, <2>2, <2>3, <2>4, BertLeftStep
  <2> QED BY <2>1, <2>5 DEF BertInv, PatternsSupported
<1>3. CASE CheckStep
  <2>1. /\ ret = "none" /\ Head(prog).do = "check" /\ (Continue \/ Leave)
        /\ UNCHANGED <<group, reg, caps, call>>
        /\ prog' # <<>> => Head(prog).val \in caps[Head(prog).reg]
    BY <1>3 DEF CheckStep, Due, Leave
  <2>2. prog # <<>> /\ (prog' = <<>> \/ prog' = Tail(prog))
    BY <2>1 DEF RegistersInv, TypeOK, Continue, Leave
  <2>3. \A b \in Blocks : ~Selects(Head(prog), b)
    BY <2>1 DEF Selects
  <2>4. prog' # <<>> => \A b \in Blocks : Checks(Head(prog), b, call.pattern) => call.pattern \in caps[b]
    BY <2>1 DEF Checks
  <2>5. \A b \in Blocks : Selected(b) => Selected(b)'
    BY <2>1 DEF Selected
  <2>6. BertLeft'
    BY <2>1, <2>2, <2>3, <2>4, <2>5, BertLeftStep
  <2> QED BY <2>1, <2>6 DEF BertInv, PatternsSupported
<1>4. CASE WriteStep
  BY <1>4, BertWrite
<1>5. CASE UNCHANGED vars
  BY <1>5 DEF vars, BertInv, BertLeft, LeftInSequence, Selected, PatternsSupported
<1> QED BY <1>1, <1>2, <1>3, <1>4, <1>5 DEF Next

\* Before any test nothing is enabled.
LEMMA BertInit == Init => BertInv
<1> SUFFICES ASSUME Init, group = "bert" PROVE BertInv
  BY DEF BertInv
<1>1. call.op # "bert_start" /\ prog = <<>>
  BY DEF Init, NoCall
<1>2. BertLeft
  BY <1>1 DEF BertLeft
<1>3. \A b \in Blocks, l \in Lanes : reg[Enable[b]][l] = 0
  <2> TAKE b \in Blocks, l \in Lanes
  <2>1. PICK v \in Fills :
          reg = [r \in GroupRegisters[group] |-> [f \in Fields(r) |->
                   IF r \in {"ApplyImmediate", "LaneSwitchCommit", "MeasControl"}
                             \cup {Enable[x] : x \in Blocks}
                      \/ (r = "ModuleControl" /\ f = "reset")
                   THEN 0 ELSE v]]
    BY DEF Init
  <2>2. Enable[b] \in GroupRegisters[group] /\ l \in Fields(Enable[b])
    BY BlockRegisters, LaneLayout
  <2> QED BY <2>1, <2>2
<1>4. PatternsSupported
  BY <1>3 DEF PatternsSupported
<1> QED BY <1>1, <1>2, <1>4 DEF BertInv

\* Whatever tests were run, cut or refused before, a generator or a checker that
\* is enabled on a lane has a pattern there that the module advertises for it.
THEOREM OnlySupportedPatterns == Spec => []PatternsSupported
<1>1. Init => BertInv
  BY BertInit
<1>2. RegistersInv /\ BertInv /\ [Next]_vars => BertInv'
  BY BertStep
<1>3. Spec => []BertInv
  BY <1>1, <1>2, RegistersInvariant, PTL DEF Spec
<1>4. BertInv => PatternsSupported
  BY DEF BertInv, PatternsSupported
<1> QED BY <1>3, <1>4, PTL
=============================================================================
