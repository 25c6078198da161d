--------------------------- MODULE Settings_proofs ---------------------------
(***************************************************************************)
(* What the programs of the calls have to do with what the calls ask for:  *)
(* every write of a program makes a register what was asked, and every     *)
(* setting that was asked for is written.  What is staged is applied when  *)
(* all of it is in the registers, and the displays say what was written,   *)
(* so that every operation keeps the promise of LaneSettings.              *)
(***************************************************************************)
EXTENDS Registers_proofs

-----------------------------------------------------------------------------
\* Programs and requests

\* The transfers of a program, whatever their order.
Parts(p) == {p[i] : i \in DOMAIN p}

IsSeq(p) == p \in Seq(Parts(p))

\* A write of what is displayed makes its fields what was asked.
AsAsked(t, asked) ==
  t.do = "write" /\ t.reg \notin Hidden =>
    \A f \in DOMAIN t.val : <<t.reg, f>> \in DOMAIN asked /\ t.val[f] \in asked[<<t.reg, f>>]

\* A transfer sets a setting.
Sets(t, s) == t.do = "write" /\ t.reg = s[1] /\ s[2] \in DOMAIN t.val

\* The transfers do what was asked, all of it and no more.
Carry(ts, asked) ==
  /\ \A t \in ts : AsAsked(t, asked)
  /\ \A s \in DOMAIN asked : \E t \in ts : Sets(t, s)

\* The transfers of two parts of a program.
LEMMA PartsConcat ==
  ASSUME NEW p, NEW q, IsSeq(p), IsSeq(q)
  PROVE  IsSeq(p \o q) /\ Parts(p \o q) = Parts(p) \cup Parts(q)
<1> DEFINE S == Parts(p) \cup Parts(q)
           r == p \o q
<1>1. p \in Seq(S) /\ q \in Seq(S)
  BY DEF IsSeq
<1>2. /\ r \in Seq(S) /\ Len(r) = Len(p) + Len(q) /\ DOMAIN r = 1 .. Len(r)
      /\ \A i \in 1 .. Len(p) + Len(q) : r[i] = IF i <= Len(p) THEN p[i] ELSE q[i - Len(p)]
  BY <1>1, ConcatProperties, LenProperties
<1>3. /\ Len(p) \in Nat /\ Len(q) \in Nat
      /\ DOMAIN p = 1 .. Len(p) /\ DOMAIN q = 1 .. Len(q)
  BY <1>1, LenProperties
<1> HIDE DEF r, S
<1>4. Parts(r) \subseteq Parts(p) \cup Parts(q)
  BY <1>2, <1>3 DEF Parts
<1>5. ASSUME NEW i \in DOMAIN p PROVE p[i] \in Parts(r)
  BY <1>2, <1>3 DEF Parts
<1>6. ASSUME NEW i \in DOMAIN q PROVE q[i] \in Parts(r)
  <2>1. i + Len(p) \in DOMAIN r /\ r[i + Len(p)] = q[i]
    BY <1>2, <1>3
  <2> QED BY <2>1 DEF Parts
<1>7. Parts(r) = Parts(p) \cup Parts(q)
  BY <1>4, <1>5, <1>6 DEF Parts
<1> QED BY <1>2, <1>7 DEF r, S, IsSeq

\* The parts of a program of one transfer,
LEMMA OnePart ==
  ASSUME NEW t PROVE IsSeq(<<t>>) /\ Parts(<<t>>) = {t}
  BY DEF IsSeq, Parts

\* of two,
LEMMA TwoParts ==
  ASSUME NEW t, NEW u PROVE IsSeq(<<t, u>>) /\ Parts(<<t, u>>) = {t, u}
  BY DEF IsSeq, Parts

\* of a read, modify and write,
LEMMA RmwParts ==
  ASSUME NEW r, NEW v
  PROVE  /\ IsSeq(Rmw(r, v)) /\ Parts(Rmw(r, v)) = {Read(r), Write(r, v)}
         /\ Read(r).do = "read" /\ Write(r, v).do = "write"
         /\ Write(r, v).reg = r /\ Write(r, v).val = v
<1>1. IsSeq(Rmw(r, v)) /\ Parts(Rmw(r, v)) = {Read(r), Write(r, v)}
  BY TwoParts DEF Rmw
<1> QED BY <1>1 DEF Read, Write

\* and of a register that is overwritten.
LEMMA PutParts ==
  ASSUME NEW r, NEW lanes
  PROVE  /\ IsSeq(PutLanes(r, lanes))
         /\ Parts(PutLanes(r, lanes)) = {Write(r, [l \in Lanes |-> IF l \in lanes THEN 1 ELSE 0])}
  BY OnePart DEF PutLanes

\* More transfers of what was asked do no harm.
LEMMA CarryMore ==
  ASSUME NEW ts, NEW us, NEW asked, Carry(ts, asked), \A t \in us : AsAsked(t, asked)
  PROVE  Carry(ts \cup us, asked)
  BY DEF Carry

-----------------------------------------------------------------------------
\* The requests and the programs that set a mask

\* Every mask that a group knows, with valid arguments, is of the fields of one of
\* its registers, in the form that the helper for it expects.
IsMask(g, c) ==
  /\ c.op = "mask" /\ c.on \in {0, 1} /\ c.reg \in GroupRegisters[g] \ (Hidden \cup Words)
  /\ c.fields \subseteq Fields(c.reg) /\ FieldValues(c.reg) \in {0 .. 1}
  /\ c.reg \in FlagRegisters => \E f : c.fields = {f}
  /\ c.reg = "LaneSwitchEnable" => c.fields = {0}
  /\ c.reg = "TuningFlagMask" => \E l, b : b # {} /\ c.fields = {l} \X b
  /\ c.reg = "AdaptiveInputEqEnableTx" => g = "staged"

\* The masks of lane bits are masks in that form,
LEMMA LaneMaskIs ==
  ASSUME NEW g \in DOMAIN GroupRegisters, NEW rs, NEW c \in MaskCalls(rs),
         rs \subseteq GroupRegisters[g], rs \subseteq LaneRegisters \ {"ApplyImmediate"},
         "AdaptiveInputEqEnableTx" \in rs => g = "staged"
  PROVE  IsMask(g, c)
<1>1. c.op = "mask" /\ c.reg \in rs /\ c.fields \in LaneMasks /\ c.on \in {0, 1}
  BY MaskParts
<1>2. c.reg \notin FlagRegisters \cup {"LaneSwitchEnable", "TuningFlagMask"} \cup Hidden \cup Words
  BY <1>1 DEF FlagRegisters, LaneRegisters, DirectControls, StagedBits, NetworkBits, CoherentBits,
              loopback_modes, Enable, Blocks, Hidden, Words, thresh_descs, host_thresh_descs
<1>3. Fields(c.reg) = Lanes /\ FieldValues(c.reg) = 0 .. 1 /\ c.fields \subseteq Lanes
  <2>1. c.fields \subseteq Lanes
    BY <1>1, LaneMasksAssumption DEF LaneMasksAssumption, Lanes
  <2> QED BY <1>1, <2>1, LaneLayout
<1> QED BY <1>1, <1>2, <1>3 DEF IsMask

\* and so are the flags of a byte.
LEMMA FlagIs ==
  ASSUME NEW g \in DOMAIN GroupRegisters, NEW r \in GroupRegisters[g],
         r \in FlagRegisters \cup {"ModuleControl", "LaneSwitchEnable"},
         NEW flags, flags \subseteq Fields(r), NEW c \in FlagCalls(r, flags)
  PROVE  IsMask(g, c)
<1>1. c.op = "mask" /\ c.reg = r /\ c.on \in {0, 1} /\ \E f \in flags : c.fields = {f}
  BY FlagParts
<1>2. PICK f \in flags : c.fields = {f}
  BY <1>1
<1>3. /\ FieldValues(r) = 0 .. 1 /\ (r = "LaneSwitchEnable" => Fields(r) = {0})
  BY OtherLayout, SingleLayout DEF Singles, FlagRegisters
<1>4. r \notin Hidden \cup Words \cup {"TuningFlagMask", "AdaptiveInputEqEnableTx"}
  BY DEF FlagRegisters, Hidden, Words, thresh_descs, host_thresh_descs
<1>5. r = "LaneSwitchEnable" => c.fields = {0}
  BY <1>2, <1>3
<1> QED BY <1>1, <1>2, <1>3, <1>4, <1>5 DEF IsMask

\* What a mask asks for, and that its program carries it.
LEMMA MaskCarries ==
  ASSUME NEW g, NEW c, IsMask(g, c), NEW p \in Programs(c)
  PROVE  /\ RequestOf(c) = [s \in {c.reg} \X c.fields |-> {c.on}]
         /\ IsSeq(p) /\ Carry(Parts(p), RequestOf(c))
         /\ IF c.reg = "AdaptiveInputEqEnableTx"
            THEN p = Rmw(c.reg, All(c.fields, c.on)) \o Rmw("ApplyImmediate", All(c.fields, 1))
            ELSE p = Rmw(c.reg, All(c.fields, c.on))
<1>1. RequestOf(c) = [s \in {c.reg} \X c.fields |-> {c.on}]
  BY DEF IsMask, RequestOf
<1>2. p = SetMask(c.reg, c.fields, c.on)
  BY DEF IsMask, Programs
<1>3. IF c.reg = "AdaptiveInputEqEnableTx"
      THEN p = Rmw(c.reg, All(c.fields, c.on)) \o Rmw("ApplyImmediate", All(c.fields, 1))
      ELSE p = Rmw(c.reg, All(c.fields, c.on))
  BY <1>2, SetMaskIs DEF IsMask
<1> DEFINE w == Write(c.reg, All(c.fields, c.on))
           ts == {Read(c.reg), w}
<1>4. /\ IsSeq(Rmw(c.reg, All(c.fields, c.on))) /\ Parts(Rmw(c.reg, All(c.fields, c.on))) = ts
      /\ Read(c.reg).do = "read" /\ w.do = "write" /\ w.reg = c.reg
      /\ w.val = [f \in c.fields |-> c.on]
  BY RmwParts DEF All
<1>5. Carry(ts, RequestOf(c))
  <2> HIDE DEF w
  <2>1. \A f \in c.fields : <<c.reg, f>> \in DOMAIN RequestOf(c) /\ RequestOf(c)[<<c.reg, f>>] = {c.on}
    BY <1>1
  <2>2. \A s \in DOMAIN RequestOf(c) : s[1] = c.reg /\ s[2] \in c.fields
    BY <1>1
  <2>3. AsAsked(w, RequestOf(c)) /\ AsAsked(Read(c.reg), RequestOf(c))
    BY <1>4, <2>1 DEF AsAsked
  <2>4. \A s \in DOMAIN RequestOf(c) : Sets(w, s)
    BY <1>4, <2>2 DEF Sets
  <2> QED BY <2>3, <2>4 DEF Carry
<1>6. CASE c.reg = "AdaptiveInputEqEnableTx"
  <2> DEFINE a == "ApplyImmediate"
             v == All(c.fields, 1)
  <2>1. /\ IsSeq(Rmw(a, v)) /\ Parts(Rmw(a, v)) = {Read(a), Write(a, v)}
        /\ Read(a).do = "read" /\ Write(a, v).reg = a
    BY RmwParts
  <2>2. \A t \in {Read(a), Write(a, v)} : AsAsked(t, RequestOf(c))
    BY <2>1 DEF AsAsked, Hidden
  <2> HIDE DEF a, v, ts
  <2>3. Carry(ts \cup {Read(a), Write(a, v)}, RequestOf(c))
    BY <1>5, <2>2, CarryMore
  <2>4. p = Rmw(c.reg, All(c.fields, c.on)) \o Rmw(a, v)
    BY <1>3, <1>6 DEF a, v
  <2>5. IsSeq(p) /\ Parts(p) = ts \cup {Read(a), Write(a, v)}
    BY <1>4, <2>1, <2>4, PartsConcat
  <2> QED BY <1>1, <1>3, <2>3, <2>5
<1>7. CASE c.reg # "AdaptiveInputEqEnableTx"
  BY <1>1, <1>3, <1>4, <1>5, <1>7
<1> QED BY <1>6, <1>7

-----------------------------------------------------------------------------
\* The programs of the staged settings

\* The last transfer, and no other, applies what was asked, on all its lanes.
Applies(p, asked) ==
  /\ p # <<>>
  /\ p[Len(p)].do = "write" /\ p[Len(p)].reg = "ApplyImmediate"
  /\ \A s \in DOMAIN asked : s[2] \in DOMAIN p[Len(p)].val /\ p[Len(p)].val[s[2]] = 1
  /\ \A i \in 1 .. Len(p) - 1 : p[i].do = "write" => p[i].reg # "ApplyImmediate"

\* What comes before the trigger may be any transfers that do not trigger.
LEMMA AppliesAfter ==
  ASSUME NEW p, NEW q, NEW asked, IsSeq(p), IsSeq(q), Applies(q, asked),
         \A t \in Parts(p) : t.do = "write" => t.reg # "ApplyImmediate"
  PROVE  Applies(p \o q, asked)
<1> DEFINE S == Parts(p) \cup Parts(q)
           r == p \o q
<1>1. p \in Seq(S) /\ q \in Seq(S)
  BY DEF IsSeq
<1>2. /\ Len(r) = Len(p) + Len(q) /\ r \in Seq(S)
      /\ \A i \in 1 .. Len(p) + Len(q) : r[i] = IF i <= Len(p) THEN p[i] ELSE q[i - Len(p)]
  BY <1>1, ConcatProperties
<1>3. /\ Len(p) \in Nat /\ Len(q) \in Nat /\ Len(q) > 0 /\ DOMAIN p = 1 .. Len(p)
  BY <1>1, LenProperties, EmptySeq DEF Applies
<1> HIDE DEF r, S
<1>4. r[Len(r)] = q[Len(q)] /\ Len(r) > 0
  BY <1>2, <1>3
<1>5. ASSUME NEW i \in 1 .. Len(r) - 1, r[i].do = "write" PROVE r[i].reg # "ApplyImmediate"
  <2>1. CASE i <= Len(p)
    <3>1. r[i] = p[i] /\ i \in DOMAIN p
      BY <1>2, <1>3, <2>1
    <3> QED BY <1>5, <3>1 DEF Parts
  <2>2. CASE i > Len(p)
    <3>1. r[i] = q[i - Len(p)] /\ i - Len(p) \in 1 .. Len(q) - 1
      BY <1>2, <1>3, <2>2
    <3> QED BY <1>5, <3>1 DEF Applies
  <2> QED BY <1>2, <1>3, <2>1, <2>2
<1>6. r # <<>>
  BY <1>2, <1>4, EmptySeq
<1> QED BY <1>4, <1>5, <1>6 DEF Applies, r

\* A call for staged settings writes them, and then applies them.
LEMMA StagedCarry ==
  ASSUME NEW c \in CallsOf["staged"], Valid(c), NEW p \in Programs(c)
  PROVE  /\ Carry(Parts(p), RequestOf(c)) /\ Applies(p, RequestOf(c))
         /\ DOMAIN RequestOf(c) \subseteq (StagedBits \cup StagedTargets) \X Lanes
<1> DEFINE a == "ApplyImmediate"
           put(lanes) == [l \in Lanes |-> IF l \in lanes THEN 1 ELSE 0]
<1>0. ASSUME NEW lanes
      PROVE  /\ IsSeq(PutLanes(a, lanes)) /\ Parts(PutLanes(a, lanes)) = {Write(a, put(lanes))}
             /\ Write(a, put(lanes)).reg = a
             /\ \A asked : AsAsked(Write(a, put(lanes)), asked)
             /\ \A asked : (\A s \in DOMAIN asked : s[2] \in lanes \cap Lanes)
                             => Applies(PutLanes(a, lanes), asked)
  <2>1. IsSeq(PutLanes(a, lanes)) /\ Parts(PutLanes(a, lanes)) = {Write(a, put(lanes))}
    BY PutParts
  <2>2. /\ Write(a, put(lanes)).do = "write" /\ Write(a, put(lanes)).reg = a
        /\ Write(a, put(lanes)).val = put(lanes)
    BY DEF Write
  <2>3. PutLanes(a, lanes) = <<Write(a, put(lanes))>>
    BY DEF PutLanes
  <2> DEFINE w == Write(a, put(lanes))
  <2> HIDE DEF w
  <2>4. Len(<<w>>) = 1 /\ <<w>>[1] = w /\ <<w>> # <<>>
    OBVIOUS
  <2>5. ASSUME NEW asked, \A s \in DOMAIN asked : s[2] \in lanes \cap Lanes
        PROVE  Applies(<<w>>, asked)
    <3>1. \A s \in DOMAIN asked : s[2] \in DOMAIN w.val /\ w.val[s[2]] = 1
      BY <2>2, <2>5 DEF w
    <3>2. w.do = "write" /\ w.reg = "ApplyImmediate"
      BY <2>2 DEF w
    <3> DEFINE p1 == <<w>>
    <3>3. Len(p1) = 1 /\ p1[1] = w /\ p1 # <<>>
      BY <2>4
    <3> HIDE DEF p1
    <3>4. Applies(p1, asked)
      BY <3>1, <3>2, <3>3 DEF Applies
    <3> QED BY <3>4 DEF p1
  <2>6. \A asked : AsAsked(w, asked)
    BY <2>2 DEF AsAsked, Hidden, w
  <2> QED BY <2>1, <2>2, <2>3, <2>5, <2>6 DEF w
<1> HIDE DEF put
<1>1. ASSUME NEW r, r # a, NEW v
      PROVE  \A t \in Parts(Rmw(r, v)) : t.do = "write" => t.reg # a
  BY <1>1, RmwParts
<1>2. CASE c \in MaskCalls({"AdaptiveInputEqEnableTx"})
  <2>1. /\ c.op = "mask" /\ c.reg = "AdaptiveInputEqEnableTx" /\ c.fields \subseteq Lanes
    BY <1>2, MaskParts, LaneMasksAssumption DEF LaneMasksAssumption, Lanes
  <2>2. IsMask("staged", c)
    BY <1>2, LaneMaskIs DEF GroupRegisters, LaneRegisters, StagedBits
  <2> DEFINE r == c.reg
             v == All(c.fields, c.on)
             v1 == All(c.fields, 1)
  <2>3. /\ RequestOf(c) = [s \in {c.reg} \X c.fields |-> {c.on}]
        /\ Carry(Parts(p), RequestOf(c)) /\ p = Rmw(r, v) \o Rmw(a, v1)
    BY <2>1, <2>2, MaskCarries
  <2>4. r # a /\ v1 = [f \in c.fields |-> 1]
    BY <2>1 DEF All
  <2> HIDE DEF v, v1, r
  <2>5. Applies(Rmw(a, v1), RequestOf(c))
    <3> DEFINE w == Write(a, v1)
               R == Read(a)
               q == <<R, w>>
    <3>1. w.do = "write" /\ w.reg = "ApplyImmediate" /\ w.val = v1 /\ R.do = "read"
      BY DEF Write, Read
    <3>2. Rmw(a, v1) = q
      BY DEF Rmw
    <3> HIDE DEF w, R
    <3>3. Len(q) = 2 /\ q[1] = R /\ q[2] = w /\ q # <<>>
      OBVIOUS
    <3> HIDE DEF q
    <3>4. \A s \in DOMAIN RequestOf(c) : s[2] \in DOMAIN w.val /\ w.val[s[2]] = 1
      BY <2>3, <2>4, <3>1
    <3>5. Applies(q, RequestOf(c))
      BY <3>1, <3>3, <3>4 DEF Applies
    <3> QED BY <3>2, <3>5
  <2>6. IsSeq(Rmw(r, v)) /\ IsSeq(Rmw(a, v1))
    BY RmwParts
  <2>7. \A t \in Parts(Rmw(r, v)) : t.do = "write" => t.reg # "ApplyImmediate"
    BY <1>1, <2>4
  <2>8. Applies(p, RequestOf(c))
    BY <2>3, <2>5, <2>6, <2>7, AppliesAfter
  <2> QED BY <2>1, <2>3, <2>8 DEF StagedBits
<1>3. CASE c \in [op : {"cdr"}, lanes : LaneMasks, tx : Bits, rx : Bits]
  <2>1. c.op = "cdr" /\ c.lanes \subseteq Lanes
    BY <1>3, LaneMasksAssumption DEF LaneMasksAssumption, Lanes
  <2> DEFINE tx == "CDREnableTx"
             rx == "CDREnableRx"
             vt == All(c.lanes, c.tx)
             vr == All(c.lanes, c.rx)
             asked == RequestOf(c)
             p1 == Rmw(tx, vt)
             p2 == Rmw(rx, vr)
             p3 == PutLanes(a, c.lanes)
  <2>2. p = (p1 \o p2) \o p3
    BY <2>1 DEF Programs, cmis_dp_set_cdr
  <2>3. asked = [s \in {tx, rx} \X c.lanes |-> {IF s[1] = tx THEN c.tx ELSE c.rx}]
    BY <2>1 DEF RequestOf
  <2>4. vt = [f \in c.lanes |-> c.tx] /\ vr = [f \in c.lanes |-> c.rx]
    BY DEF All
  <2>5. /\ IsSeq(p1) /\ Parts(p1) = {Read(tx), Write(tx, vt)}
        /\ Read(tx).do = "read" /\ Write(tx, vt).do = "write"
        /\ Write(tx, vt).reg = tx /\ Write(tx, vt).val = vt
    BY RmwParts
  <2>6. /\ IsSeq(p2) /\ Parts(p2) = {Read(rx), Write(rx, vr)}
        /\ Read(rx).do = "read" /\ Write(rx, vr).do = "write"
        /\ Write(rx, vr).reg = rx /\ Write(rx, vr).val = vr
    BY RmwParts
  <2>7. \A s \in DOMAIN asked : s = <<s[1], s[2]>> /\ s[1] \in {tx, rx} /\ s[2] \in c.lanes
    BY <2>3
  <2>8. \A l \in c.lanes : /\ <<tx, l>> \in DOMAIN asked /\ asked[<<tx, l>>] = {c.tx}
                           /\ <<rx, l>> \in DOMAIN asked /\ asked[<<rx, l>>] = {c.rx}
    BY <2>3
  <2>9. /\ IsSeq(p3) /\ Parts(p3) = {Write(a, put(c.lanes))} /\ AsAsked(Write(a, put(c.lanes)), asked)
        /\ Applies(p3, asked)
    BY <1>0, <2>1, <2>7
  <2>10. \A t \in Parts(p1) \cup Parts(p2) : t.do = "write" => t.reg # "ApplyImmediate"
    BY <2>5, <2>6
  <2> DEFINE wt == Write(tx, vt)
             wr == Write(rx, vr)
  <2>11. /\ AsAsked(wt, asked) /\ AsAsked(wr, asked)
         /\ AsAsked(Read(tx), asked) /\ AsAsked(Read(rx), asked)
    <3>1. wt.reg = tx /\ wt.val = [f \in c.lanes |-> c.tx] /\ wr.reg = rx /\ wr.val = [f \in c.lanes |-> c.rx]
      BY <2>4, <2>5, <2>6
    <3>2. Read(tx).do # "write" /\ Read(rx).do # "write"
      BY <2>5, <2>6
    <3> HIDE DEF asked, vt, vr, wt, wr, tx, rx
    <3>3. AsAsked(wt, asked) /\ AsAsked(wr, asked)
      BY <2>8, <3>1 DEF AsAsked
    <3>4. AsAsked(Read(tx), asked) /\ AsAsked(Read(rx), asked)
      BY <3>2 DEF AsAsked
    <3> QED BY <3>3, <3>4
  <2>12. \A s \in DOMAIN asked : Sets(wt, s) \/ Sets(wr, s)
    <3> HIDE DEF asked, vt, vr, wt, wr
    <3> QED BY <2>4, <2>5, <2>6, <2>7 DEF Sets, wt, wr
  <2> HIDE DEF p1, p2, p3, asked, wt, wr, tx, rx
  <2>13. IsSeq(p1 \o p2) /\ Parts(p1 \o p2) = Parts(p1) \cup Parts(p2)
    BY <2>5, <2>6, PartsConcat
  <2>14. Parts(p) = Parts(p1) \cup Parts(p2) \cup Parts(p3)
    BY <2>2, <2>9, <2>13, PartsConcat
  <2>15. Applies(p, asked)
    BY <2>2, <2>9, <2>10, <2>13, AppliesAfter
  <2>16. Carry(Parts(p), asked)
    BY <2>5, <2>6, <2>9, <2>11, <2>12, <2>14 DEF Carry, wt, wr
  <2>17. DOMAIN asked \subseteq (StagedBits \cup StagedTargets) \X Lanes
    BY <2>1, <2>3 DEF StagedBits, tx, rx
  <2> QED BY <2>15, <2>16, <2>17 DEF asked
<1>4. CASE c \in [op : {"target"}, reg : StagedTargets, lane : {0, 1, NLanes}, target : Targets]
  <2>1. c.op = "target" /\ c.reg \in StagedTargets
    BY <1>4
  <2>2. c.lane \in Lanes
    BY <2>1 DEF Valid, NibbleValid
  <2> DEFINE r == c.reg
             v == All({c.lane}, c.target)
             asked == RequestOf(c)
             p1 == Rmw(r, v)
             p2 == PutLanes(a, {c.lane})
             w == Write(r, v)
  <2>3. p = p1 \o p2
    BY <2>1, <2>2, NibbleIsLane DEF Programs, SetTarget, dp_rmw_nibble
  <2>4. asked = [s \in {<<c.reg, c.lane>>} |-> {c.target}] /\ v = [f \in {c.lane} |-> c.target]
    BY <2>1 DEF RequestOf, All
  <2>5. r \notin Hidden /\ r # a
    BY <2>1 DEF StagedTargets, Hidden
  <2>6. /\ IsSeq(p1) /\ Parts(p1) = {Read(r), w} /\ Read(r).do = "read" /\ w.do = "write"
        /\ w.reg = r /\ w.val = v
    BY RmwParts
  <2>7. \A s \in DOMAIN asked : s[1] = r /\ s[2] = c.lane
    BY <2>4
  <2>8. /\ IsSeq(p2) /\ Parts(p2) = {Write(a, put({c.lane}))}
        /\ AsAsked(Write(a, put({c.lane})), asked) /\ Applies(p2, asked)
    BY <1>0, <2>2, <2>7
  <2>9. AsAsked(w, asked) /\ AsAsked(Read(r), asked)
    <3>1. <<r, c.lane>> \in DOMAIN asked /\ asked[<<r, c.lane>>] = {c.target}
      BY <2>4
    <3> HIDE DEF asked, w
    <3> QED BY <2>4, <2>6, <3>1 DEF AsAsked
  <2>10. \A s \in DOMAIN asked : Sets(w, s)
    <3> HIDE DEF asked, w
    <3> QED BY <2>4, <2>6, <2>7 DEF Sets
  <2> HIDE DEF p1, p2, asked, w, r, a
  <2>11. Parts(p) = Parts(p1) \cup Parts(p2)
    BY <2>3, <2>6, <2>8, PartsConcat
  <2>12. \A t \in Parts(p1) : t.do = "write" => t.reg # a
    BY <2>5, <2>6
  <2>13. Applies(p, asked)
    BY <2>3, <2>6, <2>8, <2>12, AppliesAfter DEF a
  <2>14. Carry(Parts(p), asked)
    BY <2>6, <2>8, <2>9, <2>10, <2>11 DEF Carry
  <2>15. DOMAIN asked \subseteq (StagedBits \cup StagedTargets) \X Lanes
    BY <2>1, <2>2, <2>4
  <2> QED BY <2>13, <2>14, <2>15 DEF asked
<1> QED BY <1>2, <1>3, <1>4, CallsOfGroups

-----------------------------------------------------------------------------
\* The programs of the other groups

\* A request is about displayed registers of the group.
About(g, asked) ==
  \A s \in DOMAIN asked : s = <<s[1], s[2]>> /\ s[1] \in GroupRegisters[g] \ Hidden

\* The program of a call carries what the call asks for.
Carries(g, c, p) == Carry(Parts(p), RequestOf(c)) /\ About(g, RequestOf(c))

\* A mask is about its own register.
LEMMA MaskAbout ==
  ASSUME NEW g, NEW c, IsMask(g, c), NEW p \in Programs(c)
  PROVE  Carries(g, c, p)
<1>1. /\ RequestOf(c) = [s \in {c.reg} \X c.fields |-> {c.on}]
      /\ Carry(Parts(p), RequestOf(c))
  BY MaskCarries
<1>2. c.reg \in GroupRegisters[g] \ Hidden
  BY DEF IsMask
<1> QED BY <1>1, <1>2 DEF About, Carries

\* One write, of a register in whole or in part.
LEMMA WriteCarries ==
  ASSUME NEW g, NEW c, NEW r \in GroupRegisters[g] \ Hidden, NEW v, NEW asked,
         RequestOf(c) = asked, DOMAIN asked = {r} \X DOMAIN v,
         \A f \in DOMAIN v : v[f] \in asked[<<r, f>>]
  PROVE  Carries(g, c, <<Write(r, v)>>)
<1> DEFINE w == Write(r, v)
<1>1. w.do = "write" /\ w.reg = r /\ w.val = v
  BY DEF Write
<1>2. Parts(<<w>>) = {w}
  BY OnePart
<1> HIDE DEF w
<1>3. AsAsked(w, asked) /\ \A s \in DOMAIN asked : Sets(w, s)
  BY <1>1 DEF AsAsked, Sets
<1>4. Carry({w}, asked) /\ About(g, asked)
  BY <1>3 DEF Carry, About
<1> QED BY <1>2, <1>4 DEF w, Carries

\* The controls that are masks and nothing else.
LEMMA DirectCarry ==
  ASSUME NEW g \in {"direct", "network", "tuning", "coherent"}, NEW c \in CallsOf[g], Valid(c),
         NEW p \in Programs(c)
  PROVE  Carries(g, c, p)
<1>1. CASE g = "direct"
  <2>1. c \in MaskCalls(DirectControls)
    BY <1>1, CallsOfGroups
  <2>2. /\ g \in DOMAIN GroupRegisters /\ DirectControls \subseteq GroupRegisters[g]
        /\ DirectControls \subseteq LaneRegisters \ {"ApplyImmediate"}
        /\ "AdaptiveInputEqEnableTx" \notin DirectControls
    BY <1>1 DEF GroupRegisters, LaneRegisters, DirectControls
  <2>3. IsMask(g, c)
    BY <2>1, <2>2, LaneMaskIs
  <2> QED BY <2>3, MaskAbout
<1>2. CASE g = "network"
  <2>1. c \in MaskCalls(NetworkBits)
    BY <1>2, CallsOfGroups
  <2>2. /\ g \in DOMAIN GroupRegisters /\ NetworkBits \subseteq GroupRegisters[g]
        /\ NetworkBits \subseteq LaneRegisters \ {"ApplyImmediate"}
        /\ "AdaptiveInputEqEnableTx" \notin NetworkBits
    BY <1>2 DEF GroupRegisters, LaneRegisters, NetworkBits
  <2>3. IsMask(g, c)
    BY <2>1, <2>2, LaneMaskIs
  <2> QED BY <2>3, MaskAbout
<1>3. CASE g = "tuning"
  <2>1. /\ c.op = "mask" /\ c.reg = "TuningFlagMask" /\ c.on \in {0, 1}
        /\ c.fields \in {{l} \X b : l \in {0, 1, NLanes}, b \in {{0}, {0, 1}}}
    BY <1>3, CallsOfGroups DEF Bits
  <2>2. PICK l \in {0, 1, NLanes}, b \in {{0}, {0, 1}} : c.fields = {l} \X b
    BY <2>1
  <2>3. l \in Lanes
    <3>1. \A f \in c.fields : f[1] \in Lanes
      BY <2>1 DEF Valid
    <3>2. <<l, 0>> \in c.fields
      BY <2>2
    <3> QED BY <3>1, <3>2
  <2>4. c.fields \subseteq Fields(c.reg) /\ FieldValues(c.reg) = 0 .. 1
    BY <2>1, <2>2, <2>3, OtherLayout
  <2>5. c.reg \in GroupRegisters[g] \ (Hidden \cup Words)
    BY <1>3, <2>1 DEF GroupRegisters, Hidden, Words, thresh_descs, host_thresh_descs
  <2>6. \E x, y : y # {} /\ c.fields = {x} \X y
    <3>1. b # {}
      BY <2>2
    <3> QED BY <2>2, <3>1
  <2>7. IsMask(g, c)
    BY <2>1, <2>4, <2>5, <2>6 DEF IsMask, FlagRegisters
  <2> QED BY <2>7, MaskAbout
<1>4. CASE g = "coherent"
  <2>1. g \in DOMAIN GroupRegisters /\ CoherentBits \cup FlagRegisters \subseteq GroupRegisters[g]
    BY <1>4 DEF GroupRegisters, FlagRegisters
  <2>2. CASE c \in MaskCalls(CoherentBits)
    <3>1. CoherentBits \subseteq LaneRegisters \ {"ApplyImmediate"} /\ "AdaptiveInputEqEnableTx" \notin CoherentBits
      BY DEF LaneRegisters, CoherentBits
    <3>2. IsMask(g, c)
      BY <2>1, <2>2, <3>1, LaneMaskIs
    <3> QED BY <3>2, MaskAbout
  <2>3. CASE \E r \in FlagRegisters : c \in FlagCalls(r, Fields(r))
    <3>1. PICK r \in FlagRegisters : c \in FlagCalls(r, Fields(r))
      BY <2>3
    <3>2. IsMask(g, c)
      BY <2>1, <3>1, FlagIs
    <3> QED BY <3>2, MaskAbout
  <2> QED BY <1>4, <2>2, <2>3, CallsOfGroups DEF FlagRegisters
<1> QED BY <1>1, <1>2, <1>3, <1>4

\* The lane switch: only a commit triggers, and it asks for nothing else.
LEMMA SwitchCarry ==
  ASSUME NEW c \in CallsOf["switch"], Valid(c), NEW p \in Programs(c)
  PROVE  /\ Carries("switch", c, p)
         /\ \A t \in Parts(p) : t.do = "write" /\ t.reg = "LaneSwitchCommit" => c.op = "commit"
<1> DEFINE g == "switch"
<1>1. /\ g \in DOMAIN GroupRegisters
      /\ {"RedirectionOfLane", "LaneSwitchEnable"} \subseteq GroupRegisters[g] \ Hidden
  BY DEF GroupRegisters, Hidden
<1>2. CASE c \in [op : {"redir"}, lane : {0, 1, NLanes}, redir : {0, 1, 8}]
  <2>1. c.op = "redir"
    BY <1>2
  <2> DEFINE r == "RedirectionOfLane"
             v == All({c.lane}, c.redir)
             w == Write(r, v)
             asked == RequestOf(c)
  <2>2. p = <<w>>
    BY <2>1 DEF Programs, cmis_lane_switch_set_redir
  <2>3. asked = [s \in {<<r, c.lane>>} |-> {c.redir}] /\ v = [f \in {c.lane} |-> c.redir]
    BY <2>1 DEF RequestOf, All
  <2>4. DOMAIN asked = {r} \X DOMAIN v /\ \A f \in DOMAIN v : v[f] \in asked[<<r, f>>]
    BY <2>3
  <2>5. r \in GroupRegisters[g] \ Hidden /\ RequestOf(c) = asked /\ w.reg = r
    BY <1>1 DEF Write
  <2>6. Parts(<<w>>) = {w}
    BY OnePart
  <2>7. r # "LaneSwitchCommit"
    OBVIOUS
  <2> HIDE DEF g, r, v, asked
  <2>8. Carries(g, c, <<Write(r, v)>>)
    BY <2>4, <2>5, WriteCarries
  <2> QED BY <2>2, <2>5, <2>6, <2>7, <2>8 DEF g
<1>3. CASE c \in FlagCalls("LaneSwitchEnable", {0})
  <2>1. {0} \subseteq Fields("LaneSwitchEnable")
    BY SingleLayout DEF Singles
  <2>2. IsMask(g, c)
    BY <1>1, <1>3, <2>1, FlagIs
  <2>3. c.reg = "LaneSwitchEnable"
    BY <1>3, FlagParts
  <2>4. p = Rmw(c.reg, All(c.fields, c.on)) /\ Carries(g, c, p)
    BY <2>2, <2>3, MaskCarries, MaskAbout
  <2>5. \A t \in Parts(p) : t.do = "write" => t.reg = "LaneSwitchEnable"
    BY <2>3, <2>4, RmwParts
  <2> QED BY <2>4, <2>5
<1>4. CASE c = [op |-> "commit"]
  <2>1. c.op = "commit"
    BY <1>4
  <2> DEFINE w == Write("LaneSwitchCommit", All({0}, 1))
  <2>2. p = <<w>> /\ Parts(<<w>>) = {w} /\ w.reg \in Hidden
    BY <2>1, OnePart DEF Programs, cmis_lane_switch_commit, Write, Hidden
  <2>3. RequestOf(c) = <<>>
    BY <2>1 DEF RequestOf
  <2> QED BY <2>1, <2>2, <2>3 DEF Carries, Carry, AsAsked, About
<1>5. CASE c = [op |-> "result"]
  <2>1. c.op = "result"
    BY <1>5
  <2> DEFINE w == Read("LaneSwitchCommit")
  <2>2. p = <<w>> /\ Parts(<<w>>) = {w} /\ w.do = "read"
    BY <2>1, OnePart DEF Programs, Read
  <2>3. RequestOf(c) = <<>>
    BY <2>1 DEF RequestOf
  <2> QED BY <2>2, <2>3 DEF Carries, Carry, AsAsked, About
<1> QED BY <1>2, <1>3, <1>4, <1>5, CallsOfGroups

\* The filter type is written in the place of its lane.
LEMMA FilterCarry ==
  ASSUME NEW c \in CallsOf["filter"], Valid(c), NEW p \in Programs(c)
  PROVE  Carries("filter", c, p)
<1> DEFINE r == "TxFilterType"
           v == All({c.lane}, c.type)
           w == Write(r, v)
           R == Read(r)
           asked == RequestOf(c)
<1>1. c.op = "filter" /\ c.lane \in Lanes
  BY CallsOfGroups DEF Valid
<1>2. TypeAt(c.lane) = c.lane
  BY <1>1, NLanesAssumption DEF NLanesAssumption, Lanes, TypeAt
<1>3. p = Rmw(r, v)
  BY <1>1, <1>2 DEF Programs, cmis_coherent_set_tx_filter_type
<1>4. Parts(p) = {R, w} /\ R.do = "read" /\ w.do = "write" /\ w.reg = r /\ w.val = v
  BY <1>3, RmwParts
<1>5. asked = [s \in {<<r, c.lane>>} |-> {c.type}] /\ v = [f \in {c.lane} |-> c.type]
  BY <1>1 DEF RequestOf, All
<1>6. r \in GroupRegisters["filter"] \ Hidden
  BY DEF GroupRegisters, Hidden
<1> HIDE DEF w, R, r
<1>7. About("filter", asked)
  BY <1>5, <1>6 DEF About
<1>8. Carry({R, w}, asked)
  BY <1>4, <1>5 DEF Carry, AsAsked, Sets
<1> QED BY <1>4, <1>7, <1>8 DEF Carries

\* A transfer that writes nothing that is displayed is part of any program.
LEMMA ReadCarries ==
  ASSUME NEW g, NEW c, NEW r, RequestOf(c) = <<>>
  PROVE  Carries(g, c, <<Read(r)>>)
<1> DEFINE t == Read(r)
<1>1. t.do = "read" /\ Parts(<<t>>) = {t}
  BY OnePart DEF Read
<1> HIDE DEF t
<1>2. Carry({t}, <<>>) /\ About(g, <<>>)
  BY <1>1 DEF Carry, AsAsked, About
<1> QED BY <1>1, <1>2 DEF Carries, t

\* The lanes of a register, all of them set or cleared.
PutOf(r, lanes) == Write(r, [l \in Lanes |-> IF l \in lanes THEN 1 ELSE 0])

\* What overwriting a register does.
LEMMA PutWrites ==
  ASSUME NEW r, NEW lanes
  PROVE  /\ IsSeq(PutLanes(r, lanes)) /\ Parts(PutLanes(r, lanes)) = {PutOf(r, lanes)}
         /\ PutOf(r, lanes).do = "write" /\ PutOf(r, lanes).reg = r
         /\ PutOf(r, lanes).val = [l \in Lanes |-> IF l \in lanes THEN 1 ELSE 0]
<1>1. IsSeq(PutLanes(r, lanes)) /\ Parts(PutLanes(r, lanes)) = {PutOf(r, lanes)}
  BY PutParts DEF PutOf
<1> QED BY <1>1 DEF PutOf, Write

\* A loopback is started on its lanes alone, and all are stopped together.
LEMMA LoopbackCarry ==
  ASSUME NEW c \in CallsOf["loopback"], Valid(c), NEW p \in Programs(c)
  PROVE  Carries("loopback", c, p)
<1> DEFINE g == "loopback"
           asked == RequestOf(c)
<1>1. loopback_modes \subseteq GroupRegisters[g] \ Hidden
  BY DEF GroupRegisters, loopback_modes, Hidden
<1> HIDE DEF g
<1>2. CASE c.op = "loopback_start" /\ c.mode \in loopback_modes
  <2> DEFINE R == Read("LoopbackCaps")
             w == PutOf(c.mode, c.lanes)
  <2>1. p = <<R>> \o PutLanes(c.mode, c.lanes)
    BY <1>2 DEF Programs, cmis_diag_loopback_start
  <2>2. asked = [s \in {c.mode} \X Lanes |-> {IF s[2] \in c.lanes THEN 1 ELSE 0}]
    BY <1>2 DEF RequestOf
  <2>3. /\ IsSeq(PutLanes(c.mode, c.lanes)) /\ Parts(PutLanes(c.mode, c.lanes)) = {w}
        /\ w.do = "write" /\ w.reg = c.mode
        /\ w.val = [l \in Lanes |-> IF l \in c.lanes THEN 1 ELSE 0]
    BY PutWrites
  <2>4. IsSeq(<<R>>) /\ Parts(<<R>>) = {R} /\ R.do = "read"
    BY OnePart DEF Read
  <2> HIDE DEF R, w
  <2>5. Parts(p) = {R} \cup {w}
    BY <2>1, <2>3, <2>4, PartsConcat
  <2>6. About(g, asked)
    BY <1>1, <1>2, <2>2 DEF About
  <2>7. AsAsked(w, asked) /\ AsAsked(R, asked) /\ \A s \in DOMAIN asked : Sets(w, s)
    BY <2>2, <2>3, <2>4 DEF AsAsked, Sets
  <2> QED BY <2>5, <2>6, <2>7 DEF Carries, Carry, g
<1>3. CASE c.op = "loopback_stop"
  <2> DEFINE q(m) == PutLanes(m, {})
  <2>1. p = q("media-output") \o q("media-input") \o q("host-output") \o q("host-input")
    BY <1>3 DEF Programs, cmis_diag_loopback_stop
  <2>2. asked = [s \in loopback_modes \X Lanes |-> {0}]
    BY <1>3 DEF RequestOf
  <2>3. ASSUME NEW m
        PROVE  /\ IsSeq(q(m)) /\ Parts(q(m)) = {PutOf(m, {})}
               /\ PutOf(m, {}).do = "write" /\ PutOf(m, {}).reg = m
               /\ PutOf(m, {}).val = [l \in Lanes |-> 0]
    <3>1. /\ IsSeq(q(m)) /\ Parts(q(m)) = {PutOf(m, {})}
          /\ PutOf(m, {}).do = "write" /\ PutOf(m, {}).reg = m
          /\ PutOf(m, {}).val = [l \in Lanes |-> IF l \in {} THEN 1 ELSE 0]
      BY PutWrites
    <3> QED BY <3>1
  <2> HIDE DEF q, asked
  <2>4. /\ IsSeq(q("media-output") \o q("media-input"))
        /\ Parts(q("media-output") \o q("media-input")) = {PutOf("media-output", {}), PutOf("media-input", {})}
    BY <2>3, PartsConcat
  <2>5. /\ IsSeq(q("media-output") \o q("media-input") \o q("host-output"))
        /\ Parts(q("media-output") \o q("media-input") \o q("host-output"))
             = {PutOf("media-output", {}), PutOf("media-input", {}), PutOf("host-output", {})}
    BY <2>3, <2>4, PartsConcat
  <2>6. Parts(p) = {PutOf(m, {}) : m \in loopback_modes}
    <3>1. Parts(p) = {PutOf("media-output", {}), PutOf("media-input", {}), PutOf("host-output", {}),
                      PutOf("host-input", {})}
      BY <2>1, <2>3, <2>5, PartsConcat
    <3> QED BY <3>1 DEF loopback_modes
  <2>7. About(g, asked)
    BY <1>1, <2>2 DEF About
  <2>8. ASSUME NEW m \in loopback_modes PROVE AsAsked(PutOf(m, {}), asked)
    <3>1. \A l \in Lanes : <<m, l>> \in DOMAIN asked /\ asked[<<m, l>>] = {0}
      BY <2>2
    <3> QED BY <2>3, <3>1 DEF AsAsked
  <2>9. ASSUME NEW s \in DOMAIN asked PROVE s[1] \in loopback_modes /\ Sets(PutOf(s[1], {}), s)
    <3>1. s[1] \in loopback_modes /\ s[2] \in Lanes
      BY <2>2
    <3> QED BY <2>3, <3>1 DEF Sets
  <2> QED BY <2>6, <2>7, <2>8, <2>9 DEF Carries, Carry, g, asked
<1>4. \/ c.op = "loopback_start" /\ c.mode \in loopback_modes
      \/ c.op = "loopback_stop"
  BY CallsOfGroups DEF Valid
<1> QED BY <1>2, <1>3, <1>4

\* The mask of the diagnostics, and the areas that are padded.
LEMMA DiagCarry ==
  ASSUME NEW c \in CallsOf["diag"], Valid(c), NEW p \in Programs(c)
  PROVE  Carries("diag", c, p)
<1> DEFINE g == "diag"
<1>1. /\ g \in DOMAIN GroupRegisters
      /\ {"DiagMask", "Scratchpad", "UserPattern"} \subseteq GroupRegisters[g] \ Hidden
      /\ {"DiagMask"} \subseteq LaneRegisters \ {"ApplyImmediate"}
  BY DEF GroupRegisters, Hidden, LaneRegisters
<1> HIDE DEF g
<1>2. CASE c \in MaskCalls({"DiagMask"})
  <2>1. IsMask(g, c)
    BY <1>1, <1>2, LaneMaskIs
  <2> QED BY <2>1, MaskAbout DEF g
<1>3. CASE c = [op |-> "scratchpad_read"]
  <2>1. c.op = "scratchpad_read"
    BY <1>3
  <2>2. p = <<Read("Scratchpad")>> /\ RequestOf(c) = <<>>
    BY <2>1 DEF Programs, RequestOf
  <2> QED BY <2>2, ReadCarries
<1>4. CASE c \in [op : {"padded"}, reg : {"Scratchpad", "UserPattern"}, data : Texts]
  <2>1. c.op = "padded" /\ c.reg \in {"Scratchpad", "UserPattern"} /\ c.data \in Texts
    BY <1>4
  <2> DEFINE v == Padded(c.data)
             asked == RequestOf(c)
  <2>2. p = <<Write(c.reg, v)>>
    BY <2>1 DEF Programs, PutPadded
  <2>3. asked = [s \in {c.reg} \X (0 .. UserSize - 1) |-> {v[s[2]]}]
    BY <2>1 DEF RequestOf
  <2>4. DOMAIN v = 0 .. UserSize - 1
    BY DEF Padded
  <2>5. c.reg \in GroupRegisters[g] \ Hidden
    BY <1>1, <2>1
  <2> HIDE DEF v
  <2>6. DOMAIN asked = {c.reg} \X DOMAIN v /\ \A f \in DOMAIN v : v[f] \in asked[<<c.reg, f>>]
    BY <2>3, <2>4
  <2>7. RequestOf(c) = asked
    OBVIOUS
  <2> HIDE DEF asked
  <2>8. Carries(g, c, <<Write(c.reg, v)>>)
    BY <2>5, <2>6, <2>7, WriteCarries
  <2> QED BY <2>2, <2>8 DEF g
<1> QED BY <1>2, <1>3, <1>4, CallsOfGroups

\* The writes of the user area of the EEPROM, the only other calls of the module.
LEMMA ModuleCarry ==
  ASSUME NEW c \in CallsOf["module"], Valid(c), NEW p \in Programs(c),
         c.op \notin {"sw_reset", "password_change"}
  PROVE  Carries("module", c, p)
<1> DEFINE g == "module"
<1>1. /\ g \in DOMAIN GroupRegisters
      /\ {"ModuleControl", "ModuleMask", "UserEeprom"} \subseteq GroupRegisters[g] \ Hidden
      /\ {"ModuleMask"} \subseteq LaneRegisters \ {"ApplyImmediate"}
  BY DEF GroupRegisters, Hidden, LaneRegisters
<1> HIDE DEF g
<1>2. CASE c \in MaskCalls({"ModuleMask"})
  <2>1. IsMask(g, c)
    BY <1>1, <1>2, LaneMaskIs
  <2> QED BY <2>1, MaskAbout DEF g
<1>3. CASE c \in FlagCalls("ModuleControl", {"broadcast", "squelch"})
  <2>1. {"broadcast", "squelch"} \subseteq Fields("ModuleControl")
    BY OtherLayout
  <2>2. IsMask(g, c)
    BY <1>1, <1>3, <2>1, FlagIs
  <2> QED BY <2>2, MaskAbout DEF g
<1>4. CASE c \in [op : {"password_entry"}, pw : Passwords]
  <2>1. c.op = "password_entry"
    BY <1>4
  <2> DEFINE w == Write("PasswordEntry", WordOf(c.pw))
  <2>2. p = <<w>> /\ RequestOf(c) = <<>>
    BY <2>1 DEF Programs, cmis_module_password_entry, RequestOf
  <2>3. Parts(<<w>>) = {w} /\ w.reg \in Hidden
    BY OnePart DEF Write, Hidden
  <2> HIDE DEF w
  <2> QED BY <2>2, <2>3 DEF Carries, Carry, AsAsked, About
<1>5. CASE c \in [op : {"eeprom_write"}, offset : -1 .. UserSize, data : Texts]
  <2> DEFINE r == "UserEeprom"
             F == c.offset .. c.offset + Len(c.data) - 1
             v == [f \in F |-> c.data[f - c.offset + 1]]
             asked == RequestOf(c)
  <2>1. c.op = "eeprom_write"
    BY <1>5
  <2>2. p = <<Write(r, v)>>
    BY <2>1 DEF Programs, cmis_user_eeprom_write
  <2>3. asked = [s \in {r} \X F |-> {c.data[s[2] - c.offset + 1]}]
    BY <2>1 DEF RequestOf
  <2>4. r \in GroupRegisters[g] \ Hidden
    BY <1>1
  <2> HIDE DEF F
  <2>5. DOMAIN asked = {r} \X DOMAIN v /\ \A f \in DOMAIN v : v[f] \in asked[<<r, f>>]
    BY <2>3
  <2>6. RequestOf(c) = asked
    OBVIOUS
  <2> HIDE DEF asked, v, r
  <2>7. Carries(g, c, <<Write(r, v)>>)
    BY <2>4, <2>5, <2>6, WriteCarries
  <2> QED BY <2>2, <2>7 DEF g
<1>6. CASE c \in [op : {"eeprom_read"}, offset : {-1, 0, UserSize}, len : {0, 1, UserSize}]
  <2>1. c.op = "eeprom_read"
    BY <1>6
  <2>2. p = <<Read("UserEeprom")>> /\ RequestOf(c) = <<>>
    BY <2>1 DEF Programs, RequestOf
  <2> QED BY <2>2, ReadCarries
<1>7. c # [op |-> "sw_reset"] /\ c \notin [op : {"password_change"}, current : Passwords, new : Passwords]
  OBVIOUS
<1> QED BY <1>2, <1>3, <1>4, <1>5, <1>6, <1>7, CallsOfGroups

\* The parts of the blocks, whatever their order.
LEMMA InOrderParts ==
  ASSUME NEW blocks \in SUBSET Blocks, NEW part, \A b \in Blocks : IsSeq(part[b])
  PROVE  /\ IsSeq(InOrder(blocks, part))
         /\ Parts(InOrder(blocks, part)) = UNION {Parts(part[b]) : b \in blocks}
<1> DEFINE of(b) == IF b \in blocks THEN part[b] ELSE <<>>
<1>1. InOrder(blocks, part) = of("host_gen") \o (of("media_chk") \o (of("host_chk") \o of("media_gen")))
  BY DEF InOrder, BlockOrder
<1>2. ASSUME NEW b \in Blocks
      PROVE  IsSeq(of(b)) /\ Parts(of(b)) = IF b \in blocks THEN Parts(part[b]) ELSE {}
  <2>1. IsSeq(<<>>) /\ Parts(<<>>) = {}
    BY DEF IsSeq, Parts
  <2> QED BY <2>1
<1> HIDE DEF of
<1> DEFINE w == of("host_gen")
           x == of("media_chk")
           y == of("host_chk")
           z == of("media_gen")
<1>3. IsSeq(w) /\ IsSeq(x) /\ IsSeq(y) /\ IsSeq(z)
  BY <1>2 DEF Blocks
<1>4. Parts(w) \cup (Parts(x) \cup (Parts(y) \cup Parts(z))) = UNION {Parts(part[b]) : b \in blocks}
  BY <1>2 DEF Blocks
<1> HIDE DEF w, x, y, z
<1>5. IsSeq(y \o z) /\ Parts(y \o z) = Parts(y) \cup Parts(z)
  BY <1>3, PartsConcat
<1>6. IsSeq(x \o (y \o z)) /\ Parts(x \o (y \o z)) = Parts(x) \cup (Parts(y) \cup Parts(z))
  BY <1>3, <1>5, PartsConcat
<1>7. /\ IsSeq(w \o (x \o (y \o z)))
      /\ Parts(w \o (x \o (y \o z))) = Parts(w) \cup (Parts(x) \cup (Parts(y) \cup Parts(z)))
  BY <1>3, <1>6, PartsConcat
<1> QED BY <1>1, <1>4, <1>7 DEF w, x, y, z

\* A write whose values were asked for, each on its own.
LEMMA AskedWrite ==
  ASSUME NEW t, NEW r, NEW v, NEW asked, t.do = "write", t.reg = r, t.val = v,
         \A f \in DOMAIN v : <<r, f>> \in DOMAIN asked /\ v[f] \in asked[<<r, f>>]
  PROVE  AsAsked(t, asked)
  BY DEF AsAsked

\* A write sets its fields.
LEMMA WriteSets ==
  ASSUME NEW t, NEW r, NEW v, NEW s, t.do = "write", t.reg = r, t.val = v, s[1] = r, s[2] \in DOMAIN v
  PROVE  Sets(t, s)
  BY DEF Sets

\* The writes of a test and of the end of one.
LEMMA BertCarry ==
  ASSUME NEW c \in CallsOf["bert"], NEW p \in Programs(c)
  PROVE  Carries("bert", c, p)
<1> DEFINE g == "bert"
           asked == RequestOf(c)
           M(on) == Write("MeasControl", All({"start", "reset"}, on))
<1>1. /\ "MeasControl" \in GroupRegisters[g] \ Hidden
      /\ \A b \in Blocks : Select[b] \in GroupRegisters[g] \ Hidden /\ Enable[b] \in GroupRegisters[g] \ Hidden
  BY BlockRegisters DEF Hidden, Select, Enable, Blocks
<1>2. ASSUME NEW on
      PROVE  /\ IsSeq(<<M(on)>>) /\ Parts(<<M(on)>>) = {M(on)}
             /\ M(on).do = "write" /\ M(on).reg = "MeasControl"
             /\ M(on).val = [f \in {"start", "reset"} |-> on]
  BY OnePart DEF Write, All
<1>3. Measurement = {"MeasControl"} \X {"start", "reset"}
  BY OtherLayout DEF Measurement
<1> HIDE DEF g, M
<1>4. CASE c.op = "bert_start" /\ c.blocks \subseteq Blocks /\ c.lanes \subseteq Lanes /\ c.pattern \in Patterns
  <2> DEFINE checks == [b \in Blocks |-> diag_validate_pattern(b, c.pattern)]
             parts == [b \in Blocks |-> diag_write_pattern_select(b, c.pattern, c.lanes)
                                         \o PutLanes(Enable[b], c.lanes)]
             C == InOrder(c.blocks, checks)
             P == InOrder(c.blocks, parts)
             A(b) == Advertised(b, c.pattern)
             R(b) == Read(Select[b])
             W(b) == SelectWrite(b, c.pattern, c.lanes)
             E(b) == PutOf(Enable[b], c.lanes)
  <2>1. p = (C \o P) \o <<M(1)>>
    BY <1>4 DEF Programs, cmis_diag_bert_start, M
  <2>2. asked = [s \in {Enable[b] : b \in c.blocks} \X Lanes \cup {Select[b] : b \in c.blocks} \X c.lanes
                        \cup Measurement |->
                  CASE s[1] \in {Enable[b] : b \in c.blocks} -> {IF s[2] \in c.lanes THEN 1 ELSE 0}
                    [] s \in Measurement -> {1}
                    [] OTHER -> {c.pattern}]
    BY <1>4 DEF RequestOf
  <2>3. ASSUME NEW b \in Blocks
        PROVE  IsSeq(checks[b]) /\ Parts(checks[b]) = {A(b)} /\ A(b).do = "check"
    BY OnePart DEF diag_validate_pattern, Advertised
  <2>4. ASSUME NEW b \in Blocks
        PROVE  /\ IsSeq(parts[b]) /\ Parts(parts[b]) = {R(b), W(b), E(b)}
               /\ R(b).do = "read" /\ W(b).do = "write" /\ W(b).reg = Select[b]
               /\ W(b).val = [l \in c.lanes |-> c.pattern]
               /\ E(b).do = "write" /\ E(b).reg = Enable[b]
               /\ E(b).val = [l \in Lanes |-> IF l \in c.lanes THEN 1 ELSE 0]
    <3> DEFINE q == diag_write_pattern_select(b, c.pattern, c.lanes)
               e == PutLanes(Enable[b], c.lanes)
    <3>1. q = <<R(b), W(b)>> /\ R(b).do = "read"
      BY <1>4, SelectProgram DEF Read
    <3>2. IsSeq(<<R(b), W(b)>>) /\ Parts(<<R(b), W(b)>>) = {R(b), W(b)}
      BY TwoParts
    <3>3. /\ W(b).do = "write" /\ W(b).reg = Select[b] /\ W(b).val = [l \in c.lanes |-> c.pattern]
      BY <1>4, SelectTransfer
    <3>4. /\ IsSeq(e) /\ Parts(e) = {E(b)} /\ E(b).do = "write" /\ E(b).reg = Enable[b]
          /\ E(b).val = [l \in Lanes |-> IF l \in c.lanes THEN 1 ELSE 0]
      BY PutWrites
    <3>5. parts[b] = q \o e
      OBVIOUS
    <3> HIDE DEF q, e, R, W, E, parts
    <3>6. IsSeq(parts[b]) /\ Parts(parts[b]) = {R(b), W(b)} \cup {E(b)}
      BY <3>1, <3>2, <3>4, <3>5, PartsConcat
    <3> QED BY <3>1, <3>3, <3>4, <3>6
  <2> HIDE DEF checks, parts, A, R, W, E
  <2>5. IsSeq(C) /\ Parts(C) = UNION {Parts(checks[b]) : b \in c.blocks}
    BY <1>4, <2>3, InOrderParts
  <2>6. IsSeq(P) /\ Parts(P) = UNION {Parts(parts[b]) : b \in c.blocks}
    <3>1. c.blocks \in SUBSET Blocks /\ \A b \in Blocks : IsSeq(parts[b])
      BY <1>4, <2>4
    <3> QED BY <3>1, InOrderParts
  <2> HIDE DEF C, P, asked
  <2>7. IsSeq(C \o P) /\ Parts(C \o P) = Parts(C) \cup Parts(P)
    BY <2>5, <2>6, PartsConcat
  <2>8. Parts(p) = Parts(C) \cup Parts(P) \cup {M(1)}
    <3> DEFINE q == C \o P
               m == <<M(1)>>
    <3>1. IsSeq(q) /\ IsSeq(m) /\ p = q \o m /\ Parts(m) = {M(1)} /\ Parts(q) = Parts(C) \cup Parts(P)
      BY <1>2, <2>1, <2>7
    <3> HIDE DEF q, m
    <3> QED BY <3>1, PartsConcat
  <2>9. ASSUME NEW t \in Parts(C) \cup Parts(P)
        PROVE  \E b \in c.blocks : t \in {A(b), R(b), W(b), E(b)}
    <3>1. PICK b \in c.blocks : t \in Parts(checks[b]) \/ t \in Parts(parts[b])
      BY <2>5, <2>6
    <3>2. Parts(checks[b]) = {A(b)} /\ Parts(parts[b]) = {R(b), W(b), E(b)}
      BY <1>4, <2>3, <2>4
    <3> QED BY <3>1, <3>2
  <2>10. ASSUME NEW b \in c.blocks PROVE W(b) \in Parts(P) /\ E(b) \in Parts(P)
    <3>1. Parts(parts[b]) = {R(b), W(b), E(b)}
      BY <1>4, <2>4
    <3>2. Parts(parts[b]) \subseteq Parts(P)
      BY <2>6
    <3> QED BY <3>1, <3>2
  <2>11. About(g, asked)
    BY <1>1, <1>3, <1>4, <2>2 DEF About
  <2>12. ASSUME NEW b \in c.blocks, NEW l \in Lanes
         PROVE  <<Enable[b], l>> \in DOMAIN asked /\ asked[<<Enable[b], l>>] = {IF l \in c.lanes THEN 1 ELSE 0}
    BY <1>3, <1>4, <2>2, BlocksApart
  <2>13. ASSUME NEW b \in c.blocks, NEW l \in c.lanes
         PROVE  <<Select[b], l>> \in DOMAIN asked /\ asked[<<Select[b], l>>] = {c.pattern}
    <3>1. Select[b] # "MeasControl" /\ Select[b] \notin {Enable[x] : x \in c.blocks}
      BY <1>4, BlocksApart
    <3>2. <<Select[b], l>> \in DOMAIN asked /\ <<Select[b], l>> \notin Measurement
      BY <1>3, <2>2, <3>1
    <3> QED BY <2>2, <3>1, <3>2
  <2>14. ASSUME NEW f \in {"start", "reset"}
         PROVE  <<"MeasControl", f>> \in DOMAIN asked /\ asked[<<"MeasControl", f>>] = {1}
    <3>1. "MeasControl" \notin {Enable[x] : x \in c.blocks} /\ <<"MeasControl", f>> \in Measurement
      BY <1>3, <1>4, BlocksApart
    <3> QED BY <2>2, <3>1
  <2>15. ASSUME NEW b \in c.blocks
         PROVE  AsAsked(A(b), asked) /\ AsAsked(R(b), asked) /\ AsAsked(W(b), asked) /\ AsAsked(E(b), asked)
    <3>1. b \in Blocks
      BY <1>4
    <3>2. AsAsked(A(b), asked) /\ AsAsked(R(b), asked)
      BY <2>3, <2>4, <3>1 DEF AsAsked
    <3> DEFINE vw == [l \in c.lanes |-> c.pattern]
               ve == [l \in Lanes |-> IF l \in c.lanes THEN 1 ELSE 0]
    <3>3. /\ W(b).do = "write" /\ W(b).reg = Select[b] /\ W(b).val = vw
          /\ E(b).do = "write" /\ E(b).reg = Enable[b] /\ E(b).val = ve
      BY <2>4, <3>1
    <3>4. /\ \A f \in DOMAIN vw : <<Select[b], f>> \in DOMAIN asked /\ vw[f] \in asked[<<Select[b], f>>]
          /\ \A f \in DOMAIN ve : <<Enable[b], f>> \in DOMAIN asked /\ ve[f] \in asked[<<Enable[b], f>>]
      BY <2>12, <2>13
    <3> HIDE DEF vw, ve
    <3>5. AsAsked(W(b), asked) /\ AsAsked(E(b), asked)
      BY <3>3, <3>4, AskedWrite
    <3> QED BY <3>2, <3>5
  <2> DEFINE vm == [f \in {"start", "reset"} |-> 1]
  <2>16. M(1).do = "write" /\ M(1).reg = "MeasControl" /\ M(1).val = vm
    BY <1>2
  <2>17. AsAsked(M(1), asked)
    <3>1. \A f \in DOMAIN vm : /\ <<"MeasControl", f>> \in DOMAIN asked
                              /\ vm[f] \in asked[<<"MeasControl", f>>]
      BY <2>14
    <3> HIDE DEF vm
    <3> QED BY <2>16, <3>1, AskedWrite
  <2>18. ASSUME NEW s \in DOMAIN asked PROVE \E t \in Parts(P) \cup {M(1)} : Sets(t, s)
    <3>1. CASE s \in {Enable[b] : b \in c.blocks} \X Lanes
      <4>1. PICK b \in c.blocks : s[1] = Enable[b] /\ s[2] \in Lanes
        BY <3>1
      <4>2. Sets(E(b), s)
        BY <1>4, <2>4, <4>1 DEF Sets
      <4> QED BY <2>10, <4>2
    <3>2. CASE s \in {Select[b] : b \in c.blocks} \X c.lanes
      <4>1. PICK b \in c.blocks : s[1] = Select[b] /\ s[2] \in c.lanes
        BY <3>2
      <4>2. Sets(W(b), s)
        BY <1>4, <2>4, <4>1 DEF Sets
      <4> QED BY <2>10, <4>2
    <3>3. CASE s \in Measurement
      <4>1. s[1] = "MeasControl" /\ s[2] \in {"start", "reset"}
        BY <1>3, <3>3
      <4>2. Sets(M(1), s)
        BY <2>16, <4>1, WriteSets
      <4> QED BY <4>2
    <3> QED BY <2>2, <3>1, <3>2, <3>3
  <2>19. Carry(Parts(p), asked)
    <3>1. \A t \in Parts(p) : AsAsked(t, asked)
      BY <2>8, <2>9, <2>15, <2>17
    <3>2. \A s \in DOMAIN asked : \E t \in Parts(p) : Sets(t, s)
      BY <2>8, <2>18
    <3> QED BY <3>1, <3>2 DEF Carry
  <2> QED BY <2>11, <2>19 DEF Carries, asked, g
<1>5. CASE c.op = "bert_stop"
  <2> DEFINE q(b) == PutLanes(Enable[b], {})
             E(b) == PutOf(Enable[b], {})
  <2>1. p = <<M(0)>> \o q("host_gen") \o q("media_gen") \o q("host_chk") \o q("media_chk")
    BY <1>5 DEF Programs, cmis_diag_bert_stop, M
  <2>2. asked = [s \in {Enable[b] : b \in Blocks} \X Lanes \cup Measurement |-> {0}]
    BY <1>5 DEF RequestOf
  <2>3. ASSUME NEW b
        PROVE  /\ IsSeq(q(b)) /\ Parts(q(b)) = {E(b)} /\ E(b).do = "write" /\ E(b).reg = Enable[b]
               /\ E(b).val = [l \in Lanes |-> 0]
    <3>1. /\ IsSeq(q(b)) /\ Parts(q(b)) = {E(b)} /\ E(b).do = "write" /\ E(b).reg = Enable[b]
          /\ E(b).val = [l \in Lanes |-> IF l \in {} THEN 1 ELSE 0]
      BY PutWrites
    <3> QED BY <3>1
  <2> DEFINE m == <<M(0)>>
  <2>4. IsSeq(m) /\ Parts(m) = {M(0)}
    BY <1>2
  <2> HIDE DEF q, E, asked, m
  <2> DEFINE m1 == m \o q("host_gen")
             m2 == m1 \o q("media_gen")
             m3 == m2 \o q("host_chk")
  <2>5. IsSeq(m1) /\ Parts(m1) = {M(0), E("host_gen")}
    BY <2>3, <2>4, PartsConcat
  <2> HIDE DEF m1
  <2>6. IsSeq(m2) /\ Parts(m2) = {M(0), E("host_gen"), E("media_gen")}
    BY <2>3, <2>5, PartsConcat
  <2> HIDE DEF m2
  <2>7. IsSeq(m3) /\ Parts(m3) = {M(0), E("host_gen"), E("media_gen"), E("host_chk")}
    BY <2>3, <2>6, PartsConcat
  <2> HIDE DEF m3
  <2>8. Parts(p) = {M(0)} \cup {E(b) : b \in Blocks}
    <3>1. p = m3 \o q("media_chk")
      BY <2>1 DEF m, m1, m2, m3
    <3>2. Parts(p) = {M(0), E("host_gen"), E("media_gen"), E("host_chk"), E("media_chk")}
      BY <2>3, <2>7, <3>1, PartsConcat
    <3> QED BY <3>2 DEF Blocks
  <2>9. About(g, asked)
    BY <1>1, <1>3, <2>2 DEF About
  <2> DEFINE v0 == [f \in {"start", "reset"} |-> 0]
  <2>14. M(0).do = "write" /\ M(0).reg = "MeasControl" /\ M(0).val = v0
    BY <1>2
  <2>10. AsAsked(M(0), asked)
    <3>1. \A f \in {"start", "reset"} : <<"MeasControl", f>> \in DOMAIN asked /\ asked[<<"MeasControl", f>>] = {0}
      BY <1>3, <2>2
    <3>2. \A f \in DOMAIN v0 : /\ <<"MeasControl", f>> \in DOMAIN asked
                              /\ v0[f] \in asked[<<"MeasControl", f>>]
      BY <3>1
    <3> HIDE DEF v0
    <3> QED BY <2>14, <3>2, AskedWrite
  <2>11. ASSUME NEW b \in Blocks PROVE AsAsked(E(b), asked)
    <3>1. \A l \in Lanes : <<Enable[b], l>> \in DOMAIN asked /\ asked[<<Enable[b], l>>] = {0}
      BY <2>2
    <3> QED BY <2>3, <3>1 DEF AsAsked
  <2>12. ASSUME NEW s \in DOMAIN asked PROVE \E t \in {M(0)} \cup {E(b) : b \in Blocks} : Sets(t, s)
    <3>1. CASE s \in {Enable[b] : b \in Blocks} \X Lanes
      <4>1. PICK b \in Blocks : s[1] = Enable[b] /\ s[2] \in Lanes
        BY <3>1
      <4>2. Sets(E(b), s)
        BY <2>3, <4>1 DEF Sets
      <4> QED BY <4>2
    <3>2. CASE s \in Measurement
      <4>1. s[1] = "MeasControl" /\ s[2] \in {"start", "reset"}
        BY <1>3, <3>2
      <4>2. Sets(M(0), s)
        BY <2>14, <4>1, WriteSets
      <4> QED BY <4>2
    <3> QED BY <2>2, <3>1, <3>2
  <2>13. Carry(Parts(p), asked)
    BY <2>8, <2>10, <2>11, <2>12 DEF Carry
  <2> QED BY <2>9, <2>13 DEF Carries, asked, g
<1>6. \/ c.op = "bert_start" /\ c.blocks \subseteq Blocks /\ c.lanes \subseteq Lanes /\ c.pattern \in Patterns
      \/ c.op = "bert_stop"
  BY CallsOfGroups, LaneMasksAssumption, BertBlocksAssumption
     DEF LaneMasksAssumption, BertBlocksAssumption, Lanes
<1> QED BY <1>4, <1>5, <1>6

-----------------------------------------------------------------------------
\* What is left to do is what was asked

\* A write of the module controls that neither resets the module nor changes the
\* password.
Untriggered(t) ==
  t.do = "write" =>
    t.reg \notin {"PasswordChange", "Password"} /\ (t.reg = "ModuleControl" => "reset" \notin DOMAIN t.val)

\* The calls of the module but for these two trigger nothing.
LEMMA ModuleTriggers ==
  ASSUME NEW c \in CallsOf["module"], Valid(c), NEW p \in Programs(c),
         c.op \notin {"sw_reset", "password_change"}
  PROVE  \A t \in Parts(p) : Untriggered(t)
<1>1. CASE c \in MaskCalls({"ModuleMask"})
  <2>1. IsMask("module", c) /\ c.reg = "ModuleMask"
    <3>1. /\ "module" \in DOMAIN GroupRegisters /\ {"ModuleMask"} \subseteq GroupRegisters["module"]
          /\ {"ModuleMask"} \subseteq LaneRegisters \ {"ApplyImmediate"}
      BY DEF GroupRegisters, LaneRegisters
    <3> QED BY <1>1, <3>1, LaneMaskIs, MaskParts
  <2>2. p = Rmw(c.reg, All(c.fields, c.on))
    BY <2>1, MaskCarries
  <2> QED BY <2>1, <2>2, RmwParts DEF Untriggered
<1>2. CASE c \in FlagCalls("ModuleControl", {"broadcast", "squelch"})
  <2>1. IsMask("module", c) /\ c.reg = "ModuleControl" /\ "reset" \notin c.fields
    <3>1. /\ "module" \in DOMAIN GroupRegisters /\ "ModuleControl" \in GroupRegisters["module"]
          /\ {"broadcast", "squelch"} \subseteq Fields("ModuleControl")
      BY OtherLayout DEF GroupRegisters
    <3> QED BY <1>2, <3>1, FlagIs, FlagParts
  <2>2. p = Rmw(c.reg, All(c.fields, c.on))
    BY <2>1, MaskCarries
  <2>3. DOMAIN All(c.fields, c.on) = c.fields
    BY DEF All
  <2> QED BY <2>1, <2>2, <2>3, RmwParts DEF Untriggered
<1>3. CASE c \in [op : {"password_entry"}, pw : Passwords]
  <2>1. p = <<Write("PasswordEntry", WordOf(c.pw))>>
    BY <1>3 DEF Programs, cmis_module_password_entry
  <2> QED BY <2>1, OnePart DEF Untriggered, Write
<1>4. CASE c \in [op : {"eeprom_write"}, offset : -1 .. UserSize, data : Texts]
  <2> DEFINE v == [f \in c.offset .. c.offset + Len(c.data) - 1 |-> c.data[f - c.offset + 1]]
  <2>1. p = <<Write("UserEeprom", v)>>
    BY <1>4 DEF Programs, cmis_user_eeprom_write
  <2> HIDE DEF v
  <2> QED BY <2>1, OnePart DEF Untriggered, Write
<1>5. CASE c \in [op : {"eeprom_read"}, offset : {-1, 0, UserSize}, len : {0, 1, UserSize}]
  <2>1. p = <<Read("UserEeprom")>>
    BY <1>5 DEF Programs
  <2> QED BY <2>1, OnePart DEF Untriggered, Read
<1>6. c # [op |-> "sw_reset"] /\ c \notin [op : {"password_change"}, current : Passwords, new : Passwords]
  OBVIOUS
<1> QED BY <1>1, <1>2, <1>3, <1>4, <1>5, <1>6, CallsOfGroups

\* The groups whose registers hold the settings as they were asked, but for the
\* module, where passwords change and resets happen.
PlainGroups ==
  {"direct", "staged", "network", "tuning", "switch", "coherent", "filter", "bert", "loopback", "diag"}

\* The programs of all plain groups carry what their calls ask for.
LEMMA PlainCarry ==
  ASSUME NEW g \in PlainGroups, NEW c \in CallsOf[g], Valid(c), NEW p \in Programs(c)
  PROVE  Carries(g, c, p)
<1>1. CASE g = "staged"
  <2>1. /\ Carry(Parts(p), RequestOf(c))
        /\ DOMAIN RequestOf(c) \subseteq (StagedBits \cup StagedTargets) \X Lanes
    BY <1>1, StagedCarry
  <2>2. StagedBits \cup StagedTargets \subseteq GroupRegisters[g] \ Hidden
    BY <1>1 DEF GroupRegisters, Hidden, StagedBits, StagedTargets
  <2>3. About(g, RequestOf(c))
    BY <2>1, <2>2 DEF About
  <2> QED BY <2>1, <2>3 DEF Carries
<1>2. CASE g \in {"direct", "network", "tuning", "coherent"}
  BY <1>2, DirectCarry
<1>3. CASE g = "switch"
  BY <1>3, SwitchCarry
<1>4. CASE g = "filter"
  BY <1>4, FilterCarry
<1>5. CASE g = "bert"
  BY <1>5, BertCarry
<1>6. CASE g = "loopback"
  BY <1>6, LoopbackCarry
<1>7. CASE g = "diag"
  BY <1>7, DiagCarry
<1> QED BY <1>1, <1>2, <1>3, <1>4, <1>5, <1>6, <1>7 DEF PlainGroups

\* The calls that change nothing but what they ask for, one field after the other.
Plain(g, c) == g \in PlainGroups \/ (g = "module" /\ c.op \notin {"sw_reset", "password_change"})

\* The module is not left in its reset.
ResetInv == group = "module" => reg["ModuleControl"]["reset"] = 0

\* Every write still to come makes what was asked, and what is not in the
\* registers yet is still to come.
WorkLeft ==
  /\ \A i \in DOMAIN prog : AsAsked(prog[i], RequestOf(call))
  /\ \A s \in DOMAIN RequestOf(call) :
       /\ s = <<s[1], s[2]>> /\ s[1] \in GroupRegisters[group] \ Hidden /\ s[2] \in Fields(s[1])
       /\ reg[s[1]][s[2]] \in RequestOf(call)[s] \/ \E i \in DOMAIN prog : Sets(prog[i], s)

\* The inductive invariant of the calls that are plain.
WorkInv ==
  ret = "none" /\ Plain(group, call) =>
    /\ WorkLeft
    /\ group = "staged" => Applies(prog, RequestOf(call))
    /\ group = "switch" =>
         \A i \in DOMAIN prog :
           prog[i].do = "write" /\ prog[i].reg = "LaneSwitchCommit" => call.op = "commit"
    /\ group = "module" => \A i \in DOMAIN prog : Untriggered(prog[i])

\* No call of a plain group resets the module or changes the password.
LEMMA PlainCallsAre ==
  ASSUME NEW g \in PlainGroups, NEW c \in CallsOf[g]
  PROVE  c.op \notin {"password_change", "sw_reset"}
<1>1. CASE g \in {"direct", "network", "tuning", "filter"}
  BY <1>1, CallsOfGroups, MaskParts
<1>2. CASE g = "staged"
  BY <1>2, CallsOfGroups, MaskParts
<1>3. CASE g = "switch"
  <2>1. c \in FlagCalls("LaneSwitchEnable", {0}) => c.op = "mask"
    BY FlagParts
  <2> QED BY <1>3, <2>1, CallsOfGroups
<1>4. CASE g = "coherent"
  <2>1. \A r, flags : c \in FlagCalls(r, flags) => c.op = "mask"
    BY FlagParts
  <2> QED BY <1>4, <2>1, CallsOfGroups, MaskParts
<1>5. CASE g \in {"bert", "loopback"}
  BY <1>5, CallsOfGroups
<1>6. CASE g = "diag"
  BY <1>6, CallsOfGroups, MaskParts
<1> QED BY <1>1, <1>2, <1>3, <1>4, <1>5, <1>6 DEF PlainGroups

\* A call that begins has all of its work left.
LEMMA WorkCall ==
  ASSUME RegistersInv, Call, Plain(group', call'), ret' = "none"
  PROVE  WorkInv'
<1>1. PICK c \in CallsOf[group] :
        /\ call' = IF c.op = "password_change"
                   THEN [op |-> c.op, current |-> c.current, new |-> c.new,
                         right |-> WordOf(c.current) = reg["Password"]]
                   ELSE c
        /\ Valid(c) /\ prog' \in Programs(c)
  BY DEF Call
<1>2. UNCHANGED <<group, reg>> /\ call' = c /\ Plain(group, c)
  <2>1. UNCHANGED <<group, reg>>
    BY DEF Call
  <2>2. c.op # "password_change"
    <3>1. CASE group \in PlainGroups
      BY <3>1, PlainCallsAre
    <3>2. CASE group = "module" /\ call'.op # "password_change"
      BY <1>1, <3>2
    <3> QED BY <2>1, <3>1, <3>2 DEF Plain
  <2> QED BY <1>1, <2>1, <2>2
<1>3. group \in DOMAIN GroupRegisters
  BY GroupsAssumption DEF GroupsAssumption, RegistersInv, TypeOK
<1>4. Carries(group, c, prog') /\ IsProgram(group, prog')
  BY <1>1, <1>2, <1>3, PlainCarry, ModuleCarry, ProgramsAreFramed DEF Plain
<1>5. prog' \in Seq(Transfers(group))
  BY <1>4 DEF IsProgram
<1>6. /\ \A i \in DOMAIN prog' : AsAsked(prog'[i], RequestOf(c))
      /\ \A s \in DOMAIN RequestOf(c) : \E i \in DOMAIN prog' : Sets(prog'[i], s)
      /\ About(group, RequestOf(c))
  BY <1>4 DEF Carries, Carry, Parts
<1>7. ASSUME NEW i \in DOMAIN prog', NEW s, Sets(prog'[i], s) PROVE s[2] \in Fields(s[1])
  <2>1. prog'[i] \in Transfers(group)
    BY <1>5, LenProperties, ElementOfSeq
  <2>2. prog'[i].do = "write" /\ prog'[i].reg = s[1] /\ s[2] \in DOMAIN prog'[i].val
    BY <1>7 DEF Sets
  <2> QED BY <1>3, <2>1, <2>2, TransferParts
<1>8. WorkLeft'
  BY <1>2, <1>6, <1>7 DEF WorkLeft, About
<1>9. group = "staged" => Applies(prog', RequestOf(c))
  BY <1>1, StagedCarry
<1>10. ASSUME group = "switch"
       PROVE  \A i \in DOMAIN prog' :
                prog'[i].do = "write" /\ prog'[i].reg = "LaneSwitchCommit" => c.op = "commit"
  BY <1>1, <1>10, SwitchCarry DEF Parts
<1>11. ASSUME group = "module" PROVE \A i \in DOMAIN prog' : Untriggered(prog'[i])
  <2>1. c.op \notin {"sw_reset", "password_change"}
    BY <1>2, <1>11 DEF Plain, PlainGroups
  <2> QED BY <1>1, <1>11, <2>1, ModuleTriggers DEF Parts
<1> QED BY <1>2, <1>8, <1>9, <1>10, <1>11 DEF WorkInv

\* What is left of a program that applies still does, until nothing is left.
LEMMA AppliesTail ==
  ASSUME NEW S, NEW p \in Seq(S), NEW asked, Applies(p, asked), Tail(p) # <<>>
  PROVE  Applies(Tail(p), asked)
<1> DEFINE q == Tail(p)
<1>1. p # <<>>
  BY DEF Applies
<1>2. /\ q \in Seq(S) /\ Len(q) = Len(p) - 1 /\ \A i \in 1 .. Len(q) : q[i] = p[i + 1]
  BY <1>1, HeadTailProperties
<1>3. Len(q) \in Nat /\ Len(q) > 0 /\ Len(p) = Len(q) + 1
  BY <1>2, EmptySeq, LenProperties
<1> HIDE DEF q
<1>4. q[Len(q)] = p[Len(p)]
  BY <1>2, <1>3
<1>5. \A i \in 1 .. Len(q) - 1 : q[i].do = "write" => q[i].reg # "ApplyImmediate"
  <2> TAKE i \in 1 .. Len(q) - 1
  <2>1. q[i] = p[i + 1] /\ i + 1 \in 1 .. Len(p) - 1
    BY <1>2, <1>3
  <2> QED BY <2>1 DEF Applies
<1>6. q # <<>>
  BY DEF q
<1>7. Applies(q, asked)
  BY <1>4, <1>5, <1>6 DEF Applies
<1> QED BY <1>7 DEF q

\* A step that does its part leaves the rest of the work.
LEMMA WorkTail ==
  ASSUME RegistersInv, WorkInv, ret = "none", Plain(group, call), Continue, ret' = "none",
         UNCHANGED <<group, call>>,
         \A s \in DOMAIN RequestOf(call) :
           reg[s[1]][s[2]] \in RequestOf(call)[s] \/ Sets(prog[1], s)
             => reg'[s[1]][s[2]] \in RequestOf(call)[s]
  PROVE  WorkInv'
<1>1. prog \in Seq(Transfers(group)) /\ prog # <<>> /\ prog' = Tail(prog) /\ prog' # <<>>
  BY DEF RegistersInv, TypeOK, Continue
<1>2. \A i \in DOMAIN prog' : i + 1 \in DOMAIN prog /\ prog'[i] = prog[i + 1]
  BY <1>1, HeadAndTail
<1>3. \A i \in DOMAIN prog : i = 1 \/ (i - 1 \in DOMAIN prog' /\ prog'[i - 1] = prog[i])
  <2> TAKE i \in DOMAIN prog
  <2>1. /\ prog' \in Seq(Transfers(group)) /\ Len(prog') = Len(prog) - 1
        /\ \A j \in 1 .. Len(prog') : prog'[j] = prog[j + 1]
    BY <1>1, HeadTailProperties
  <2>2. Len(prog) \in Nat /\ DOMAIN prog = 1 .. Len(prog) /\ DOMAIN prog' = 1 .. Len(prog')
    BY <1>1, <2>1, LenProperties
  <2>3. CASE i # 1
    <3>1. i - 1 \in 1 .. Len(prog') /\ (i - 1) + 1 = i
      BY <2>1, <2>2, <2>3
    <3> QED BY <2>1, <2>2, <3>1
  <2> QED BY <2>3
<1>4. WorkLeft
  BY DEF WorkInv
<1>5. WorkLeft'
  <2>1. \A i \in DOMAIN prog' : AsAsked(prog'[i], RequestOf(call))
    BY <1>2, <1>4 DEF WorkLeft
  <2>2. ASSUME NEW s \in DOMAIN RequestOf(call)
        PROVE  /\ s = <<s[1], s[2]>> /\ s[1] \in GroupRegisters[group] \ Hidden /\ s[2] \in Fields(s[1])
               /\ \/ reg'[s[1]][s[2]] \in RequestOf(call)[s]
                  \/ \E i \in DOMAIN prog' : Sets(prog'[i], s)
    <3>1. /\ s = <<s[1], s[2]>> /\ s[1] \in GroupRegisters[group] \ Hidden /\ s[2] \in Fields(s[1])
          /\ \/ reg[s[1]][s[2]] \in RequestOf(call)[s]
             \/ \E i \in DOMAIN prog : Sets(prog[i], s)
      BY <1>4 DEF WorkLeft
    <3>2. CASE \E i \in DOMAIN prog : Sets(prog[i], s)
      <4>1. PICK i \in DOMAIN prog : Sets(prog[i], s)
        BY <3>2
      <4>2. CASE i = 1
        BY <3>1, <4>1, <4>2
      <4>3. CASE i - 1 \in DOMAIN prog' /\ prog'[i - 1] = prog[i]
        BY <3>1, <4>1, <4>3
      <4> QED BY <1>3, <4>2, <4>3
    <3>3. CASE reg[s[1]][s[2]] \in RequestOf(call)[s]
      BY <3>1, <3>3
    <3> QED BY <3>1, <3>2, <3>3
  <2> QED BY <2>1, <2>2 DEF WorkLeft
<1>6. group = "staged" => Applies(prog', RequestOf(call))
  BY <1>1, AppliesTail DEF WorkInv
<1>7. group = "switch" =>
        \A i \in DOMAIN prog' :
          prog'[i].do = "write" /\ prog'[i].reg = "LaneSwitchCommit" => call.op = "commit"
  BY <1>2 DEF WorkInv
<1>8. group = "module" => \A i \in DOMAIN prog' : Untriggered(prog'[i])
  BY <1>2 DEF WorkInv
<1> QED BY <1>5, <1>6, <1>7, <1>8 DEF WorkInv

\* A register that is displayed keeps what is written to it, unless the write
\* resets the module or changes its password.
LEMMA PlainObeyed ==
  ASSUME NEW r, NEW regs, NEW q \in DOMAIN regs, q \notin Hidden, r # "PasswordChange",
         r = "ModuleControl" => regs[r]["reset"] # 1
  PROVE  Obeyed(r, regs)[q] = regs[q]
<1>1. CASE r \in {"ApplyImmediate", "LaneSwitchCommit"}
  <2>1. Obeyed(r, regs) = [regs EXCEPT ![r] = [f \in Fields(r) |-> 0]]
    BY <1>1 DEF Obeyed
  <2>2. q # r
    BY <1>1 DEF Hidden
  <2> QED BY <2>1, <2>2
<1>2. CASE r \notin {"ApplyImmediate", "LaneSwitchCommit"}
  BY <1>2 DEF Obeyed
<1> QED BY <1>1, <1>2

\* What a write that is due does, with the registers as they are when some of its
\* bytes are stored: of the fields, those of the write may change.
Stores(w, regs, whole) ==
  /\ DOMAIN regs = DOMAIN reg /\ Typed(group, regs)
  /\ \A q \in DOMAIN reg : q # w.reg => regs[q] = reg[q]
  /\ \A f \in Fields(w.reg) :
       regs[w.reg][f] = reg[w.reg][f] \/ (f \in DOMAIN w.val /\ regs[w.reg][f] = w.val[f])
  /\ whole => \A f \in DOMAIN w.val : regs[w.reg][f] = w.val[f]
  /\ w.reg = "ModuleControl" /\ ~whole => regs[w.reg]["reset"] = reg[w.reg]["reset"]
  /\ reg' = IF whole THEN Obeyed(w.reg, regs) ELSE regs
  /\ active' = IF whole THEN InForce(w.reg, regs) ELSE active
  /\ (whole /\ Continue) \/ Leave

\* The module controls are one byte, which is written whole or not at all.
LEMMA OneByteWhole ==
  ASSUME NEW g \in DOMAIN GroupRegisters, NEW w \in Transfers(g), w.do = "write", w.reg = "ModuleControl",
         w.reg \in DOMAIN reg, NEW n \in 0 .. Cardinality(w.span), n # Cardinality(w.span)
  PROVE  Stored(w, n)[w.reg]["reset"] = reg[w.reg]["reset"]
<1> DEFINE done == {b \in w.span : Cardinality({x \in w.span : x < b}) < n}
<1>1. Bytes("ModuleControl") = <<{"reset", "broadcast", "squelch"}>>
  BY DEF Bytes, Nibbles, StagedTargets, Select, Blocks, Words, thresh_descs, host_thresh_descs
<1>2. w.span \subseteq {1}
  BY <1>1, TransferParts
<1>3. Cardinality({}) = 0 /\ Cardinality({1}) = 1
  BY FS_EmptySet, FS_Singleton
<1>4. w.span = {} \/ w.span = {1}
  BY <1>2
<1>5. n = 0
  BY <1>3, <1>4
<1>6. done = {}
  <2>1. ASSUME NEW b \in w.span PROVE {x \in w.span : x < b} = {}
    BY <1>2
  <2> QED BY <1>3, <1>5, <2>1
<1>7. "reset" \in Fields(w.reg)
  BY OtherLayout
<1>8. BytesOf(w.reg, {"reset"}) # {}
  BY <1>1 DEF BytesOf
<1>9. Stored(w, n)[w.reg] =
        [f \in Fields(w.reg) |->
           IF BytesOf(w.reg, {f}) \subseteq done
           THEN IF f \in DOMAIN w.val THEN w.val[f] ELSE buf[f]
           ELSE reg[w.reg][f]]
  BY DEF Stored
<1> HIDE DEF done
<1> QED BY <1>6, <1>7, <1>8, <1>9

\* A write that is due stores some of its bytes, and all of them before the program goes on.
LEMMA WriteDue ==
  ASSUME RegistersInv, WriteStep
  PROVE  /\ Head(prog) = prog[1] /\ 1 \in DOMAIN prog
         /\ prog[1].do = "write" /\ prog[1].reg \in DOMAIN reg /\ DOMAIN reg = GroupRegisters[group]
         /\ DOMAIN prog[1].val \subseteq Fields(prog[1].reg)
         /\ \E regs, whole : Stores(prog[1], regs, whole)
<1> DEFINE w == Head(prog)
<1>1. ret = "none" /\ w.do = "write"
  BY DEF WriteStep, Due
<1>2. PICK n \in 0 .. Cardinality(w.span) :
        /\ reg' = IF n = Cardinality(w.span) THEN Obeyed(w.reg, Stored(w, n)) ELSE Stored(w, n)
        /\ active' = IF n = Cardinality(w.span) THEN InForce(w.reg, Stored(w, n)) ELSE active
        /\ (n = Cardinality(w.span) /\ Continue) \/ Leave
  BY DEF WriteStep
<1>3. prog # <<>> /\ prog \in Seq(Transfers(group)) /\ group \in DOMAIN GroupRegisters
  BY <1>1, GroupsAssumption DEF GroupsAssumption, RegistersInv, TypeOK
<1>4. w = prog[1] /\ w \in Transfers(group) /\ 1 \in DOMAIN prog
  BY <1>3, HeadAndTail
<1>5. DOMAIN reg = GroupRegisters[group] /\ Typed(group, reg)
  BY DEF RegistersInv, TypeOK, Typed
<1> HIDE DEF w
<1>6. /\ w.reg \in DOMAIN reg /\ DOMAIN w.val \subseteq Fields(w.reg)
      /\ Covers(w) /\ (Complete(w) \/ buf = reg[w.reg])
  <2>1. w.reg \in DOMAIN reg /\ DOMAIN w.val \subseteq Fields(w.reg)
    BY <1>1, <1>3, <1>4, <1>5, TransferParts
  <2>2. Covers(w) /\ (Complete(w) \/ buf = reg[w.reg])
    BY <1>1, <1>4 DEF RegistersInv, Ready
  <2> QED BY <2>1, <2>2
<1> DEFINE regs == Stored(w, n)
           whole == n = Cardinality(w.span)
<1>7. n \in 0 .. Cardinality(w.span)
  BY <1>2
<1>8. /\ DOMAIN regs = DOMAIN reg
      /\ \A q \in DOMAIN reg : q # w.reg => regs[q] = reg[q]
      /\ \A f \in Fields(w.reg) :
           regs[w.reg][f] = reg[w.reg][f] \/ (f \in DOMAIN w.val /\ regs[w.reg][f] = w.val[f])
      /\ whole => \A f \in DOMAIN w.val : regs[w.reg][f] = w.val[f]
  BY <1>1, <1>3, <1>4, <1>6, <1>7, StoredFields
<1>9. /\ Typed(group, regs)
      /\ w.reg = "ModuleControl" /\ ~whole => regs[w.reg]["reset"] = reg[w.reg]["reset"]
  BY <1>1, <1>3, <1>4, <1>5, <1>6, <1>7, StoredTyped, OneByteWhole
<1>10. Stores(w, regs, whole)
  <2>1. /\ reg' = IF whole THEN Obeyed(w.reg, regs) ELSE regs
        /\ active' = IF whole THEN InForce(w.reg, regs) ELSE active
        /\ (whole /\ Continue) \/ Leave
    BY <1>2
  <2> HIDE DEF regs, whole
  <2> QED BY <1>8, <1>9, <2>1 DEF Stores
<1>11. \E x, y : Stores(w, x, y)
  <2> HIDE DEF regs, whole
  <2> QED BY <1>10
<1>12. w = Head(prog)
  BY DEF w
<1> QED BY <1>1, <1>4, <1>5, <1>6, <1>11, <1>12

\* No step leaves the module in its reset.
LEMMA ResetStep ==
  ASSUME RegistersInv, ResetInv, [Next]_vars
  PROVE  ResetInv'
<1> DEFINE m == "ModuleControl"
<1>1. CASE Call \/ ReadStep \/ CheckStep \/ UNCHANGED vars
  BY <1>1 DEF Call, ReadStep, CheckStep, vars, ResetInv
<1>2. CASE WriteStep /\ group = "module"
  <2>1. PICK regs, whole : Stores(prog[1], regs, whole)
    BY <1>2, WriteDue
  <2> DEFINE r == prog[1].reg
  <2>2. m \in GroupRegisters[group]
    BY <1>2 DEF GroupRegisters
  <2>3. r \in DOMAIN reg /\ DOMAIN reg = GroupRegisters[group]
    BY <1>2, WriteDue
  <2>4. /\ m \in DOMAIN regs /\ regs[m] \in [Fields(m) -> FieldValues(m)]
        /\ r # m => regs[m] = reg[m]
        /\ r = m /\ ~whole => regs[m]["reset"] = reg[m]["reset"]
        /\ reg' = IF whole THEN Obeyed(r, regs) ELSE regs
    BY <2>1, <2>2, <2>3 DEF Stores, Typed
  <2>5. reg[m]["reset"] = 0
    BY <1>2 DEF ResetInv
  <2>6. "reset" \in Fields(m) /\ regs[m]["reset"] \in {0, 1}
    BY <2>4, OtherLayout
  <2>7. CASE r = m /\ regs[m]["reset"] = 1 /\ whole
    <3>1. Obeyed(r, regs) = [q \in DOMAIN regs |->
              IF q \in {"UserEeprom", "Password"} THEN regs[q] ELSE [f \in Fields(q) |-> 0]]
      BY <2>7 DEF Obeyed
    <3> QED BY <2>4, <2>6, <2>7, <3>1 DEF ResetInv
  <2>8. CASE r = m /\ regs[m]["reset"] = 0 /\ whole
    <3>1. Obeyed(r, regs) = regs
      BY <2>8 DEF Obeyed
    <3> QED BY <2>4, <2>8, <3>1 DEF ResetInv
  <2>9. CASE r # m /\ whole
    <3>1. CASE r \in {"ApplyImmediate", "LaneSwitchCommit"}
      <4>1. Obeyed(r, regs) = [regs EXCEPT ![r] = [f \in Fields(r) |-> 0]]
        BY <3>1 DEF Obeyed
      <4> QED BY <2>4, <2>5, <2>9, <4>1 DEF ResetInv
    <3>2. CASE r = "PasswordChange"
      <4>1. Obeyed(r, regs) \in {regs, [regs EXCEPT !["Password"] = regs[r]]}
        BY <3>2 DEF Obeyed
      <4> QED BY <2>4, <2>5, <2>9, <4>1 DEF ResetInv
    <3>3. CASE r \notin {"ApplyImmediate", "LaneSwitchCommit", "PasswordChange"}
      <4>1. Obeyed(r, regs) = regs
        BY <2>9, <3>3 DEF Obeyed
      <4> QED BY <2>4, <2>5, <2>9, <4>1 DEF ResetInv
    <3> QED BY <3>1, <3>2, <3>3
  <2>10. CASE ~whole
    BY <2>4, <2>5, <2>10 DEF ResetInv
  <2> QED BY <2>6, <2>7, <2>8, <2>9, <2>10
<1>3. CASE WriteStep /\ group # "module"
  BY <1>3 DEF WriteStep, ResetInv
<1> QED BY <1>1, <1>2, <1>3 DEF Next

\* What a plain call has written to a displayed register stays there.
LEMMA PlainKeeps ==
  ASSUME RegistersInv, ResetInv, WorkInv, WriteStep, Plain(group, call),
         NEW regs, NEW whole, Stores(prog[1], regs, whole), NEW q \in DOMAIN reg, q \notin Hidden
  PROVE  reg'[q] = regs[q]
<1> DEFINE r == prog[1].reg
<1>1. ret = "none" /\ 1 \in DOMAIN prog /\ prog[1].do = "write" /\ r \in GroupRegisters[group]
  BY WriteDue DEF WriteStep, Due
<1>2. CASE group \in PlainGroups
  <2>1. r \notin {"ModuleControl", "PasswordChange"}
    BY <1>1, <1>2 DEF PlainGroups, GroupRegisters, DirectControls, StagedBits, StagedTargets, NetworkBits,
         CoherentBits, Blocks, Select, Enable, loopback_modes
  <2> HIDE DEF r
  <2>2. Obeyed(r, regs)[q] = regs[q]
    BY <2>1, PlainObeyed DEF Stores
  <2> QED BY <2>2 DEF Stores, r
<1>3. CASE group = "module"
  <2>1. Untriggered(prog[1])
    BY <1>1, <1>3 DEF WorkInv
  <2>2. r = "ModuleControl" => regs[r]["reset"] = 0
    <3>1. SUFFICES ASSUME r = "ModuleControl" PROVE regs[r]["reset"] = 0
      OBVIOUS
    <3>2. "reset" \notin DOMAIN prog[1].val /\ "reset" \in Fields(r)
      BY <1>1, <2>1, <3>1, OtherLayout DEF Untriggered
    <3> QED BY <1>3, <3>1, <3>2 DEF Stores, ResetInv
  <2>3. r # "PasswordChange"
    BY <1>1, <2>1 DEF Untriggered
  <2> HIDE DEF r
  <2>4. Obeyed(r, regs)[q] = regs[q]
    BY <2>2, <2>3, PlainObeyed DEF Stores
  <2> QED BY <2>4 DEF Stores, r
<1> QED BY <1>2, <1>3 DEF Plain

\* A write that is due of what was asked.
LEMMA WorkWrite ==
  ASSUME RegistersInv, ResetInv, WorkInv, WriteStep, Plain(group, call), ret' = "none"
  PROVE  WorkInv'
<1>1. PICK regs, whole : Stores(prog[1], regs, whole)
  BY WriteDue
<1> DEFINE w == prog[1]
<1>2. /\ w.do = "write" /\ w.reg \in DOMAIN reg /\ DOMAIN reg = GroupRegisters[group]
      /\ DOMAIN w.val \subseteq Fields(w.reg) /\ 1 \in DOMAIN prog
  BY WriteDue
<1>3. ret = "none" /\ UNCHANGED <<group, call>>
  BY DEF WriteStep, Due
<1>4. whole /\ Continue
  BY <1>1 DEF Stores, Leave
<1>5. WorkLeft
  BY <1>3 DEF WorkInv
<1> HIDE DEF w
<1>6. ASSUME NEW s \in DOMAIN RequestOf(call),
             reg[s[1]][s[2]] \in RequestOf(call)[s] \/ Sets(w, s)
      PROVE  reg'[s[1]][s[2]] \in RequestOf(call)[s]
  <2>1. s = <<s[1], s[2]>> /\ s[1] \in GroupRegisters[group] \ Hidden /\ s[2] \in Fields(s[1])
    BY <1>5 DEF WorkLeft
  <2>2. Stores(w, regs, whole)
    BY <1>1 DEF w
  <2>3. reg'[s[1]] = regs[s[1]]
    BY <1>1, <1>2, <2>1, PlainKeeps
  <2>4. s[1] = w.reg /\ s[2] \in DOMAIN w.val => w.val[s[2]] \in RequestOf(call)[s]
    <3>1. AsAsked(w, RequestOf(call))
      BY <1>2, <1>5 DEF WorkLeft, w
    <3> QED BY <1>2, <2>1, <3>1 DEF AsAsked
  <2>5. CASE s[1] = w.reg /\ s[2] \in DOMAIN w.val
    BY <1>4, <2>2, <2>3, <2>4, <2>5 DEF Stores
  <2>6. CASE s[1] = w.reg /\ s[2] \notin DOMAIN w.val
    BY <1>6, <2>1, <2>2, <2>3, <2>6 DEF Stores, Sets
  <2>7. CASE s[1] # w.reg
    BY <1>2, <1>6, <2>1, <2>2, <2>3, <2>7 DEF Stores, Sets
  <2> QED BY <2>5, <2>6, <2>7
<1> QED BY <1>3, <1>4, <1>6, WorkTail DEF w

\* Every step keeps the work that is left.
LEMMA WorkStep ==
  ASSUME RegistersInv, ResetInv, WorkInv, [Next]_vars
  PROVE  WorkInv'
<1> SUFFICES ASSUME ret' = "none", Plain(group', call') PROVE WorkInv'
  BY DEF WorkInv
<1>1. Call \/ Plain(group, call)
  BY DEF Next, vars, ReadStep, CheckStep, WriteStep
<1>2. CASE Call
  BY <1>2, WorkCall
<1>3. CASE ReadStep \/ CheckStep
  <2>0. Plain(group, call)
    BY <1>3 DEF ReadStep, CheckStep
  <2>1. /\ ret = "none" /\ UNCHANGED <<group, reg, call>> /\ Head(prog).do \in {"read", "check"}
    BY <1>3 DEF ReadStep, CheckStep, Due
  <2>2. Continue
    BY <1>3 DEF ReadStep, CheckStep, Leave
  <2>3. prog # <<>> /\ prog \in Seq(Transfers(group))
    BY <2>1 DEF RegistersInv, TypeOK
  <2>4. Head(prog) = prog[1]
    BY <2>3, HeadAndTail
  <2>5. \A s : ~Sets(prog[1], s)
    BY <2>1, <2>4 DEF Sets
  <2> QED BY <2>0, <2>1, <2>2, <2>5, WorkTail
<1>4. CASE WriteStep
  <2>1. Plain(group, call)
    BY <1>4 DEF WriteStep
  <2> QED BY <1>4, <2>1, WorkWrite
<1>5. CASE UNCHANGED vars
  BY <1>5 DEF vars, WorkInv, WorkLeft
<1> QED BY <1>2, <1>3, <1>4, <1>5 DEF Next

\* A software reset ends, and the register that asked for it is cleared with the
\* others, so that no later write of its byte asks for another one.
THEOREM ResetInvariant == Spec => []ResetInv
<1>1. Init => ResetInv
  BY OtherLayout DEF Init, ResetInv, GroupRegisters
<1>2. RegistersInv /\ ResetInv /\ [Next]_vars => ResetInv'
  BY ResetStep
<1> QED BY <1>1, <1>2, RegistersInvariant, PTL DEF Spec

\* In every plain call, what is left of a program is what the call asked for and
\* the registers do not have yet, and the trigger of what is staged comes last.
THEOREM WorkInvariant == Spec => []WorkInv
<1>1. Init => WorkInv
  BY DEF Init, WorkInv
<1>2. RegistersInv /\ ResetInv /\ WorkInv /\ [Next]_vars => WorkInv'
  BY WorkStep
<1> QED BY <1>1, <1>2, RegistersInvariant, ResetInvariant, PTL DEF Spec

-----------------------------------------------------------------------------
\* What comes into force

\* The displays read a staged setting where it is written.
LEMMA StagedIsWritten ==
  ASSUME group' = "staged", NEW r \in StagedBits \cup StagedTargets, Fields(r) = Lanes, NEW l \in Lanes
  PROVE  Staged'[<<r, l>>] = reg'[r][l]
<1>1. r \in GroupRegisters[group'] \ Hidden /\ r \notin Words
  BY DEF GroupRegisters, Hidden, StagedBits, StagedTargets, Words, thresh_descs, host_thresh_descs
<1>2. <<r, l>> \in Settings'
  <2>1. <<r, l>> \in {r} \X (IF r \in Words THEN {"value"} ELSE Fields(r))
    BY <1>1
  <2> QED BY <1>1, <2>1 DEF Settings
<1>3. Staged'[<<r, l>>] = Decode(r, l, reg'[r])
  BY <1>2 DEF Staged
<1>4. /\ r \notin thresh_descs.s16 \cup thresh_descs.f16 \cup {"UseConfigured", "FecEnable"}
      /\ r \notin host_thresh_descs \cup {"HostEnable"} \cup {Select[b] : b \in Blocks}
      /\ r \notin {"TxFilterType", "TxFilterEnable", "LfInsertionOnLdEnable", "Password"}
  BY DEF StagedBits, StagedTargets, thresh_descs, host_thresh_descs, Select, Blocks
<1>5. Decode(r, l, reg'[r]) = cmis_show_dp_controls(r, l, reg'[r])
  BY <1>4 DEF Decode
<1>6. cmis_show_dp_controls(r, l, reg'[r]) = reg'[r][l]
  BY NibbleIsLane DEF cmis_show_dp_controls
<1> QED BY <1>3, <1>5, <1>6

\* A program whose tail is empty has one transfer.
LEMMA OneLeft ==
  ASSUME NEW S, NEW p \in Seq(S), p # <<>>, Tail(p) = <<>>
  PROVE  Len(p) = 1
<1> DEFINE n == Len(p)
           m == Len(Tail(p))
<1>1. m = n - 1
  BY HeadTailProperties
<1>2. m = 0 /\ n \in Nat
  BY LenProperties, EmptySeq
<1>3. n = 1
  <2> HIDE DEF m, n
  <2> QED BY <1>1, <1>2
<1> QED BY <1>3

\* When the trigger of the staged settings is due, it is the last transfer, and
\* everything that was asked is in the registers and within its lanes.
LEMMA TriggerIsLast ==
  ASSUME RegistersInv, WorkInv, ret = "none", group = "staged", 1 \in DOMAIN prog,
         prog[1].do = "write", prog[1].reg = "ApplyImmediate"
  PROVE  \A s \in DOMAIN RequestOf(call) :
           /\ s = <<s[1], s[2]>> /\ s[1] \in StagedBits \cup StagedTargets /\ s[2] \in Lanes
           /\ reg[s[1]][s[2]] \in RequestOf(call)[s]
           /\ s[2] \in DOMAIN prog[1].val /\ prog[1].val[s[2]] = 1
<1>1. WorkLeft /\ Applies(prog, RequestOf(call))
  BY DEF WorkInv, Plain, PlainGroups
<1>2. prog \in Seq(Transfers(group))
  BY DEF RegistersInv
<1>3. Len(prog) = 1
  <2>1. Len(prog) \in Nat /\ DOMAIN prog = 1 .. Len(prog)
    BY <1>2, LenProperties
  <2>2. Len(prog) > 1 => 1 \in 1 .. Len(prog) - 1
    BY <2>1
  <2> QED BY <1>1, <2>1, <2>2 DEF Applies
<1>4. DOMAIN prog = {1}
  BY <1>2, <1>3, LenProperties
<1>5. ASSUME NEW s \in DOMAIN RequestOf(call)
      PROVE  /\ s = <<s[1], s[2]>> /\ s[1] \in StagedBits \cup StagedTargets /\ s[2] \in Lanes
             /\ reg[s[1]][s[2]] \in RequestOf(call)[s]
  <2>1. /\ s = <<s[1], s[2]>> /\ s[1] \in GroupRegisters[group] \ Hidden /\ s[2] \in Fields(s[1])
        /\ reg[s[1]][s[2]] \in RequestOf(call)[s] \/ \E i \in DOMAIN prog : Sets(prog[i], s)
    BY <1>1 DEF WorkLeft
  <2>2. s[1] \in StagedBits \cup StagedTargets
    BY <2>1 DEF GroupRegisters, Hidden
  <2>3. s[1] # "ApplyImmediate"
    BY <2>2 DEF StagedBits, StagedTargets
  <2>4. ~ \E i \in DOMAIN prog : Sets(prog[i], s)
    BY <1>4, <2>3 DEF Sets
  <2>5. s[2] \in Lanes
    BY <2>1, <2>2, StagedAre
  <2> QED BY <2>1, <2>2, <2>4, <2>5
<1>6. \A s \in DOMAIN RequestOf(call) : s[2] \in DOMAIN prog[1].val /\ prog[1].val[s[2]] = 1
  BY <1>1, <1>3 DEF Applies
<1> QED BY <1>5, <1>6

\* The trigger, written whole, brings into force what was asked.
LEMMA TriggerApplies ==
  ASSUME RegistersInv, ResetInv, WorkInv, WriteStep, group = "staged", prog[1].reg = "ApplyImmediate",
         NEW regs, NEW whole, Stores(prog[1], regs, whole), whole
  PROVE  \A s \in DOMAIN RequestOf(call) :
           Staged'[s] \in RequestOf(call)[s] /\ active'[s[1]][s[2]] = reg'[s[1]][s[2]]
<1> DEFINE a == "ApplyImmediate"
<1>1. /\ 1 \in DOMAIN prog /\ prog[1].do = "write" /\ DOMAIN reg = GroupRegisters[group]
  BY WriteDue
<1>2. ret = "none" /\ UNCHANGED <<group, call>>
  BY DEF WriteStep, Due
<1>3. DOMAIN active = StagedBits \cup StagedTargets
  BY StagedAre DEF RegistersInv
<1>4. \A q \in StagedBits \cup StagedTargets : Fields(q) = Lanes
  BY <1>3, StagedAre DEF RegistersInv
<1>5. /\ DOMAIN regs = DOMAIN reg /\ \A q \in DOMAIN reg : q # a => regs[q] = reg[q]
      /\ \A f \in DOMAIN prog[1].val : regs[a][f] = prog[1].val[f]
      /\ reg' = Obeyed(a, regs) /\ active' = InForce(a, regs)
  BY DEF Stores
<1> TAKE s \in DOMAIN RequestOf(call)
<1>6. /\ s = <<s[1], s[2]>> /\ s[1] \in StagedBits \cup StagedTargets /\ s[2] \in Lanes
      /\ reg[s[1]][s[2]] \in RequestOf(call)[s]
      /\ s[2] \in DOMAIN prog[1].val /\ prog[1].val[s[2]] = 1
  BY <1>1, <1>2, TriggerIsLast
<1>7. s[1] \in DOMAIN reg /\ s[1] \notin Hidden /\ s[1] # a
  BY <1>1, <1>6 DEF GroupRegisters, Hidden, StagedBits, StagedTargets
<1>8. reg'[s[1]] = reg[s[1]]
  <2>1. Plain(group, call)
    BY DEF Plain, PlainGroups
  <2>2. reg'[s[1]] = regs[s[1]]
    BY <1>7, <2>1, PlainKeeps
  <2> QED BY <1>5, <1>7, <2>2
<1>9. active'[s[1]][s[2]] = regs[s[1]][s[2]]
  <2>1. InForce(a, regs) = [q \in DOMAIN active |->
            [l \in Lanes |-> IF regs[a][l] = 1 THEN regs[q][l] ELSE active[q][l]]]
    BY DEF InForce
  <2> QED BY <1>3, <1>5, <1>6, <2>1
<1>10. Staged'[s] = reg'[s[1]][s[2]]
  <2>1. \A r \in StagedBits \cup StagedTargets, l \in Lanes : Staged'[<<r, l>>] = reg'[r][l]
    BY <1>2, <1>4, StagedIsWritten
  <2> QED BY <1>6, <2>1
<1> QED BY <1>5, <1>6, <1>7, <1>8, <1>9, <1>10

\* The step of the action property.
LEMMA AppliedStep ==
  ASSUME RegistersInv, ResetInv, WorkInv, [Next]_vars
  PROVE  LET asked == {s \in DOMAIN RequestOf(call) : s[1] \in DOMAIN active} IN
         /\ active' # active => \A s \in asked : Staged'[s] \in RequestOf(call)[s]
         /\ group = "staged" /\ ret = "none" /\ ret' = "ok" =>
              \A s \in asked : active'[s[1]][s[2]] = reg'[s[1]][s[2]]
<1> DEFINE asked == {s \in DOMAIN RequestOf(call) : s[1] \in DOMAIN active}
           Goal == /\ active' # active => \A s \in asked : Staged'[s] \in RequestOf(call)[s]
                   /\ group = "staged" /\ ret = "none" /\ ret' = "ok" =>
                        \A s \in asked : active'[s[1]][s[2]] = reg'[s[1]][s[2]]
<1>1. CASE Call \/ UNCHANGED vars
  BY <1>1 DEF Call, vars
<1>2. CASE ReadStep \/ CheckStep
  <2>1. active' = active /\ ret = "none" /\ Head(prog).do \in {"read", "check"}
    BY <1>2 DEF ReadStep, CheckStep, Due
  <2>2. ASSUME group = "staged", ret' = "ok" PROVE FALSE
    <3>1. Continue /\ Tail(prog) = <<>>
      BY <1>2, <2>2 DEF ReadStep, CheckStep, Leave, Continue
    <3>2. prog # <<>> /\ prog \in Seq(Transfers(group))
      BY <2>1 DEF RegistersInv, TypeOK
    <3>3. Head(prog) = prog[1]
      BY <3>2, HeadAndTail
    <3>4. Len(prog) = 1
      BY <3>1, <3>2, OneLeft
    <3>5. prog[Len(prog)].do = "write"
      BY <2>1, <2>2 DEF WorkInv, Plain, PlainGroups, Applies
    <3> QED BY <2>1, <3>3, <3>4, <3>5
  <2> QED BY <2>1, <2>2
<1>3. CASE WriteStep
  <2>1. PICK regs, whole : Stores(prog[1], regs, whole)
    BY <1>3, WriteDue
  <2>2. /\ 1 \in DOMAIN prog /\ prog[1].do = "write" /\ prog[1].reg \in DOMAIN reg
        /\ DOMAIN reg = GroupRegisters[group]
    BY <1>3, WriteDue
  <2>3. ret = "none" /\ prog # <<>> /\ prog \in Seq(Transfers(group)) /\ DOMAIN active = StagedRegisters
    BY <1>3 DEF WriteStep, Due, RegistersInv, TypeOK
  <2>4. active' # active => whole /\ prog[1].reg \in {"ApplyImmediate", "LaneSwitchCommit"}
    BY <2>1 DEF Stores, InForce
  <2>5. CASE group \notin {"staged", "switch"}
    <3>1. asked = {}
      BY <2>3, <2>5, StagedAre
    <3> QED BY <2>5, <3>1
  <2>6. CASE group = "switch"
    <3>1. "ApplyImmediate" \notin GroupRegisters[group] /\ Plain(group, call)
      BY <2>6 DEF GroupRegisters, Plain, PlainGroups
    <3>2. active' # active => call.op = "commit"
      BY <2>2, <2>3, <2>4, <2>6, <3>1 DEF WorkInv
    <3>3. call.op = "commit" => RequestOf(call) = <<>>
      BY DEF RequestOf
    <3>4. call.op = "commit" => asked = {}
      BY <3>3
    <3> QED BY <2>6, <3>2, <3>4
  <2>7. CASE group = "staged"
    <3>1. "LaneSwitchCommit" \notin GroupRegisters[group]
      BY <2>7 DEF GroupRegisters, StagedBits, StagedTargets
    <3>2. active' # active => prog[1].reg = "ApplyImmediate" /\ whole
      BY <2>2, <2>4, <3>1
    <3>3. ASSUME ret' = "ok" PROVE prog[1].reg = "ApplyImmediate" /\ whole
      <4>1. whole /\ Continue /\ Tail(prog) = <<>>
        BY <2>1, <3>3 DEF Stores, Leave, Continue
      <4>2. Len(prog) = 1
        BY <2>3, <4>1, OneLeft
      <4>3. Applies(prog, RequestOf(call))
        BY <2>3, <2>7 DEF WorkInv, Plain, PlainGroups
      <4> QED BY <4>1, <4>2, <4>3 DEF Applies
    <3>4. prog[1].reg = "ApplyImmediate" /\ whole =>
            \A s \in DOMAIN RequestOf(call) :
              Staged'[s] \in RequestOf(call)[s] /\ active'[s[1]][s[2]] = reg'[s[1]][s[2]]
      BY <1>3, <2>1, <2>7, TriggerApplies
    <3> QED BY <3>2, <3>3, <3>4
  <2> QED BY <2>5, <2>6, <2>7
<1>4. Goal
  BY <1>1, <1>2, <1>3 DEF Next
<1> QED BY <1>4

\* The trigger is only written when everything the call asked for is in the
\* registers, so what comes into force comes into force whole; and a call for
\* staged settings that succeeds has brought all of it into force.
THEOREM AppliedInWhole == Spec => AppliedWhole
<1>1. RegistersInv /\ ResetInv /\ WorkInv /\ [Next]_vars =>
        [LET asked == {s \in DOMAIN RequestOf(call) : s[1] \in DOMAIN active} IN
         /\ active' # active => \A s \in asked : Staged'[s] \in RequestOf(call)[s]
         /\ group = "staged" /\ ret = "none" /\ ret' = "ok" =>
              \A s \in asked : active'[s[1]][s[2]] = reg'[s[1]][s[2]]]_vars
  BY AppliedStep
<1> QED BY <1>1, RegistersInvariant, ResetInvariant, WorkInvariant, PTL DEF Spec, AppliedWhole

-----------------------------------------------------------------------------
\* What the displays say of what is written

\* The settings of a group, whatever the state.
SettingsOf(g) ==
  UNION {{r} \X (IF r \in Words THEN {"value"} ELSE Fields(r)) : r \in GroupRegisters[g] \ Hidden}

\* The registers that are displayed from what is in force.
Cdr == {"CDREnableTx", "CDREnableRx"}

\* The parts of a setting.
LEMMA SettingParts ==
  ASSUME NEW g, NEW k \in SettingsOf(g)
  PROVE  /\ k = <<k[1], k[2]>> /\ k[1] \in GroupRegisters[g] \ Hidden
         /\ k[2] \in IF k[1] \in Words THEN {"value"} ELSE Fields(k[1])
<1>1. PICK r \in GroupRegisters[g] \ Hidden : k \in {r} \X (IF r \in Words THEN {"value"} ELSE Fields(r))
  BY DEF SettingsOf
<1>2. k = <<k[1], k[2]>> /\ k[1] = r /\ k[2] \in IF r \in Words THEN {"value"} ELSE Fields(r)
  BY <1>1
<1> QED BY <1>2

\* Every display but that of the filter types looks for a field where the
\* operations put it.
LEMMA FieldDecodes ==
  ASSUME NEW r, NEW f \in Fields(r), r \notin Words, r # "TxFilterType", NEW v
  PROVE  Decode(r, f, v) = v[f]
<1>1. cmis_show_coherent_thresholds(r, f, v) = v[f] /\ cmis_show_host_thresholds(r, f, v) = v[f]
  BY DEF cmis_show_coherent_thresholds, cmis_show_host_thresholds, Words
<1>2. cmis_show_media_prov(r, f, v) = v[f]
  BY DEF cmis_show_media_prov
<1>3. r \in Nibbles => v[NibbleShownAt(f)] = v[f]
  BY NibbleLayout, NibbleIsLane
<1>4. cmis_show_dp_controls(r, f, v) = v[f]
  BY <1>3 DEF cmis_show_dp_controls, Nibbles
<1>5. r \in {Select[b] : b \in Blocks} => v[NibbleShownAt(f)] = v[f]
  BY <1>3 DEF Nibbles
<1>6. r # "Password"
  BY DEF Words
<1> QED BY <1>1, <1>2, <1>4, <1>5, <1>6 DEF Decode

\* What is displayed and what is staged, before and after a step.
LEMMA FieldsShown ==
  ASSUME group' = group, NEW k \in Settings, k[1] \notin Words, k[1] # "TxFilterType"
  PROVE  /\ k \in Settings' /\ k = <<k[1], k[2]>>
         /\ k[1] \in GroupRegisters[group] \ Hidden /\ k[2] \in Fields(k[1])
         /\ Staged[k] = reg[k[1]][k[2]] /\ Staged'[k] = reg'[k[1]][k[2]]
         /\ Displayed[k] = IF k[1] \in Cdr THEN active[k[1]][k[2]] ELSE reg[k[1]][k[2]]
         /\ Displayed'[k] = IF k[1] \in Cdr THEN active'[k[1]][k[2]] ELSE reg'[k[1]][k[2]]
<1>1. Settings = SettingsOf(group) /\ Settings' = SettingsOf(group)
  BY DEF Settings, SettingsOf
<1>2. /\ k = <<k[1], k[2]>> /\ k[1] \in GroupRegisters[group] \ Hidden /\ k[2] \in Fields(k[1])
  BY <1>1, SettingParts
<1>3. \A v : Decode(k[1], k[2], v) = v[k[2]]
  BY <1>2, FieldDecodes
<1>4. Staged[k] = Decode(k[1], k[2], reg[k[1]]) /\ Staged'[k] = Decode(k[1], k[2], reg'[k[1]])
  BY <1>1 DEF Staged
<1>5. /\ Displayed[k] = Decode(k[1], k[2], IF k[1] \in Cdr THEN active[k[1]] ELSE reg[k[1]])
      /\ Displayed'[k] = Decode(k[1], k[2], IF k[1] \in Cdr THEN active'[k[1]] ELSE reg'[k[1]])
  BY <1>1 DEF Displayed, Cdr
<1> QED BY <1>1, <1>2, <1>3, <1>4, <1>5

-----------------------------------------------------------------------------
\* Steps of the abstract specification

\* What LaneSettings allows for one setting while the call is pending.
Promised(k) ==
  \/ k \in DOMAIN RequestOf(call) /\ ret' = "failed"
  \/ /\ Staged'[k] = Staged[k] \/ (k \in DOMAIN RequestOf(call) /\ Staged'[k] \in RequestOf(call)[k])
     /\ Displayed'[k] \in {Displayed[k], Staged'[k]}
     /\ ret' = "ok" /\ k \in DOMAIN RequestOf(call) => Displayed'[k] \in RequestOf(call)[k]

\* A step that does no more to any setting is a step of LaneSettings.
LEMMA PromiseWork ==
  ASSUME ret = "none", ret' \in {"none", "ok", "failed"}, UNCHANGED <<group, call>>,
         \A k \in Settings : Promised(k)
  PROVE  Promise!Next
<1>1. DOMAIN Displayed = Settings /\ DOMAIN Displayed' = Settings
  BY DEF Displayed, Settings
<1>2. \A k \in DOMAIN Displayed :
        \/ k \in DOMAIN RequestOf(call) /\ ret' = "failed"
        \/ /\ Staged'[k] = Staged[k] \/ (k \in DOMAIN RequestOf(call) /\ Staged'[k] \in RequestOf(call)[k])
           /\ Displayed'[k] \in {Displayed[k], Staged'[k]}
           /\ ret' = "ok" /\ k \in DOMAIN RequestOf(call) => Displayed'[k] \in RequestOf(call)[k]
  BY <1>1 DEF Promised
<1>3. Promise!Change(Displayed, Staged, Displayed', Staged', RequestOf(call), ret')
  BY <1>2 DEF Promise!Change
<1>4. RequestOf(call)' = RequestOf(call)
  OBVIOUS
<1>5. Promise!Work
  BY <1>1, <1>3, <1>4 DEF Promise!Work
<1> QED BY <1>5 DEF Promise!Next

\* A call is asked for or refused.
LEMMA CallAsks ==
  ASSUME RegistersInv, Call
  PROVE  Promise!Next
<1>1. ret \in {"ok", "failed", "invalid"} /\ ret' \in {"none", "invalid"}
  BY DEF RegistersInv, TypeOK, Call
<1>2. UNCHANGED <<group, reg, active>>
  BY DEF Call
<1>3. Displayed' = Displayed /\ Staged' = Staged
  BY <1>2 DEF Displayed, Staged, Settings
<1> QED BY <1>1, <1>3 DEF Promise!Next, Promise!Ask, Promise!Refuse, Promise!Answers

\* A read or a check changes nothing, and is the last transfer only when there is
\* nothing to change.
LEMMA QuietStep ==
  ASSUME RegistersInv, ReadStep \/ CheckStep,
         ret' = "ok" => \A k \in Settings : k \in DOMAIN RequestOf(call) => Displayed[k] \in RequestOf(call)[k]
  PROVE  Promise!Next
<1>1. ret = "none" /\ UNCHANGED <<group, reg, active, call>>
  BY DEF ReadStep, CheckStep, Due
<1>2. ret' \in {"none", "ok", "failed"}
  BY DEF ReadStep, CheckStep, Continue, Leave
<1>3. Displayed' = Displayed /\ Staged' = Staged
  BY <1>1 DEF Displayed, Staged, Settings
<1>4. \A k \in Settings : Promised(k)
  BY <1>3 DEF Promised
<1> QED BY <1>1, <1>2, <1>4, PromiseWork

-----------------------------------------------------------------------------
\* The groups whose registers hold the settings as they were asked

\* The groups that are plain, but for the filter types, and the module controls.
FieldGroups == (PlainGroups \ {"filter"}) \cup {"module"}

\* Their registers are no words, but for the password.
LEMMA FieldRegisters ==
  ASSUME NEW g \in FieldGroups, NEW r \in GroupRegisters[g], r # "Password"
  PROVE  r \notin Words /\ r # "TxFilterType" /\ (r \in Cdr => g = "staged")
BY DEF FieldGroups, PlainGroups, GroupRegisters, DirectControls, StagedBits, StagedTargets, NetworkBits, CoherentBits,
       Blocks, Select, Enable, loopback_modes, Words, thresh_descs, host_thresh_descs, Cdr

\* When one transfer is left, what it does not set is in the registers.
LEMMA LastTransfer ==
  ASSUME RegistersInv, WorkInv, ret = "none", Plain(group, call), Tail(prog) = <<>>,
         NEW k \in DOMAIN RequestOf(call)
  PROVE  reg[k[1]][k[2]] \in RequestOf(call)[k] \/ Sets(prog[1], k)
<1>1. prog # <<>> /\ prog \in Seq(Transfers(group))
  BY DEF RegistersInv, TypeOK
<1>2. DOMAIN prog = {1}
  BY <1>1, OneLeft, LenProperties
<1> QED BY <1>2 DEF WorkInv, WorkLeft

\* No plain call asks for a password.
LEMMA PasswordKept ==
  ASSUME WorkLeft, <<"Password", "value">> \in DOMAIN RequestOf(call)
  PROVE  FALSE
<1>1. "value" \in Fields("Password")
  BY DEF WorkLeft
<1> QED BY <1>1, WordLayout DEF WordRegisters, Words

\* A read or a check in these groups.
LEMMA FieldQuiet ==
  ASSUME RegistersInv, WorkInv, ReadStep \/ CheckStep, Plain(group, call), group \in FieldGroups
  PROVE  Promise!Next
<1>1. ret = "none" /\ UNCHANGED <<group, reg, active, call>> /\ Head(prog).do \in {"read", "check"}
  BY DEF ReadStep, CheckStep, Due
<1>2. prog # <<>> /\ prog \in Seq(Transfers(group))
  BY <1>1 DEF RegistersInv, TypeOK
<1>3. Head(prog) = prog[1]
  BY <1>2, HeadAndTail
<1>5. ASSUME ret' = "ok", NEW k \in Settings, k \in DOMAIN RequestOf(call)
      PROVE  Displayed[k] \in RequestOf(call)[k]
  <2>1. Tail(prog) = <<>>
    BY <1>5 DEF ReadStep, CheckStep, Continue, Leave
  <2>2. ~Sets(prog[1], k)
    BY <1>1, <1>3 DEF Sets
  <2>3. reg[k[1]][k[2]] \in RequestOf(call)[k]
    BY <1>1, <1>5, <2>1, <2>2, LastTransfer
  <2>4. group # "staged"
    <3>1. Len(prog) = 1
      BY <1>2, <2>1, OneLeft
    <3>2. group = "staged" => prog[Len(prog)].do = "write"
      BY <1>1 DEF WorkInv, Applies
    <3> QED BY <1>1, <1>3, <3>1, <3>2
  <2>5. k[1] \in GroupRegisters[group] /\ k[1] # "Password"
    <3>1. /\ k = <<k[1], k[2]>> /\ k[1] \in GroupRegisters[group]
          /\ k[2] \in IF k[1] \in Words THEN {"value"} ELSE Fields(k[1])
      BY SettingParts DEF Settings, SettingsOf
    <3>2. WorkLeft
      BY <1>1 DEF WorkInv
    <3> QED BY <1>5, <3>1, <3>2, PasswordKept DEF Words
  <2>6. k[1] \notin Words /\ k[1] # "TxFilterType" /\ k[1] \notin Cdr
    BY <2>4, <2>5, FieldRegisters
  <2>7. Displayed[k] = reg[k[1]][k[2]]
    BY <1>1, <2>6, FieldsShown
  <2> QED BY <2>3, <2>7
<1> QED BY <1>5, QuietStep

\* A write in these groups, of one setting.
LEMMA FieldWrite ==
  ASSUME RegistersInv, ResetInv, WorkInv, WriteStep, Plain(group, call), group \in FieldGroups,
         NEW k \in Settings, k[1] # "Password"
  PROVE  Promised(k)
<1>1. ret = "none" /\ UNCHANGED <<group, call>>
  BY DEF WriteStep, Due
<1>2. PICK regs, whole : Stores(prog[1], regs, whole)
  BY WriteDue
<1>3. /\ 1 \in DOMAIN prog /\ prog[1].do = "write" /\ prog[1].reg \in DOMAIN reg
      /\ DOMAIN reg = GroupRegisters[group]
  BY WriteDue
<1> DEFINE w == prog[1]
           r == k[1]
           f == k[2]
           asked == RequestOf(call)
<1>4. WorkLeft
  BY <1>1 DEF WorkInv
<1>5. r \in GroupRegisters[group]
  BY SettingParts DEF Settings, SettingsOf
<1>6. r \notin Words /\ r # "TxFilterType" /\ (r \in Cdr => group = "staged")
  BY <1>5, FieldRegisters
<1>7. /\ k = <<r, f>> /\ r \in DOMAIN reg /\ r \notin Hidden /\ f \in Fields(r)
      /\ Staged[k] = reg[r][f] /\ Staged'[k] = reg'[r][f]
      /\ Displayed[k] = IF r \in Cdr THEN active[r][f] ELSE reg[r][f]
      /\ Displayed'[k] = IF r \in Cdr THEN active'[r][f] ELSE reg'[r][f]
  BY <1>1, <1>3, <1>6, FieldsShown
<1>8. reg'[r] = regs[r]
  <2> HIDE DEF r, f
  <2> QED BY <1>2, <1>7, PlainKeeps
<1>9. \/ regs[r][f] = reg[r][f]
      \/ w.reg = r /\ f \in DOMAIN w.val /\ regs[r][f] = w.val[f]
  BY <1>2, <1>3, <1>7 DEF Stores
<1>10. AsAsked(w, asked)
  BY <1>3, <1>4 DEF WorkLeft
<1>11. w.reg = r /\ f \in DOMAIN w.val => k \in DOMAIN asked /\ w.val[f] \in asked[k]
  <2> HIDE DEF r, f, w, asked
  <2> QED BY <1>3, <1>7, <1>10 DEF AsAsked, w
<1>12. Staged'[k] = Staged[k] \/ (k \in DOMAIN asked /\ Staged'[k] \in asked[k])
  BY <1>7, <1>8, <1>9, <1>11
<1>13. Displayed'[k] \in {Displayed[k], Staged'[k]}
  <2>1. CASE r \notin Cdr
    BY <1>7, <2>1
  <2>2. CASE r \in Cdr
    <3>1. DOMAIN active = StagedBits \cup StagedTargets /\ f \in Lanes
      BY <1>6, <1>7, <2>2, StagedAre DEF RegistersInv, Cdr, StagedBits
    <3>2. r \in DOMAIN active
      BY <2>2, <3>1 DEF Cdr, StagedBits
    <3>3. active'[r][f] = active[r][f] \/ active'[r][f] = regs[r][f]
      <4>1. CASE active' = active
        BY <4>1
      <4>2. CASE active' = InForce(w.reg, regs) /\ w.reg = "ApplyImmediate"
        BY <3>1, <3>2, <4>2 DEF InForce
      <4>3. CASE active' = InForce(w.reg, regs) /\ w.reg = "LaneSwitchCommit"
        BY <3>2, <4>3 DEF InForce
      <4> QED BY <1>2, <4>1, <4>2, <4>3 DEF Stores, InForce
    <3> QED BY <1>7, <1>8, <2>2, <3>3
  <2> QED BY <2>1, <2>2
<1>14. ASSUME ret' = "ok", k \in DOMAIN asked PROVE Displayed'[k] \in asked[k]
  <2>1. whole /\ Continue /\ Tail(prog) = <<>>
    BY <1>2, <1>14 DEF Stores, Leave, Continue
  <2>2. reg[r][f] \in asked[k] \/ Sets(w, k)
    BY <1>1, <1>4, <1>14, <2>1, LastTransfer
  <2>3. reg'[r][f] \in asked[k]
    <3>1. CASE Sets(w, k)
      <4>1. w.reg = r /\ f \in DOMAIN w.val
        BY <3>1 DEF Sets
      <4>2. regs[r][f] = w.val[f]
        BY <1>2, <2>1, <4>1 DEF Stores
      <4> QED BY <1>8, <1>11, <4>1, <4>2
    <3>2. CASE ~Sets(w, k) /\ reg[r][f] \in asked[k]
      BY <1>7, <1>8, <1>9, <1>3, <3>2 DEF Sets
    <3> QED BY <2>2, <3>1, <3>2
  <2>4. CASE r \notin Cdr
    BY <1>7, <2>3, <2>4
  <2>5. CASE r \in Cdr
    <3>1. r \in DOMAIN active
      BY <1>6, <2>5, StagedAre DEF RegistersInv, Cdr, StagedBits
    <3>2. active'[r][f] = reg'[r][f]
      BY <1>1, <1>6, <1>14, <2>5, <3>1, AppliedStep DEF Next
    <3> QED BY <1>7, <2>3, <2>5, <3>2
  <2> QED BY <2>4, <2>5
<1> QED BY <1>12, <1>13, <1>14 DEF Promised

\* A write of a plain call leaves the password alone.
LEMMA PasswordStays ==
  ASSUME RegistersInv, ResetInv, WorkInv, WriteStep, Plain(group, call), group = "module",
         NEW k \in Settings, k[1] = "Password"
  PROVE  Promised(k)
<1>1. ret = "none" /\ UNCHANGED <<group, call>>
  BY DEF WriteStep, Due
<1>2. PICK regs, whole : Stores(prog[1], regs, whole)
  BY WriteDue
<1>3. /\ 1 \in DOMAIN prog /\ prog[1].do = "write" /\ prog[1].reg \in DOMAIN reg
      /\ DOMAIN reg = GroupRegisters[group]
  BY WriteDue
<1>4. k = <<"Password", "value">>
  BY SettingParts DEF Settings, SettingsOf, Words
<1>5. WorkLeft
  BY <1>1 DEF WorkInv
<1>6. k \notin DOMAIN RequestOf(call)
  BY <1>4, <1>5, PasswordKept
<1>7. "Password" \in DOMAIN reg /\ "Password" \notin Hidden
  BY <1>3 DEF GroupRegisters, Hidden
<1>8. prog[1].reg # "Password"
  <2>1. SUFFICES ASSUME prog[1].reg = "Password" PROVE FALSE
    OBVIOUS
  <2>2. Untriggered(prog[1])
    BY <1>1, <1>3 DEF WorkInv
  <2> QED BY <1>3, <2>1, <2>2 DEF Untriggered
<1>9. reg'["Password"] = reg["Password"]
  <2>1. reg'["Password"] = regs["Password"]
    BY <1>2, <1>7, PlainKeeps
  <2> QED BY <1>2, <1>7, <1>8, <2>1 DEF Stores
<1>10. Displayed'[k] = Displayed[k] /\ Staged'[k] = Staged[k]
  <2>1. Settings' = Settings
    BY <1>1 DEF Settings
  <2>2. /\ Staged[k] = Decode("Password", "value", reg["Password"])
        /\ Staged'[k] = Decode("Password", "value", reg'["Password"])
    BY <1>4, <2>1 DEF Staged
  <2>3. /\ Displayed[k] = Decode("Password", "value", reg["Password"])
        /\ Displayed'[k] = Decode("Password", "value", reg'["Password"])
    BY <1>4, <2>1 DEF Displayed
  <2> QED BY <1>9, <2>2, <2>3
<1> QED BY <1>6, <1>10 DEF Promised

\* Every step of these groups is one of LaneSettings.
LEMMA FieldsRefine ==
  ASSUME RegistersInv, ResetInv, WorkInv, [Next]_vars, Plain(group, call), group \in FieldGroups
  PROVE  [Promise!Next]_(Promise!vars)
<1>1. CASE Call
  BY <1>1, CallAsks
<1>2. CASE ReadStep \/ CheckStep
  BY <1>2, FieldQuiet
<1>3. CASE WriteStep
  <2>1. ASSUME NEW k \in Settings PROVE Promised(k)
    <3>1. k[1] \in GroupRegisters[group]
      BY SettingParts DEF Settings, SettingsOf
    <3>2. k[1] = "Password" => group = "module"
      BY <3>1 DEF FieldGroups, PlainGroups, GroupRegisters, DirectControls, StagedBits, StagedTargets, NetworkBits,
           CoherentBits, Blocks, Select, Enable, loopback_modes
    <3> QED BY <1>3, <3>2, FieldWrite, PasswordStays
  <2>2. ret = "none" /\ ret' \in {"none", "ok", "failed"} /\ UNCHANGED <<group, call>>
    BY <1>3 DEF WriteStep, Due, Continue, Leave
  <2> QED BY <2>1, <2>2, PromiseWork
<1>4. CASE UNCHANGED vars
  <2>1. Displayed' = Displayed /\ Staged' = Staged /\ UNCHANGED <<call, ret>>
    BY <1>4 DEF vars, Displayed, Staged, Settings
  <2> QED BY <2>1 DEF Promise!vars
<1> QED BY <1>1, <1>2, <1>3, <1>4 DEF Next

-----------------------------------------------------------------------------
\* The software reset and the change of the password

ResetWrite == Write("ModuleControl", All({"reset"}, 1))
ChangeWrite(pw) == Write("PasswordChange", WordOf(pw))

\* What is left of a software reset is its write, with or without the read before it.
ResetWork ==
  ret = "none" /\ group = "module" /\ call.op = "sw_reset" =>
    prog = <<Read("ModuleControl"), ResetWrite>> \/ prog = <<ResetWrite>>

\* What is left of a change of the password: the current one is entered first, and
\* it is the right one as long as it was when the call was made.
ChangeWork ==
  ret = "none" /\ group = "module" /\ call.op = "password_change" =>
    /\ call.current \in Passwords /\ call.new \in Passwords
    /\ call.right = (WordOf(call.current) = reg["Password"])
    /\ \/ prog = <<Write("PasswordEntry", WordOf(call.current)), ChangeWrite(call.new)>>
       \/ prog = <<ChangeWrite(call.new)>> /\ reg["PasswordEntry"] = WordOf(call.current)

\* The head and the tail of programs as short as these.
LEMMA ShortPrograms ==
  ASSUME NEW t, NEW u
  PROVE  /\ Head(<<t, u>>) = t /\ Tail(<<t, u>>) = <<u>>
         /\ Head(<<t>>) = t /\ Tail(<<t>>) = <<>>
  OBVIOUS

\* What is due and what is left when one or two transfers are left.
LEMMA OneOrTwo ==
  ASSUME NEW p, NEW t, NEW u, p = <<t, u>> \/ p = <<u>>
  PROVE  \/ Head(p) = t /\ Tail(p) = <<u>>
         \/ Head(p) = u /\ Tail(p) = <<>>
<1>1. CASE p = <<t, u>>
  BY <1>1, ShortPrograms
<1>2. CASE p = <<u>>
  BY <1>2, ShortPrograms
<1> QED BY <1>1, <1>2

\* Two programs of one transfer, one after the other.
LEMMA PairConcat ==
  ASSUME NEW t, NEW u
  PROVE  <<t>> \o <<u>> = <<t, u>>
<1> DEFINE S == {t, u}
           p == <<t>>
           q == <<u>>
           r == p \o q
           s == <<t, u>>
<1>1. p \in Seq(S) /\ q \in Seq(S) /\ s \in Seq(S)
  OBVIOUS
<1>2. Len(p) = 1 /\ Len(q) = 1 /\ Len(s) = 2 /\ p[1] = t /\ q[1] = u /\ s[1] = t /\ s[2] = u
  OBVIOUS
<1>3. /\ r \in Seq(S) /\ Len(r) = Len(p) + Len(q)
      /\ \A i \in 1 .. Len(p) + Len(q) : r[i] = IF i <= Len(p) THEN p[i] ELSE q[i - Len(p)]
  <2> HIDE DEF S, p, q
  <2> QED BY <1>1, ConcatProperties
<1> HIDE DEF S, p, q, r, s
<1>4. Len(r) = Len(s) /\ \A i \in 1 .. Len(r) : r[i] = s[i]
  BY <1>2, <1>3
<1>5. r = s
  BY <1>1, <1>3, <1>4, SeqEqual
<1> QED BY <1>5 DEF p, q, r, s

\* The parts of a write.
LEMMA WriteParts ==
  ASSUME NEW r, NEW v
  PROVE  Write(r, v).do = "write" /\ Write(r, v).reg = r /\ Write(r, v).val = v
  BY DEF Write

\* The calls of the module that are these two.
LEMMA SpecialCalls ==
  ASSUME NEW c \in CallsOf["module"]
  PROVE  /\ c.op = "sw_reset" => Programs(c) = {<<Read("ModuleControl"), ResetWrite>>}
         /\ c.op = "password_change" =>
              /\ c.current \in Passwords /\ c.new \in Passwords
              /\ Programs(c) = {<<Write("PasswordEntry", WordOf(c.current)), ChangeWrite(c.new)>>}
<1>1. c.op = "sw_reset" => Programs(c) = {<<Read("ModuleControl"), ResetWrite>>}
  BY DEF Programs, cmis_module_sw_reset, Rmw, ResetWrite
<1>2. ASSUME c.op = "password_change"
      PROVE  c \in [op : {"password_change"}, current : Passwords, new : Passwords]
  <2>1. c \notin MaskCalls({"ModuleMask"})
    BY <1>2, MaskParts
  <2>2. c \notin FlagCalls("ModuleControl", {"broadcast", "squelch"})
    BY <1>2, FlagParts
  <2>3. /\ c # [op |-> "sw_reset"] /\ c \notin [op : {"password_entry"}, pw : Passwords]
        /\ c \notin [op : {"eeprom_write"}, offset : -1 .. UserSize, data : Texts]
        /\ c \notin [op : {"eeprom_read"}, offset : {-1, 0, UserSize}, len : {0, 1, UserSize}]
    BY <1>2
  <2> QED BY <2>1, <2>2, <2>3, CallsOfGroups
<1>3. ASSUME c.op = "password_change"
      PROVE  Programs(c) = {<<Write("PasswordEntry", WordOf(c.current)), ChangeWrite(c.new)>>}
  <2> DEFINE t == Write("PasswordEntry", WordOf(c.current))
             u == ChangeWrite(c.new)
  <2>1. Programs(c) = {<<t>> \o <<u>>}
    BY <1>3 DEF Programs, cmis_module_password_change, cmis_module_password_entry, ChangeWrite
  <2> HIDE DEF t, u
  <2>2. <<t>> \o <<u>> = <<t, u>>
    BY PairConcat
  <2> QED BY <2>1, <2>2 DEF t, u
<1> QED BY <1>1, <1>2, <1>3

\* A call that begins has its whole program left.
LEMMA SpecialCall ==
  ASSUME Call
  PROVE  ResetWork' /\ ChangeWork'
<1>1. PICK c \in CallsOf[group] :
        /\ call' = IF c.op = "password_change"
                   THEN [op |-> c.op, current |-> c.current, new |-> c.new,
                         right |-> WordOf(c.current) = reg["Password"]]
                   ELSE c
        /\ ret' = "none" => prog' \in Programs(c)
  BY DEF Call
<1>2. UNCHANGED <<group, reg>>
  BY DEF Call
<1>3. call'.op = c.op
  BY <1>1
<1>4. ResetWork'
  BY <1>1, <1>2, <1>3, SpecialCalls DEF ResetWork
<1>5. ASSUME ret' = "none", group = "module", c.op = "password_change"
      PROVE  /\ call'.current \in Passwords /\ call'.new \in Passwords
             /\ call'.right = (WordOf(call'.current) = reg["Password"])
             /\ prog' = <<Write("PasswordEntry", WordOf(call'.current)), ChangeWrite(call'.new)>>
  <2>1. call' = [op |-> c.op, current |-> c.current, new |-> c.new,
                 right |-> WordOf(c.current) = reg["Password"]]
    BY <1>1, <1>5
  <2>2. /\ call'.current = c.current /\ call'.new = c.new
        /\ call'.right = (WordOf(c.current) = reg["Password"])
    BY <2>1, Zenon
  <2>3. /\ c.current \in Passwords /\ c.new \in Passwords
        /\ Programs(c) = {<<Write("PasswordEntry", WordOf(c.current)), ChangeWrite(c.new)>>}
    BY <1>5, SpecialCalls
  <2> QED BY <1>1, <1>5, <2>2, <2>3
<1>6. ChangeWork'
  BY <1>2, <1>3, <1>5 DEF ChangeWork
<1> QED BY <1>4, <1>6

\* What a write of a control of the module does to the displays when it is the only
\* register that changes: nothing, unless it is displayed.
LEMMA OthersKept ==
  ASSUME group = "module", UNCHANGED <<group, call, active>>, NEW k \in Settings,
         reg'[k[1]] = reg[k[1]]
  PROVE  Displayed'[k] = Displayed[k] /\ Staged'[k] = Staged[k]
<1>1. Settings' = Settings
  BY DEF Settings
<1>2. Staged'[k] = Staged[k]
  BY <1>1 DEF Staged
<1>3. Displayed'[k] = Displayed[k]
  BY <1>1 DEF Displayed
<1> QED BY <1>2, <1>3

\* Nothing comes into force in the group of the module.
LEMMA ModuleActive ==
  ASSUME RegistersInv, group = "module", NEW w, NEW regs, NEW whole, Stores(w, regs, whole),
         w.reg \in GroupRegisters[group]
  PROVE  active' = active
<1>1. w.reg \notin {"ApplyImmediate", "LaneSwitchCommit"}
  BY DEF GroupRegisters
<1> QED BY <1>1 DEF Stores, InForce

\* A step keeps what is left of these calls.
LEMMA SpecialStep ==
  ASSUME RegistersInv, ResetWork, ChangeWork, [Next]_vars
  PROVE  ResetWork' /\ ChangeWork'
<1>1. CASE Call
  BY <1>1, SpecialCall
<1>2. CASE UNCHANGED vars
  BY <1>2 DEF vars, ResetWork, ChangeWork
<1>3. CASE ReadStep \/ CheckStep
  <2>1. /\ ret = "none" /\ UNCHANGED <<group, reg, call>> /\ Head(prog).do \in {"read", "check"}
        /\ ret' = "none" => prog' = Tail(prog)
    BY <1>3 DEF ReadStep, CheckStep, Due, Continue, Leave
  <2>2. ResetWork'
    <3>1. SUFFICES ASSUME ret' = "none", group = "module", call.op = "sw_reset"
                   PROVE  prog' = <<ResetWrite>>
      BY <2>1 DEF ResetWork
    <3>2. prog = <<Read("ModuleControl"), ResetWrite>> \/ prog = <<ResetWrite>>
      BY <2>1, <3>1 DEF ResetWork
    <3>3. ResetWrite.do = "write"
      BY WriteParts DEF ResetWrite
    <3>4. CASE prog = <<Read("ModuleControl"), ResetWrite>>
      <4>1. Tail(prog) = <<ResetWrite>>
        BY <3>4, ShortPrograms
      <4> QED BY <2>1, <3>1, <4>1
    <3>5. CASE prog = <<ResetWrite>>
      <4>1. Head(prog) = ResetWrite
        BY <3>5, ShortPrograms
      <4> QED BY <2>1, <3>3, <4>1
    <3> QED BY <3>2, <3>4, <3>5
  <2>3. ASSUME group = "module", call.op = "password_change" PROVE FALSE
    <3> DEFINE t == Write("PasswordEntry", WordOf(call.current))
               u == ChangeWrite(call.new)
    <3>1. prog = <<t, u>> \/ prog = <<u>>
      BY <2>1, <2>3 DEF ChangeWork
    <3>2. t.do = "write" /\ u.do = "write"
      BY WriteParts DEF ChangeWrite
    <3> HIDE DEF t, u
    <3>3. Head(prog) \in {t, u}
      BY <3>1, OneOrTwo
    <3> QED BY <2>1, <3>2, <3>3
  <2>4. ChangeWork'
    BY <2>1, <2>3 DEF ChangeWork
  <2> QED BY <2>2, <2>4
<1>4. CASE WriteStep
  <2>1. ret = "none" /\ UNCHANGED <<group, call>>
    BY <1>4 DEF WriteStep, Due
  <2>2. PICK regs, whole : Stores(prog[1], regs, whole)
    BY <1>4, WriteDue
  <2>3. /\ Head(prog) = prog[1] /\ prog[1].do = "write" /\ prog[1].reg \in DOMAIN reg
        /\ DOMAIN reg = GroupRegisters[group]
    BY <1>4, WriteDue
  <2>4. ret' = "none" => whole /\ prog' = Tail(prog) /\ prog' # <<>>
    BY <2>2 DEF Stores, Continue, Leave
  <2>5. ResetWork'
    <3>1. SUFFICES ASSUME ret' = "none", group = "module", call.op = "sw_reset" PROVE FALSE
      BY <2>1 DEF ResetWork
    <3>2. prog = <<Read("ModuleControl"), ResetWrite>> \/ prog = <<ResetWrite>>
      BY <2>1, <3>1 DEF ResetWork
    <3>3. Read("ModuleControl").do = "read"
      BY DEF Read
    <3>4. \/ Head(prog) = Read("ModuleControl")
          \/ Tail(prog) = <<>>
      BY <3>2, OneOrTwo
    <3> QED BY <2>3, <2>4, <3>1, <3>3, <3>4
  <2>6. ChangeWork'
    <3> DEFINE t == Write("PasswordEntry", WordOf(call.current))
               u == ChangeWrite(call.new)
               e == "PasswordEntry"
    <3>1. SUFFICES ASSUME ret' = "none", group = "module", call.op = "password_change"
                   PROVE  /\ call.current \in Passwords /\ call.new \in Passwords
                          /\ call.right = (WordOf(call.current) = reg'["Password"])
                          /\ prog' = <<u>> /\ reg'[e] = WordOf(call.current)
      BY <2>1 DEF ChangeWork
    <3>2. /\ call.current \in Passwords /\ call.new \in Passwords
          /\ call.right = (WordOf(call.current) = reg["Password"])
          /\ prog = <<t, u>> \/ prog = <<u>>
      BY <2>1, <3>1 DEF ChangeWork
    <3>3. t.reg = e /\ t.val = WordOf(call.current)
      BY WriteParts
    <3> HIDE DEF t, u
    <3>4. prog[1] = t /\ prog' = <<u>>
      <4>1. CASE prog = <<t, u>>
        <5>1. Head(prog) = t /\ Tail(prog) = <<u>>
          BY <4>1, ShortPrograms
        <5> QED BY <2>3, <2>4, <3>1, <5>1
      <4>2. CASE prog = <<u>>
        <5>1. Tail(prog) = <<>>
          BY <4>2, ShortPrograms
        <5> QED BY <2>4, <3>1, <5>1
      <4> QED BY <3>2, <4>1, <4>2
    <3>5. /\ reg' = Obeyed(e, regs) /\ Typed(group, regs) /\ DOMAIN regs = DOMAIN reg
          /\ \A q \in DOMAIN reg : q # e => regs[q] = reg[q]
          /\ \A f \in DOMAIN WordOf(call.current) : regs[e][f] = WordOf(call.current)[f]
      BY <2>2, <2>4, <3>1, <3>3, <3>4 DEF Stores
    <3>6. reg' = regs
      BY <3>5 DEF Obeyed
    <3>7. e \in DOMAIN reg /\ "Password" \in DOMAIN reg
      BY <2>3, <3>1 DEF GroupRegisters
    <3>8. regs[e] = WordOf(call.current)
      <4>1. regs[e] \in [{"high", "low"} -> 0 .. 255]
        BY <2>3, <3>5, <3>7, WordLayout DEF Typed, WordRegisters
      <4>2. WordOf(call.current) = [f \in {"high", "low"} |-> WordOf(call.current)[f]]
        BY DEF WordOf
      <4> QED BY <3>5, <4>1, <4>2
    <3> QED BY <3>2, <3>4, <3>5, <3>6, <3>7, <3>8
  <2> QED BY <2>5, <2>6
<1> QED BY <1>1, <1>2, <1>3, <1>4 DEF Next

\* The reads of these calls are not their last transfers.
LEMMA SpecialQuiet ==
  ASSUME RegistersInv, ResetWork, ChangeWork, ReadStep \/ CheckStep, group = "module",
         call.op \in {"sw_reset", "password_change"}
  PROVE  Promise!Next
<1>1. ret = "none" /\ Head(prog).do \in {"read", "check"}
  BY DEF ReadStep, CheckStep, Due
<1>2. ASSUME ret' = "ok" PROVE FALSE
  <2>1. Tail(prog) = <<>>
    BY <1>2 DEF ReadStep, CheckStep, Continue, Leave
  <2>2. CASE call.op = "sw_reset"
    <3>1. prog = <<Read("ModuleControl"), ResetWrite>> \/ prog = <<ResetWrite>>
      BY <1>1, <2>2 DEF ResetWork
    <3>2. ResetWrite.do = "write"
      BY WriteParts DEF ResetWrite
    <3>3. CASE prog = <<Read("ModuleControl"), ResetWrite>>
      <4>1. Tail(prog) = <<ResetWrite>>
        BY <3>3, ShortPrograms
      <4> QED BY <2>1, <4>1
    <3>4. CASE prog = <<ResetWrite>>
      <4>1. Head(prog) = ResetWrite
        BY <3>4, ShortPrograms
      <4> QED BY <1>1, <3>2, <4>1
    <3> QED BY <3>1, <3>3, <3>4
  <2>3. CASE call.op = "password_change"
    <3> DEFINE t == Write("PasswordEntry", WordOf(call.current))
               u == ChangeWrite(call.new)
    <3>1. prog = <<t, u>> \/ prog = <<u>>
      BY <1>1, <2>3 DEF ChangeWork
    <3>2. t.do = "write" /\ u.do = "write"
      BY WriteParts DEF ChangeWrite
    <3> HIDE DEF t, u
    <3>3. Head(prog) \in {t, u}
      BY <3>1, OneOrTwo
    <3> QED BY <1>1, <3>2, <3>3
  <2> QED BY <2>2, <2>3
<1> QED BY <1>2, QuietStep

\* The settings of the module and where they are.
LEMMA ModuleSettings ==
  ASSUME group = "module", NEW k \in Settings
  PROVE  /\ k = <<k[1], k[2]>>
         /\ \/ k[1] = "ModuleControl" /\ k[2] \in Fields("ModuleControl")
            \/ k[1] = "ModuleMask" /\ k[2] \in Fields("ModuleMask") /\ Fields("ModuleMask") = Lanes
            \/ k[1] = "UserEeprom" /\ k[2] \in Fields("UserEeprom")
            \/ k = <<"Password", "value">>
<1>1. /\ k = <<k[1], k[2]>> /\ k[1] \in GroupRegisters[group] \ Hidden
      /\ k[2] \in IF k[1] \in Words THEN {"value"} ELSE Fields(k[1])
  BY SettingParts DEF Settings, SettingsOf
<1>2. k[1] \in {"ModuleControl", "ModuleMask", "UserEeprom", "Password"}
  BY <1>1 DEF GroupRegisters, Hidden
<1>3. k[1] \in Words <=> k[1] = "Password"
  BY <1>2 DEF Words, thresh_descs, host_thresh_descs
<1>4. Fields("ModuleMask") = Lanes
  BY LaneLayout DEF LaneRegisters
<1> QED BY <1>1, <1>2, <1>3, <1>4

\* The write of a software reset: the module is as it was, or its controls are
\* what they are after a reset and the rest is as it was.
LEMMA ResetRefines ==
  ASSUME RegistersInv, ResetInv, ResetWork, WriteStep, group = "module", call.op = "sw_reset",
         NEW k \in Settings
  PROVE  Promised(k)
<1> DEFINE m == "ModuleControl"
           asked == RequestOf(call)
<1>1. ret = "none" /\ UNCHANGED <<group, call>>
  BY DEF WriteStep, Due
<1>2. PICK regs, whole : Stores(prog[1], regs, whole)
  BY WriteDue
<1>3. /\ Head(prog) = prog[1] /\ prog[1].do = "write" /\ prog[1].reg \in DOMAIN reg
      /\ DOMAIN reg = GroupRegisters[group]
  BY WriteDue
<1>4. prog[1] = ResetWrite
  <2>1. prog = <<Read(m), ResetWrite>> \/ prog = <<ResetWrite>>
    BY <1>1 DEF ResetWork
  <2>2. Read(m).do = "read"
    BY DEF Read
  <2>3. Head(prog) \in {Read(m), ResetWrite}
    BY <2>1, OneOrTwo
  <2> HIDE DEF m
  <2> QED BY <1>3, <2>2, <2>3
<1>5. ResetWrite.reg = m /\ ResetWrite.val = All({"reset"}, 1)
  BY WriteParts DEF ResetWrite
<1>6. DOMAIN ResetWrite.val = {"reset"} /\ ResetWrite.val["reset"] = 1
  BY <1>5 DEF All
<1>7. active' = active
  BY <1>2, <1>3, ModuleActive
<1>8. asked = [s \in {m} \X Fields(m) \cup {"ModuleMask"} \X Lanes |-> {0}]
  BY DEF RequestOf
<1>9. /\ k = <<k[1], k[2]>>
      /\ \/ k[1] = m /\ k[2] \in Fields(m)
         \/ k[1] = "ModuleMask" /\ k[2] \in Fields("ModuleMask") /\ Fields("ModuleMask") = Lanes
         \/ k[1] = "UserEeprom" /\ k[2] \in Fields("UserEeprom")
         \/ k = <<"Password", "value">>
  BY ModuleSettings
<1>10. k[1] \in {m, "ModuleMask", "UserEeprom", "Password"} /\ k[1] \in DOMAIN reg
  BY <1>3, <1>9 DEF GroupRegisters
<1>11. /\ DOMAIN regs = DOMAIN reg /\ Typed(group, regs)
       /\ \A q \in DOMAIN reg : q # m => regs[q] = reg[q]
       /\ whole => regs[m]["reset"] = 1
       /\ reg' = IF whole THEN Obeyed(m, regs) ELSE regs
       /\ (whole /\ Continue) \/ Leave
  BY <1>2, <1>4, <1>5, <1>6 DEF Stores
<1>12. CASE k[1] \in {"UserEeprom", "Password"}
  <2>1. k \notin DOMAIN asked
    BY <1>8, <1>12
  <2>2. reg'[k[1]] = reg[k[1]]
    <3>1. CASE whole
      <4>1. Obeyed(m, regs) = [q \in DOMAIN regs |->
                IF q \in {"UserEeprom", "Password"} THEN regs[q] ELSE [f \in Fields(q) |-> 0]]
        BY <1>11, <3>1 DEF Obeyed
      <4> QED BY <1>10, <1>11, <1>12, <3>1, <4>1
    <3>2. CASE ~whole
      BY <1>10, <1>11, <1>12, <3>2
    <3> QED BY <3>1, <3>2
  <2>3. Displayed'[k] = Displayed[k] /\ Staged'[k] = Staged[k]
    BY <1>1, <1>7, <2>2, OthersKept
  <2> QED BY <2>1, <2>3 DEF Promised
<1>13. CASE k[1] \in {m, "ModuleMask"}
  <2>1. k \in DOMAIN asked /\ asked[k] = {0}
    BY <1>8, <1>9, <1>13
  <2>2. CASE Leave
    BY <2>1, <2>2 DEF Leave, Promised
  <2>3. CASE whole
    <3>1. Obeyed(m, regs) = [q \in DOMAIN regs |->
              IF q \in {"UserEeprom", "Password"} THEN regs[q] ELSE [f \in Fields(q) |-> 0]]
      BY <1>11, <2>3 DEF Obeyed
    <3>2. k[2] \in Fields(k[1])
      BY <1>9, <1>13
    <3>3. reg'[k[1]][k[2]] = 0
      BY <1>10, <1>11, <1>13, <2>3, <3>1, <3>2
    <3>4. k[1] \notin Words /\ k[1] # "TxFilterType" /\ k[1] \notin Cdr
      BY <1>13 DEF Words, thresh_descs, host_thresh_descs, Cdr
    <3>5. Displayed'[k] = 0 /\ Staged'[k] = 0
      BY <1>1, <3>3, <3>4, FieldsShown
    <3> QED BY <2>1, <3>5 DEF Promised
  <2> QED BY <1>11, <2>2, <2>3
<1> QED BY <1>10, <1>12, <1>13

\* A password comes back from its two bytes.
LEMMA PasswordBytes ==
  ASSUME NEW pw \in Passwords
  PROVE  Raw(WordOf(pw)) = pw
<1>1. pw \in Nat /\ pw < 65536
  BY ArgumentsAssumption DEF ArgumentsAssumption
<1>2. /\ pw \div 256 \in 0 .. 255 /\ pw % 256 \in 0 .. 255
      /\ pw = (256 * (pw \div 256)) + (pw % 256)
  BY <1>1, TwoBytes
<1>3. WordOf(pw)["high"] = pw \div 256 /\ WordOf(pw)["low"] = pw % 256
  BY DEF WordOf
<1> DEFINE h == pw \div 256
           l == pw % 256
<1>4. Raw(WordOf(pw)) = h * 256 + l
  BY <1>3 DEF Raw
<1>5. h \in Int /\ l \in Int /\ pw = (256 * h) + l
  BY <1>2
<1> HIDE DEF h, l
<1> QED BY <1>4, <1>5

\* The writes of a change of the password: the password is the new one when the
\* current one was right and both writes are whole, and the one before otherwise.
LEMMA ChangeRefines ==
  ASSUME RegistersInv, ChangeWork, WriteStep, group = "module", call.op = "password_change",
         NEW k \in Settings
  PROVE  Promised(k)
<1> DEFINE p == "Password"
           t == Write("PasswordEntry", WordOf(call.current))
           u == ChangeWrite(call.new)
           asked == RequestOf(call)
<1>1. ret = "none" /\ UNCHANGED <<group, call>>
  BY DEF WriteStep, Due
<1>2. PICK regs, whole : Stores(prog[1], regs, whole)
  BY WriteDue
<1>3. /\ Head(prog) = prog[1] /\ prog[1].reg \in DOMAIN reg
      /\ DOMAIN reg = GroupRegisters[group]
  BY WriteDue
<1>4. /\ t.reg = "PasswordEntry"
      /\ u.reg = "PasswordChange" /\ u.val = WordOf(call.new)
  BY WriteParts DEF ChangeWrite
<1>5. /\ call.current \in Passwords /\ call.new \in Passwords
      /\ call.right = (WordOf(call.current) = reg[p])
      /\ prog = <<t, u>> \/ (prog = <<u>> /\ reg["PasswordEntry"] = WordOf(call.current))
  BY <1>1 DEF ChangeWork
<1>6. active' = active
  BY <1>2, <1>3, ModuleActive
<1>7. /\ call.right => asked = All({<<p, "value">>}, {call.new})
      /\ ~call.right => asked = <<>>
  BY DEF RequestOf
<1>8. /\ call.right => DOMAIN asked = {<<p, "value">>} /\ asked[<<p, "value">>] = {call.new}
      /\ ~call.right => DOMAIN asked = {}
  BY <1>7 DEF All
<1>9. /\ k = <<k[1], k[2]>> /\ k[1] \in {"ModuleControl", "ModuleMask", "UserEeprom", p} /\ k[1] \in DOMAIN reg
      /\ k[1] = p => k = <<p, "value">>
  BY <1>3, ModuleSettings DEF GroupRegisters
<1>10. /\ DOMAIN regs = DOMAIN reg /\ Typed(group, regs)
       /\ \A q \in DOMAIN reg : q # prog[1].reg => regs[q] = reg[q]
       /\ whole => \A f \in DOMAIN prog[1].val : regs[prog[1].reg][f] = prog[1].val[f]
       /\ reg' = IF whole THEN Obeyed(prog[1].reg, regs) ELSE regs
       /\ (whole /\ Continue) \/ Leave
  BY <1>2 DEF Stores
<1> HIDE DEF t, u, asked
<1>11. ASSUME reg'[k[1]] = reg[k[1]], ret' = "ok" => k \notin DOMAIN asked
       PROVE  Promised(k)
  <2>1. Displayed'[k] = Displayed[k] /\ Staged'[k] = Staged[k]
    BY <1>1, <1>6, <1>11, OthersKept
  <2> QED BY <1>11, <2>1 DEF Promised, asked
<1>12. CASE prog = <<t, u>>
  <2>1. Head(prog) = t /\ Tail(prog) = <<u>>
    BY <1>12, ShortPrograms
  <2>2. prog[1].reg = "PasswordEntry"
    BY <1>3, <1>4, <2>1
  <2>3. reg' = regs
    BY <1>10, <2>2 DEF Obeyed
  <2>4. reg'[k[1]] = reg[k[1]]
    BY <1>9, <1>10, <2>2, <2>3
  <2>5. ret' # "ok"
    BY <1>10, <2>1 DEF Continue, Leave
  <2> QED BY <1>11, <2>4, <2>5
<1>13. CASE prog = <<u>> /\ reg["PasswordEntry"] = WordOf(call.current)
  <2> DEFINE c == "PasswordChange"
  <2>1. Head(prog) = u
    BY <1>13, ShortPrograms
  <2>2. prog[1].reg = c /\ prog[1].val = WordOf(call.new)
    BY <1>3, <1>4, <2>1
  <2>3. /\ {"PasswordEntry", "PasswordChange", p} \subseteq DOMAIN reg
    BY <1>3 DEF GroupRegisters
  <2>4. regs["PasswordEntry"] = WordOf(call.current) /\ regs[p] = reg[p] /\ regs[k[1]] = reg[k[1]]
    BY <1>9, <1>10, <1>13, <2>2, <2>3
  <2>5. CASE ~whole
    <3>1. reg' = regs /\ ret' = "failed"
      BY <1>10, <2>5 DEF Leave
    <3> QED BY <1>11, <2>4, <3>1
  <2>6. CASE whole /\ ~call.right
    <3>1. regs["PasswordEntry"] # regs[p]
      BY <1>5, <2>4, <2>6
    <3>2. Obeyed(c, regs) = regs
      BY <3>1 DEF Obeyed
    <3>3. reg'[k[1]] = reg[k[1]]
      BY <1>10, <2>2, <2>4, <2>6, <3>2
    <3> QED BY <1>8, <1>11, <2>6, <3>3
  <2>7. CASE whole /\ call.right
    <3>1. regs["PasswordEntry"] = regs[p]
      BY <1>5, <2>4, <2>7
    <3>2. Obeyed(c, regs) = [regs EXCEPT ![p] = regs[c]]
      BY <3>1 DEF Obeyed
    <3>3. reg' = [regs EXCEPT ![p] = regs[c]]
      BY <1>10, <2>2, <2>7, <3>2
    <3>4. CASE k[1] # p
      <4>1. reg'[k[1]] = reg[k[1]]
        BY <1>9, <1>10, <2>4, <3>3, <3>4
      <4>2. k \notin DOMAIN asked
        BY <1>8, <2>7, <3>4
      <4> QED BY <1>11, <4>1, <4>2
    <3>5. CASE k[1] = p
      <4>1. k = <<p, "value">> /\ k \in DOMAIN asked /\ asked[k] = {call.new}
        BY <1>8, <1>9, <2>7, <3>5
      <4>2. reg'[p] = regs[c]
        BY <1>10, <2>3, <3>3
      <4>3. /\ regs[c]["high"] = WordOf(call.new)["high"]
            /\ regs[c]["low"] = WordOf(call.new)["low"]
        <5>1. DOMAIN WordOf(call.new) = {"high", "low"}
          BY DEF WordOf
        <5> QED BY <1>10, <2>2, <2>7, <5>1
      <4>4. Raw(reg'[p]) = call.new
        BY <1>5, <4>2, <4>3, PasswordBytes DEF Raw
      <4>5. Settings' = Settings
        BY <1>1 DEF Settings
      <4>6. Decode(p, "value", reg'[p]) = Raw(reg'[p])
        BY DEF Decode, thresh_descs, host_thresh_descs, Select, Blocks
      <4>7. Staged'[k] = call.new
        BY <4>1, <4>4, <4>5, <4>6 DEF Staged
      <4>8. Displayed'[k] = call.new
        BY <4>1, <4>4, <4>5, <4>6 DEF Displayed
      <4> QED BY <4>1, <4>7, <4>8 DEF Promised, asked
    <3> QED BY <3>4, <3>5
  <2> QED BY <2>5, <2>6, <2>7
<1> QED BY <1>5, <1>12, <1>13

\* Every step of the groups of fields is one of LaneSettings, that of the reset and
\* of the password among them.
LEMMA FieldGroupsRefine ==
  ASSUME RegistersInv, ResetInv, WorkInv, ResetWork, ChangeWork, [Next]_vars, group \in FieldGroups
  PROVE  [Promise!Next]_(Promise!vars)
<1>1. CASE Plain(group, call)
  BY <1>1, FieldsRefine
<1>2. CASE group = "module" /\ call.op \in {"sw_reset", "password_change"}
  <2>1. CASE Call
    BY <2>1, CallAsks
  <2>2. CASE ReadStep \/ CheckStep
    BY <1>2, <2>2, SpecialQuiet
  <2>3. CASE WriteStep
    <3>1. \A k \in Settings : Promised(k)
      BY <1>2, <2>3, ResetRefines, ChangeRefines
    <3>2. ret = "none" /\ ret' \in {"none", "ok", "failed"} /\ UNCHANGED <<group, call>>
      BY <2>3 DEF WriteStep, Due, Continue, Leave
    <3> QED BY <3>1, <3>2, PromiseWork
  <2>4. CASE UNCHANGED vars
    <3>1. Displayed' = Displayed /\ Staged' = Staged /\ UNCHANGED <<call, ret>>
      BY <2>4 DEF vars, Displayed, Staged, Settings
    <3> QED BY <3>1 DEF Promise!vars
  <2> QED BY <2>1, <2>2, <2>3, <2>4 DEF Next
<1> QED BY <1>1, <1>2 DEF Plain, FieldGroups

-----------------------------------------------------------------------------
\* Thresholds come back as they were asked

\* The thresholds that a register has room for: powers that fit two bytes with a
\* sign, and error ratios of which half precision keeps the leading bits.  Below
\* 2^-14 it does so for powers of two only, as double_to_f16 rounds the others down
\* to one.
Representable ==
  /\ \A v \in Powers : -327680 <= v /\ v <= 327679
  /\ \A k \in BitErrors : k = 0 \/ k >= 65536 \/ \E n \in 6 .. 15 : k = Two(n)

\* A number of hundredths is next to the thousandths that it is made from.
LEMMA HundredthsNear ==
  ASSUME NEW v \in Int, -327680 <= v, v <= 327679, NEW h \in Hundredths(v)
  PROVE  /\ h \in Int /\ -32768 <= h /\ h <= 32767
         /\ h \in Near(v \div 10, 2) /\ Abs(10 * h - v) <= 10
<1> DEFINE sign == IF v < 0 THEN -1 ELSE 1
           m == Abs(v)
<1>1. h \in {sign * (m \div 10)} \cup (IF m % 10 = 0 /\ m > 0 THEN {sign * (m \div 10 - 1)} ELSE {})
  BY DEF Hundredths
<1>2. CASE v >= 0
  <2>1. h = v \div 10 \/ (v % 10 = 0 /\ v > 0 /\ h = v \div 10 - 1)
    BY <1>1, <1>2, SMT DEF Abs
  <2>2. /\ v \div 10 \in Int /\ v = (10 * (v \div 10)) + (v % 10) /\ v % 10 \in 0 .. 9
    BY SMT
  <2> DEFINE q == v \div 10
             r == v % 10
  <2> HIDE DEF q, r
  <2>3. /\ q \in Int /\ v = 10 * q + r /\ r \in 0 .. 9 /\ (h = q \/ (r = 0 /\ v > 0 /\ h = q - 1))
    BY <2>1, <2>2 DEF q, r
  <2>4. h \in Int /\ -32768 <= h /\ h <= 32767 /\ h \in q - 2 .. q + 2 /\ Abs(10 * h - v) <= 10
    BY <1>2, <2>3, SMT DEF Abs
  <2> QED BY <2>4 DEF Near, q
<1>3. CASE v < 0
  <2> DEFINE w == 0 - v
             q == w \div 10
             r == w % 10
             p == v \div 10
  <2>1. h = 0 - q \/ (r = 0 /\ w > 0 /\ h = 0 - (q - 1))
    BY <1>1, <1>3, SMT DEF Abs
  <2>2. /\ q \in Int /\ w = 10 * q + r /\ r \in 0 .. 9
        /\ p \in Int /\ 10 * p <= v /\ v < 10 * p + 10
    BY <1>3, SMT
  <2>3. w \in Int /\ w = 0 - v
    OBVIOUS
  <2> HIDE DEF q, r, w, p
  <2>4. /\ h \in Int /\ -32768 <= h /\ h <= 32767 /\ h \in p - 2 .. p + 2 /\ Abs(10 * h - v) <= 10
    BY <1>3, <2>1, <2>2, <2>3, SMT DEF Abs
  <2> QED BY <2>4 DEF Near, p
<1> QED BY <1>2, <1>3

\* A number with a sign comes back from two bytes.
LEMMA SignedBack ==
  ASSUME NEW h \in Int, -32768 <= h, h <= 32767
  PROVE  h % 65536 \in Nat /\ h % 65536 < 65536 /\ Signed(h % 65536) = h
<1>1. CASE h >= 0
  BY <1>1, SMT DEF Signed
<1>2. CASE h < 0
  BY <1>2, SMT DEF Signed
<1> QED BY <1>1, <1>2

\* The multiple of u that k is rounded to.
Back(k, u, h) == ((k - 1024 * u + h) \div u + 1024) * u

\* Rounding to a multiple of u moves a number by half of it at most.
LEMMA Rounding ==
  ASSUME NEW u \in Units, NEW h \in Int, u = 2 * h, NEW k \in Nat, 1024 * u <= k
  PROVE  Back(k, u, h) \in Near(k, h)
  BY SMT DEF Units, Back, Near

\* The powers of two between the others.
LEMMA PowersBetween ==
  ASSUME NEW n \in 16 .. 30
  PROVE  Two(n - 9) = 2 * Two(n - 10)
<1>1. CASE n = 16
  BY <1>1, SMT DEF Two
<1>2. CASE n = 17
  BY <1>2, SMT DEF Two
<1>3. CASE n = 18
  BY <1>3, SMT DEF Two
<1>4. CASE n = 19
  BY <1>4, SMT DEF Two
<1>5. CASE n = 20
  BY <1>5, SMT DEF Two
<1>6. CASE n = 21
  BY <1>6, SMT DEF Two
<1>7. CASE n = 22
  BY <1>7, SMT DEF Two
<1>8. CASE n = 23
  BY <1>8, SMT DEF Two
<1>9. CASE n = 24
  BY <1>9, SMT DEF Two
<1>10. CASE n = 25
  BY <1>10, SMT DEF Two
<1>11. CASE n = 26
  BY <1>11, SMT DEF Two
<1>12. CASE n = 27
  BY <1>12, SMT DEF Two
<1>13. CASE n = 28
  BY <1>13, SMT DEF Two
<1>14. CASE n = 29
  BY <1>14, SMT DEF Two
<1>15. CASE n = 30
  BY <1>15, SMT DEF Two
<1> QED
  BY <1>1, <1>2, <1>3, <1>4, <1>5, <1>6, <1>7, <1>8, <1>9, <1>10, <1>11, <1>12, <1>13, <1>14, <1>15, SMT

\* The powers of two below 2^-14 that half precision has.
SmallPowers == {64, 128, 256, 512, 1024, 2048, 4096, 8192, 16384, 32768}

\* Where the exponents of small numbers are.
LEMMA SmallTwo ==
  /\ \A n \in 0 .. 5 : Two(n + 1) <= 64
  /\ \A n \in 6 .. 15 :
       Two(n) \in SmallPowers /\ Two(n) = 64 * Two(n - 6) /\ Two(n + 1) = 2 * Two(n) /\ Two(n - 6) \in Nat
  /\ \A n \in 16 .. 30 : Two(n) \in Nat /\ Two(n) >= 65536
<1>1. \A n \in 0 .. 5 : Two(n + 1) <= 64
  <2> TAKE n \in 0 .. 5
  <2>1. CASE n = 0
    BY <2>1, SMT DEF Two
  <2>2. CASE n = 1
    BY <2>2, SMT DEF Two
  <2>3. CASE n = 2
    BY <2>3, SMT DEF Two
  <2>4. CASE n = 3
    BY <2>4, SMT DEF Two
  <2>5. CASE n = 4
    BY <2>5, SMT DEF Two
  <2>6. CASE n = 5
    BY <2>6, SMT DEF Two
  <2> QED BY <2>1, <2>2, <2>3, <2>4, <2>5, <2>6, SMT
<1>2. \A n \in 6 .. 15 :
        Two(n) \in SmallPowers /\ Two(n) = 64 * Two(n - 6) /\ Two(n + 1) = 2 * Two(n) /\ Two(n - 6) \in Nat
  <2> TAKE n \in 6 .. 15
  <2>1. CASE n = 6
    BY <2>1, SMT DEF Two, SmallPowers
  <2>2. CASE n = 7
    BY <2>2, SMT DEF Two, SmallPowers
  <2>3. CASE n = 8
    BY <2>3, SMT DEF Two, SmallPowers
  <2>4. CASE n = 9
    BY <2>4, SMT DEF Two, SmallPowers
  <2>5. CASE n = 10
    BY <2>5, SMT DEF Two, SmallPowers
  <2>6. CASE n = 11
    BY <2>6, SMT DEF Two, SmallPowers
  <2>7. CASE n = 12
    BY <2>7, SMT DEF Two, SmallPowers
  <2>8. CASE n = 13
    BY <2>8, SMT DEF Two, SmallPowers
  <2>9. CASE n = 14
    BY <2>9, SMT DEF Two, SmallPowers
  <2>10. CASE n = 15
    BY <2>10, SMT DEF Two, SmallPowers
  <2> QED BY <2>1, <2>2, <2>3, <2>4, <2>5, <2>6, <2>7, <2>8, <2>9, <2>10, SMT
<1>3. \A n \in 16 .. 30 : Two(n) \in Nat /\ Two(n) >= 65536
  <2> TAKE n \in 16 .. 30
  <2>1. Two(n - 10) \in Units /\ Two(n) = 1024 * Two(n - 10)
    BY PowersOfTwo
  <2> QED BY <2>1, SMT DEF Units
<1> QED BY <1>1, <1>2, <1>3

\* The exponent and the spacing of a normal number.
LEMMA NormalExponent ==
  ASSUME NEW k \in Nat, 65536 <= k
  PROVE  /\ Log2(k) \in 16 .. 30 /\ Two(Log2(k)) <= k
         /\ Log2(k) = 30 \/ k < Two(Log2(k) + 1)
<1> DEFINE n == Log2(k)
<1>1. n \in 0 .. 30 /\ Two(n) <= k /\ (n = 30 \/ k < Two(n + 1))
  BY Log2Fits, SMT DEF Two
<1> HIDE DEF n
<1>2. n \notin 0 .. 5
  BY <1>1, SmallTwo, SMT
<1>3. n \notin 6 .. 15
  <2>1. SUFFICES ASSUME n \in 6 .. 15 PROVE FALSE
    OBVIOUS
  <2>2. Two(n) <= 32768 /\ Two(n + 1) = 2 * Two(n) /\ Two(n) \in Int
    BY <2>1, SmallTwo, SMT DEF SmallPowers
  <2> QED BY <1>1, <2>1, <2>2, SMT
<1>4. n \in 16 .. 30
  BY <1>1, <1>2, <1>3, SMT
<1> QED BY <1>1, <1>4 DEF n

\* A normal number comes back within half of the distance to the next.
LEMMA F16Normal ==
  ASSUME NEW k \in Nat, 65536 <= k, k <= 2^30
  PROVE  f16_to_double(double_to_f16(k)) \in Near(k, Precision(k) \div 2)
<1> DEFINE n == Log2(k)
           u == Two(n - 10)
           h == Two(n - 11)
           mant == (k - 1024 * u + h) \div u
           raw == double_to_f16(k)
<1>1. n \in 16 .. 30 /\ Two(n) <= k /\ (n = 30 \/ k < Two(n + 1))
  BY NormalExponent
<1>2. /\ u \in Units /\ Two(n) = 1024 * u /\ Two(n + 1) = 2048 * u
      /\ u = 2 * h /\ h \in Int /\ Two(n - 9) = 2 * u
  <2> HIDE DEF n
  <2> QED BY <1>1, PowersOfTwo, PowersBetween
<1>3. 1024 * u <= k
  BY <1>1, <1>2
<1>4. k < 2048 * u
  <2>1. k <= Two(30) /\ Two(30) = 1073741824
    BY SMT DEF Two
  <2>2. n = 30 => Two(30) = 1024 * u
    BY <1>2
  <2>3. u \in Int /\ u > 0
    BY <1>2, SMT DEF Units
  <2> HIDE DEF u, n
  <2> QED BY <1>1, <1>2, <2>1, <2>2, <2>3, SMT
<1>5. mant \in 0 .. 1024
  <2> HIDE DEF u, h
  <2> QED BY <1>2, <1>3, <1>4, Mantissa
<1>6. (mant + 1024) * u \in Near(k, h)
  <2> HIDE DEF u, h
  <2>1. Back(k, u, h) \in Near(k, h)
    BY <1>2, <1>3, Rounding
  <2> QED BY <2>1 DEF Back
<1>7. raw = IF mant >= 1024 THEN (n - 14) * 1024 ELSE (n - 15) * 1024 + mant
  <2> DEFINE mant2 == (k - 2^n + 2^(n - 11)) \div 2^(n - 10)
             sub == IF (k + 32) \div 64 > 2^(n - 6) THEN 2^(n - 6) ELSE (k + 32) \div 64
  <2>1. raw = CASE n < 6 -> 0
                [] n \in 6 .. 15 -> sub
                [] OTHER -> IF mant2 >= 1024 THEN (n - 14) * 1024 ELSE (n - 15) * 1024 + mant2
    BY SMT DEF double_to_f16
  <2>2. ~(n < 6) /\ n \notin 6 .. 15
    <3> HIDE DEF n
    <3> QED BY <1>1, SMT
  <2>3. mant2 = mant
    <3>1. mant2 = (k - Two(n) + Two(n - 11)) \div Two(n - 10)
      BY DEF Two
    <3> HIDE DEF mant2, n
    <3> QED BY <1>2, <3>1
  <2> HIDE DEF mant, mant2, n, raw, sub
  <2> QED BY <2>1, <2>2, <2>3
<1>8. f16_to_double(raw) = (mant + 1024) * u
  <2> DEFINE e == raw \div 1024
             m == raw % 1024
  <2>1. f16_to_double(raw) = IF e = 0 THEN m * 64 ELSE (m + 1024) * Two(e + 5)
    BY DEF f16_to_double, Two
  <2>2. CASE mant < 1024
    <3>1. raw = (n - 15) * 1024 + mant
      <4> HIDE DEF raw, mant, n
      <4> QED BY <1>5, <1>7, <2>2, SMT
    <3>2. e = n - 15 /\ m = mant
      <4> HIDE DEF raw, mant, n
      <4> QED BY <1>1, <1>5, <2>2, <3>1, SMT
    <3>3. e # 0 /\ e + 5 = n - 10
      <4> HIDE DEF e, n
      <4> QED BY <1>1, <3>2, SMT
    <3> HIDE DEF e, m, n, mant, raw
    <3> QED BY <2>1, <3>2, <3>3
  <2>3. CASE mant = 1024
    <3>1. raw = (n - 14) * 1024
      <4> HIDE DEF raw, mant, n
      <4> QED BY <1>7, <2>3, SMT
    <3>2. e = n - 14 /\ m = 0
      <4> HIDE DEF raw, n
      <4> QED BY <1>1, <3>1, SMT
    <3>3. e # 0 /\ e + 5 = n - 9
      <4> HIDE DEF e, n
      <4> QED BY <1>1, <3>2, SMT
    <3>4. f16_to_double(raw) = 1024 * (2 * u)
      <4> HIDE DEF e, m, n, u, raw
      <4> QED BY <1>2, <2>1, <3>2, <3>3
    <3>5. u \in Int
      BY <1>2, SMT DEF Units
    <3> HIDE DEF u, mant, raw
    <3> QED BY <2>3, <3>4, <3>5, SMT
  <2> HIDE DEF mant
  <2> QED BY <1>5, <2>2, <2>3, SMT
<1>9. Precision(k) \div 2 = h
  <2>1. ~(k < 2^16)
    BY SMT
  <2>2. Precision(k) = u
    BY <2>1 DEF Precision, Two
  <2> HIDE DEF u, h
  <2> QED BY <1>2, <2>2, SMT
<1> HIDE DEF mant, u, h, raw
<1> QED BY <1>6, <1>8, <1>9 DEF raw

\* Below them, nothing and the powers of two come back as they are.
LEMMA F16Small ==
  ASSUME NEW k \in Nat, k = 0 \/ \E n \in 6 .. 15 : k = Two(n)
  PROVE  f16_to_double(double_to_f16(k)) \in Near(k, Precision(k) \div 2)
<1>1. k < 65536
  <2>1. CASE k = 0
    BY <2>1, SMT
  <2>2. CASE \E n \in 6 .. 15 : k = Two(n)
    <3>1. k \in SmallPowers
      BY <2>2, SmallTwo
    <3> QED BY <3>1, SMT DEF SmallPowers
  <2> QED BY <2>1, <2>2
<1>2. Precision(k) = 64
  BY <1>1, SMT DEF Precision
<1>3. f16_to_double(double_to_f16(k)) = k
  <2>1. CASE k = 0
    BY <2>1, SMT DEF double_to_f16, f16_to_double
  <2>2. CASE \E n \in 6 .. 15 : k = Two(n)
    <3> DEFINE n == Log2(k)
               low == Two(n - 6)
    <3>1. k \in SmallPowers
      BY <2>2, SmallTwo
    <3>2. k > 0 /\ 64 <= k
      BY <3>1, SMT DEF SmallPowers
    <3>3. n \in 0 .. 30 /\ Two(n) <= k /\ (n = 30 \/ k < Two(n + 1))
      BY <3>2, Log2Fits, SMT DEF Two
    <3>4. n \in 6 .. 15
      <4> HIDE DEF n
      <4>1. n \notin 0 .. 5
        BY <3>2, <3>3, SmallTwo, SMT
      <4>2. n \notin 16 .. 30
        BY <1>1, <3>3, SmallTwo, SMT
      <4> QED BY <3>3, <4>1, <4>2, SMT
    <3>5. /\ Two(n) \in SmallPowers /\ Two(n) = 64 * low /\ Two(n + 1) = 2 * Two(n) /\ low \in Nat
      <4> HIDE DEF n
      <4> QED BY <3>4, SmallTwo
    <3>6. k = 64 * low
      <4>1. k < 2 * Two(n)
        <5> HIDE DEF n, low
        <5> QED BY <3>3, <3>4, <3>5, SMT
      <4>2. k = Two(n)
        <5> DEFINE t == Two(n)
        <5>1. t \in SmallPowers /\ t <= k /\ k < 2 * t
          BY <3>3, <3>5, <4>1
        <5> HIDE DEF t
        <5>2. k = t
          BY <3>1, <5>1, SMT DEF SmallPowers
        <5> QED BY <5>2 DEF t
      <4> QED BY <3>5, <4>2
    <3>7. low <= 512
      <4> HIDE DEF low
      <4> QED BY <3>1, <3>5, <3>6, SMT DEF SmallPowers
    <3> DEFINE sub == IF (k + 32) \div 64 > low THEN low ELSE (k + 32) \div 64
               mant == (k - 2^n + 2^(n - 11)) \div 2^(n - 10)
    <3>8. double_to_f16(k) = CASE n < 6 -> 0
                               [] n \in 6 .. 15 -> sub
                               [] OTHER -> IF mant >= 1024 THEN (n - 14) * 1024 ELSE (n - 15) * 1024 + mant
      BY <3>2, SMT DEF double_to_f16, Two
    <3>9. sub = low
      <4> HIDE DEF low
      <4>1. (k + 32) \div 64 = low
        BY <3>5, <3>6, SMT
      <4> QED BY <4>1, <3>5, SMT
    <3>10. double_to_f16(k) = low
      <4> HIDE DEF n, low, sub, mant
      <4> QED BY <3>4, <3>8, <3>9, SMT
    <3>11. low \div 1024 = 0 /\ low % 1024 = low
      <4> HIDE DEF low
      <4> QED BY <3>5, <3>7, SMT
    <3>12. f16_to_double(low) = low * 64
      <4> HIDE DEF low
      <4> QED BY <3>11 DEF f16_to_double
    <3> HIDE DEF low
    <3> QED BY <3>5, <3>6, <3>10, <3>12, SMT
  <2> QED BY <2>1, <2>2
<1> QED BY <1>2, <1>3, SMT DEF Near

\* The number that a display makes of the two bytes of a threshold.
Shown(r, raw) == IF r \in thresh_descs.s16 THEN Signed(raw) ELSE f16_to_double(raw)

ThresholdGroups == {"power", "ber"}

\* What is left of a call for a threshold is the one write, and a display makes of
\* its two bytes what was asked.
ThresholdWork ==
  ret = "none" /\ group \in ThresholdGroups =>
    /\ call.reg \in GroupRegisters[group]
    /\ DOMAIN RequestOf(call) = {<<call.reg, "value">>}
    /\ \E raw \in Nat :
         /\ raw < 65536 /\ prog = <<Write(call.reg, WordOf(raw))>>
         /\ Shown(call.reg, raw) \in RequestOf(call)[<<call.reg, "value">>]

\* The registers of the thresholds, and how they are displayed.
LEMMA ThresholdShown ==
  ASSUME NEW g \in ThresholdGroups, NEW r \in GroupRegisters[g]
  PROVE  /\ r \in Words /\ r \notin Hidden /\ r \notin Cdr
         /\ r \notin {"ApplyImmediate", "LaneSwitchCommit", "ModuleControl", "PasswordChange"}
         /\ \A v : Decode(r, "value", v) = Shown(r, Raw(v))
<1>1. r \in thresh_descs.s16 \cup thresh_descs.f16 \cup host_thresh_descs
  BY DEF ThresholdGroups, GroupRegisters
<1>2. /\ r \in Words /\ r \notin Hidden /\ r \notin Cdr
      /\ r \notin {"ApplyImmediate", "LaneSwitchCommit", "ModuleControl", "PasswordChange"}
  BY <1>1 DEF Words, thresh_descs, host_thresh_descs, Hidden, Cdr
<1>3. ASSUME NEW v PROVE Decode(r, "value", v) = Shown(r, Raw(v))
  <2>1. CASE r \in thresh_descs.s16
    BY <2>1 DEF Decode, cmis_show_coherent_thresholds, Shown, thresh_descs, host_thresh_descs, Select, Blocks
  <2>2. CASE r \in thresh_descs.f16
    BY <2>2 DEF Decode, cmis_show_coherent_thresholds, Shown, thresh_descs, host_thresh_descs, Select, Blocks
  <2>3. CASE r \in host_thresh_descs
    BY <2>3 DEF Decode, cmis_show_host_thresholds, Shown, thresh_descs, host_thresh_descs, Select, Blocks
  <2> QED BY <1>1, <2>1, <2>2, <2>3
<1> QED BY <1>2, <1>3

\* The two bytes of a number.
LEMMA WordBack ==
  ASSUME NEW raw \in Nat, raw < 65536
  PROVE  Raw(WordOf(raw)) = raw
<1> DEFINE h == raw \div 256
           l == raw % 256
<1>1. h \in 0 .. 255 /\ l \in 0 .. 255 /\ raw = (256 * h) + l
  BY TwoBytes
<1>2. Raw(WordOf(raw)) = h * 256 + l
  BY DEF Raw, WordOf
<1>3. h \in Int /\ l \in Int
  BY <1>1
<1> HIDE DEF h, l
<1> QED BY <1>1, <1>2, <1>3

\* A call for a power encodes it so that it is displayed as it was asked.
LEMMA PowerCall ==
  ASSUME Representable, NEW c \in CallsOf["power"], Valid(c), NEW p \in Programs(c)
  PROVE  /\ c.op \in {"threshold", "host_threshold"} /\ c.reg \in GroupRegisters["power"]
         /\ DOMAIN RequestOf(c) = {<<c.reg, "value">>}
         /\ \E raw \in Nat :
              /\ raw < 65536 /\ p = <<Write(c.reg, WordOf(raw))>>
              /\ Shown(c.reg, raw) \in RequestOf(c)[<<c.reg, "value">>]
<1>1. /\ c.op = "threshold" /\ c.reg \in thresh_descs.s16 /\ c.value \in Powers /\ c.value \in Int
      /\ c.reg \notin thresh_descs.f16
  BY CallsOfGroups, ArgumentsAssumption
     DEF ArgumentsAssumption, Valid, Words, thresh_descs, host_thresh_descs
<1>2. PICK h \in Hundredths(c.value) : p = <<Write(c.reg, WordOf(h % 65536))>>
  BY <1>1 DEF Programs, cmis_coherent_set_threshold
<1> DEFINE v == c.value
           raw == h % 65536
<1>3. /\ h \in Int /\ -32768 <= h /\ h <= 32767
      /\ h \in Near(v \div 10, 2) /\ Abs(10 * h - v) <= 10
  <2>1. v \in Int /\ -327680 <= v /\ v <= 327679
    BY <1>1 DEF Representable
  <2> HIDE DEF v
  <2>2. h \in Hundredths(v)
    BY DEF v
  <2> QED BY <2>1, <2>2, HundredthsNear
<1>4. raw \in Nat /\ raw < 65536 /\ Signed(raw) = h
  BY <1>3, SignedBack
<1>5. RequestOf(c) = All({<<c.reg, "value">>}, {x \in Near(v \div 10, 2) : Abs(10 * x - v) <= 10})
  BY <1>1 DEF RequestOf
<1>6. /\ DOMAIN RequestOf(c) = {<<c.reg, "value">>}
      /\ RequestOf(c)[<<c.reg, "value">>] = {x \in Near(v \div 10, 2) : Abs(10 * x - v) <= 10}
  BY <1>5 DEF All
<1>7. Shown(c.reg, raw) = h
  BY <1>1, <1>4 DEF Shown
<1>8. c.reg \in GroupRegisters["power"]
  BY <1>1 DEF GroupRegisters
<1> HIDE DEF v
<1>9. Shown(c.reg, raw) \in RequestOf(c)[<<c.reg, "value">>]
  <2> HIDE DEF raw
  <2> QED BY <1>3, <1>6, <1>7
<1>10. p = <<Write(c.reg, WordOf(raw))>>
  BY <1>2
<1> HIDE DEF raw
<1> QED BY <1>1, <1>4, <1>6, <1>8, <1>9, <1>10

\* So does a call for an error ratio.
LEMMA BerCall ==
  ASSUME Representable, NEW c \in CallsOf["ber"], Valid(c), NEW p \in Programs(c)
  PROVE  /\ c.op \in {"threshold", "host_threshold"} /\ c.reg \in GroupRegisters["ber"]
         /\ DOMAIN RequestOf(c) = {<<c.reg, "value">>}
         /\ \E raw \in Nat :
              /\ raw < 65536 /\ p = <<Write(c.reg, WordOf(raw))>>
              /\ Shown(c.reg, raw) \in RequestOf(c)[<<c.reg, "value">>]
<1> DEFINE raw == double_to_f16(c.value)
           v == c.value
<1>1. \/ c.op = "threshold" /\ c.reg \in thresh_descs.f16
      \/ c.op = "host_threshold" /\ c.reg \in host_thresh_descs
  BY CallsOfGroups DEF Valid, Words, thresh_descs, host_thresh_descs
<1>2. c.value \in BitErrors
  BY CallsOfGroups
<1>3. v \in Nat /\ v <= 2^30 /\ (v = 0 \/ v >= 65536 \/ \E n \in 6 .. 15 : v = Two(n))
  BY <1>2, BitErrorsAssumption DEF BitErrorsAssumption, Representable
<1>4. raw \in Nat /\ raw < 65536
  BY <1>3, F16Range
<1>5. p = <<Write(c.reg, WordOf(raw))>>
  BY <1>1 DEF Programs, cmis_coherent_set_threshold, cmis_coherent_set_host_threshold
<1>6. c.reg \in GroupRegisters["ber"] /\ c.reg \notin thresh_descs.s16
  BY <1>1 DEF GroupRegisters, thresh_descs, host_thresh_descs
<1>7. RequestOf(c) = All({<<c.reg, "value">>}, Near(v, Precision(v) \div 2))
  BY <1>1, <1>6 DEF RequestOf
<1>8. /\ DOMAIN RequestOf(c) = {<<c.reg, "value">>}
      /\ RequestOf(c)[<<c.reg, "value">>] = Near(v, Precision(v) \div 2)
  BY <1>7 DEF All
<1>9. f16_to_double(double_to_f16(v)) \in Near(v, Precision(v) \div 2)
  <2> HIDE DEF v
  <2>1. CASE v >= 65536
    BY <1>3, <2>1, F16Normal
  <2>2. CASE v = 0 \/ \E n \in 6 .. 15 : v = Two(n)
    BY <1>3, <2>2, F16Small
  <2> QED BY <1>3, <2>1, <2>2
<1>10. Shown(c.reg, raw) = f16_to_double(double_to_f16(v))
  BY <1>6 DEF Shown
<1> HIDE DEF raw, v
<1> QED BY <1>1, <1>4, <1>5, <1>6, <1>8, <1>9, <1>10

\* A step of the groups of thresholds leaves one write, or nothing.
LEMMA ThresholdStep ==
  ASSUME Representable, RegistersInv, ThresholdWork, [Next]_vars
  PROVE  ThresholdWork'
<1>1. CASE Call
  <2>1. SUFFICES ASSUME ret' = "none", group \in ThresholdGroups
                 PROVE  /\ call'.reg \in GroupRegisters[group]
                        /\ DOMAIN RequestOf(call') = {<<call'.reg, "value">>}
                        /\ \E raw \in Nat :
                             /\ raw < 65536 /\ prog' = <<Write(call'.reg, WordOf(raw))>>
                             /\ Shown(call'.reg, raw) \in RequestOf(call')[<<call'.reg, "value">>]
    BY <1>1 DEF Call, ThresholdWork
  <2>2. PICK c \in CallsOf[group] :
          /\ call' = IF c.op = "password_change"
                     THEN [op |-> c.op, current |-> c.current, new |-> c.new,
                           right |-> WordOf(c.current) = reg["Password"]]
                     ELSE c
          /\ Valid(c) /\ prog' \in Programs(c)
    BY <1>1, <2>1 DEF Call
  <2>3. /\ c.op \in {"threshold", "host_threshold"} /\ c.reg \in GroupRegisters[group]
        /\ DOMAIN RequestOf(c) = {<<c.reg, "value">>}
        /\ \E raw \in Nat :
             /\ raw < 65536 /\ prog' = <<Write(c.reg, WordOf(raw))>>
             /\ Shown(c.reg, raw) \in RequestOf(c)[<<c.reg, "value">>]
    <3>1. CASE group = "power"
      <4>1. c \in CallsOf["power"] /\ Valid(c) /\ prog' \in Programs(c)
        BY <2>2, <3>1
      <4>2. /\ c.op \in {"threshold", "host_threshold"} /\ c.reg \in GroupRegisters["power"]
            /\ DOMAIN RequestOf(c) = {<<c.reg, "value">>}
            /\ \E raw \in Nat :
                 /\ raw < 65536 /\ prog' = <<Write(c.reg, WordOf(raw))>>
                 /\ Shown(c.reg, raw) \in RequestOf(c)[<<c.reg, "value">>]
        BY <4>1, PowerCall
      <4> QED BY <3>1, <4>2
    <3>2. CASE group = "ber"
      BY <2>2, <3>2, BerCall
    <3> QED BY <2>1, <3>1, <3>2 DEF ThresholdGroups
  <2>4. call' = c
    BY <2>2, <2>3
  <2> QED BY <2>3, <2>4
<1>2. CASE ReadStep \/ CheckStep \/ WriteStep
  <2>1. UNCHANGED group /\ ret = "none"
    BY <1>2 DEF ReadStep, CheckStep, WriteStep, Due
  <2>2. ASSUME ret' = "none", group \in ThresholdGroups PROVE FALSE
    <3>1. Tail(prog) # <<>>
      BY <1>2, <2>2 DEF ReadStep, CheckStep, WriteStep, Continue, Leave
    <3>2. PICK raw : prog = <<Write(call.reg, WordOf(raw))>>
      BY <2>1, <2>2 DEF ThresholdWork
    <3> QED BY <3>1, <3>2, ShortPrograms
  <2> QED BY <2>1, <2>2 DEF ThresholdWork
<1>3. CASE UNCHANGED vars
  BY <1>3 DEF vars, ThresholdWork
<1> QED BY <1>1, <1>2, <1>3 DEF Next

\* The write of a threshold.
LEMMA ThresholdRefines ==
  ASSUME RegistersInv, ThresholdWork, WriteStep, group \in ThresholdGroups, NEW k \in Settings
  PROVE  Promised(k)
<1> DEFINE r == call.reg
           asked == RequestOf(call)
<1>1. ret = "none" /\ UNCHANGED <<group, call>>
  BY DEF WriteStep, Due
<1>2. PICK raw \in Nat :
        /\ raw < 65536 /\ prog = <<Write(r, WordOf(raw))>>
        /\ Shown(r, raw) \in asked[<<r, "value">>]
  BY <1>1 DEF ThresholdWork
<1>3. r \in GroupRegisters[group] /\ DOMAIN asked = {<<r, "value">>}
  BY <1>1 DEF ThresholdWork
<1>4. PICK regs, whole : Stores(prog[1], regs, whole)
  BY WriteDue
<1>5. Head(prog) = prog[1] /\ DOMAIN reg = GroupRegisters[group]
  BY WriteDue
<1>6. prog[1] = Write(r, WordOf(raw))
  BY <1>2, <1>5, ShortPrograms
<1>7. prog[1].reg = r /\ prog[1].val = WordOf(raw)
  BY <1>6, WriteParts
<1>8. /\ k = <<k[1], "value">> /\ k[1] \in GroupRegisters[group]
  <2>1. /\ k = <<k[1], k[2]>> /\ k[1] \in GroupRegisters[group]
        /\ k[2] \in IF k[1] \in Words THEN {"value"} ELSE Fields(k[1])
    BY SettingParts DEF Settings, SettingsOf
  <2>2. k[1] \in Words
    BY <2>1, ThresholdShown
  <2> QED BY <2>1, <2>2
<1>9. /\ k[1] \notin Cdr /\ r \notin {"ApplyImmediate", "LaneSwitchCommit", "ModuleControl", "PasswordChange"}
      /\ \A v : Decode(k[1], "value", v) = Shown(k[1], Raw(v))
  BY <1>3, <1>8, ThresholdShown
<1>10. /\ \A q \in DOMAIN reg : q # r => regs[q] = reg[q]
       /\ whole => \A f \in DOMAIN WordOf(raw) : regs[r][f] = WordOf(raw)[f]
       /\ reg' = IF whole THEN Obeyed(r, regs) ELSE regs
       /\ (whole /\ Continue) \/ Leave
  BY <1>4, <1>7 DEF Stores
<1>11. reg' = regs
  BY <1>9, <1>10 DEF Obeyed
<1>12. /\ Displayed[k] = Shown(k[1], Raw(reg[k[1]])) /\ Displayed'[k] = Shown(k[1], Raw(reg'[k[1]]))
       /\ Staged[k] = Displayed[k] /\ Staged'[k] = Displayed'[k]
  <2>1. Settings' = Settings
    BY <1>1 DEF Settings
  <2>2. k[2] = "value"
    BY <1>8
  <2>3. Staged[k] = Decode(k[1], k[2], reg[k[1]]) /\ Staged'[k] = Decode(k[1], k[2], reg'[k[1]])
    BY <2>1 DEF Staged
  <2>4. /\ Displayed[k] = Decode(k[1], k[2], reg[k[1]])
        /\ Displayed'[k] = Decode(k[1], k[2], reg'[k[1]])
    BY <1>9, <2>1 DEF Displayed, Cdr
  <2> QED BY <1>9, <2>2, <2>3, <2>4
<1>13. CASE k[1] # r
  <2>1. k \notin DOMAIN asked
    BY <1>3, <1>13
  <2>2. reg'[k[1]] = reg[k[1]]
    BY <1>5, <1>8, <1>10, <1>11, <1>13
  <2> QED BY <1>12, <2>1, <2>2 DEF Promised
<1>14. CASE k[1] = r
  <2>1. k = <<r, "value">> /\ k \in DOMAIN asked
    BY <1>3, <1>8, <1>14
  <2>2. CASE Leave
    BY <2>1, <2>2 DEF Leave, Promised
  <2>3. CASE whole
    <3>1. regs[r]["high"] = WordOf(raw)["high"] /\ regs[r]["low"] = WordOf(raw)["low"]
      <4>1. DOMAIN WordOf(raw) = {"high", "low"}
        BY DEF WordOf
      <4> QED BY <1>10, <2>3, <4>1
    <3>2. Raw(reg'[r]) = raw
      BY <1>2, <1>11, <3>1, WordBack DEF Raw
    <3>3. Displayed'[k] \in asked[k] /\ Staged'[k] \in asked[k]
      BY <1>2, <1>12, <1>14, <2>1, <3>2
    <3> QED BY <1>12, <2>1, <3>3 DEF Promised
  <2> QED BY <1>10, <2>2, <2>3
<1> QED BY <1>13, <1>14

\* Every step of the groups of thresholds is one of LaneSettings.
LEMMA ThresholdsRefine ==
  ASSUME RegistersInv, ThresholdWork, [Next]_vars, group \in ThresholdGroups
  PROVE  [Promise!Next]_(Promise!vars)
<1>1. CASE Call
  BY <1>1, CallAsks
<1>2. CASE ReadStep \/ CheckStep
  <2>1. ret = "none" /\ Head(prog).do \in {"read", "check"}
    BY <1>2 DEF ReadStep, CheckStep, Due
  <2>2. PICK raw : prog = <<Write(call.reg, WordOf(raw))>>
    BY <2>1 DEF ThresholdWork
  <2>3. Head(prog).do = "write"
    BY <2>2, ShortPrograms, WriteParts
  <2> QED BY <2>1, <2>3
<1>3. CASE WriteStep
  <2>1. \A k \in Settings : Promised(k)
    BY <1>3, ThresholdRefines
  <2>2. ret = "none" /\ ret' \in {"none", "ok", "failed"} /\ UNCHANGED <<group, call>>
    BY <1>3 DEF WriteStep, Due, Continue, Leave
  <2> QED BY <2>1, <2>2, PromiseWork
<1>4. CASE UNCHANGED vars
  <2>1. Displayed' = Displayed /\ Staged' = Staged /\ UNCHANGED <<call, ret>>
    BY <1>4 DEF vars, Displayed, Staged, Settings
  <2> QED BY <2>1 DEF Promise!vars
<1> QED BY <1>1, <1>2, <1>3, <1>4 DEF Next

\* The initial states are settled.
LEMMA PromiseStarts ==
  ASSUME Init
  PROVE  Promise!Init
<1>1. DOMAIN Displayed = Settings /\ DOMAIN Staged = Settings
  BY DEF Displayed, Staged
<1> QED BY <1>1 DEF Init, Promise!Init

\* The module controls that are not plain are worked off as well.
THEOREM SpecialInvariant == Spec => [](ResetWork /\ ChangeWork)
<1>1. Init => ResetWork /\ ChangeWork
  BY DEF Init, ResetWork, ChangeWork
<1>2. RegistersInv /\ ResetWork /\ ChangeWork /\ [Next]_vars => ResetWork' /\ ChangeWork'
  BY SpecialStep
<1> QED BY <1>1, <1>2, RegistersInvariant, PTL DEF Spec

\* What is left of a call for a threshold is displayed as it was asked.
THEOREM ThresholdInvariant == Spec /\ Representable => []ThresholdWork
<1>1. Init => ThresholdWork
  BY DEF Init, ThresholdWork
<1>2. RegistersInv /\ Representable /\ ThresholdWork /\ [Next]_vars => ThresholdWork'
  BY ThresholdStep
<1>3. Representable /\ [Next]_vars => Representable'
  BY DEF Representable
<1> QED BY <1>1, <1>2, <1>3, RegistersInvariant, PTL DEF Spec

\* The filter type is left aside: it is written in other bits than it is read from.
NoFilter == "filter" \notin Groups

\* The operations keep the promise of LaneSettings: whatever fails and whatever
\* settings share the bytes that are written, a call changes the settings that it is
\* about to what was asked and no other, and after success the displays say so, for
\* the thresholds that the registers have room for.
THEOREM SettingsImplemented ==
  Spec /\ Representable /\ NoFilter => ImplementsSettings
<1>1. Init => Promise!Init
  BY PromiseStarts
<1>2. /\ NoFilter /\ RegistersInv /\ ResetInv /\ WorkInv /\ ResetWork /\ ChangeWork /\ ThresholdWork
      /\ [Next]_vars
      => [Promise!Next]_(Promise!vars)
  <2> SUFFICES ASSUME NoFilter, RegistersInv, ResetInv, WorkInv, ResetWork, ChangeWork, ThresholdWork,
                      [Next]_vars
               PROVE  [Promise!Next]_(Promise!vars)
    OBVIOUS
  <2>1. group \in DOMAIN GroupRegisters /\ group # "filter"
    BY GroupsAssumption DEF GroupsAssumption, RegistersInv, TypeOK, NoFilter
  <2>2. group \in FieldGroups \cup ThresholdGroups
    BY <2>1 DEF GroupRegisters, FieldGroups, PlainGroups, ThresholdGroups
  <2> QED BY <2>2, FieldGroupsRefine, ThresholdsRefine
<1>3. Representable /\ NoFilter /\ [Next]_vars => Representable' /\ NoFilter'
  BY DEF Representable, NoFilter
<1> QED BY <1>1, <1>2, <1>3, RegistersInvariant, ResetInvariant, WorkInvariant, SpecialInvariant,
           ThresholdInvariant, PTL DEF Spec, ImplementsSettings, Promise!Spec
=============================================================================
