----------------------------- MODULE Registers ------------------------------
(***************************************************************************)
(* The operations that change one control of a module: the lane controls   *)
(* of pages 10h, 12h, 13h, 16h, 17h, 1Dh, 31h, 32h, 38h and 3Bh, the       *)
(* thresholds of pages 30h and 38h, and the module controls of page 00h.   *)
(* Each is a short program of transfers: it reads a register, changes the  *)
(* fields it is about and writes the register back, for one register or    *)
(* for several in turn, and leaves at the first transfer that fails.       *)
(*                                                                         *)
(* A register is a sequence of bytes and a byte a set of fields: the bits  *)
(* of the lanes, nibbles of two lanes, the flags that share a byte.  Pages *)
(* do not share state, so a behaviour stays with the registers of a group. *)
(***************************************************************************)
EXTENDS Integers, Sequences, FiniteSets

CONSTANTS NLanes,      \* lanes of a bank, a multiple of 4
          MaxCalls,    \* bound: calls of a behaviour
          Groups,      \* the groups of registers a behaviour may be about
          Fills,       \* what the fields of the registers are at first
          LaneMasks,   \* sets of lanes that the callers use
          Targets,     \* nibbles that the callers use, valid or not
          Patterns,    \* test patterns
          BertBlocks,  \* sets of generators and checkers that a test uses
          Powers,      \* thresholds in thousandths of a dBm
          BitErrors,   \* thresholds in units of 2^-30
          Passwords,   \* passwords, of two bytes
          Texts        \* sequences of bytes that the callers write

ASSUME NLanesAssumption == NLanes \in Nat /\ NLanes > 0 /\ NLanes % 4 = 0
ASSUME LaneMasksAssumption == LaneMasks \subseteq SUBSET (0 .. NLanes - 1) \ {{}}
ASSUME PatternsAssumption == Patterns \subseteq 0 .. 15
ASSUME MaxCallsAssumption == MaxCalls \in Nat
ASSUME FillsAssumption == Fills \subseteq {0, 1}
\* The arguments are unsigned in the code: a byte, two bytes, strings of bytes.
ASSUME ArgumentsAssumption ==
  /\ Targets \subseteq Nat /\ Texts \subseteq Seq(0 .. 255) /\ Powers \subseteq Int
  /\ \A pw \in Passwords : pw \in Nat /\ pw < 65536
ASSUME BitErrorsAssumption == \A k \in BitErrors : k \in Nat /\ k <= 2^30

VARIABLES group,    \* the registers of the behaviour, a member of Groups
          reg,      \* external: the registers, by name and field
          active,   \* external: the values in force of the registers that are staged
          caps,     \* external: the patterns each block advertises
          call,     \* the operation that was called last
          prog,     \* the transfers it still has to do
          buf,      \* the register it has read
          ret,      \* what it returned, "none" while it runs
          calls     \* calls so far

vars == <<group, reg, active, caps, call, prog, buf, ret, calls>>

Lanes == 0 .. NLanes - 1

-----------------------------------------------------------------------------
\* The registers and their layout

DirectControls ==
  {"OutputDisableTx", "InputPolarityFlipTx", "OutputPolarityFlipRx", "OutputDisableRx",
   "AutoSquelchDisableTx", "OutputSquelchForceTx", "AutoSquelchDisableRx",
   "AdaptiveInputEqFreezeTx", "LaneMask"}
StagedBits == {"CDREnableTx", "CDREnableRx", "AdaptiveInputEqEnableTx"}
StagedTargets ==
  {"FixedInputTargetTx", "OutputEqPreCursorTargetRx", "OutputEqPostCursorTargetRx",
   "OutputAmplitudeTargetRx"}
NetworkBits == {"HPSourceRx", "NPSourceTx", "NPStateChangedMask"}
CoherentBits == {"TxFilterEnable", "LfInsertionOnLdEnable", "MediaFlagMask", "HostFlagMask"}
thresh_descs ==
  [s16 |-> {"total-pwr-hi-alarm", "sig-pwr-lo-warn"}, f16 |-> {"fdd-raise", "fed-clear"}]
host_thresh_descs == {"host-fdd-raise"}
Blocks == {"host_gen", "media_chk", "host_chk", "media_gen"}
Select ==
  [host_gen |-> "HostGenPattern", media_chk |-> "MediaChkPattern",
   host_chk |-> "HostChkPattern", media_gen |-> "MediaGenPattern"]
Enable ==
  [host_gen |-> "HostGenEnable", media_chk |-> "MediaChkEnable",
   host_chk |-> "HostChkEnable", media_gen |-> "MediaGenEnable"]
loopback_modes == {"host-input", "host-output", "media-input", "media-output"}

Words == thresh_descs.s16 \cup thresh_descs.f16 \cup host_thresh_descs \cup {"Password"}
Nibbles == StagedTargets \cup {Select[b] : b \in Blocks}

GroupRegisters ==
  [direct   |-> DirectControls,
   staged   |-> StagedBits \cup StagedTargets \cup {"ApplyImmediate"},
   network  |-> NetworkBits,
   tuning   |-> {"TuningFlagMask"},
   switch   |-> {"RedirectionOfLane", "LaneSwitchEnable", "LaneSwitchCommit"},
   module   |-> {"ModuleControl", "ModuleMask", "PasswordEntry", "PasswordChange", "Password",
                "UserEeprom"},
   coherent |-> CoherentBits \cup {"UseConfigured", "FecEnable", "HostEnable"},
   filter   |-> {"TxFilterType"},
   power    |-> thresh_descs.s16,
   ber      |-> thresh_descs.f16 \cup host_thresh_descs,
   bert     |-> {Select[b] : b \in Blocks} \cup {Enable[b] : b \in Blocks} \cup {"MeasControl"},
   loopback |-> loopback_modes \cup {"LoopbackCaps"},
   diag     |-> {"DiagMask", "Scratchpad", "UserPattern"}]

ASSUME GroupsAssumption == Groups \subseteq DOMAIN GroupRegisters
ASSUME BertBlocksAssumption == BertBlocks \subseteq SUBSET Blocks

UserSize == 4       \* bytes of the areas that are written whole, scaled down
UserMaxWrite == 2   \* CMIS_USER_EEPROM_MAX_WRITE, scaled down

\* The bytes of a register, from the lowest offset, each with its fields from
\* the lowest bit where they are lanes.
Bytes(r) ==
  CASE r \in Nibbles -> [b \in 1 .. NLanes \div 2 |-> 2 * b - 2 .. 2 * b - 1]
    [] r = "TxFilterType" -> [b \in 1 .. NLanes \div 4 |-> 4 * b - 4 .. 4 * b - 1]
    [] r = "TuningFlagMask" -> [b \in 1 .. NLanes |-> {b - 1} \X {0, 1}]
    [] r = "RedirectionOfLane" -> [b \in 1 .. NLanes |-> {b - 1}]
    [] r \in {"UserEeprom", "Scratchpad", "UserPattern"} -> [b \in 1 .. UserSize |-> {b - 1}]
    [] r \in Words \cup {"PasswordEntry", "PasswordChange"} -> <<{"high"}, {"low"}>>
    [] r \in {"LaneSwitchEnable", "LaneSwitchCommit", "LoopbackCaps"} -> <<{0}>>
    [] r = "ModuleControl" -> <<{"reset", "broadcast", "squelch"}>>
    [] r = "UseConfigured" -> <<{"total-pwr", "sig-pwr"}>>
    [] r = "FecEnable" -> <<{"fdd", "fed"}>>
    [] r = "HostEnable" -> <<{"host-fdd", "host-fed"}>>
    [] r = "MeasControl" -> <<{"start", "reset"}>>
    [] OTHER -> <<Lanes>>

Fields(r) == UNION {Bytes(r)[b] : b \in DOMAIN Bytes(r)}

\* The bytes that hold some of the fields.
BytesOf(r, fields) == {b \in DOMAIN Bytes(r) : Bytes(r)[b] \cap fields # {}}

FieldValues(r) ==
  CASE r \in Nibbles -> 0 .. 15
    [] r = "TxFilterType" -> 0 .. 3
    [] r = "RedirectionOfLane" -> 0 .. 7
    [] r \in Words \cup {"PasswordEntry", "PasswordChange", "UserEeprom", "Scratchpad", "UserPattern"} ->
         0 .. 255
    [] OTHER -> 0 .. 1

\* Mutant: the nibbles of a byte the other way round.
NibbleSwapped(lane) == 2 * (lane \div 2) + (IF lane % 2 = 1 THEN 0 ELSE 1)

\* Where a lane of a nibble register is, for dp_rmw_nibble and for the display.
NibbleAt(lane) == 2 * (lane \div 2) + (IF lane % 2 = 1 THEN 1 ELSE 0)

NibbleShownAt(lane) == 2 * (lane \div 2) + (lane % 2)

\* Where the filter type of a lane is written, with a shift of (lane % 4) * 2, and
\* where it is read, with a shift of 6 - 2 * (lane % 4).
TypeAt(lane) == 4 * (lane \div 4) + (lane % 4)
TypeShownAt(lane) == 4 * (lane \div 4) + (3 - (lane % 4))

-----------------------------------------------------------------------------
\* Conversions

\* The exponent of the largest power of two that is not above k.
Log2(k) == CHOOSE n \in 0 .. 30 : 2^n <= k /\ (n = 30 \/ k < 2^(n + 1))

\* double_to_f16 for k * 2^-30, which is neither negative nor above one, as the
\* 16 bits that it makes.
double_to_f16(k) ==
  IF k = 0 THEN 0
  ELSE LET n == Log2(k)
           subnormal == IF (k + 32) \div 64 > 2^(n - 6) THEN 2^(n - 6) ELSE (k + 32) \div 64
           mant == (k - 2^n + 2^(n - 11)) \div 2^(n - 10)
       IN CASE n < 6 -> 0
            [] n \in 6 .. 15 -> subnormal
            [] OTHER -> IF mant >= 1024 THEN (n - 14) * 1024 ELSE (n - 15) * 1024 + mant

\* f16_to_double, in the same unit, for an exponent that is not the last.
f16_to_double(raw) ==
  LET exp == raw \div 1024
      mant == raw % 1024
  IN IF exp = 0 THEN mant * 64 ELSE (mant + 1024) * 2^(exp + 5)

\* The distance of two half precision numbers around k.
Precision(k) == IF k < 2^16 THEN 64 ELSE 2^(Log2(k) - 10)

Abs(x) == IF x < 0 THEN -x ELSE x

\* (__s16)(value * 100.0) for a value in thousandths: it drops the fraction, and
\* the product of a whole number of hundredths may be just under it.
Hundredths(v) ==
  LET sign == IF v < 0 THEN -1 ELSE 1
      m == Abs(v)
  IN {sign * (m \div 10)} \cup (IF m % 10 = 0 /\ m > 0 THEN {sign * (m \div 10 - 1)} ELSE {})

Signed(raw) == IF raw >= 32768 THEN raw - 65536 ELSE raw

WordOf(raw) == [f \in {"high", "low"} |-> IF f = "high" THEN raw \div 256 ELSE raw % 256]

-----------------------------------------------------------------------------
\* Transfers

Read(r) == [do |-> "read", reg |-> r, val |-> <<>>, span |-> {}]
Write(r, val) == [do |-> "write", reg |-> r, val |-> val, span |-> BytesOf(r, DOMAIN val)]
WriteAll(r, val) == [do |-> "write", reg |-> r, val |-> val, span |-> DOMAIN Bytes(r)]
Advertised(b, pattern) == [do |-> "check", reg |-> b, val |-> pattern, span |-> {}]

\* One byte: read, change some fields, write.
Rmw(r, val) == <<Read(r), Write(r, val)>>

\* A register overwritten without reading it: these lanes one, the others zero.
PutLanes(r, lanes) == <<Write(r, [l \in Lanes |-> IF l \in lanes THEN 1 ELSE 0])>>

\* One field or some fields of the same value.
All(fields, v) == [f \in fields |-> v]

-----------------------------------------------------------------------------
\* cmis-datapath.c: each operation as the transfers it makes

dp_rmw_byte(r, lanes, on) == Rmw(r, All(lanes, on))

cmis_dp_tx_disable(lanes) == Rmw("OutputDisableTx", All(lanes, 1))
cmis_dp_tx_enable(lanes) == Rmw("OutputDisableTx", All(lanes, 0))

\* Mutant: the change is applied before the receive side is written.
SetCdrEarly(lanes, tx, rx) ==
  Rmw("CDREnableTx", All(lanes, tx)) \o PutLanes("ApplyImmediate", lanes)
    \o Rmw("CDREnableRx", All(lanes, rx))

cmis_dp_set_cdr(lanes, tx, rx) ==
  Rmw("CDREnableTx", All(lanes, tx)) \o Rmw("CDREnableRx", All(lanes, rx))
    \o PutLanes("ApplyImmediate", lanes)

\* Mutant: no check of the target.
AnyNibble(lane, target) == lane \in Lanes

\* The range checks of dp_rmw_nibble.
NibbleValid(lane, target) == lane \in Lanes /\ target <= 15

dp_rmw_nibble(r, lane, target) == Rmw(r, All({NibbleAt(lane)}, target))

cmis_dp_set_adapt_eq_enable_tx(lanes, on) ==
  dp_rmw_byte("AdaptiveInputEqEnableTx", lanes, on) \o dp_rmw_byte("ApplyImmediate", lanes, 1)

\* cmis_dp_set_fixed_eq_tx, rx_eq_pre, rx_eq_post and rx_amplitude.
SetTarget(r, lane, target) ==
  dp_rmw_nibble(r, lane, target) \o PutLanes("ApplyImmediate", {lane})

module_rmw_byte(r, bits, on) == Rmw(r, All(bits, on))

cmis_module_sw_reset == Rmw("ModuleControl", All({"reset"}, 1))

cmis_module_password_entry(pw) == <<Write("PasswordEntry", WordOf(pw))>>

cmis_module_password_change(current, new) ==
  cmis_module_password_entry(current) \o <<Write("PasswordChange", WordOf(new))>>

cmis_user_eeprom_write(offset, data) ==
  <<Write("UserEeprom", [f \in offset .. offset + Len(data) - 1 |-> data[f - offset + 1]])>>

cmis_lane_switch_set_redir(lane, redir) == <<Write("RedirectionOfLane", All({lane}, redir))>>

cmis_lane_switch_enable(on) == Rmw("LaneSwitchEnable", All({0}, on))

cmis_lane_switch_commit == <<Write("LaneSwitchCommit", All({0}, 1))>>

-----------------------------------------------------------------------------
\* cmis-netpath.c, cmis-tunable.c and cmis-coherent.c

np_rmw_byte(r, lanes, on) == Rmw(r, All(lanes, on))

cmis_np_set_state_mask(lanes, on) == Rmw("NPStateChangedMask", All(lanes, on))

cmis_tunable_set_mask(lane, bits, on) == Rmw("TuningFlagMask", All({lane} \X bits, on))

\* The program depends on the rounding of the product.
cmis_coherent_set_threshold(r, value) ==
  IF r \in thresh_descs.f16 THEN {<<Write(r, WordOf(double_to_f16(value)))>>}
  ELSE {<<Write(r, WordOf(h % 65536))>> : h \in Hundredths(value)}

cmis_coherent_threshold_enable(r, bit, on) == Rmw(r, All({bit}, on))

ccmis_rmw_byte(r, bits, on) == Rmw(r, All(bits, on))

cmis_coherent_set_tx_filter_type(lane, type) == Rmw("TxFilterType", All({TypeAt(lane)}, type))

cmis_coherent_set_host_threshold(r, value) == <<Write(r, WordOf(double_to_f16(value)))>>

cmis_coherent_host_threshold_enable(bit, on) == ccmis_rmw_byte("HostEnable", {bit}, on)

-----------------------------------------------------------------------------
\* cmis-diag.c

diag_validate_pattern(b, pattern) == <<Advertised(b, pattern)>>

diag_write_pattern_select(b, pattern, lanes) ==
  <<Read(Select[b]), WriteAll(Select[b], All({NibbleAt(l) : l \in lanes}, pattern))>>

\* The order in which the blocks are validated, and configured.
BlockOrder == <<"host_gen", "media_chk", "host_chk", "media_gen">>

InOrder(blocks, part) ==
  LET of(b) == IF b \in blocks THEN part[b] ELSE <<>> IN
  of(BlockOrder[1]) \o (of(BlockOrder[2]) \o (of(BlockOrder[3]) \o of(BlockOrder[4])))

\* Mutant: a block is enabled before its pattern is selected.
BertEnabledFirst(blocks, pattern, lanes) ==
  InOrder(blocks, [b \in Blocks |-> diag_validate_pattern(b, pattern)])
    \o InOrder(blocks, [b \in Blocks |-> PutLanes(Enable[b], lanes)
                                          \o diag_write_pattern_select(b, pattern, lanes)])
    \o <<Write("MeasControl", All({"start", "reset"}, 1))>>

cmis_diag_bert_start(blocks, pattern, lanes) ==
  InOrder(blocks, [b \in Blocks |-> diag_validate_pattern(b, pattern)])
    \o InOrder(blocks, [b \in Blocks |-> diag_write_pattern_select(b, pattern, lanes)
                                          \o PutLanes(Enable[b], lanes)])
    \o <<Write("MeasControl", All({"start", "reset"}, 1))>>

cmis_diag_bert_stop ==
  <<Write("MeasControl", All({"start", "reset"}, 0))>>
    \o PutLanes(Enable["host_gen"], {}) \o PutLanes(Enable["media_gen"], {})
    \o PutLanes(Enable["host_chk"], {}) \o PutLanes(Enable["media_chk"], {})

\* The capabilities are read, and a mode that is not among them is written too.
cmis_diag_loopback_start(m, lanes) == <<Read("LoopbackCaps")>> \o PutLanes(m, lanes)

cmis_diag_loopback_stop ==
  PutLanes("media-output", {}) \o PutLanes("media-input", {})
    \o PutLanes("host-output", {}) \o PutLanes("host-input", {})

cmis_diag_set_mask(lanes, on) == Rmw("DiagMask", All(lanes, on))

\* cmis_diag_scratchpad_write and cmis_diag_user_pattern_write: the rest is zero.
Padded(data) == [f \in 0 .. UserSize - 1 |-> IF f < Len(data) THEN data[f + 1] ELSE 0]
PutPadded(r, data) == <<Write(r, Padded(data))>>

-----------------------------------------------------------------------------
\* The calls of a group, each with its arguments

Bits == {0, 1}
MaskCalls(rs) == [op : {"mask"}, reg : rs, fields : LaneMasks, on : Bits]
FlagCalls(r, flags) == [op : {"mask"}, reg : {r}, fields : {{f} : f \in flags}, on : Bits]

CallsOf ==
  [direct |-> MaskCalls(DirectControls),
   staged |-> MaskCalls({"AdaptiveInputEqEnableTx"})
              \cup [op : {"cdr"}, lanes : LaneMasks, tx : Bits, rx : Bits]
              \cup [op : {"target"}, reg : StagedTargets, lane : {0, 1, NLanes}, target : Targets],
   network |-> MaskCalls(NetworkBits),
   tuning |-> [op : {"mask"}, reg : {"TuningFlagMask"}, on : Bits,
               fields : {{l} \X b : l \in {0, 1, NLanes}, b \in {{0}, {0, 1}}}],
   switch |-> [op : {"redir"}, lane : {0, 1, NLanes}, redir : {0, 1, 8}]
              \cup FlagCalls("LaneSwitchEnable", {0}) \cup {[op |-> "commit"], [op |-> "result"]},
   module |-> MaskCalls({"ModuleMask"}) \cup FlagCalls("ModuleControl", {"broadcast", "squelch"}) \cup {[op |-> "sw_reset"]}
              \cup [op : {"password_entry"}, pw : Passwords]
              \cup [op : {"password_change"}, current : Passwords, new : Passwords]
              \cup [op : {"eeprom_write"}, offset : -1 .. UserSize, data : Texts]
              \cup [op : {"eeprom_read"}, offset : {-1, 0, UserSize}, len : {0, 1, UserSize}],
   coherent |-> MaskCalls(CoherentBits) \cup FlagCalls("UseConfigured", Fields("UseConfigured"))
                \cup FlagCalls("FecEnable", Fields("FecEnable"))
                \cup FlagCalls("HostEnable", Fields("HostEnable")),
   filter |-> [op : {"filter"}, lane : {0, 1, NLanes}, type : {0, 1, 4}],
   power |-> [op : {"threshold"}, reg : thresh_descs.s16 \cup {"no-such-type"}, value : Powers],
   ber |-> [op : {"threshold"}, reg : thresh_descs.f16, value : BitErrors]
           \cup [op : {"host_threshold"}, reg : host_thresh_descs \cup {"no-such-type"},
                 value : BitErrors],
   bert |-> [op : {"bert_start"}, blocks : BertBlocks, pattern : Patterns, lanes : LaneMasks]
            \cup {[op |-> "bert_stop"]},
   loopback |-> [op : {"loopback_start"}, mode : loopback_modes \cup {"no-such-mode"},
                 lanes : LaneMasks] \cup {[op |-> "loopback_stop"]},
   diag |-> MaskCalls({"DiagMask"}) \cup {[op |-> "scratchpad_read"]}
            \cup [op : {"padded"}, reg : {"Scratchpad", "UserPattern"}, data : Texts]]

\* The arguments that an operation takes; with others it returns at once.
Valid(c) ==
  CASE c.op = "target" -> NibbleValid(c.lane, c.target)
    [] c.op = "mask" /\ c.reg = "TuningFlagMask" -> \A f \in c.fields : f[1] \in Lanes
    [] c.op = "redir" -> c.lane \in Lanes /\ c.redir <= 7
    [] c.op = "eeprom_write" ->
         /\ c.offset >= 0 /\ Len(c.data) >= 1 /\ Len(c.data) <= UserMaxWrite
         /\ c.offset + Len(c.data) <= UserSize
    [] c.op = "eeprom_read" -> c.offset >= 0 /\ c.len >= 1 /\ c.offset + c.len <= UserSize
    [] c.op = "padded" -> Len(c.data) \in 1 .. UserSize
    [] c.op = "filter" -> c.lane \in Lanes /\ c.type <= 3
    [] c.op \in {"threshold", "host_threshold"} -> c.reg \in Words
    [] c.op = "loopback_start" -> c.mode \in loopback_modes
    [] OTHER -> TRUE

\* Which helper a mask is written with.
SetMask(r, fields, on) ==
  CASE r = "OutputDisableTx" -> IF on = 1 THEN cmis_dp_tx_disable(fields)
                                ELSE cmis_dp_tx_enable(fields)
    [] r = "AdaptiveInputEqEnableTx" -> cmis_dp_set_adapt_eq_enable_tx(fields, on)
    [] r = "NPStateChangedMask" -> cmis_np_set_state_mask(fields, on)
    [] r \in NetworkBits -> np_rmw_byte(r, fields, on)
    [] r = "TuningFlagMask" ->
         cmis_tunable_set_mask((CHOOSE f \in fields : TRUE)[1], {f[2] : f \in fields}, on)
    [] r = "LaneSwitchEnable" -> cmis_lane_switch_enable(on)
    [] r \in {"ModuleControl", "ModuleMask"} -> module_rmw_byte(r, fields, on)
    [] r \in {"UseConfigured", "FecEnable"} ->
         cmis_coherent_threshold_enable(r, CHOOSE f \in fields : TRUE, on)
    [] r = "HostEnable" -> cmis_coherent_host_threshold_enable(CHOOSE f \in fields : TRUE, on)
    [] r \in CoherentBits -> ccmis_rmw_byte(r, fields, on)
    [] r = "DiagMask" -> cmis_diag_set_mask(fields, on)
    [] OTHER -> dp_rmw_byte(r, fields, on)

\* The transfers of a call with valid arguments; more than one program where the
\* result of a conversion is open.
Programs(c) ==
  CASE c.op = "mask" -> {SetMask(c.reg, c.fields, c.on)}
    [] c.op = "cdr" -> {cmis_dp_set_cdr(c.lanes, c.tx, c.rx)}
    [] c.op = "target" -> {SetTarget(c.reg, c.lane, c.target)}
    [] c.op = "redir" -> {cmis_lane_switch_set_redir(c.lane, c.redir)}
    [] c.op = "commit" -> {cmis_lane_switch_commit}
    [] c.op = "result" -> {<<Read("LaneSwitchCommit")>>}
    [] c.op = "sw_reset" -> {cmis_module_sw_reset}
    [] c.op = "password_entry" -> {cmis_module_password_entry(c.pw)}
    [] c.op = "password_change" -> {cmis_module_password_change(c.current, c.new)}
    [] c.op = "eeprom_write" -> {cmis_user_eeprom_write(c.offset, c.data)}
    [] c.op = "eeprom_read" -> {<<Read("UserEeprom")>>}
    [] c.op = "filter" -> {cmis_coherent_set_tx_filter_type(c.lane, c.type)}
    [] c.op = "threshold" -> cmis_coherent_set_threshold(c.reg, c.value)
    [] c.op = "host_threshold" -> {cmis_coherent_set_host_threshold(c.reg, c.value)}
    [] c.op = "bert_start" -> {cmis_diag_bert_start(c.blocks, c.pattern, c.lanes)}
    [] c.op = "bert_stop" -> {cmis_diag_bert_stop}
    [] c.op = "loopback_start" -> {cmis_diag_loopback_start(c.mode, c.lanes)}
    [] c.op = "loopback_stop" -> {cmis_diag_loopback_stop}
    [] c.op = "scratchpad_read" -> {<<Read("Scratchpad")>>}
    [] c.op = "padded" -> {PutPadded(c.reg, c.data)}

-----------------------------------------------------------------------------
\* Actions

NoCall == [op |-> "none"]
NoBuf == <<>>

StagedRegisters ==
  CASE group = "staged" -> StagedBits \cup StagedTargets
    [] group = "switch" -> {"RedirectionOfLane"}
    [] OTHER -> {}

Init ==
  /\ group \in Groups
  /\ \E v \in Fills :
       reg = [r \in GroupRegisters[group] |-> [f \in Fields(r) |->
                IF r \in {"ApplyImmediate", "LaneSwitchCommit", "MeasControl"}
                          \cup {Enable[b] : b \in Blocks}
                   \/ (r = "ModuleControl" /\ f = "reset")
                THEN 0 ELSE v]]
  /\ active = [r \in StagedRegisters |-> reg[r]]
  /\ \/ caps = [b \in Blocks |-> Patterns]
     \/ group = "bert" /\ \E b \in Blocks, p \in Patterns :
          caps = [[x \in Blocks |-> Patterns] EXCEPT ![b] = {p}]
  /\ call = NoCall /\ prog = <<>> /\ buf = NoBuf /\ ret = "ok" /\ calls = 0

Call ==
  /\ ret # "none" /\ calls < MaxCalls
  /\ \E c \in CallsOf[group] :
       /\ call' = IF c.op = "password_change"
                  THEN [op |-> c.op, current |-> c.current, new |-> c.new,
                        right |-> WordOf(c.current) = reg["Password"]]
                  ELSE c
       /\ calls' = calls + 1
       /\ \/ ~Valid(c) /\ prog' = <<>> /\ ret' = "invalid"
          \/ Valid(c) /\ prog' \in Programs(c) /\ ret' = "none"
  /\ UNCHANGED <<group, reg, active, caps, buf>>

Due(d) == ret = "none" /\ Head(prog).do = d

Continue ==
  /\ prog' = Tail(prog)
  /\ ret' = IF Tail(prog) = <<>> THEN "ok" ELSE "none"

Leave == prog' = <<>> /\ ret' = "failed"

ReadStep ==
  /\ Due("read")
  /\ \/ Continue /\ buf' = IF prog' = <<>> THEN NoBuf ELSE reg[Head(prog).reg]
     \/ Leave /\ buf' = NoBuf
  /\ UNCHANGED <<group, reg, active, caps, call, calls>>

CheckStep ==
  /\ Due("check")
  /\ \/ Head(prog).val \in caps[Head(prog).reg] /\ Continue
     \/ Leave
  /\ UNCHANGED <<group, reg, active, caps, buf, call, calls>>

\* The registers once the first n bytes of a write are stored: the fields that
\* the operation changes, and those it has read with them.
Stored(w, n) ==
  LET done == {b \in w.span : Cardinality({x \in w.span : x < b}) < n} IN
  [reg EXCEPT ![w.reg] =
     [f \in Fields(w.reg) |->
        IF BytesOf(w.reg, {f}) \subseteq done
        THEN IF f \in DOMAIN w.val THEN w.val[f] ELSE buf[f]
        ELSE @[f]]]

\* What a module does of its own when a register is written.
Obeyed(r, regs) ==
  CASE r \in {"ApplyImmediate", "LaneSwitchCommit"} -> [regs EXCEPT ![r] = [f \in Fields(r) |-> 0]]
    [] r = "ModuleControl" /\ regs[r]["reset"] = 1 ->
         [q \in DOMAIN regs |->
            IF q \in {"UserEeprom", "Password"} THEN regs[q] ELSE [f \in Fields(q) |-> 0]]
    [] r = "PasswordChange" /\ regs["PasswordEntry"] = regs["Password"] ->
         [regs EXCEPT !["Password"] = regs[r]]
    [] OTHER -> regs

\* What comes into force with it.
InForce(r, regs) ==
  CASE r = "ApplyImmediate" ->
         [q \in DOMAIN active |->
            [l \in Lanes |-> IF regs[r][l] = 1 THEN regs[q][l] ELSE active[q][l]]]
    [] r = "LaneSwitchCommit" -> [q \in DOMAIN active |-> regs[q]]
    [] OTHER -> active

WriteStep ==
  /\ Due("write")
  /\ LET w == Head(prog) IN
     \E n \in 0 .. Cardinality(w.span) :
       LET whole == n = Cardinality(w.span) IN
       /\ reg' = IF whole THEN Obeyed(w.reg, Stored(w, n)) ELSE Stored(w, n)
       /\ active' = IF whole THEN InForce(w.reg, Stored(w, n)) ELSE active
       /\ (whole /\ Continue) \/ Leave
  /\ buf' = NoBuf
  /\ UNCHANGED <<group, caps, call, calls>>

Next == Call \/ ReadStep \/ CheckStep \/ WriteStep

Spec == Init /\ [][Next]_vars

-----------------------------------------------------------------------------
\* What a display says, and what a call asks for

Hidden == {"ApplyImmediate", "LaneSwitchCommit", "PasswordEntry", "PasswordChange", "LoopbackCaps"}

\* The settings of the group, each a register with a lane or a field.
Settings ==
  UNION {{r} \X (IF r \in Words THEN {"value"} ELSE Fields(r)) : r \in GroupRegisters[group] \ Hidden}

Raw(word) == word["high"] * 256 + word["low"]

\* How each display reads a register that holds value.
cmis_show_coherent_thresholds(r, f, value) ==
  CASE r \in thresh_descs.s16 -> Signed(Raw(value))
    [] r \in thresh_descs.f16 -> f16_to_double(Raw(value))
    [] OTHER -> value[f]

cmis_show_host_thresholds(r, f, value) ==
  IF r \in host_thresh_descs THEN f16_to_double(Raw(value)) ELSE value[f]

cmis_show_media_prov(r, f, value) == IF r = "TxFilterType" THEN value[TypeShownAt(f)] ELSE value[f]

cmis_show_dp_controls(r, f, value) == IF r \in StagedTargets THEN value[NibbleShownAt(f)] ELSE value[f]

Decode(r, f, value) ==
  CASE r \in thresh_descs.s16 \cup thresh_descs.f16 \cup {"UseConfigured", "FecEnable"} ->
         cmis_show_coherent_thresholds(r, f, value)
    [] r \in host_thresh_descs \cup {"HostEnable"} -> cmis_show_host_thresholds(r, f, value)
    [] r \in {"TxFilterType", "TxFilterEnable", "LfInsertionOnLdEnable"} ->
         cmis_show_media_prov(r, f, value)
    [] r = "Password" -> Raw(value)
    [] r \in {Select[b] : b \in Blocks} -> value[NibbleShownAt(f)]
    [] OTHER -> cmis_show_dp_controls(r, f, value)

\* The CDR settings are shown from the active control set, the others from the
\* registers that are written.
Displayed ==
  [s \in Settings |->
     Decode(s[1], s[2], IF s[1] \in {"CDREnableTx", "CDREnableRx"} THEN active[s[1]] ELSE reg[s[1]])]
Staged == [s \in Settings |-> Decode(s[1], s[2], reg[s[1]])]

Near(v, d) == v - d .. v + d

Measurement == {"MeasControl"} \X Fields("MeasControl")

\* The settings that a call asks for, with the values that would do.
RequestOf(c) ==
  CASE c.op = "mask" -> [s \in {c.reg} \X c.fields |-> {c.on}]
    [] c.op = "cdr" -> [s \in {"CDREnableTx", "CDREnableRx"} \X c.lanes |->
                          {IF s[1] = "CDREnableTx" THEN c.tx ELSE c.rx}]
    [] c.op = "target" -> All({<<c.reg, c.lane>>}, {c.target})
    [] c.op = "redir" -> All({<<"RedirectionOfLane", c.lane>>}, {c.redir})
    [] c.op = "sw_reset" -> [s \in {"ModuleControl"} \X Fields("ModuleControl")
                                     \cup {"ModuleMask"} \X Lanes |-> {0}]
    [] c.op = "password_change" /\ c.right -> All({<<"Password", "value">>}, {c.new})
    [] c.op = "eeprom_write" ->
         [s \in {"UserEeprom"} \X (c.offset .. c.offset + Len(c.data) - 1) |->
            {c.data[s[2] - c.offset + 1]}]
    [] c.op = "filter" -> All({<<"TxFilterType", c.lane>>}, {c.type})
    [] c.op = "threshold" /\ c.reg \in thresh_descs.s16 ->
         All({<<c.reg, "value">>}, {h \in Near(c.value \div 10, 2) : Abs(10 * h - c.value) <= 10})
    [] c.op \in {"threshold", "host_threshold"} /\ c.reg \notin thresh_descs.s16 ->
         All({<<c.reg, "value">>}, Near(c.value, Precision(c.value) \div 2))
    [] c.op = "bert_start" ->
         [s \in {Enable[b] : b \in c.blocks} \X Lanes \cup {Select[b] : b \in c.blocks} \X c.lanes
                  \cup Measurement |->
            CASE s[1] \in {Enable[b] : b \in c.blocks} -> {IF s[2] \in c.lanes THEN 1 ELSE 0}
              [] s \in Measurement -> {1}
              [] OTHER -> {c.pattern}]
    [] c.op = "bert_stop" ->
         [s \in {Enable[b] : b \in Blocks} \X Lanes \cup Measurement |-> {0}]
    [] c.op = "loopback_start" ->
         [s \in {c.mode} \X Lanes |-> {IF s[2] \in c.lanes THEN 1 ELSE 0}]
    [] c.op = "loopback_stop" -> [s \in loopback_modes \X Lanes |-> {0}]
    [] c.op = "padded" -> [s \in {c.reg} \X (0 .. UserSize - 1) |-> {Padded(c.data)[s[2]]}]
    [] OTHER -> <<>>

-----------------------------------------------------------------------------

TypeOK ==
  /\ group \in Groups /\ DOMAIN reg = GroupRegisters[group]
  /\ \A r \in DOMAIN reg : reg[r] \in [Fields(r) -> FieldValues(r)]
  /\ \A r \in DOMAIN active : active[r] \in [Fields(r) -> FieldValues(r)]
  /\ caps \in [Blocks -> SUBSET Patterns]
  /\ ret \in {"none", "ok", "failed", "invalid"} /\ calls \in 0 .. MaxCalls
  /\ ret = "none" <=> prog # <<>>

\* Every operation does what LaneSettings promises: after success the displays
\* say what was asked, and whatever happens no other setting changes, although
\* settings share bytes, writes are cut, and each operation knows the layout of
\* its register on its own.
Promise == INSTANCE LaneSettings WITH
  setting <- Displayed, staged <- Staged, answer <- ret,
  request <- RequestOf(call)

ImplementsSettings == Promise!Spec

\* What comes into force, comes into force whole: a trigger is only written when
\* everything the call asked for is in the registers, and a call that succeeds
\* has brought all of it into force.  The module is taken to accept what is applied:
\* the rejections that ConfigStatus reports are in module DataPath.
AppliedWhole ==
  [][LET asked == {s \in DOMAIN RequestOf(call) : s[1] \in DOMAIN active} IN
     /\ active' # active => \A s \in asked : Staged'[s] \in RequestOf(call)[s]
     /\ group = "staged" /\ ret = "none" /\ ret' = "ok" =>
          \A s \in asked : active'[s[1]][s[2]] = reg'[s[1]][s[2]]]_vars

\* A generator or checker that is enabled on a lane has a pattern selected there
\* that the module advertises for it, after any failures in any tests before.
PatternsSupported ==
  group = "bert" =>
    \A b \in Blocks, l \in Lanes :
      reg[Enable[b]][l] = 1 => reg[Select[b]][NibbleShownAt(l)] \in caps[b]
=============================================================================
