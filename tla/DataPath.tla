------------------------------ MODULE DataPath ------------------------------
(***************************************************************************)
(* Lane control.  cmis-datapath.c: cmis_dp_deinit_lane, cmis_dp_init_lane  *)
(* and cmis_dp_configure_lane; cmis-tunable.c: cmis_tunable_set_lane, which *)
(* is built from them; cmis-netpath.c: cmis_np_deinit_lane,                *)
(* cmis_np_init_lane and cmis_np_configure_lane, which are the same        *)
(* operations on the registers of page 16h.  The host works on the lanes   *)
(* of one bank, against a module whose paths change state on their own;    *)
(* "family" says whether these are its data paths or its network paths.    *)
(*                                                                         *)
(* One action of the host is one transfer of get_eeprom_page or            *)
(* set_eeprom_page, which may fail; a write that fails may have reached    *)
(* the module.  The state machine of the module is external: a data path   *)
(* leaves service when DPDeinit is set on a lane of it, and comes up when  *)
(* it is set on none, and takes the staged configuration over or rejects it *)
(* (ConfigStatus), which no operation of the host reads.                   *)
(***************************************************************************)
EXTENDS Integers

CONSTANTS
  NLanes,     \* lanes of a bank, 8
  PathOf,     \* the path that carries a lane: families -> lanes -> paths
  AppSels,    \* AppSel codes (or NPIDs) a user asks for, of a byte
  Tunings,    \* tunings of its laser a user asks for (struct cmis_tunable_config)
  Mixed,      \* registers of two tunings
  MaxPolls,     \* polls of a wait for a state, 50
  MaxTunePolls  \* polls of a wait for the end of tuning, 100

Lanes == 0 .. NLanes - 1
Families == {"data", "net"}

ASSUME DataPathAssumption ==
  /\ NLanes \in Nat \ {0} /\ NLanes % 2 = 0
  /\ DOMAIN PathOf = Families /\ \A f \in Families : DOMAIN PathOf[f] = Lanes
  /\ AppSels \subseteq 0 .. 255 /\ Mixed \notin Tunings
  /\ MaxPolls \in Nat \ {0} /\ MaxTunePolls \in Nat \ {0}

DPStates == {"DPDeactivated", "DPInit", "DPInitialized", "DPTxTurnOn", "DPActivated",
             "DPTxTurnOff", "DPDeinit"}

Ops == {"deactivate", "activate", "configure", "tune"}

Settings == AppSels \cup Tunings \cup {0}

\* Codes of four bits in the registers.
Codes == 0 .. 15

VARIABLES
  family,    \* the kind of path: fixed
  dpState,   \* external: state of each path
  deinit,    \* DPDeinit, byte 80h of page 10h: the lanes whose bit is set
  staged,    \* DPConfigLane of staged control set 0: AppSel per lane
  active,    \* external: AppSel in use per lane
  rejected,  \* external: lanes whose last configuration the module did not take over
  laser,     \* page 12h: the tuning in the four control registers of each lane
  pc,        \* the host's place in an operation, "idle" outside
  op, lane,  \* the current or the last operation
  cfg,       \* the AppSel or the tuning it is to set
  byteRead,  \* the DPDeinit byte it read, until it is written back
  left,      \* polls left in the current wait
  ret,       \* what it returned
  dark       \* history: the lanes whose last operation was a deactivation or failed

host == <<pc, op, lane, cfg, byteRead, left, ret, dark>>
module == <<active, rejected>>
vars == <<family, dpState, deinit, staged, module, laser, host>>

-----------------------------------------------------------------------------

Paths == {PathOf[family][l] : l \in Lanes}

StateOf(l) == dpState[PathOf[family][l]]

\* DPStateHostLane, bytes 80h-83h of page 11h: two lanes in a byte, the first of
\* them (an odd lane when lanes are counted from 1) in the low nibble.
StateByte(k) == [low |-> StateOf(2 * k), high |-> StateOf(2 * k + 1)]

\* dp_state_for_lane, which the display uses, and np_state_for_lane.
dp_state_for_lane(l) ==
  IF l % 2 = 1 THEN StateByte(l \div 2).high ELSE StateByte(l \div 2).low

\* np_read_state takes that nibble as well, cmis_dp_read_state the other one.
np_read_state(l) == dp_state_for_lane(l)

cmis_dp_read_state(l) ==
  IF l % 2 = 1 THEN StateByte(l \div 2).low ELSE StateByte(l \div 2).high

ReadLaneState(l) == IF family = "data" THEN cmis_dp_read_state(l) ELSE np_read_state(l)

-----------------------------------------------------------------------------

Init ==
  /\ family \in Families
  /\ dpState \in [Paths -> {"DPDeactivated", "DPActivated"}]
  /\ deinit = {}
  /\ staged = [l \in Lanes |-> 0] /\ active = [l \in Lanes |-> 0] /\ rejected = {}
  /\ laser = [l \in Lanes |-> 0]
  /\ pc = "idle" /\ op = "activate" /\ lane = 0 /\ cfg = 0
  /\ byteRead = {} /\ left = 0 /\ ret = "none"
  /\ dark = {}

Return(value) ==
  /\ pc' = "idle" /\ ret' = value /\ left' = 0
  /\ dark' = IF op = "deactivate" \/ value = "failed" THEN dark \cup {lane} ELSE dark \ {lane}

Goto(place) == pc' = place /\ UNCHANGED <<left, ret, dark>>

\* A wait, with the polls it has left.
Wait(place, polls) == pc' = place /\ left' = polls /\ UNCHANGED <<ret, dark>>

\* Entry of the four operations.
Begin(o, l, c) ==
  /\ pc = "idle"
  /\ op' = o /\ lane' = l /\ cfg' = c
  /\ pc' = CASE o = "deactivate" -> "deinit.read"
             [] o = "activate"   -> "init.read"
             [] OTHER            -> "state"
  /\ ret' = "none" /\ byteRead' = {}
  /\ UNCHANGED <<family, dpState, deinit, staged, module, laser, left, dark>>

\* What an operation that needs its lane down does then.
FirstWrite == IF op = "tune" THEN "grid" ELSE "config"

\* Step 1 of cmis_dp_configure_lane and cmis_tunable_set_lane: a lane that is
\* already down is not deinitialised.
ReadState ==
  /\ pc = "state"
  /\ \/ Return("failed")
     \/ ReadLaneState(lane) = "DPDeactivated" /\ Goto(FirstWrite)
     \/ ReadLaneState(lane) # "DPDeactivated" /\ Goto("deinit.read")
  /\ UNCHANGED <<dpState, deinit, staged, module, laser, op, lane, cfg, byteRead>>

\* Read of the DPDeinit byte in cmis_dp_deinit_lane and cmis_dp_init_lane.
ReadDeinit(place, next) ==
  /\ pc = place
  /\ \/ Return("failed") /\ byteRead' = byteRead
     \/ Goto(next) /\ byteRead' = deinit
  /\ UNCHANGED <<dpState, deinit, staged, module, laser, op, lane, cfg>>

\* Write back of that byte.
WriteDeinit(place, next, value) ==
  /\ pc = place
  /\ \/ Goto(next) /\ deinit' = value
     \/ Return("failed") /\ deinit' \in {deinit, value}
  /\ byteRead' = {}
  /\ UNCHANGED <<dpState, staged, module, laser, op, lane, cfg>>

\* Mutant of Apply: the write of ApplyDPInit is left out.
ApplyLeftOut(place, next) ==
  /\ pc = place
  /\ Wait(next, MaxPolls) \/ Return("failed")
  /\ UNCHANGED <<dpState, deinit, staged, module, laser, op, lane, cfg, byteRead>>

\* The module takes the staged AppSel of the lane over, or rejects it.  A rejection of
\* what is in use anyway makes no difference and counts as acceptance.
Accepts == active' = [active EXCEPT ![lane] = staged[lane]] /\ rejected' = rejected \ {lane}
Rejects ==
  active[lane] # staged[lane] /\ active' = active /\ rejected' = rejected \cup {lane}

\* ApplyDPInit for the lane.  What the module answers is in ConfigStatus, never read.
Apply(place, next) ==
  /\ pc = place
  /\ \/ Wait(next, MaxPolls) /\ (Accepts \/ Rejects)
     \/ Return("failed") /\ (Accepts \/ Rejects \/ UNCHANGED module)
  /\ UNCHANGED <<dpState, deinit, staged, laser, op, lane, cfg, byteRead>>

\* Mutant of Poll: the passes are not counted.
PollUncounted(place, states, reached) ==
  /\ pc = place
  /\ \/ ReadLaneState(lane) \in states /\ reached
     \/ Wait(place, left)
  /\ UNCHANGED <<dpState, deinit, staged, module, laser, op, lane, cfg, byteRead>>

\* Mutant of Poll: the timeout is tested after the pass that exceeds it.
PollOneMore(place, states, reached) ==
  /\ pc = place
  /\ \/ ReadLaneState(lane) \in states /\ reached
     \/ left > 0 /\ Wait(place, left - 1)
     \/ left = 0 /\ Return("failed")
  /\ UNCHANGED <<dpState, deinit, staged, module, laser, op, lane, cfg, byteRead>>

\* One pass of the wait for a state; a read that fails is a pass as well.
Poll(place, states, reached) ==
  /\ pc = place
  /\ \/ ReadLaneState(lane) \in states /\ reached
     \/ left > 1 /\ Wait(place, left - 1)
     \/ left = 1 /\ Return("failed")
  /\ UNCHANGED <<dpState, deinit, staged, module, laser, op, lane, cfg, byteRead>>

DeinitDone == IF op = "deactivate" THEN Return("ok") ELSE Goto(FirstWrite)

\* Mutant of Deinit: any state on the way down ends the wait.
DeinitOnTheWayDown ==
  \/ ReadDeinit("deinit.read", "deinit.write")
  \/ WriteDeinit("deinit.write", "deinit.apply", byteRead \cup {lane})
  \/ Apply("deinit.apply", "deinit.poll")
  \/ Poll("deinit.poll", {"DPTxTurnOff", "DPDeinit", "DPDeactivated"}, DeinitDone)

\* Mutant of Deinit: the byte read is not merged into the byte written.
DeinitOverwrites ==
  \/ ReadDeinit("deinit.read", "deinit.write")
  \/ WriteDeinit("deinit.write", "deinit.apply", {lane})
  \/ Apply("deinit.apply", "deinit.poll")
  \/ Poll("deinit.poll", {"DPDeactivated"}, DeinitDone)

\* cmis_dp_deinit_lane.
Deinit ==
  \/ ReadDeinit("deinit.read", "deinit.write")
  \/ WriteDeinit("deinit.write", "deinit.apply", byteRead \cup {lane})
  \/ Apply("deinit.apply", "deinit.poll")
  \/ Poll("deinit.poll", {"DPDeactivated"}, DeinitDone)

\* The code that DPConfigLane or NPConfigLane gets: four bits of the byte asked for.
Code(c) == c % 16

\* cmis_dp_configure_lane, step 3: DPConfigLane, for the AppSel 0 as for any other.
WriteConfig ==
  LET written == [staged EXCEPT ![lane] = Code(cfg)]
  IN /\ pc = "config"
     /\ \/ Goto("init.read") /\ staged' = written
        \/ Return("failed") /\ staged' \in {staged, written}
     /\ UNCHANGED <<dpState, deinit, module, laser, op, lane, cfg, byteRead>>

\* One write of cmis_tunable_write_lane.
WriteTuning(place, next, value) ==
  LET written == [laser EXCEPT ![lane] = value]
  IN /\ pc = place
     /\ \/ Goto(next) /\ laser' = written
        \/ Return("failed") /\ laser' \in {laser, written}
     /\ UNCHANGED <<dpState, deinit, staged, module, op, lane, cfg, byteRead>>

\* Mutant of Tune: the fourth register is forgotten.
TuneThree ==
  \/ WriteTuning("grid", "channel", Mixed)
  \/ WriteTuning("channel", "offset", Mixed)
  \/ WriteTuning("offset", "init.read", Mixed)

\* cmis_tunable_write_lane: four registers, of one tuning after the last write.
Tune ==
  \/ WriteTuning("grid", "channel", Mixed)
  \/ WriteTuning("channel", "offset", Mixed)
  \/ WriteTuning("offset", "power", Mixed)
  \/ WriteTuning("power", "init.read", cfg)

InitDone == IF op = "tune" THEN Wait("tune.poll", MaxTunePolls) ELSE Return("ok")

\* Mutant of InitLane: the bit of the lane is not cleared.
InitLaneKeepsBit ==
  \/ ReadDeinit("init.read", "init.write")
  \/ WriteDeinit("init.write", "init.apply", byteRead)
  \/ Apply("init.apply", "init.poll")
  \/ Poll("init.poll", {"DPActivated", "DPTxTurnOn"}, InitDone)

\* cmis_dp_init_lane.
InitLane ==
  \/ ReadDeinit("init.read", "init.write")
  \/ WriteDeinit("init.write", "init.apply", byteRead \ {lane})
  \/ Apply("init.apply", "init.poll")
  \/ Poll("init.poll", {"DPActivated", "DPTxTurnOn"}, InitDone)

\* One pass of cmis_tunable_poll_complete.  The laser may lock, refuse the tuning,
\* or be tuning still; its flags are latched and may be those of an earlier one.
TunePoll ==
  /\ pc = "tune.poll"
  /\ \/ Return("ok")
     \/ Return("failed")
     \/ left > 1 /\ Wait("tune.poll", left - 1)
  /\ UNCHANGED <<dpState, deinit, staged, module, laser, op, lane, cfg, byteRead>>

\* The module: a step of the data path state machine.
Down(p) == \E l \in deinit : PathOf[family][l] = p

PathStep(p) ==
  LET up == { <<"DPDeactivated", "DPInit">>, <<"DPInit", "DPInitialized">>,
              <<"DPInitialized", "DPTxTurnOn">>, <<"DPTxTurnOn", "DPActivated">> }
      down == { <<"DPActivated", "DPTxTurnOff">>, <<"DPTxTurnOn", "DPTxTurnOff">>,
                <<"DPTxTurnOff", "DPDeinit">>, <<"DPInitialized", "DPDeinit">>,
                <<"DPInit", "DPDeinit">> }
      ending == { <<"DPDeinit", "DPDeactivated">> }
  IN /\ \E next \in DPStates :
          /\ <<dpState[p], next>> \in ending \cup (IF Down(p) THEN down ELSE up)
          /\ dpState' = [dpState EXCEPT ![p] = next]
     /\ UNCHANGED <<family, deinit, staged, module, laser, host>>

cmis_np_deinit_lane == family = "net" /\ Deinit
cmis_np_init_lane == family = "net" /\ InitLane
cmis_np_configure_lane == family = "net" /\ (ReadState \/ WriteConfig)

cmis_dp_deinit_lane == family = "data" /\ Deinit
cmis_dp_init_lane == family = "data" /\ InitLane
cmis_dp_configure_lane == family = "data" /\ (ReadState \/ WriteConfig)
cmis_tunable_set_lane == family = "data" /\ (Tune \/ TunePoll)

Host ==
  /\ \/ cmis_dp_deinit_lane \/ cmis_dp_init_lane \/ cmis_dp_configure_lane
     \/ cmis_tunable_set_lane
     \/ cmis_np_deinit_lane \/ cmis_np_init_lane \/ cmis_np_configure_lane
  /\ UNCHANGED family

Next ==
  \/ \E l \in Lanes : Begin("deactivate", l, 0) \/ Begin("activate", l, 0)
  \/ \E l \in Lanes, a \in AppSels : Begin("configure", l, a)
  \/ \E l \in Lanes, t \in Tunings : family = "data" /\ Begin("tune", l, t)
  \/ Host
  \/ \E p \in Paths : PathStep(p)

\* The host goes on with an operation it has entered.  Nothing is assumed of the
\* module: a data path may stay in a state for ever.
Spec == Init /\ [][Next]_vars /\ WF_vars(Host)

-----------------------------------------------------------------------------

Waits == {"deinit.poll", "init.poll", "tune.poll"}

\* Where the registers of the lane are written.
Writing == {"config", "grid", "channel", "offset", "power"}

\* Type correctness of the module's registers and of the host; a wait has polls left.
TypeOK ==
  /\ family \in Families /\ dpState \in [Paths -> DPStates]
  /\ deinit \subseteq Lanes /\ byteRead \subseteq Lanes
  /\ staged \in [Lanes -> Codes] /\ active \in [Lanes -> Codes] /\ rejected \subseteq Lanes
  /\ laser \in [Lanes -> Tunings \cup {0, Mixed}]
  /\ pc \in {"idle", "state", "deinit.read", "deinit.write", "deinit.apply",
             "init.read", "init.write", "init.apply"} \cup Waits \cup Writing
  /\ op \in Ops /\ lane \in Lanes /\ cfg \in Settings
  /\ left \in Nat /\ (pc \in Waits => left > 0)
  /\ ret \in {"none", "ok", "failed"}
  /\ dark \subseteq Lanes

\* cmis-datapath.h, "Deactivate a lane (DPDeinit + ApplyDPInit, poll for
\* DPDeactivated)", and the same for a network path: a deactivation that reports
\* success leaves the lane, as the display decodes it, in DPDeactivated.
DeactivatedOnSuccess ==
  pc = "idle" /\ op = "deactivate" /\ ret = "ok" => dp_state_for_lane(lane) = "DPDeactivated"

\* An operation that took its lane down itself writes DPConfig or the tuning while
\* the data path is out of service; the module does not leave DPDeactivated under
\* the writes.
ConfigHeldDown ==
  pc \in Writing /\ lane \in deinit => StateOf(lane) = "DPDeactivated"

\* A lane that is held down between operations was deactivated by its user, or its
\* last operation reported a failure: no operation leaves a lane dark in silence,
\* its own or, through the shared DPDeinit byte, another one.
NoSilentDarkLane == pc = "idle" => deinit \subseteq dark

\* A configuration that reports success has staged the code asked for, and the module
\* has it in use unless it rejected it; a tuning that reports success is in the lane,
\* whole.  The lane is not held down: the laser never runs on a mixture of two tunings
\* that earlier attempts left half written.
ConfiguredIsActive ==
  pc = "idle" /\ ret = "ok" =>
    /\ op = "configure" => /\ staged[lane] = Code(cfg) /\ lane \notin deinit
                           /\ active[lane] = staged[lane] \/ lane \in rejected
    /\ op = "tune" => laser[lane] = cfg /\ lane \notin deinit

\* cmis-datapath.h, of cmis_dp_configure_lane: "Configure a lane's AppSel/DPID (deinit,
\* write, reinit)".  A success means that the lane has the AppSel asked for.
ConfiguredOnSuccess ==
  pc = "idle" /\ op = "configure" /\ ret = "ok" => active[lane] = Code(cfg)

\* cmis-datapath.h, of the appsel of cmis_dp_configure_lane: "1-15, or 0 = don't
\* change".  A configuration with AppSel 0 leaves the AppSel of the lane alone.
ZeroKeepsAppSel ==
  [][family = "data" /\ op = "configure" /\ cfg = 0 => staged' = staged]_vars

\* An operation on a lane changes no register bit of another lane.
OwnLaneOnly ==
  [][\A l \in Lanes \ {lane} : /\ l \in deinit' <=> l \in deinit
                               /\ staged'[l] = staged[l] /\ active'[l] = active[l]
                               /\ l \in rejected' <=> l \in rejected
                               /\ laser'[l] = laser[l]]_vars

\* Every operation returns, whatever the module does.
OperationReturns == pc # "idle" ~> pc = "idle"
=============================================================================
