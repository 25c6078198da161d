-------------------------- MODULE DataPath_proofs --------------------------
(***************************************************************************)
(* Proofs about the lane control: what an operation that reports success   *)
(* has done, that no lane is left dark in silence, and that a lane keeps   *)
(* its registers while another one is worked on.                           *)
(*                                                                         *)
(* The module never writes DPDeinit, so the byte an operation has read is  *)
(* still the module's when it is written back; an operation carries what   *)
(* it has written so far along its places.  Both are in the inductive      *)
(* invariant.  What depends on the state a lane is said to be in holds     *)
(* where the nibble that is read belongs to the lane's own path: for every *)
(* network path, and for data paths that take both lanes of a byte.        *)
(***************************************************************************)
EXTENDS DataPath, TLAPS

\* The nibble cmis_dp_read_state or np_read_state takes is of the path of the lane.
BytesOnOnePath ==
  \A l, m \in Lanes : l \div 2 = m \div 2 => PathOf["data"][l] = PathOf["data"][m]

Truthful == family = "net" \/ BytesOnOnePath

InitPlaces == {"init.read", "init.write", "init.apply", "init.poll"}
DeinitPlaces == {"deinit.read", "deinit.write", "deinit.apply", "deinit.poll"}
TunePlaces == {"grid", "channel", "offset", "power", "tune.poll"}

\* Which places belong to which operation, and what it has to set.
Places ==
  /\ pc \in DeinitPlaces => op # "activate"
  /\ pc \in InitPlaces => op # "deactivate"
  /\ pc = "state" => op \in {"configure", "tune"}
  /\ pc = "config" => op = "configure"
  /\ pc \in TunePlaces => op = "tune"
  /\ pc # "idle" /\ op = "configure" => cfg \in AppSels
  /\ pc # "idle" /\ op = "tune" => cfg \in Tunings

\* DPDeinit through an operation.
DeinitByte ==
  /\ pc \in {"deinit.write", "init.write"} => byteRead = deinit
  /\ pc \in {"deinit.apply", "deinit.poll"} => lane \in deinit
  /\ pc \in {"init.apply", "init.poll", "tune.poll"} => lane \notin deinit
  /\ deinit \subseteq dark \cup {lane}
  /\ pc = "idle" => deinit \subseteq dark

\* What has reached the registers of the lane so far.
WrittenSoFar ==
  /\ op = "configure" /\ pc \in InitPlaces => staged[lane] = Code(cfg)
  /\ op = "configure" /\ pc = "init.poll" => active[lane] = staged[lane] \/ lane \in rejected
  /\ op = "tune" /\ pc \in InitPlaces \cup {"tune.poll"} => laser[lane] = cfg
  /\ ConfiguredIsActive

\* A lane that was taken down is down.
HeldDown ==
  Truthful =>
    /\ ConfigHeldDown
    /\ pc = "idle" /\ op = "deactivate" /\ ret = "ok" =>
         StateOf(lane) = "DPDeactivated" /\ lane \in deinit

DPInv == TypeOK /\ Places /\ DeinitByte /\ WrittenSoFar /\ HeldDown
-----------------------------------------------------------------------------

\* The two nibbles of a byte are of the two lanes of it, in either direction.
LEMMA OtherLane ==
  ASSUME DataPathAssumption, NEW l \in Lanes
  PROVE  /\ l % 2 = 1 => 2 * (l \div 2) + 1 = l /\ 2 * (l \div 2) \in Lanes
                          /\ (2 * (l \div 2)) \div 2 = l \div 2
         /\ l % 2 # 1 => 2 * (l \div 2) = l /\ 2 * (l \div 2) + 1 \in Lanes
                          /\ (2 * (l \div 2) + 1) \div 2 = l \div 2
BY DEF DataPathAssumption, Lanes

\* The display decodes the state of the lane, whichever path carries it.
LEMMA DisplayDecodes ==
  ASSUME DataPathAssumption, NEW l \in Lanes
  PROVE  dp_state_for_lane(l) = StateOf(l)
BY OtherLane DEF dp_state_for_lane, StateByte

\* So does an operation, where it takes the nibble of the lane's own path.
LEMMA ReadIsOwn ==
  ASSUME DataPathAssumption, TypeOK, Truthful, NEW l \in Lanes
  PROVE  ReadLaneState(l) = StateOf(l)
<1>1. CASE family = "net"
  BY <1>1, DisplayDecodes DEF ReadLaneState, np_read_state
<1>2. CASE family = "data" /\ BytesOnOnePath
  BY <1>2, OtherLane DEF ReadLaneState, cmis_dp_read_state, StateByte, StateOf, BytesOnOnePath
<1> QED BY <1>1, <1>2 DEF Truthful, TypeOK, Families

\* What the parts of the invariant speak of.
LEMMA HostFrame ==
  ASSUME UNCHANGED <<family, dpState, lane>>
  PROVE  (Truthful' <=> Truthful) /\ StateOf(lane)' = StateOf(lane)
BY DEF Truthful, StateOf

\* The paths are those of the family.
LEMMA PathsFixed ==
  ASSUME UNCHANGED family
  PROVE  Paths' = Paths
BY DEF Paths

\* Entry of an operation: nothing is written yet, and nothing was left dark.
LEMMA BeginStep ==
  ASSUME DataPathAssumption, DPInv, NEW o \in Ops, NEW l \in Lanes, NEW c, Begin(o, l, c),
         o = "configure" => c \in AppSels, o = "tune" => c \in Tunings,
         c \in Settings
  PROVE  DPInv'
<1> USE DEF DPInv, Begin
<1>1. TypeOK'
  BY PathsFixed DEF TypeOK, module, Ops, Waits, Writing
<1>2. Places'
  BY DEF Places, Ops, DeinitPlaces, InitPlaces, TunePlaces
<1>3. DeinitByte'
  BY DEF DeinitByte, Ops
<1>4. WrittenSoFar'
  BY DEF WrittenSoFar, ConfiguredIsActive, module, InitPlaces, Ops
<1>5. HeldDown'
  BY DEF HeldDown, ConfigHeldDown, Writing, Ops
<1> QED BY <1>1, <1>2, <1>3, <1>4, <1>5

\* A read of the DPDeinit byte takes what the module holds.
LEMMA ReadDeinitStep ==
  ASSUME DataPathAssumption, DPInv, UNCHANGED family,
         \/ ReadDeinit("deinit.read", "deinit.write")
         \/ ReadDeinit("init.read", "init.write")
  PROVE  DPInv'
<1> USE DEF DPInv, ReadDeinit, Return, Goto
<1>1. TypeOK'
  BY PathsFixed DEF TypeOK, module, Waits, Writing
<1>2. Places'
  BY DEF Places, DeinitPlaces, InitPlaces, TunePlaces
<1>3. DeinitByte'
  BY DEF DeinitByte
<1>4. WrittenSoFar'
  BY DEF WrittenSoFar, ConfiguredIsActive, module, InitPlaces
<1>5. HeldDown'
  BY HostFrame DEF HeldDown, ConfigHeldDown, Writing
<1> QED BY <1>1, <1>2, <1>3, <1>4, <1>5

\* A deactivation sets the bit of its lane.
LEMMA WriteDeinitStep ==
  ASSUME DataPathAssumption, DPInv, UNCHANGED family,
         WriteDeinit("deinit.write", "deinit.apply", byteRead \cup {lane})
  PROVE  DPInv'
<1> USE DEF DPInv, WriteDeinit, Return, Goto
<1>0. byteRead = deinit
  BY DEF DeinitByte
<1>1. TypeOK'
  BY PathsFixed DEF TypeOK, module, Waits, Writing
<1>2. Places'
  BY DEF Places, DeinitPlaces, InitPlaces, TunePlaces
<1>3. DeinitByte'
  BY <1>0 DEF DeinitByte
<1>4. WrittenSoFar'
  BY DEF WrittenSoFar, ConfiguredIsActive, module, InitPlaces
<1>5. HeldDown'
  BY HostFrame DEF HeldDown, ConfigHeldDown, Writing
<1> QED BY <1>1, <1>2, <1>3, <1>4, <1>5

\* An initialisation clears the bit of its lane.
LEMMA ClearDeinitStep ==
  ASSUME DataPathAssumption, DPInv, UNCHANGED family,
         WriteDeinit("init.write", "init.apply", byteRead \ {lane})
  PROVE  DPInv'
<1> USE DEF DPInv, WriteDeinit, Return, Goto
<1>0. byteRead = deinit
  BY DEF DeinitByte
<1>1. TypeOK'
  BY PathsFixed DEF TypeOK, module, Waits, Writing
<1>2. Places'
  BY DEF Places, DeinitPlaces, InitPlaces, TunePlaces
<1>3. DeinitByte'
  BY <1>0 DEF DeinitByte
<1>4. WrittenSoFar'
  BY DEF WrittenSoFar, ConfiguredIsActive, module, InitPlaces
<1>5. HeldDown'
  BY HostFrame DEF HeldDown, ConfigHeldDown, Writing
<1> QED BY <1>1, <1>2, <1>3, <1>4, <1>5

\* ApplyDPInit takes what is staged for the lane, and nothing for another one.
LEMMA ApplyStep ==
  ASSUME DataPathAssumption, DPInv, UNCHANGED family,
         Apply("deinit.apply", "deinit.poll") \/ Apply("init.apply", "init.poll")
  PROVE  DPInv'
<1> USE DEF DPInv, Apply, Accepts, Rejects, module, Return, Wait
<1>1. TypeOK'
  BY PathsFixed DEF TypeOK, module, Waits, Writing, DataPathAssumption
<1>2. Places'
  BY DEF Places, DeinitPlaces, InitPlaces, TunePlaces
<1>3. DeinitByte'
  BY DEF DeinitByte
<1>4. WrittenSoFar'
  BY DEF WrittenSoFar, ConfiguredIsActive, module, InitPlaces, TypeOK
<1>5. HeldDown'
  BY HostFrame DEF HeldDown, ConfigHeldDown, Writing
<1> QED BY <1>1, <1>2, <1>3, <1>4, <1>5

\* The wait for DPDeactivated ends where it was read.
LEMMA DeinitPollStep ==
  ASSUME DataPathAssumption, DPInv, UNCHANGED family,
         Poll("deinit.poll", {"DPDeactivated"}, DeinitDone)
  PROVE  DPInv'
<1> USE DEF DPInv, Poll, DeinitDone, FirstWrite, Return, Goto, Wait
<1>0. op \in {"deactivate", "configure", "tune"}
  BY DEF Places, DeinitPlaces, TypeOK, Ops
<1>1. TypeOK'
  BY <1>0, PathsFixed DEF TypeOK, module, Waits, Writing
<1>2. Places'
  BY <1>0 DEF Places, DeinitPlaces, InitPlaces, TunePlaces
<1>3. DeinitByte'
  BY <1>0 DEF DeinitByte
<1>4. WrittenSoFar'
  BY <1>0 DEF WrittenSoFar, ConfiguredIsActive, module, InitPlaces
<1>5. HeldDown'
  <2>1. Truthful => ReadLaneState(lane) = StateOf(lane)
    BY ReadIsOwn DEF TypeOK
  <2> QED BY <1>0, <2>1, HostFrame DEF HeldDown, ConfigHeldDown, Writing, DeinitByte
<1> QED BY <1>1, <1>2, <1>3, <1>4, <1>5

\* The wait for an active lane ends an activation or a configuration, or starts the
\* wait for the laser.
LEMMA InitPollStep ==
  ASSUME DataPathAssumption, DPInv, UNCHANGED family,
         Poll("init.poll", {"DPActivated", "DPTxTurnOn"}, InitDone)
  PROVE  DPInv'
<1> USE DEF DPInv, Poll, InitDone, Return, Goto, Wait
<1>0. op \in {"activate", "configure", "tune"}
  BY DEF Places, InitPlaces, TypeOK, Ops
<1>1. TypeOK'
  BY <1>0, PathsFixed DEF TypeOK, module, Waits, Writing, DataPathAssumption
<1>2. Places'
  BY <1>0 DEF Places, DeinitPlaces, InitPlaces, TunePlaces
<1>3. DeinitByte'
  BY <1>0 DEF DeinitByte
<1>4. WrittenSoFar'
  BY <1>0 DEF WrittenSoFar, ConfiguredIsActive, module, InitPlaces, DeinitByte
<1>5. HeldDown'
  BY <1>0, HostFrame DEF HeldDown, ConfigHeldDown, Writing
<1> QED BY <1>1, <1>2, <1>3, <1>4, <1>5

\* A lane found down is written as it is.
LEMMA ReadStateStep ==
  ASSUME DataPathAssumption, DPInv, UNCHANGED family, ReadState
  PROVE  DPInv'
<1> USE DEF DPInv, ReadState, FirstWrite, Return, Goto
<1>0. op \in {"configure", "tune"}
  BY DEF Places
<1>1. TypeOK'
  BY PathsFixed DEF TypeOK, module, Waits, Writing
<1>2. Places'
  BY <1>0 DEF Places, DeinitPlaces, InitPlaces, TunePlaces
<1>3. DeinitByte'
  BY DEF DeinitByte
<1>4. WrittenSoFar'
  BY DEF WrittenSoFar, ConfiguredIsActive, module, InitPlaces
<1>5. HeldDown'
  <2>1. Truthful => ReadLaneState(lane) = StateOf(lane)
    BY ReadIsOwn DEF TypeOK
  <2> QED BY <1>0, <2>1, HostFrame DEF HeldDown, ConfigHeldDown, Writing
<1> QED BY <1>1, <1>2, <1>3, <1>4, <1>5

\* DPConfigLane of the lane.
LEMMA WriteConfigStep ==
  ASSUME DataPathAssumption, DPInv, UNCHANGED family, WriteConfig
  PROVE  DPInv'
<1> USE DEF DPInv, WriteConfig, Return, Goto
<1>0. op = "configure" /\ cfg \in AppSels
  BY DEF Places
<1>1. TypeOK'
  <2>1. Code(cfg) \in Codes
    BY <1>0 DEF DataPathAssumption, Code, Codes
  <2> QED BY <1>0, <2>1, PathsFixed DEF TypeOK, module, Waits, Writing
<1>2. Places'
  BY <1>0 DEF Places, DeinitPlaces, InitPlaces, TunePlaces
<1>3. DeinitByte'
  BY DEF DeinitByte
<1>4. WrittenSoFar'
  BY <1>0 DEF WrittenSoFar, ConfiguredIsActive, module, InitPlaces, TypeOK
<1>5. HeldDown'
  BY <1>0, HostFrame DEF HeldDown, ConfigHeldDown, Writing
<1> QED BY <1>1, <1>2, <1>3, <1>4, <1>5

\* The four registers of the laser: of one tuning after the last of them.
LEMMA TuneStep ==
  ASSUME DataPathAssumption, DPInv, UNCHANGED family, Tune
  PROVE  DPInv'
<1> USE DEF DPInv, Tune, WriteTuning, Return, Goto
<1>0. op = "tune" /\ cfg \in Tunings
  BY DEF Places, TunePlaces
<1>1. TypeOK'
  BY <1>0, PathsFixed DEF TypeOK, module, Waits, Writing
<1>2. Places'
  BY <1>0 DEF Places, DeinitPlaces, InitPlaces, TunePlaces
<1>3. DeinitByte'
  BY DEF DeinitByte
<1>4. WrittenSoFar'
  BY <1>0 DEF WrittenSoFar, ConfiguredIsActive, module, InitPlaces, TypeOK
<1>5. HeldDown'
  BY <1>0, HostFrame DEF HeldDown, ConfigHeldDown, Writing
<1> QED BY <1>1, <1>2, <1>3, <1>4, <1>5

\* The wait for the laser.
LEMMA TunePollStep ==
  ASSUME DataPathAssumption, DPInv, UNCHANGED family, TunePoll
  PROVE  DPInv'
<1> USE DEF DPInv, TunePoll, Return, Wait
<1>0. op = "tune"
  BY DEF Places, TunePlaces
<1>1. TypeOK'
  BY PathsFixed DEF TypeOK, module, Waits, Writing
<1>2. Places'
  BY DEF Places, DeinitPlaces, InitPlaces, TunePlaces
<1>3. DeinitByte'
  BY <1>0 DEF DeinitByte
<1>4. WrittenSoFar'
  BY <1>0 DEF WrittenSoFar, ConfiguredIsActive, module, InitPlaces, DeinitByte
<1>5. HeldDown'
  BY <1>0, HostFrame DEF HeldDown, ConfigHeldDown, Writing
<1> QED BY <1>1, <1>2, <1>3, <1>4, <1>5

\* The module does not take a path out of DPDeactivated while a lane of it is held.
LEMMA PathStepStep ==
  ASSUME DataPathAssumption, DPInv, NEW p \in Paths, PathStep(p)
  PROVE  DPInv'
<1> USE DEF DPInv
<1>1. UNCHANGED <<family, deinit, staged, module, laser, host>>
  BY DEF PathStep
<1>2. dpState' \in [Paths -> DPStates]
  BY DEF PathStep, TypeOK
<1>3. TypeOK'
  BY <1>1, <1>2 DEF TypeOK, module, host, Paths
<1>4. Places' /\ DeinitByte' /\ WrittenSoFar'
  BY <1>1 DEF Places, DeinitByte, WrittenSoFar, ConfiguredIsActive, module, host
<1>5. lane \in deinit /\ StateOf(lane) = "DPDeactivated" => StateOf(lane)' = "DPDeactivated"
  <2> SUFFICES ASSUME lane \in deinit, StateOf(lane) = "DPDeactivated"
               PROVE  StateOf(lane)' = "DPDeactivated"
    OBVIOUS
  <2>1. lane \in Lanes /\ PathOf[family][lane] \in Paths
    BY DEF TypeOK, Paths
  <2>2. CASE p = PathOf[family][lane]
    <3>1. Down(p) /\ dpState[p] = "DPDeactivated"
      BY <2>2 DEF Down, StateOf
    <3> QED BY <3>1 DEF PathStep
  <2>3. CASE p # PathOf[family][lane]
    BY <1>1, <2>1, <2>3 DEF PathStep, StateOf, host, TypeOK
  <2> QED BY <2>2, <2>3
<1>6. HeldDown'
  BY <1>1, <1>5 DEF HeldDown, ConfigHeldDown, Truthful, host
<1> QED BY <1>3, <1>4, <1>6

\* No step of the host or of the module breaks the invariant.
LEMMA DPStep ==
  ASSUME DataPathAssumption, DPInv, [Next]_vars
  PROVE  DPInv'
<1>1. ASSUME NEW l \in Lanes, Begin("deactivate", l, 0) \/ Begin("activate", l, 0)
      PROVE  DPInv'
  BY <1>1, BeginStep DEF Ops, Settings
<1>2. ASSUME NEW l \in Lanes, NEW a \in AppSels, Begin("configure", l, a) PROVE DPInv'
  BY <1>2, BeginStep DEF Ops, Settings
<1>3. ASSUME NEW l \in Lanes, NEW t \in Tunings, Begin("tune", l, t) PROVE DPInv'
  BY <1>3, BeginStep DEF Ops, Settings
<1>4. CASE Host
  <2>1. UNCHANGED family /\ (Deinit \/ InitLane \/ ReadState \/ WriteConfig \/ Tune \/ TunePoll)
    BY <1>4 DEF Host, cmis_dp_deinit_lane, cmis_dp_init_lane, cmis_dp_configure_lane,
                cmis_tunable_set_lane, cmis_np_deinit_lane, cmis_np_init_lane,
                cmis_np_configure_lane
  <2>2. CASE Deinit
    BY <2>1, <2>2, ReadDeinitStep, WriteDeinitStep, ApplyStep, DeinitPollStep DEF Deinit
  <2>3. CASE InitLane
    BY <2>1, <2>3, ReadDeinitStep, ClearDeinitStep, ApplyStep, InitPollStep DEF InitLane
  <2> QED BY <2>1, <2>2, <2>3, ReadStateStep, WriteConfigStep, TuneStep, TunePollStep
<1>5. ASSUME NEW p \in Paths, PathStep(p) PROVE DPInv'
  BY <1>5, PathStepStep
<1>6. CASE UNCHANGED vars
  BY <1>6 DEF vars, module, host, DPInv, TypeOK, Paths, Places, DeinitByte, WrittenSoFar,
              ConfiguredIsActive, HeldDown, ConfigHeldDown, Truthful, StateOf
<1> QED BY <1>1, <1>2, <1>3, <1>4, <1>5, <1>6 DEF Next

-----------------------------------------------------------------------------

\* The inductive invariant of the lane control.
THEOREM DataPathInvariant == Spec => []DPInv
<1>1. Init => DPInv
  <2> SUFFICES ASSUME Init PROVE DPInv
    OBVIOUS
  <2> USE DataPathAssumption DEF Init, DataPathAssumption
  <2>1. TypeOK
    BY DEF TypeOK, DPStates, Lanes, Codes, Waits, Writing, Ops, Settings, Families
  <2>2. Places /\ DeinitByte
    BY DEF Places, DeinitByte, DeinitPlaces, InitPlaces, TunePlaces
  <2>3. WrittenSoFar /\ HeldDown
    BY DEF WrittenSoFar, ConfiguredIsActive, module, InitPlaces, HeldDown, ConfigHeldDown, Writing
  <2> QED BY <2>1, <2>2, <2>3 DEF DPInv
<1>2. DPInv /\ [Next]_vars => DPInv'
  BY DPStep, DataPathAssumption
<1> QED BY <1>1, <1>2, PTL DEF Spec

\* Types, for any number of lanes, paths and settings; a wait that is entered has a
\* poll left.
THEOREM DataPathTypeCorrect == Spec => []TypeOK
BY DataPathInvariant, PTL DEF DPInv

\* No lane is left held down by anything but its user's deactivation or a failure
\* that was reported: not the lane of an operation, and not, by the DPDeinit byte
\* that the lanes share, another one.
THEOREM NoLaneDarkInSilence == Spec => []NoSilentDarkLane
<1>1. DPInv => NoSilentDarkLane
  BY DEF DPInv, DeinitByte, NoSilentDarkLane
<1> QED BY <1>1, DataPathInvariant, PTL

\* What a configuration or a tuning reports as set is in the lane, whole, for any byte as
\* AppSel, 0 included; a configuration may have been rejected by the module, and then is
\* staged only (ConfiguredOnSuccess, without that case, is violated).
THEOREM SuccessIsActive == Spec => []ConfiguredIsActive
<1>1. DPInv => ConfiguredIsActive
  BY DEF DPInv, WrittenSoFar
<1> QED BY <1>1, DataPathInvariant, PTL

\* Where the nibble that an operation reads is of the lane's own path, the registers
\* of a lane it has taken down are written with the path out of service: on network
\* paths always, on data paths when both lanes of a byte are on one path.
THEOREM WrittenWhileDown == Spec => [](Truthful => ConfigHeldDown)
<1>1. DPInv => (Truthful => ConfigHeldDown)
  BY DEF DPInv, HeldDown
<1> QED BY <1>1, DataPathInvariant, PTL

\* There, a deactivation that reports success has left the lane deactivated, as the
\* display will show it.  A data path of one lane is not such a place: the run
\* dp_singles has the counterexample.
THEOREM SuccessIsDeactivated == Spec => [](Truthful => DeactivatedOnSuccess)
<1>1. DPInv => (Truthful => DeactivatedOnSuccess)
  <2> SUFFICES ASSUME DPInv, Truthful PROVE DeactivatedOnSuccess
    OBVIOUS
  <2>1. dp_state_for_lane(lane) = StateOf(lane)
    BY DisplayDecodes, DataPathAssumption DEF DPInv, TypeOK
  <2> QED BY <2>1 DEF DPInv, HeldDown, DeactivatedOnSuccess
<1> QED BY <1>1, DataPathInvariant, PTL

\* Hence both hold whatever the operation, on a module whose data paths take the
\* lanes in pairs.
COROLLARY PairedLanesAreDown ==
  BytesOnOnePath => (Spec => [](ConfigHeldDown /\ DeactivatedOnSuccess))
<1> SUFFICES ASSUME BytesOnOnePath PROVE Spec => [](ConfigHeldDown /\ DeactivatedOnSuccess)
  OBVIOUS
<1>1. Truthful
  BY DEF Truthful
<1> QED BY <1>1, WrittenWhileDown, SuccessIsDeactivated, PTL

\* An operation on one lane changes no register bit of another lane, though the
\* lanes share DPDeinit and the write of it is of the whole byte.
THEOREM LanesApart == Spec => OwnLaneOnly
<1> DEFINE Apart == \A l \in Lanes \ {lane} :
                       /\ l \in deinit' <=> l \in deinit
                       /\ staged'[l] = staged[l] /\ active'[l] = active[l]
                       /\ l \in rejected' <=> l \in rejected
                       /\ laser'[l] = laser[l]
<1>1. ASSUME DPInv, [Next]_vars PROVE [Apart]_vars
  <2> USE <1>1 DEF DPInv
  <2>1. CASE Host
    <3>0. byteRead = deinit \/ pc \notin {"deinit.write", "init.write"}
      BY DEF DeinitByte
    <3>1. CASE Deinit
      BY <3>0, <3>1
      DEF Deinit, ReadDeinit, WriteDeinit, Apply, Accepts, Rejects, module, Poll, TypeOK
    <3>2. CASE InitLane
      BY <3>0, <3>2
      DEF InitLane, ReadDeinit, WriteDeinit, Apply, Accepts, Rejects, module, Poll, TypeOK
    <3>3. CASE ReadState \/ WriteConfig
      BY <3>3 DEF ReadState, WriteConfig, module, TypeOK
    <3>4. CASE Tune \/ TunePoll
      BY <3>4 DEF Tune, WriteTuning, TunePoll, module, TypeOK
    <3> QED BY <2>1, <3>1, <3>2, <3>3, <3>4
            DEF Host, cmis_dp_deinit_lane, cmis_dp_init_lane, cmis_dp_configure_lane,
                cmis_tunable_set_lane, cmis_np_deinit_lane, cmis_np_init_lane,
                cmis_np_configure_lane
  <2>2. ASSUME NEW o, NEW l, NEW c, Begin(o, l, c) PROVE Apart
    BY <2>2 DEF Begin, module
  <2>3. ASSUME NEW p, PathStep(p) PROVE Apart
    BY <2>3 DEF PathStep, module
  <2> QED BY <2>1, <2>2, <2>3 DEF Next
<1> QED BY <1>1, DataPathInvariant, PTL DEF Spec, OwnLaneOnly

-----------------------------------------------------------------------------
(* The length of an operation. *)

\* The transfers that the current operation can still make, place by place: a lane is
\* taken down at most once, written, brought up at most once, and tuned at most once.
StepsLeft ==
  LET tuned == MaxTunePolls
      up == tuned + MaxPolls
  IN CASE pc = "idle" -> 0
       [] pc = "tune.poll" -> left
       [] pc = "init.poll" -> tuned + left
       [] pc = "init.apply" -> up + 1
       [] pc = "init.write" -> up + 2
       [] pc = "init.read" -> up + 3
       [] pc \in {"power", "config"} -> up + 4
       [] pc = "offset" -> up + 5
       [] pc = "channel" -> up + 6
       [] pc = "grid" -> up + 7
       [] pc = "deinit.poll" -> up + 7 + left
       [] pc = "deinit.apply" -> up + MaxPolls + 8
       [] pc = "deinit.write" -> up + MaxPolls + 9
       [] pc = "deinit.read" -> up + MaxPolls + 10
       [] pc = "state" -> up + MaxPolls + 11

\* No wait starts with more polls than it is given.
PollsBounded ==
  /\ pc \in {"init.poll", "deinit.poll"} => left <= MaxPolls
  /\ pc = "tune.poll" => left <= MaxTunePolls

\* Every transfer of an operation, failed or not, brings its return nearer, in whichever
\* state the module's path is and however it moves meanwhile: the waits of the library
\* are the only ones, and each of them is counted.
THEOREM OperationsBounded ==
  Spec => /\ [](StepsLeft \in 0 .. MaxTunePolls + 2 * MaxPolls + 11)
          /\ [][pc # "idle" => IF UNCHANGED host THEN StepsLeft' = StepsLeft
                               ELSE StepsLeft' < StepsLeft]_vars
<1> USE DEF Return, Goto, Wait
<1>0. MaxPolls \in Nat \ {0} /\ MaxTunePolls \in Nat \ {0}
  BY DataPathAssumption
<1>1. Init => PollsBounded
  BY DEF Init, PollsBounded
<1>2. ASSUME DPInv, PollsBounded, Host
      PROVE  PollsBounded' /\ StepsLeft' < StepsLeft
  <2>1. /\ left \in Nat /\ (pc \in Waits => left > 0)
        /\ pc \in DeinitPlaces \cup {"state"} => op # "activate"
        /\ pc \in TunePlaces => op = "tune"
    BY <1>2 DEF DPInv, TypeOK, Places
  <2>2. Deinit \/ InitLane \/ ReadState \/ WriteConfig \/ Tune \/ TunePoll
    BY <1>2 DEF Host, cmis_dp_deinit_lane, cmis_dp_init_lane, cmis_dp_configure_lane,
                cmis_tunable_set_lane, cmis_np_deinit_lane, cmis_np_init_lane,
                cmis_np_configure_lane
  <2>3. CASE ReadState
    BY <1>0, <2>3 DEF ReadState, FirstWrite, PollsBounded, StepsLeft
  <2>4. CASE ReadDeinit("deinit.read", "deinit.write") \/ ReadDeinit("init.read", "init.write")
    BY <1>0, <2>4 DEF ReadDeinit, PollsBounded, StepsLeft
  <2>5. CASE \/ WriteDeinit("deinit.write", "deinit.apply", byteRead \cup {lane})
             \/ WriteDeinit("init.write", "init.apply", byteRead \ {lane})
    BY <1>0, <2>5 DEF WriteDeinit, PollsBounded, StepsLeft
  <2>6. CASE Apply("deinit.apply", "deinit.poll") \/ Apply("init.apply", "init.poll")
    BY <1>0, <2>6 DEF Apply, PollsBounded, StepsLeft
  <2>7. CASE Poll("deinit.poll", {"DPDeactivated"}, DeinitDone)
    <3>1. /\ pc = "deinit.poll" /\ left > 0 /\ left <= MaxPolls
          /\ \/ pc' \in {"idle", "grid", "config"}
             \/ pc' = "deinit.poll" /\ left' = left - 1
      BY <1>2, <2>1, <2>7 DEF Poll, DeinitDone, FirstWrite, PollsBounded, Waits
    <3> QED BY <1>0, <2>1, <3>1 DEF PollsBounded, StepsLeft
  <2>8. CASE Poll("init.poll", {"DPActivated", "DPTxTurnOn"}, InitDone)
    <3>1. /\ pc = "init.poll" /\ left > 0 /\ left <= MaxPolls
          /\ \/ pc' = "idle"
             \/ pc' = "tune.poll" /\ left' = MaxTunePolls
             \/ pc' = "init.poll" /\ left' = left - 1
      BY <1>2, <2>1, <2>8 DEF Poll, InitDone, PollsBounded, Waits
    <3> QED BY <1>0, <2>1, <3>1 DEF PollsBounded, StepsLeft
  <2>9. CASE WriteConfig
    BY <1>0, <2>9 DEF WriteConfig, PollsBounded, StepsLeft
  <2>10. CASE Tune
    BY <1>0, <2>10 DEF Tune, WriteTuning, PollsBounded, StepsLeft
  <2>11. CASE TunePoll
    <3>1. /\ pc = "tune.poll" /\ left > 0 /\ left <= MaxTunePolls
          /\ \/ pc' = "idle"
             \/ pc' = "tune.poll" /\ left' = left - 1
      BY <1>2, <2>1, <2>11 DEF TunePoll, PollsBounded, Waits
    <3> QED BY <1>0, <2>1, <3>1 DEF PollsBounded, StepsLeft
  <2> QED
    BY <2>2, <2>3, <2>4, <2>5, <2>6, <2>7, <2>8, <2>9, <2>10, <2>11 DEF Deinit, InitLane
<1>3. ASSUME DPInv, PollsBounded
      PROVE  StepsLeft \in 0 .. MaxTunePolls + 2 * MaxPolls + 11
  <2>1. /\ left \in Nat
        /\ pc \in {"idle", "state", "deinit.read", "deinit.write", "deinit.apply", "init.read",
                   "init.write", "init.apply"} \cup Waits \cup Writing
    BY <1>3 DEF DPInv, TypeOK
  <2> DEFINE up == MaxTunePolls + MaxPolls
  <2>2. CASE pc \in Waits
    <3>1. /\ pc = "tune.poll" => StepsLeft = left
          /\ pc = "init.poll" => StepsLeft = MaxTunePolls + left
          /\ pc = "deinit.poll" => StepsLeft = up + 7 + left
      BY DEF StepsLeft
    <3>2. /\ pc = "tune.poll" => left <= MaxTunePolls
          /\ pc \in {"init.poll", "deinit.poll"} => left <= MaxPolls
      BY <1>3 DEF PollsBounded
    <3> QED BY <1>0, <2>1, <2>2, <3>1, <3>2 DEF Waits
  <2>3. CASE pc \in Writing
    <3>1. StepsLeft \in {up + 4, up + 5, up + 6, up + 7}
      BY <2>3 DEF StepsLeft, Writing
    <3> QED BY <1>0, <3>1
  <2>4. CASE pc \in {"init.read", "init.write", "init.apply"}
    <3>1. StepsLeft \in {up + 1, up + 2, up + 3}
      BY <2>4 DEF StepsLeft
    <3> QED BY <1>0, <3>1
  <2>5. CASE pc \in {"state", "deinit.read", "deinit.write", "deinit.apply"}
    <3>1. StepsLeft \in {up + MaxPolls + 8, up + MaxPolls + 9, up + MaxPolls + 10,
                         up + MaxPolls + 11}
      BY <2>5 DEF StepsLeft
    <3> QED BY <1>0, <3>1
  <2>6. CASE pc = "idle"
    <3>1. StepsLeft = 0
      BY <2>6 DEF StepsLeft
    <3> QED BY <1>0, <3>1
  <2> QED BY <2>1, <2>2, <2>3, <2>4, <2>5, <2>6
<1>4. ASSUME NEW o, NEW l, NEW c, Begin(o, l, c), PollsBounded
      PROVE  pc = "idle" /\ PollsBounded'
  BY <1>4 DEF Begin, PollsBounded
<1>5. ASSUME UNCHANGED host
      PROVE  StepsLeft' = StepsLeft /\ (PollsBounded => PollsBounded')
  BY <1>5 DEF host, StepsLeft, PollsBounded
<1>6. ASSUME NEW p \in Paths, PathStep(p)
      PROVE  UNCHANGED host
  BY <1>6 DEF PathStep
<1>7. DPInv /\ PollsBounded /\ [Next]_vars => PollsBounded'
  BY <1>2, <1>4, <1>5, <1>6 DEF Next, vars
<1>8. DPInv /\ PollsBounded /\ [Next]_vars =>
        [pc # "idle" => IF UNCHANGED host THEN StepsLeft' = StepsLeft
                        ELSE StepsLeft' < StepsLeft]_vars
  BY <1>2, <1>4, <1>5, <1>6 DEF Next
<1>9. DPInv /\ PollsBounded => StepsLeft \in 0 .. MaxTunePolls + 2 * MaxPolls + 11
  BY <1>3
<1> QED BY <1>1, <1>7, <1>8, <1>9, DataPathInvariant, PTL DEF Spec
=============================================================================
