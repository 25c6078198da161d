-------------------------- MODULE MemoryMap_proofs --------------------------
(***************************************************************************)
(* Proofs about the VDM commands and the display that runs two of them:    *)
(* a freeze lasts until an unfreeze, and masks that share a byte do not    *)
(* disturb each other.  The host alone writes 2Fh:90h and page 2Dh, so the *)
(* byte a command has read is still the module's when it writes it back;   *)
(* that is what the two inductive invariants add.                          *)
(***************************************************************************)
EXTENDS MemoryMap, TLAPS

\* The request bit of the control byte, as the host holds it.
ControlInv ==
  /\ request \in BOOLEAN /\ frozen \in BOOLEAN /\ held \in BOOLEAN
  /\ pc = "freeze.poll" => request
  /\ pc \in {"freeze.write", "unfreeze.write", "power.write"}
       => byteRead = [bit7 |-> request, bit6 |-> byteRead.bit6]
  /\ held => request /\ frozen

\* The mask byte, as the host holds it.
MaskInv ==
  /\ masks \in [Bytes -> [Halves -> Nibbles]]
  /\ wanted \in [Instances -> Nibbles \cup {Unknown}]
  /\ op = "mask" => arg \in [instance : Instances, nibble : Nibbles]
  /\ pc = "mask.write" => op = "mask" /\ byteRead = masks[arg.instance \div 2]
  /\ MaskHeld

-----------------------------------------------------------------------------

\* Loading and displaying a map leaves the control byte and the masks alone, and
\* enters only the two functions of Vdm that its stages name.
LEMMA StageKeeps ==
  ASSUME Show \/ LoadBase \/ LoadExt \/ Quirk \/ LoadCoherent \/ LoadVdm \/ LoadGroup
           \/ LoadFlags \/ Display
  PROVE  /\ UNCHANGED <<monitor, masks, byteRead, held, wanted>>
         /\ pc' \notin {"freeze.poll", "freeze.write", "unfreeze.write", "power.write", "mask.write"}
         /\ op' \in {"show", "none"} \/ UNCHANGED <<op, arg>>
<1> USE DEF monitor
<1>1. CASE Show BY <1>1 DEF Show, Start
<1>2. CASE LoadBase BY <1>2 DEF LoadBase, Leave, End, GotoStage, HostKeeps
<1>3. CASE LoadExt BY <1>3 DEF LoadExt, GotoStage, HostKeeps
<1>4. CASE Quirk BY <1>4 DEF Quirk, GotoStage, HostKeeps
<1>5. CASE LoadCoherent BY <1>5 DEF LoadCoherent, GotoStage, HostKeeps
<1>6. CASE LoadVdm BY <1>6 DEF LoadVdm, GotoStage, HostKeeps
<1>7. CASE LoadGroup BY <1>7 DEF LoadGroup, GotoStage, HostKeeps
<1>8. CASE LoadFlags BY <1>8 DEF LoadFlags, GotoStage, HostKeeps
<1>9. CASE Display BY <1>9 DEF Display, Leave, End, GotoStage, HostKeeps
<1> QED BY <1>1, <1>2, <1>3, <1>4, <1>5, <1>6, <1>7, <1>8, <1>9

\* A freeze that the host believes in force is one: no command and no display
\* clears the request bit without an unfreeze.
LEMMA ControlStep ==
  ASSUME Bit6 = "FreezeDone", ControlInv, [Next]_vars
  PROVE  ControlInv'
<1> USE DEF ControlInv
<1>1. CASE Monitor
  BY <1>1 DEF Monitor, Refresh, Freeze, Thaw
<1>2. CASE VdmCommand
  BY <1>2 DEF VdmCommand, Start, monitor
<1>3. CASE VdmStep
  <2>1. CASE ReadByte("freeze.read", Control, "freeze.write", "groups")
    BY <2>1 DEF ReadByte, Control, Return, End, Goto, monitor
  <2>2. CASE WriteFreeze
    BY <2>2 DEF WriteFreeze, TakeControl, Return, End, Goto, Written
  <2>3. CASE PollFreeze
    <3>1. Control.bit6 = frozen
      BY DEF Control
    <3>2. /\ UNCHANGED <<request, frozen>> /\ held' = (held \/ (pc' # pc /\ ret' = "ok"))
          /\ pc = "freeze.poll" /\ (ret' = "ok" /\ pc' # "freeze.poll" => frozen)
          /\ pc' \in {"freeze.poll", "groups", "idle"}
      BY <2>3, <3>1 DEF PollFreeze, Poll, Return, End, monitor
    <3> QED BY <3>2
  <2>4. CASE ReadByte("unfreeze.read", Control, "unfreeze.write", "flags")
    BY <2>4 DEF ReadByte, Control, Return, End, Goto, monitor
  <2>5. CASE WriteUnfreeze
    <3>1. UNCHANGED frozen /\ pc' \in {"unfreeze.poll", "flags", "idle"}
      BY <2>5 DEF WriteUnfreeze, Return, End, Goto, Written
    <3>2. request' \in BOOLEAN /\ held' \in BOOLEAN
      BY <2>5 DEF WriteUnfreeze, TakeControl
    <3>3. held' => held /\ request' = request
      BY <2>5 DEF WriteUnfreeze, TakeControl
    <3> QED BY <3>1, <3>2, <3>3
  <2>6. CASE PollUnfreeze
    BY <2>6 DEF PollUnfreeze, Poll, Return, End, monitor
  <2>7. CASE ReadByte("power.read", Control, "power.write", "idle")
    BY <2>7 DEF ReadByte, Control, Return, End, Goto, monitor
  <2>8. CASE WritePower
    BY <2>8 DEF WritePower, TakeControl, Return, End, Goto
  <2>9. CASE op = "mask" /\ ReadByte("mask.read", masks[arg.instance \div 2], "mask.write", "idle")
    BY <2>9 DEF ReadByte, Return, End, Goto, monitor
  <2>10. CASE WriteMask
    BY <2>10 DEF WriteMask, Return, End, monitor
  <2> QED BY <1>3, <2>1, <2>2, <2>3, <2>4, <2>5, <2>6, <2>7, <2>8, <2>9, <2>10 DEF VdmStep
<1>4. CASE Show \/ LoadBase \/ LoadExt \/ Quirk \/ LoadCoherent \/ LoadVdm \/ LoadGroup
             \/ LoadFlags \/ Display
  BY <1>4, StageKeeps DEF monitor
<1>5. CASE UNCHANGED vars
  BY <1>5 DEF vars, vdmVars, monitor
<1> QED BY <1>1, <1>2, <1>3, <1>4, <1>5 DEF Next

\* On a module whose bit 6 is FreezeDone, samples that were frozen stay so until an
\* unfreeze, whatever power saving command or display comes in between.
THEOREM FreezeLasts == Bit6 = "FreezeDone" => (Spec => []HeldIsFrozen)
<1> SUFFICES ASSUME Bit6 = "FreezeDone" PROVE Spec => []HeldIsFrozen
  OBVIOUS
<1>1. Init => ControlInv
  BY DEF Init, VdmInit, ControlInv
<1>2. ControlInv /\ [Next]_vars => ControlInv'
  BY ControlStep
<1>3. ControlInv => HeldIsFrozen
  BY DEF ControlInv, HeldIsFrozen
<1> QED BY <1>1, <1>2, <1>3, PTL DEF Spec

-----------------------------------------------------------------------------

\* UnfreezeDone is up only while the samples are released.
ThawedInv ==
  /\ frozen \in BOOLEAN /\ thawed \in BOOLEAN
  /\ ~(thawed /\ frozen)

\* Only the monitors change the two.
LEMMA ThawedStep ==
  ASSUME ThawedInv, [Next]_vars
  PROVE  ThawedInv'
<1>1. CASE Monitor
  <2>1. CASE Refresh BY <2>1 DEF ThawedInv, Refresh
  <2>2. CASE Freeze BY <2>2 DEF ThawedInv, Freeze
  <2>3. CASE Thaw BY <2>3 DEF ThawedInv, Thaw
  <2> QED BY <1>1, <2>1, <2>2, <2>3 DEF Monitor
<1>2. ASSUME UNCHANGED <<frozen, thawed>> PROVE ThawedInv'
  BY <1>2 DEF ThawedInv
<1>3. CASE VdmCommand
  BY <1>2, <1>3 DEF VdmCommand, Start, monitor
<1>4. CASE VdmStep
  BY <1>2, <1>4 DEF VdmStep, ReadByte, WriteFreeze, PollFreeze, WriteUnfreeze, PollUnfreeze,
                    WritePower, WriteMask, monitor
<1>5. CASE Show \/ LoadBase \/ LoadExt \/ Quirk \/ LoadCoherent \/ LoadVdm \/ LoadGroup
             \/ LoadFlags \/ Display
  BY <1>2, <1>5, StageKeeps DEF monitor
<1>6. CASE UNCHANGED vars
  BY <1>2, <1>6 DEF vars, vdmVars, monitor
<1> QED BY <1>1, <1>3, <1>4, <1>5, <1>6 DEF Next

\* A wait ends only with its own poll.
LEMMA WaitEnds ==
  ASSUME [Next]_vars, pc \in {"freeze.poll", "unfreeze.poll"}, pc' # pc
  PROVE  \/ pc = "freeze.poll" /\ PollFreeze
         \/ pc = "unfreeze.poll" /\ PollUnfreeze
<1>1. ~Monitor BY DEF Monitor
<1>2. ~VdmCommand BY DEF VdmCommand, Start
<1>3. VdmStep => PollFreeze \/ PollUnfreeze
  BY DEF VdmStep, ReadByte, WriteFreeze, WriteUnfreeze, WritePower, WriteMask
<1>4. /\ ~Show /\ ~LoadBase /\ ~LoadExt /\ ~Quirk /\ ~LoadCoherent /\ ~LoadVdm
      /\ ~LoadGroup /\ ~LoadFlags /\ ~Display
  BY DEF Show, Start, LoadBase, LoadExt, Quirk, LoadCoherent, LoadVdm, LoadGroup, LoadFlags, Display
<1>5. ~UNCHANGED vars BY DEF vars, vdmVars
<1>6. PollFreeze => pc = "freeze.poll" BY DEF PollFreeze
<1>7. PollUnfreeze => pc = "unfreeze.poll" BY DEF PollUnfreeze
<1> QED BY <1>1, <1>2, <1>3, <1>4, <1>5, <1>6, <1>7 DEF Next

\* On a module whose bit 6 is FreezeDone, what a freeze or an unfreeze answers is
\* what the samples are.
THEOREM AnswersAreTrue == Bit6 = "FreezeDone" => (Spec => AnswersTrue)
<1> SUFFICES ASSUME Bit6 = "FreezeDone" PROVE Spec => AnswersTrue
  OBVIOUS
<1>1. Init => ThawedInv
  BY DEF Init, VdmInit, ThawedInv
<1>2. ThawedInv /\ [Next]_vars => ThawedInv'
  BY ThawedStep
<1> DEFINE FreezeAnswer == pc = "freeze.poll" /\ pc' # pc =>
                             (ret' = "ok" => frozen) /\ (ret' = "timeout" => ~frozen)
           UnfreezeAnswer == pc = "unfreeze.poll" /\ pc' # pc /\ ret' = "ok" => ~frozen
<1>3. ThawedInv /\ [Next]_vars => [FreezeAnswer /\ UnfreezeAnswer]_vars
  <2> SUFFICES ASSUME ThawedInv, [Next]_vars PROVE FreezeAnswer /\ UnfreezeAnswer
    OBVIOUS
  <2>1. FreezeAnswer
    <3> SUFFICES ASSUME pc = "freeze.poll", pc' # pc
                 PROVE  (ret' = "ok" => frozen) /\ (ret' = "timeout" => ~frozen)
      OBVIOUS
    <3>1. PollFreeze
      BY WaitEnds
    <3>2. Control.bit6 = frozen
      BY DEF Control
    <3> QED BY <3>1, <3>2 DEF PollFreeze, Poll, Return
  <2>2. UnfreezeAnswer
    <3> SUFFICES ASSUME pc = "unfreeze.poll", pc' # pc, ret' = "ok"
                 PROVE  ~frozen
      OBVIOUS
    <3>1. PollUnfreeze
      BY WaitEnds
    <3>2. thawed
      BY <3>1 DEF PollUnfreeze, Poll, Return
    <3> QED BY <3>2 DEF ThawedInv
  <2> QED BY <2>1, <2>2
<1> QED BY <1>1, <1>2, <1>3, PTL DEF Spec, AnswersTrue

-----------------------------------------------------------------------------

\* Two instances that share a byte have different halves of it.
LEMMA HalvesDiffer ==
  ASSUME NEW i \in Instances, NEW j \in Instances, i \div 2 = j \div 2, i # j
  PROVE  MaskPlace(i) # MaskPlace(j)
BY VdmAssumption DEF MaskPlace, Instances

\* Every observable instance has its byte and its half of it.
LEMMA PlaceOfInstance ==
  ASSUME NEW i \in Instances
  PROVE  i \div 2 \in Bytes /\ MaskPlace(i) \in Halves
BY DEF Bytes, MaskPlace, Halves

\* The write of a mask changes the nibble of its instance only, and leaves its
\* instance without a known mask when it fails.
LEMMA WriteMaskStep ==
  ASSUME MaskInv, WriteMask
  PROVE  MaskInv'
<1> DEFINE k == arg.instance
           written == [masks EXCEPT ![k \div 2] = [byteRead EXCEPT ![MaskPlace(k)] = arg.nibble]]
<1>1. /\ k \in Instances /\ arg.nibble \in Nibbles
      /\ byteRead = masks[k \div 2] /\ op = "mask"
  BY DEF MaskInv, WriteMask
<1>2. k \div 2 \in Bytes /\ MaskPlace(k) \in Halves
  BY <1>1, PlaceOfInstance
<1>3. written \in [Bytes -> [Halves -> Nibbles]]
  BY <1>1, <1>2 DEF MaskInv
<1>4. /\ pc' = "idle" /\ op' = "none"
      /\ \/ ret' = "ok" /\ masks' = written
         \/ ret' = "failed" /\ masks' \in {masks, written}
  BY <1>1 DEF WriteMask, Return, End
<1>5. wanted' = [wanted EXCEPT ![k] = IF ret' = "ok" THEN arg.nibble ELSE Unknown]
  BY DEF WriteMask
<1>6. masks' \in [Bytes -> [Halves -> Nibbles]] /\ wanted' \in [Instances -> Nibbles \cup {Unknown}]
  BY <1>1, <1>3, <1>4, <1>5 DEF MaskInv
<1>7. ASSUME NEW i \in Instances, wanted'[i] # Unknown
      PROVE  masks'[i \div 2][MaskPlace(i)] = wanted'[i]
  <2>1. CASE i = k
    <3>1. ret' = "ok" /\ wanted'[i] = arg.nibble
      BY <1>4, <1>5, <1>7, <2>1 DEF MaskInv
    <3>2. written[k \div 2][MaskPlace(k)] = arg.nibble
      BY <1>1, <1>2 DEF MaskInv
    <3> QED BY <1>4, <2>1, <3>1, <3>2
  <2>2. CASE i # k
    <3>1. wanted'[i] = wanted[i]
      BY <1>5, <2>2 DEF MaskInv
    <3>2. masks[i \div 2][MaskPlace(i)] = wanted[i]
      BY <1>7, <3>1 DEF MaskInv, MaskHeld
    <3>3. i \div 2 \in Bytes /\ MaskPlace(i) \in Halves
      BY PlaceOfInstance
    <3>4. written[i \div 2][MaskPlace(i)] = masks[i \div 2][MaskPlace(i)]
      <4>1. CASE i \div 2 = k \div 2
        <5>1. MaskPlace(i) # MaskPlace(k)
          BY <1>1, <2>2, <4>1, HalvesDiffer
        <5>2. written[i \div 2] = [byteRead EXCEPT ![MaskPlace(k)] = arg.nibble]
          BY <1>2, <4>1 DEF MaskInv
        <5>3. byteRead \in [Halves -> Nibbles]
          BY <1>1, <1>2 DEF MaskInv
        <5> QED BY <1>1, <3>3, <4>1, <5>1, <5>2, <5>3
      <4>2. CASE i \div 2 # k \div 2
        BY <1>2, <3>3, <4>2 DEF MaskInv
      <4> QED BY <4>1, <4>2
    <3> QED BY <1>4, <3>1, <3>2, <3>4
  <2> QED BY <2>1, <2>2
<1> QED BY <1>4, <1>6, <1>7 DEF MaskInv, MaskHeld

\* Every other step leaves the masks alone, and a command that reads a mask byte
\* reads that of its instance.
LEMMA MaskStep ==
  ASSUME MaskInv, [Next]_vars
  PROVE  MaskInv'
<1>1. CASE WriteMask BY <1>1, WriteMaskStep
<1>2. CASE op = "mask" /\ ReadByte("mask.read", masks[arg.instance \div 2], "mask.write", "idle")
  BY <1>2 DEF MaskInv, MaskHeld, ReadByte, Return, End, Goto
<1>3. ASSUME NEW i \in Instances, NEW n \in Nibbles,
             Start("mask", [instance |-> i, nibble |-> n], "mask.read")
      PROVE  MaskInv'
  BY <1>3 DEF MaskInv, MaskHeld, Start
<1>4. ASSUME UNCHANGED <<masks, wanted>>,
             \/ UNCHANGED <<pc, op, arg, byteRead>>
             \/ pc' # "mask.write" /\ (op' # "mask" \/ UNCHANGED <<op, arg>>)
      PROVE  MaskInv'
  BY <1>4 DEF MaskInv, MaskHeld
<1>5. CASE Monitor
  BY <1>4, <1>5 DEF Monitor
<1>6. CASE VdmCommand
  BY <1>3, <1>4, <1>6 DEF VdmCommand, Start
<1>7. CASE VdmStep
  <2>1. CASE ReadByte("freeze.read", Control, "freeze.write", "groups")
    BY <1>4, <2>1 DEF ReadByte, Return, End, Goto
  <2>2. CASE WriteFreeze
    BY <1>4, <2>2 DEF WriteFreeze, Return, End, Goto, Written
  <2>3. CASE PollFreeze
    BY <1>4, <2>3 DEF PollFreeze, Poll, Return, End
  <2>4. CASE ReadByte("unfreeze.read", Control, "unfreeze.write", "flags")
    BY <1>4, <2>4 DEF ReadByte, Return, End, Goto
  <2>5. CASE WriteUnfreeze
    BY <1>4, <2>5 DEF WriteUnfreeze, Return, End, Goto, Written
  <2>6. CASE PollUnfreeze
    BY <1>4, <2>6 DEF PollUnfreeze, Poll, Return, End
  <2>7. CASE ReadByte("power.read", Control, "power.write", "idle")
    BY <1>4, <2>7 DEF ReadByte, Return, End, Goto
  <2>8. CASE WritePower
    BY <1>4, <2>8 DEF WritePower, Return, End, Goto
  <2> QED BY <1>1, <1>2, <1>7, <2>1, <2>2, <2>3, <2>4, <2>5, <2>6, <2>7, <2>8 DEF VdmStep
<1>8. CASE Show \/ LoadBase \/ LoadExt \/ Quirk \/ LoadCoherent \/ LoadVdm \/ LoadGroup
             \/ LoadFlags \/ Display
  BY <1>4, <1>8, StageKeeps
<1>9. CASE UNCHANGED vars
  BY <1>4, <1>9 DEF vars, vdmVars
<1> QED BY <1>5, <1>6, <1>7, <1>8, <1>9 DEF Next

\* The invariant of the masks.
LEMMA MaskInvariant == Spec => []MaskInv
<1>1. Init => MaskInv
  <2> SUFFICES ASSUME Init PROVE MaskInv
    OBVIOUS
  <2>1. /\ masks = [b \in Bytes |-> [h \in Halves |-> 0]] /\ wanted = [i \in Instances |-> 0]
        /\ op = "none" /\ pc = "idle" /\ 0 \in Nibbles
    BY VdmAssumption DEF Init, VdmInit
  <2>2. MaskHeld
    BY <2>1, PlaceOfInstance DEF MaskHeld
  <2> QED BY <2>1, <2>2 DEF MaskInv
<1>2. MaskInv /\ [Next]_vars => MaskInv'
  BY MaskStep
<1> QED BY <1>1, <1>2, PTL DEF Spec

\* The mask an instance was given stays, whatever is written to its neighbour and
\* whichever writes fail.
THEOREM MasksKept == Spec => []MaskHeld
<1>1. MaskInv => MaskHeld
  BY DEF MaskInv
<1> QED BY <1>1, MaskInvariant, PTL

-----------------------------------------------------------------------------
(***************************************************************************)
(* Types.  A control byte that was read stays one until it is written, and *)
(* the pages of the stages are pages the type names.                       *)
(***************************************************************************)

MonitorTypes ==
  /\ request \in BOOLEAN /\ saving \in BOOLEAN /\ frozen \in BOOLEAN /\ thawed \in BOOLEAN
  /\ held \in BOOLEAN /\ sample \in 0 .. NSamples - 1

HostTypes ==
  /\ pc \in Places /\ op \in {"none", "freeze", "unfreeze", "power", "mask", "show"}
  /\ polls \in 0 .. MaxPolls - 1 /\ failures \in 0 .. MaxFailures
  /\ ret \in {"none", "ok", "timeout", "failed"}

ByteTypes ==
  /\ pc \in {"freeze.write", "unfreeze.write", "power.write"} =>
       byteRead \in [bit7 : BOOLEAN, bit6 : BOOLEAN]
  /\ pc \in {"power.read", "power.write"} => op = "power"
  /\ op = "power" => arg \in BOOLEAN

MapTypes ==
  /\ module \in Modules /\ forced \in BOOLEAN /\ loaded \subseteq Pages
  /\ group \in Groups
  /\ snap \in [Groups -> [readable : BOOLEAN, sample : 0 .. NSamples - 1, held : BOOLEAN]]

TypeInv == MonitorTypes /\ HostTypes /\ ByteTypes /\ MapTypes

\* The parts are the type invariant, together with the types of the masks.
LEMMA TypeParts ==
  TypeInv /\ MaskInv => TypeOK
BY DEF TypeInv, MonitorTypes, HostTypes, MapTypes, MaskInv, TypeOK

\* Banks are banks 0 to 3, and the pages of a stage are among the pages.
LEMMA PagesOfStages ==
  ASSUME MemoryMapAssumption, module \in Modules, NEW g \in Groups
  PROVE  /\ BasePages \subseteq Pages /\ ExtPages \subseteq Pages
         /\ CoherentPages \subseteq Pages /\ VdmPages(g) \subseteq Pages
         /\ Unbanked({"2Ch", "2Dh", "2Fh", "40h"}) \subseteq Pages
<1>1. module.banks \in {0, 1, 2, 4}
  BY DEF MemoryMapAssumption
<1>2. 0 .. module.banks - 1 \subseteq 0 .. 3 /\ {0} \subseteq 0 .. 3
  BY <1>1
<1> DEFINE Names == {"lower", "00h", "01h", "02h", "04h", "10h", "11h", "12h", "13h", "14h",
                     "15h", "16h", "17h", "2Ch", "2Dh", "2Fh", "30h", "31h", "33h", "34h",
                     "35h", "38h", "3Ah", "3Bh", "40h", "41h", "42h", "43h", "44h"}
<1>3. (0 .. 3) \X Names \subseteq Pages
  BY DEF Pages
<1>4. ASSUME NEW names, names \subseteq Names
      PROVE  Banked(names) \subseteq Pages /\ Unbanked(names) \subseteq Pages
  <2> HIDE DEF Names
  <2> QED BY <1>2, <1>3, <1>4 DEF Banked, Unbanked
<1>5. BasePages \subseteq Pages
  <2>1. {"lower", "00h"} \subseteq Names /\ {"01h", "02h"} \subseteq Names /\ {"11h"} \subseteq Names
    OBVIOUS
  <2> HIDE DEF Names
  <2> QED BY <1>4, <2>1 DEF BasePages
<1>6. ExtPages \subseteq Pages
  <2>1. /\ {"10h"} \subseteq Names /\ {"04h"} \subseteq Names /\ {"12h"} \subseteq Names
        /\ {"13h", "14h"} \subseteq Names /\ {"15h"} \subseteq Names /\ {"16h", "17h"} \subseteq Names
    OBVIOUS
  <2> HIDE DEF Names
  <2> QED BY <1>4, <2>1 DEF ExtPages, When
<1>7. CoherentPages \subseteq Pages
  <2>1. /\ {"35h", "34h", "42h", "44h", "41h", "43h"} \subseteq Names /\ {"40h"} \subseteq Names
        /\ {"33h", "3Bh", "3Ah", "30h", "31h", "38h"} \subseteq Names
    OBVIOUS
  <2> HIDE DEF Names
  <2> QED BY <1>4, <2>1 DEF CoherentPages
<1>8. VdmPages(g) \subseteq Pages
  BY DEF Pages
<1>9. Unbanked({"2Ch", "2Dh", "2Fh", "40h"}) \subseteq Pages
  BY <1>4
<1> QED BY <1>5, <1>6, <1>7, <1>8, <1>9

\* Reads of pages add some of them, and count those that failed.
LEMMA FetchesSome ==
  ASSUME VdmAssumption, failures \in 0 .. MaxFailures, NEW pages, FetchAny(pages)
  PROVE  /\ loaded \subseteq loaded' /\ loaded' \subseteq loaded \cup pages
         /\ failures' \in 0 .. MaxFailures
<1>1. PICK n \in 0 .. MaxFailures - failures, bad \in SUBSET pages :
        loaded' = loaded \cup (pages \ bad) /\ failures' = failures + n
  BY DEF FetchAny, Fetch, kSubset
<1> QED BY <1>1 DEF VdmAssumption

\* A poll counts up to its bound, or returns.
LEMMA PollTypes ==
  ASSUME VdmAssumption, HostTypes, NEW done, NEW next \in Places, Poll(done, next)
  PROVE  HostTypes' /\ (UNCHANGED <<op, arg>> \/ op' = "none") /\ pc' \in {pc, next, "idle"}
BY DEF Poll, HostTypes, Return, End, Succeeds, Fails, VdmAssumption, Places

\* What each step of a VDM command does to the host's side.
LEMMA VdmHostTypes ==
  ASSUME VdmAssumption, HostTypes, VdmStep
  PROVE  HostTypes' /\ (UNCHANGED <<op, arg>> \/ op' = "none")
<1> USE DEF HostTypes
<1> DEFINE Ends == HostTypes' /\ (UNCHANGED <<op, arg>> \/ op' = "none")
<1>1. ASSUME NEW place \in Places, NEW value, NEW write \in Places, NEW next \in Places,
             ReadByte(place, value, write, next)
      PROVE  Ends
  BY <1>1 DEF ReadByte, Goto, Return, End, Succeeds, Fails, VdmAssumption, Places
<1>2. CASE WriteFreeze
  BY <1>2 DEF WriteFreeze, Written, Goto, Return, End, Succeeds, Fails, VdmAssumption, Places
<1>3. CASE WriteUnfreeze
  BY <1>3 DEF WriteUnfreeze, Written, Goto, Return, End, Succeeds, Fails, VdmAssumption, Places
<1>4. CASE PollFreeze \/ PollUnfreeze
  BY <1>4, PollTypes DEF PollFreeze, PollUnfreeze, Places
<1>5. CASE WritePower
  BY <1>5 DEF WritePower, Return, End, Succeeds, Fails, VdmAssumption, Places
<1>6. CASE WriteMask
  BY <1>6 DEF WriteMask, Return, End, Succeeds, Fails, VdmAssumption, Places
<1>7. {"freeze.read", "freeze.write", "groups", "unfreeze.read", "unfreeze.write", "flags",
       "power.read", "power.write", "idle", "mask.read", "mask.write"} \subseteq Places
  BY DEF Places
<1> QED BY <1>1, <1>2, <1>3, <1>4, <1>5, <1>6, <1>7 DEF VdmStep

\* What it does to the module: bits stay bits.
LEMMA VdmMonitorTypes ==
  ASSUME MonitorTypes, ByteTypes, VdmStep
  PROVE  MonitorTypes'
<1> USE DEF MonitorTypes
<1>1. ASSUME NEW place, NEW value, NEW write, NEW next, ReadByte(place, value, write, next)
      PROVE  MonitorTypes'
  BY <1>1 DEF ReadByte, monitor
<1>2. CASE WriteFreeze
  BY <1>2 DEF WriteFreeze, TakeControl, ByteTypes
<1>3. CASE WriteUnfreeze
  BY <1>3 DEF WriteUnfreeze, TakeControl, ByteTypes
<1>4. CASE PollFreeze
  BY <1>4 DEF PollFreeze, monitor
<1>5. CASE PollUnfreeze
  BY <1>5 DEF PollUnfreeze, monitor
<1>6. CASE WritePower
  BY <1>6 DEF WritePower, TakeControl, ByteTypes
<1>7. CASE WriteMask
  BY <1>7 DEF WriteMask, monitor
<1> QED BY <1>1, <1>2, <1>3, <1>4, <1>5, <1>6, <1>7 DEF VdmStep

\* And to the byte in the host's hands.
LEMMA VdmByteTypes ==
  ASSUME MonitorTypes, ByteTypes, VdmStep
  PROVE  ByteTypes'
<1> USE DEF ByteTypes
<1>1. Control \in [bit7 : BOOLEAN, bit6 : BOOLEAN]
  BY DEF Control, MonitorTypes
<1>2. CASE ReadByte("freeze.read", Control, "freeze.write", "groups")
  BY <1>1, <1>2 DEF ReadByte, Goto, Return, End
<1>3. CASE ReadByte("unfreeze.read", Control, "unfreeze.write", "flags")
  BY <1>1, <1>3 DEF ReadByte, Goto, Return, End
<1>4. CASE ReadByte("power.read", Control, "power.write", "idle")
  BY <1>1, <1>4 DEF ReadByte, Goto, Return, End
<1>5. CASE op = "mask" /\ ReadByte("mask.read", masks[arg.instance \div 2], "mask.write", "idle")
  BY <1>5 DEF ReadByte, Goto, Return, End
<1>6. CASE WriteFreeze
  BY <1>6 DEF WriteFreeze, Written, Goto, Return, End
<1>7. CASE WriteUnfreeze
  BY <1>7 DEF WriteUnfreeze, Written, Goto, Return, End
<1>8. CASE PollFreeze
  BY <1>8 DEF PollFreeze, Poll, Return, End
<1>9. CASE PollUnfreeze
  BY <1>9 DEF PollUnfreeze, Poll, Return, End
<1>10. CASE WritePower
  BY <1>10 DEF WritePower, Return, End
<1>11. CASE WriteMask
  BY <1>11 DEF WriteMask, Return, End
<1> QED BY <1>2, <1>3, <1>4, <1>5, <1>6, <1>7, <1>8, <1>9, <1>10, <1>11 DEF VdmStep

\* The stages of the loader and the display keep to the pages, the groups and the
\* samples there are.
LEMMA StageTypes ==
  ASSUME VdmAssumption, MemoryMapAssumption, MonitorTypes, HostTypes, MapTypes,
         \/ LoadBase \/ LoadExt \/ Quirk \/ LoadCoherent \/ LoadVdm \/ LoadGroup
         \/ LoadFlags \/ Display
  PROVE  /\ HostTypes' /\ MapTypes'
         /\ pc' \notin {"power.read", "power.write"} /\ (UNCHANGED <<op, arg>> \/ op' = "none")
<1> USE DEF HostTypes, MapTypes, GotoStage, HostKeeps
<1> DEFINE Kept == /\ HostTypes' /\ MapTypes' /\ pc' \notin {"power.read", "power.write"}
                   /\ (UNCHANGED <<op, arg>> \/ op' = "none")
<1>1. 1 \in Groups /\ \A g \in Groups : VdmPages(g) \subseteq Pages
  <2>1. 1 \in Groups
    BY DEF Groups, MemoryMapAssumption
  <2>2. ASSUME NEW g \in Groups PROVE VdmPages(g) \subseteq Pages
    BY PagesOfStages
  <2> QED BY <2>1, <2>2
<1>2. /\ BasePages \subseteq Pages /\ ExtPages \subseteq Pages /\ CoherentPages \subseteq Pages
      /\ Unbanked({"2Ch", "2Dh", "2Fh", "40h"}) \subseteq Pages
  BY <1>1, PagesOfStages
<1>3. ASSUME Leave, failures' \in 0 .. MaxFailures PROVE Kept
  <2>1. NoSample \in [readable : BOOLEAN, sample : 0 .. NSamples - 1, held : BOOLEAN]
    BY DEF NoSample, VdmAssumption
  <2> QED BY <1>1, <1>3, <2>1 DEF Leave, End, ClearMap, Places
<1>4. Fails => failures' \in 0 .. MaxFailures
  BY DEF Fails, VdmAssumption
<1>5. CASE LoadBase
  <2>1. CASE Leave
    BY <1>3, <1>4, <1>5, <2>1 DEF LoadBase, Succeeds
  <2>2. CASE ~Leave
    BY <1>2, <1>5, <2>2 DEF LoadBase, Succeeds, Fetch, Places
  <2> QED BY <2>1, <2>2
<1>6. CASE LoadExt
  BY <1>2, <1>6, FetchesSome DEF LoadExt, Places
<1>7. CASE Quirk
  <2>1. Unbanked({"40h"}) \subseteq Pages
    BY <1>2 DEF Unbanked
  <2> QED BY <1>4, <1>7, <2>1 DEF Quirk, Succeeds, Fetch, Places
<1>8. CASE LoadCoherent
  BY <1>2, <1>8, FetchesSome DEF LoadCoherent, Places
<1>9. CASE LoadVdm
  <2>1. Unbanked({"2Fh"}) \subseteq Pages
    BY <1>2 DEF Unbanked
  <2> QED BY <1>4, <1>9, <2>1 DEF LoadVdm, Succeeds, Fetch, Places
<1>10. CASE LoadGroup
  <2>1. failures' \in 0 .. MaxFailures /\ loaded' \subseteq Pages
    BY <1>1, <1>10, FetchesSome DEF LoadGroup
  <2>2. group' \in Groups
    BY <1>10 DEF LoadGroup, Groups, MemoryMapAssumption
  <2>3. [readable |-> Samples(group) \in loaded', sample |-> sample, held |-> held]
          \in [readable : BOOLEAN, sample : 0 .. NSamples - 1, held : BOOLEAN]
    BY DEF MonitorTypes
  <2>4. snap' \in [Groups -> [readable : BOOLEAN, sample : 0 .. NSamples - 1, held : BOOLEAN]]
    BY <1>10, <2>3 DEF LoadGroup
  <2>5. UNCHANGED <<module, forced, polls, ret, op, arg>> /\ pc' \in {"groups", "unfreeze.read"}
    BY <1>10 DEF LoadGroup
  <2> QED BY <2>1, <2>2, <2>4, <2>5 DEF Places
<1>11. CASE LoadFlags
  <2>1. Unbanked({"2Ch", "2Dh"}) \subseteq Pages
    BY <1>2 DEF Unbanked
  <2> QED BY <1>11, <2>1, FetchesSome DEF LoadFlags, Places
<1>12. CASE Display
  BY <1>3, <1>12 DEF Display, Places, mapVars
<1> QED BY <1>5, <1>6, <1>7, <1>8, <1>9, <1>10, <1>11, <1>12

\* Every step keeps the types.
LEMMA TypeStep ==
  ASSUME VdmAssumption, MemoryMapAssumption, TypeInv, [Next]_vars
  PROVE  TypeInv'
<1> USE DEF TypeInv
<1>1. CASE (Monitor \/ VdmCommand \/ VdmStep) /\ UNCHANGED mapVars
  <2>1. MapTypes'
    BY <1>1 DEF MapTypes, mapVars
  <2>2. CASE Monitor
    <3>1. MonitorTypes'
      <4>1. sample \in Nat /\ NSamples \in Nat \ {0}
        BY DEF MonitorTypes, VdmAssumption
      <4>2. (sample + 1) % NSamples \in 0 .. NSamples - 1
        BY <4>1
      <4>3. sample' \in 0 .. NSamples - 1
        BY <2>2, <4>2 DEF Monitor, Refresh, Freeze, Thaw, MonitorTypes
      <4>4. /\ request' \in BOOLEAN /\ saving' \in BOOLEAN /\ frozen' \in BOOLEAN
            /\ thawed' \in BOOLEAN /\ held' \in BOOLEAN
        BY <2>2 DEF Monitor, Refresh, Freeze, Thaw, MonitorTypes
      <4> QED BY <4>3, <4>4 DEF MonitorTypes
    <3> QED BY <2>1, <2>2, <3>1 DEF Monitor, HostTypes, ByteTypes
  <2>3. CASE VdmCommand
    BY <2>1, <2>3 DEF VdmCommand, Start, monitor, MonitorTypes, HostTypes, ByteTypes, Places,
                      VdmAssumption
  <2>4. CASE VdmStep
    BY <2>1, <2>4, VdmHostTypes, VdmMonitorTypes, VdmByteTypes
  <2> QED BY <1>1, <2>2, <2>3, <2>4
<1>2. CASE Show
  BY <1>2 DEF Show, Start, mapVars, monitor, MonitorTypes, HostTypes, ByteTypes, MapTypes,
              Places, VdmAssumption
<1>3. CASE LoadBase \/ LoadExt \/ Quirk \/ LoadCoherent \/ LoadVdm \/ LoadGroup \/ LoadFlags
             \/ Display
  <2>1. /\ HostTypes' /\ MapTypes' /\ pc' \notin {"power.read", "power.write"}
        /\ UNCHANGED <<op, arg>> \/ op' = "none"
    BY <1>3, StageTypes
  <2>2. /\ UNCHANGED <<monitor, held>>
        /\ pc' \notin {"freeze.write", "unfreeze.write", "power.write"}
    BY <1>3, StageKeeps
  <2> QED BY <2>1, <2>2 DEF monitor, MonitorTypes, ByteTypes
<1>4. CASE UNCHANGED vars
  BY <1>4 DEF vars, vdmVars, mapVars, monitor, MonitorTypes, HostTypes, ByteTypes, MapTypes
<1> QED BY <1>1, <1>2, <1>3, <1>4 DEF Next

\* The parts hold in every state.
LEMMA TypeInvariant == Spec => []TypeInv
<1>1. Init => TypeInv
  <2> SUFFICES ASSUME Init PROVE TypeInv
    OBVIOUS
  <2>1. /\ request \in BOOLEAN /\ saving \in BOOLEAN /\ frozen \in BOOLEAN /\ thawed \in BOOLEAN
        /\ held \in BOOLEAN
    BY DEF Init, VdmInit
  <2>2. sample \in 0 .. NSamples - 1 /\ polls \in 0 .. MaxPolls - 1 /\ failures \in 0 .. MaxFailures
    BY VdmAssumption DEF Init, VdmInit, VdmAssumption
  <2>3. pc = "idle" /\ op = "none" /\ ret = "none"
    BY DEF Init, VdmInit
  <2>4. MapTypes
    <3>1. 1 \in Groups
      BY MemoryMapAssumption DEF Groups, MemoryMapAssumption
    <3>2. NoSample \in [readable : BOOLEAN, sample : 0 .. NSamples - 1, held : BOOLEAN]
      BY VdmAssumption DEF NoSample, VdmAssumption
    <3>3. module \in Modules /\ loaded = {} /\ group = 1 /\ snap = [g \in Groups |-> NoSample]
      BY DEF Init
    <3>4. forced \in BOOLEAN
      BY DEF Init
    <3> QED BY <3>1, <3>2, <3>3, <3>4 DEF MapTypes
  <2> QED BY <2>1, <2>2, <2>3, <2>4 DEF TypeInv, MonitorTypes, HostTypes, ByteTypes, Places
<1>2. TypeInv /\ [Next]_vars => TypeInv'
  BY TypeStep, VdmAssumption, MemoryMapAssumption
<1> QED BY <1>1, <1>2, PTL DEF Spec

\* Types, for any kinds of modules and either meaning of bit 6: in particular the
\* memory map points only to pages there are, and a wait never polls more often
\* than its bound.
THEOREM MapTypeCorrect == Spec => []TypeOK
BY TypeInvariant, MaskInvariant, TypeParts, PTL

-----------------------------------------------------------------------------
(***************************************************************************)
(* Pages.  cmis_memory_map_init_pages lets nothing pass unless it has read *)
(* every page of its own; the displays look before they follow any other.  *)
(***************************************************************************)

\* The pages that displays follow without looking.
Needed == Unbanked({"lower", "00h", "01h"})

StagePlaces == {"base", "ext", "quirk", "coherent", "vdm", "groups", "flags", "display"}

LoadInv ==
  /\ pc # "crashed"
  /\ pc \in StagePlaces => op = "show"
  /\ op = "show" /\ pc # "base" => Needed \subseteq loaded

\* With the needed pages there, every page that a display follows is there.
LEMMA FollowedIsLoaded ==
  ASSUME Needed \subseteq loaded
  PROVE  Followed \subseteq loaded
<1>1. <<0, "lower">> \in loaded /\ <<0, "00h">> \in loaded /\ <<0, "01h">> \in loaded
  BY DEF Needed, Unbanked
<1>2. Unbanked({"lower", "00h"}) \subseteq loaded /\ Unbanked({"01h"}) \subseteq loaded
      /\ Unbanked({"lower", "01h"}) \subseteq loaded /\ Unbanked({"01h", "lower"}) \subseteq loaded
  BY <1>1 DEF Unbanked
<1>3. ASSUME NEW pages PROVE Checked(pages) \subseteq loaded
  BY DEF Checked
<1>4. ASSUME NEW name, Has(name) PROVE Unbanked({"01h", name}) \subseteq loaded
  BY <1>1, <1>4 DEF Has, Unbanked
<1>5. cmis_show_all_common \subseteq loaded /\ NeedsPage01 \subseteq loaded
  BY <1>2, <1>3 DEF cmis_show_all_common, cmis_show_signals, cmis_show_dom, NeedsPage01
<1>6. cmis_show_tunable_laser \subseteq loaded
  BY <1>2, <1>3 DEF cmis_show_tunable_laser
<1>7. cmis_show_datapath \subseteq loaded
  BY <1>2, <1>3 DEF cmis_show_datapath
<1>8. cmis_show_netpath \subseteq loaded
  BY <1>3, <1>4 DEF cmis_show_netpath
<1>9. cmis_show_diag \subseteq loaded
  BY <1>3, <1>4 DEF cmis_show_diag
<1>10. cmis_show_coherent_pm \subseteq loaded /\ cmis_show_coherent_flags \subseteq loaded
  BY <1>3 DEF cmis_show_coherent_pm, cmis_show_coherent_flags
<1>11. cmis_show_vdm \subseteq loaded
  BY <1>3, <1>4 DEF cmis_show_vdm
<1> QED BY <1>5, <1>6, <1>7, <1>8, <1>9, <1>10, <1>11 DEF Followed

\* The kind of the module never changes.
LEMMA ModuleFixed ==
  ASSUME [Next]_vars
  PROVE  UNCHANGED module
<1>1. ClearMap => UNCHANGED module
  BY DEF ClearMap
<1> QED BY <1>1 DEF Next, Show, LoadBase, LoadExt, Quirk, LoadCoherent, LoadVdm, LoadGroup,
                   LoadFlags, Display, Leave, mapVars, vars

\* A VDM command or one of its steps leaves the map, and comes to a stage only
\* within a display.
LEMMA VdmPlaces ==
  ASSUME VdmCommand \/ VdmStep
  PROVE  /\ pc' # "crashed" /\ pc' # "base"
         /\ pc' \in StagePlaces => op' = "show" /\ op = "show"
         /\ op' = "show" => op = "show" /\ pc \notin StagePlaces
<1> USE DEF StagePlaces
<1>1. CASE VdmCommand
  BY <1>1 DEF VdmCommand, Start
<1>2. CASE VdmStep
  <2>1. CASE ReadByte("freeze.read", Control, "freeze.write", "groups")
    BY <2>1 DEF ReadByte, Goto, Return, End
  <2>2. CASE WriteFreeze
    BY <2>2 DEF WriteFreeze, Written, Goto, Return, End
  <2>3. CASE PollFreeze
    BY <2>3 DEF PollFreeze, Poll, Return, End
  <2>4. CASE ReadByte("unfreeze.read", Control, "unfreeze.write", "flags")
    BY <2>4 DEF ReadByte, Goto, Return, End
  <2>5. CASE WriteUnfreeze
    BY <2>5 DEF WriteUnfreeze, Written, Goto, Return, End
  <2>6. CASE PollUnfreeze
    BY <2>6 DEF PollUnfreeze, Poll, Return, End
  <2>7. CASE ReadByte("power.read", Control, "power.write", "idle")
    BY <2>7 DEF ReadByte, Goto, Return, End
  <2>8. CASE WritePower
    BY <2>8 DEF WritePower, Return, End
  <2>9. CASE op = "mask" /\ ReadByte("mask.read", masks[arg.instance \div 2], "mask.write", "idle")
    BY <2>9 DEF ReadByte, Goto, Return, End
  <2>10. CASE WriteMask
    BY <2>10 DEF WriteMask, Return, End
  <2> QED BY <1>2, <2>1, <2>2, <2>3, <2>4, <2>5, <2>6, <2>7, <2>8, <2>9, <2>10 DEF VdmStep
<1> QED BY <1>1, <1>2

\* Once past the base pages of a module that is not flat, the needed pages stay.
LEMMA LoadStep ==
  ASSUME ~module.flat, LoadInv, [Next]_vars
  PROVE  LoadInv'
<1> USE DEF LoadInv, GotoStage
<1>1. Needed' = Needed
  BY DEF Needed, Unbanked
<1>2. Needed \subseteq BasePages
  BY DEF Needed, BasePages, Unbanked
<1>3. ASSUME NEW pages, FetchAny(pages) PROVE loaded \subseteq loaded'
  BY <1>3 DEF FetchAny, Fetch
<1>4. CASE (Monitor \/ VdmCommand \/ VdmStep) /\ UNCHANGED mapVars
  <2>1. CASE Monitor
    BY <1>1, <1>4, <2>1 DEF Monitor, mapVars
  <2>2. CASE VdmCommand \/ VdmStep
    BY <1>1, <1>4, <2>2, VdmPlaces DEF mapVars, StagePlaces
  <2> QED BY <1>4, <2>1, <2>2
<1>5. CASE Show
  BY <1>5 DEF Show, Start, StagePlaces
<1>6. Leave => LoadInv'
  BY DEF Leave, End, StagePlaces
<1>7. CASE LoadBase
  BY <1>1, <1>2, <1>6, <1>7 DEF LoadBase, Fetch, StagePlaces
<1>8. CASE LoadExt
  <2>1. <<0, "01h">> \in loaded
    BY <1>8 DEF LoadExt, StagePlaces, Needed, Unbanked
  <2> QED BY <1>1, <1>3, <1>8, <2>1 DEF LoadExt, StagePlaces
<1>9. CASE Quirk
  BY <1>1, <1>9 DEF Quirk, StagePlaces, Fetch
<1>10. CASE LoadCoherent
  BY <1>1, <1>3, <1>10 DEF LoadCoherent, StagePlaces
<1>11. CASE LoadVdm
  BY <1>1, <1>11 DEF LoadVdm, StagePlaces, Fetch
<1>12. CASE LoadGroup
  BY <1>1, <1>3, <1>12 DEF LoadGroup, StagePlaces
<1>13. CASE LoadFlags
  BY <1>1, <1>3, <1>13 DEF LoadFlags, StagePlaces
<1>14. CASE Display
  <2>1. Followed \subseteq loaded
    BY <1>14, FollowedIsLoaded DEF Display, StagePlaces
  <2> QED BY <1>6, <1>14, <2>1 DEF Display
<1>15. CASE UNCHANGED vars
  BY <1>1, <1>15 DEF vars, vdmVars, mapVars
<1> QED BY <1>4, <1>5, <1>7, <1>8, <1>9, <1>10, <1>11, <1>12, <1>13, <1>14, <1>15 DEF Next

\* Whatever pages cannot be read, neither the loader nor a display follows a pointer
\* that was not set, on any module whose memory is not flat.  On a flat one the
\* loader does: the run flat has the counterexample.
THEOREM NoPageMissing == Spec => [](~module.flat => NoMissingPage)
<1> DEFINE Inv == ~module.flat => LoadInv
<1>1. Init => Inv
  BY DEF Init, VdmInit, LoadInv, StagePlaces
<1>2. Inv /\ [Next]_vars => Inv'
  BY LoadStep, ModuleFixed
<1>3. Inv => (~module.flat => NoMissingPage)
  BY DEF LoadInv, NoMissingPage
<1> QED BY <1>1, <1>2, <1>3, PTL DEF Spec

-----------------------------------------------------------------------------
(***************************************************************************)
(* The samples of a display.  Those that were read while the freeze was in *)
(* force are the ones that are in the pages for as long as groups are      *)
(* read, because a freeze in force stops the monitors.                     *)
(***************************************************************************)

\* Where no samples have been read yet, or those of a display were dropped.
Unread == {"idle", "base", "ext", "quirk", "coherent", "vdm", "freeze.read", "freeze.write",
           "freeze.poll", "power.read", "power.write", "mask.read", "mask.write"}

SnapInv ==
  /\ op # "show" \/ pc \in Unread => \A g \in Groups : ~snap[g].held
  /\ pc = "groups" => op = "show" /\ \A g \in Groups :
                        snap[g].held => held /\ snap[g].sample = sample
  /\ \A g, h \in Groups : snap[g].held /\ snap[h].held => snap[g].sample = snap[h].sample

\* A step of a VDM command that comes to the groups comes from a place where none
\* was read, and none comes back to such a place with samples.
LEMMA VdmSnapPlaces ==
  ASSUME VdmCommand \/ VdmStep
  PROVE  /\ pc # "groups"
         /\ pc' = "groups" => op' = "show" /\ pc \in Unread
         /\ op' # "show" \/ pc' \in Unread => op # "show" \/ pc \in Unread
<1> USE DEF Unread
<1>1. CASE VdmCommand
  BY <1>1 DEF VdmCommand, Start
<1>2. CASE VdmStep
  <2>1. CASE ReadByte("freeze.read", Control, "freeze.write", "groups")
    BY <2>1 DEF ReadByte, Goto, Return, End
  <2>2. CASE WriteFreeze
    BY <2>2 DEF WriteFreeze, Written, Goto, Return, End
  <2>3. CASE PollFreeze
    BY <2>3 DEF PollFreeze, Poll, Return, End
  <2>4. CASE ReadByte("unfreeze.read", Control, "unfreeze.write", "flags")
    BY <2>4 DEF ReadByte, Goto, Return, End
  <2>5. CASE WriteUnfreeze
    BY <2>5 DEF WriteUnfreeze, Written, Goto, Return, End
  <2>6. CASE PollUnfreeze
    BY <2>6 DEF PollUnfreeze, Poll, Return, End
  <2>7. CASE ReadByte("power.read", Control, "power.write", "idle")
    BY <2>7 DEF ReadByte, Goto, Return, End
  <2>8. CASE WritePower
    BY <2>8 DEF WritePower, Return, End
  <2>9. CASE op = "mask" /\ ReadByte("mask.read", masks[arg.instance \div 2], "mask.write", "idle")
    BY <2>9 DEF ReadByte, Goto, Return, End
  <2>10. CASE WriteMask
    BY <2>10 DEF WriteMask, Return, End
  <2> QED BY <1>2, <2>1, <2>2, <2>3, <2>4, <2>5, <2>6, <2>7, <2>8, <2>9, <2>10 DEF VdmStep
<1> QED BY <1>1, <1>2

\* The samples of a group join those of the groups before it.
LEMMA LoadGroupSnap ==
  ASSUME TypeInv, SnapInv, LoadGroup
  PROVE  SnapInv'
<1>1. /\ pc = "groups" /\ op = "show" /\ group \in Groups
      /\ UNCHANGED <<op, held, sample>> /\ pc' \in {"groups", "unfreeze.read"}
  BY DEF LoadGroup, SnapInv, TypeInv, MapTypes, GotoStage, HostKeeps, monitor
<1>2. ASSUME NEW g \in Groups, snap'[g].held
      PROVE  held /\ snap'[g].sample = sample
  <2>1. CASE g = group
    BY <1>1, <1>2, <2>1 DEF LoadGroup, TypeInv, MapTypes
  <2>2. CASE g # group
    BY <1>1, <1>2, <2>2 DEF LoadGroup, TypeInv, MapTypes, SnapInv
  <2> QED BY <2>1, <2>2
<1> QED BY <1>1, <1>2 DEF SnapInv, Unread

\* Samples read under a freeze stay those in the pages until it is lifted.
LEMMA SnapStep ==
  ASSUME TypeInv, ControlInv, SnapInv, [Next]_vars
  PROVE  SnapInv'
<1> USE DEF SnapInv
<1>1. CASE (Monitor \/ VdmCommand \/ VdmStep) /\ UNCHANGED mapVars
  <2>1. CASE Monitor
    <3>1. held => UNCHANGED sample
      BY <2>1 DEF Monitor, Refresh, Freeze, Thaw, ControlInv
    <3> QED BY <1>1, <2>1, <3>1 DEF Monitor, mapVars
  <2>2. CASE VdmCommand \/ VdmStep
    BY <1>1, <2>2, VdmSnapPlaces DEF mapVars
  <2> QED BY <1>1, <2>1, <2>2
<1>2. CASE Show
  BY <1>2 DEF Show, Start, mapVars, Unread
<1>3. ASSUME Leave PROVE SnapInv'
  BY <1>3 DEF Leave, End, ClearMap, NoSample, Unread
<1>4. CASE LoadBase
  BY <1>3, <1>4 DEF LoadBase, GotoStage, Unread
<1>5. CASE LoadExt
  BY <1>5 DEF LoadExt, GotoStage, Unread
<1>6. CASE Quirk
  BY <1>6 DEF Quirk, GotoStage, Unread
<1>7. CASE LoadCoherent
  BY <1>7 DEF LoadCoherent, GotoStage, Unread
<1>8. CASE LoadVdm
  BY <1>8 DEF LoadVdm, GotoStage, Unread
<1>9. CASE LoadGroup
  BY <1>9, LoadGroupSnap
<1>10. CASE LoadFlags
  BY <1>10 DEF LoadFlags, GotoStage, Unread
<1>11. CASE Display
  BY <1>3, <1>11 DEF Display, GotoStage, mapVars, Unread
<1>12. CASE UNCHANGED vars
  BY <1>12 DEF vars, vdmVars, mapVars, monitor
<1> QED BY <1>1, <1>2, <1>4, <1>5, <1>6, <1>7, <1>8, <1>9, <1>10, <1>11, <1>12 DEF Next

\* On a module whose bit 6 is FreezeDone, the groups of samples that a display reads
\* under its freeze, or under one its user has left in force, are of one moment.
THEOREM SnapshotOfOneMoment == Bit6 = "FreezeDone" => (Spec => []SnapshotConsistent)
<1> SUFFICES ASSUME Bit6 = "FreezeDone" PROVE Spec => []SnapshotConsistent
  OBVIOUS
<1>1. Init => ControlInv /\ SnapInv
  <2> SUFFICES ASSUME Init PROVE ControlInv /\ SnapInv
    OBVIOUS
  <2>1. ControlInv
    BY DEF Init, VdmInit, ControlInv
  <2>2. pc = "idle" /\ \A g \in Groups : ~snap[g].held
    BY DEF Init, VdmInit, NoSample
  <2> QED BY <2>1, <2>2 DEF SnapInv, Unread
<1>2. TypeInv /\ ControlInv /\ SnapInv /\ [Next]_vars => (ControlInv /\ SnapInv)'
  BY ControlStep, SnapStep
<1>3. SnapInv => SnapshotConsistent
  BY DEF SnapInv, SnapshotConsistent
<1> QED BY <1>1, <1>2, <1>3, TypeInvariant, PTL DEF Spec
=============================================================================
