-------------------------------- MODULE Vdm --------------------------------
(***************************************************************************)
(* cmis-vdm.c: cmis_vdm_freeze, cmis_vdm_unfreeze,                         *)
(* cmis_vdm_set_power_saving and cmis_vdm_set_mask, commands of their own  *)
(* and, the first two, steps of the display that MemoryMap models.         *)
(*                                                                         *)
(* The control byte 90h of page 2Fh holds FreezeRequest in bit 7.  The     *)
(* header gives bit 6 of it to FreezeDone and to PowerSavingMode; a module *)
(* has one of them there, and the constant Bit6 says which.  The monitors  *)
(* of the module are external: they refresh the samples unless they are    *)
(* frozen or off, and follow FreezeRequest in their own time.              *)
(*                                                                         *)
(* One action of the host is one transfer.  At most MaxFailures transfers  *)
(* of a command fail; a write that fails may have reached the module.      *)
(***************************************************************************)
EXTENDS Naturals

CONSTANTS
  Bit6,         \* "FreezeDone" or "PowerSavingMode"
  MaxPolls,     \* VDM_FREEZE_POLL_RETRIES, 10
  MaxFailures,  \* bound on the transfers of a command that fail
  NSamples,     \* samples a monitor goes through, cyclically
  NInstances,   \* VDM instances, 256
  Nibbles,      \* masks of an instance
  Unknown       \* a mask whose write failed

Instances == 0 .. NInstances - 1
Bytes == {i \div 2 : i \in Instances}
Halves == {"low", "high"}

ASSUME VdmAssumption ==
  /\ Bit6 \in {"FreezeDone", "PowerSavingMode"}
  /\ MaxPolls \in Nat \ {0} /\ MaxFailures \in Nat
  /\ NSamples \in Nat \ {0} /\ NInstances \in Nat \ {0}
  /\ 0 \in Nibbles /\ Unknown \notin Nibbles

VARIABLES
  request,   \* FreezeRequest, bit 7 of 2Fh:90h
  saving,    \* PowerSavingMode, where the module has it
  frozen,    \* external: the samples are frozen
  thawed,    \* UnfreezeDone, bit 7 of 2Fh:91h
  sample,    \* external: the samples in the sample pages
  masks,     \* page 2Dh: the two nibbles of each byte
  pc,        \* the host's place in a command, "idle" outside
  op, arg,   \* the command and its argument
  byteRead,  \* the byte it has read and will write changed
  polls,     \* polls made in the current wait
  failures,  \* transfers of the command that failed
  ret,       \* result of the last function of this file that returned
  held,      \* history: a freeze returned 0 and no unfreeze was written since
  wanted     \* history: the mask each instance was given last

monitor == <<request, saving, frozen, thawed, sample>>
vdmVars == <<monitor, masks, pc, op, arg, byteRead, polls, failures, ret, held, wanted>>

-----------------------------------------------------------------------------
\* The module.

\* 2Fh:90h as it reads.
Control == [bit7 |-> request,
            bit6 |-> IF Bit6 = "FreezeDone" THEN frozen ELSE saving]

\* Effect of a write of 2Fh:90h; FreezeDone is read only.
TakeControl(b) ==
  /\ request' = b.bit7
  /\ saving' = IF Bit6 = "PowerSavingMode" THEN b.bit6 ELSE saving

Refresh ==
  /\ ~frozen /\ ~saving
  /\ sample' = (sample + 1) % NSamples
  /\ UNCHANGED <<request, saving, frozen, thawed>>

Freeze ==
  /\ request /\ ~frozen
  /\ frozen' = TRUE /\ thawed' = FALSE
  /\ UNCHANGED <<request, saving, sample>>

Thaw ==
  /\ ~request /\ frozen
  /\ frozen' = FALSE /\ thawed' = TRUE
  /\ UNCHANGED <<request, saving, sample>>

Monitor ==
  /\ Refresh \/ Freeze \/ Thaw
  /\ UNCHANGED <<masks, pc, op, arg, byteRead, polls, failures, ret, held, wanted>>

-----------------------------------------------------------------------------
\* The host.

NoByte == [bit7 |-> FALSE, bit6 |-> FALSE]

VdmInit ==
  /\ request = FALSE /\ saving = FALSE /\ frozen = FALSE /\ thawed \in BOOLEAN
  /\ sample = 0
  /\ masks = [b \in Bytes |-> [h \in Halves |-> 0]]
  /\ pc = "idle" /\ op = "none" /\ arg = 0
  /\ byteRead = NoByte /\ polls = 0 /\ failures = 0 /\ ret = "none"
  /\ held = FALSE /\ wanted = [i \in Instances |-> 0]

Succeeds == UNCHANGED failures

Fails == failures < MaxFailures /\ failures' = failures + 1

\* Entry of a command.
Start(o, a, place) ==
  /\ pc = "idle"
  /\ op' = o /\ arg' = a /\ pc' = place
  /\ failures' = 0 /\ ret' = "none"
  /\ UNCHANGED <<monitor, masks, byteRead, polls, held, wanted>>

\* End of a command.
End == pc' = "idle" /\ op' = "none" /\ arg' = 0

\* Return of a function; the display ignores the result and goes on.
Return(value, next) ==
  /\ ret' = value /\ polls' = 0 /\ byteRead' = NoByte
  /\ IF op = "show" THEN pc' = next /\ UNCHANGED <<op, arg>> ELSE End

Goto(place) == pc' = place /\ UNCHANGED <<polls, ret, op, arg>>

\* The byte read was changed and written.
Written(place) == Goto(place) /\ byteRead' = NoByte

\* Read of 2Fh:90h, and of the mask byte of the instance, before their change.
ReadByte(place, value, write, next) ==
  /\ pc = place
  /\ \/ Succeeds /\ byteRead' = value /\ Goto(write)
     \/ Fails /\ Return("failed", next)
  /\ UNCHANGED <<monitor, masks, held, wanted>>

\* cmis_vdm_freeze
WriteFreeze ==
  /\ pc = "freeze.write"
  /\ \/ Succeeds /\ Written("freeze.poll") /\ TakeControl([byteRead EXCEPT !.bit7 = TRUE])
     \/ /\ Fails /\ Return("failed", "groups")
        /\ TakeControl([byteRead EXCEPT !.bit7 = TRUE]) \/ UNCHANGED <<request, saving>>
  /\ UNCHANGED <<frozen, thawed, sample, masks, held, wanted>>

\* Mutant of Poll: one poll too many.
PollOneMore(done, next) ==
  \/ Succeeds /\ done /\ Return("ok", next)
  \/ Succeeds /\ ~done /\ polls < MaxPolls /\ polls' = polls + 1 /\ UNCHANGED <<pc, ret, op, arg, byteRead>>
  \/ Succeeds /\ ~done /\ polls >= MaxPolls /\ Return("timeout", next)
  \/ Fails /\ Return("failed", next)

\* One poll for a bit; the wait gives up after MaxPolls of them.
Poll(done, next) ==
  \/ Succeeds /\ done /\ Return("ok", next)
  \/ Succeeds /\ ~done /\ polls + 1 < MaxPolls /\ polls' = polls + 1 /\ UNCHANGED <<pc, ret, op, arg, byteRead>>
  \/ Succeeds /\ ~done /\ polls + 1 >= MaxPolls /\ Return("timeout", next)
  \/ Fails /\ Return("failed", next)

\* Mutant of PollFreeze: the request bit is taken for the answer.
PollFreezeRequest ==
  /\ pc = "freeze.poll"
  /\ Poll(Control.bit7, "groups")
  /\ held' = (held \/ (pc' # pc /\ ret' = "ok"))
  /\ UNCHANGED <<monitor, masks, wanted>>

PollFreeze ==
  /\ pc = "freeze.poll"
  /\ Poll(Control.bit6, "groups")
  /\ held' = (held \/ (pc' # pc /\ ret' = "ok"))
  /\ UNCHANGED <<monitor, masks, wanted>>

\* cmis_vdm_unfreeze
WriteUnfreeze ==
  /\ pc = "unfreeze.write"
  /\ \/ /\ Succeeds /\ Written("unfreeze.poll")
        /\ TakeControl([byteRead EXCEPT !.bit7 = FALSE]) /\ held' = FALSE
     \/ /\ Fails /\ Return("failed", "flags")
        /\ \/ TakeControl([byteRead EXCEPT !.bit7 = FALSE]) /\ held' = FALSE
           \/ UNCHANGED <<request, saving, held>>
  /\ UNCHANGED <<frozen, thawed, sample, masks, wanted>>

\* Mutant of PollUnfreeze: the control byte is polled, for its request bit to clear.
PollUnfreezeRequest ==
  /\ pc = "unfreeze.poll"
  /\ Poll(~Control.bit7, "flags")
  /\ UNCHANGED <<monitor, masks, held, wanted>>

PollUnfreeze ==
  /\ pc = "unfreeze.poll"
  /\ Poll(thawed, "flags")
  /\ UNCHANGED <<monitor, masks, held, wanted>>

\* Mutant of WritePower: the byte is written without the bits it had.
WritePowerOnly ==
  /\ pc = "power.write"
  /\ \/ Succeeds /\ Return("ok", "idle") /\ TakeControl([bit7 |-> FALSE, bit6 |-> arg])
     \/ Fails /\ Return("failed", "idle") /\ UNCHANGED <<request, saving>>
  /\ UNCHANGED <<frozen, thawed, sample, masks, held, wanted>>

\* cmis_vdm_set_power_saving
WritePower ==
  /\ pc = "power.write"
  /\ \/ Succeeds /\ Return("ok", "idle") /\ TakeControl([byteRead EXCEPT !.bit6 = arg])
     \/ /\ Fails /\ Return("failed", "idle")
        /\ TakeControl([byteRead EXCEPT !.bit6 = arg]) \/ UNCHANGED <<request, saving>>
  /\ UNCHANGED <<frozen, thawed, sample, masks, held, wanted>>

\* The nibble of an instance, as cmis_vdm_set_mask places it.
MaskPlace(i) == IF i % 2 = 1 THEN "high" ELSE "low"

\* Mutant of WriteMask: the other nibble of the byte is cleared.
WriteMaskAlone ==
  /\ pc = "mask.write"
  /\ \/ Succeeds /\ Return("ok", "idle")
     \/ Fails /\ Return("failed", "idle")
  /\ masks' = [masks EXCEPT ![arg.instance \div 2] =
                [[h \in Halves |-> 0] EXCEPT ![MaskPlace(arg.instance)] = arg.nibble]]
  /\ wanted' = [wanted EXCEPT ![arg.instance] = IF ret' = "ok" THEN arg.nibble ELSE Unknown]
  /\ UNCHANGED <<monitor, held>>

\* cmis_vdm_set_mask
WriteMask ==
  /\ pc = "mask.write"
  /\ LET written == [masks EXCEPT ![arg.instance \div 2] =
                       [byteRead EXCEPT ![MaskPlace(arg.instance)] = arg.nibble]]
     IN \/ Succeeds /\ Return("ok", "idle") /\ masks' = written
        \/ Fails /\ Return("failed", "idle") /\ masks' \in {masks, written}
  /\ wanted' = [wanted EXCEPT ![arg.instance] = IF ret' = "ok" THEN arg.nibble ELSE Unknown]
  /\ UNCHANGED <<monitor, held>>

VdmCommand ==
  \/ Start("freeze", 0, "freeze.read")
  \/ Start("unfreeze", 0, "unfreeze.read")
  \/ \E save \in BOOLEAN : Start("power", save, "power.read")
  \/ \E i \in Instances, n \in Nibbles :
       Start("mask", [instance |-> i, nibble |-> n], "mask.read")

VdmStep ==
  \/ ReadByte("freeze.read", Control, "freeze.write", "groups")
  \/ WriteFreeze
  \/ PollFreeze
  \/ ReadByte("unfreeze.read", Control, "unfreeze.write", "flags")
  \/ WriteUnfreeze
  \/ PollUnfreeze
  \/ ReadByte("power.read", Control, "power.write", "idle")
  \/ WritePower
  \/ op = "mask" /\ ReadByte("mask.read", masks[arg.instance \div 2], "mask.write", "idle")
  \/ WriteMask
=============================================================================
