----------------------------- MODULE MemoryMap -----------------------------
(***************************************************************************)
(* cmis_show_all_nl: cmis_memory_map_init_pages of cmis.c reads the pages  *)
(* every module has, cmis_memory_map_init_pages_ext of cmis-ext.c those    *)
(* that page 01h advertises, with the VDM samples frozen while it reads    *)
(* them, and the displays then follow the pointers of the memory map.      *)
(*                                                                         *)
(* A page is a bank and a name.  Pages that the module does not change by  *)
(* itself are read in one action, with the subset of them whose read       *)
(* fails; the pages of a VDM group in one action per group, because the    *)
(* monitors run in between.  Between two displays the user of a module     *)
(* with VDM may give any of the commands of Vdm.                           *)
(***************************************************************************)
EXTENDS Vdm, Sequences, FiniteSets, FiniteSetsExt

CONSTANTS
  Modules,  \* kinds of modules: what their identification pages say
  NGroups   \* groups of VDM instances, 1 to 4

Features == {"tunable", "diag", "latency", "netpath", "coherent", "vdm"}

\* flat: the memory model; banks: the number of banks page 01h gives, 0 for a
\* reserved code; adver: the pages it advertises; dwdm: C or L band tunable laser;
\* ccmis: page 40h has a valid C-CMIS revision.
ASSUME MemoryMapAssumption ==
  /\ Modules \subseteq [flat : BOOLEAN, banks : {0, 1, 2, 4}, adver : SUBSET Features,
                        dwdm : BOOLEAN, ccmis : BOOLEAN]
  /\ NGroups \in 1 .. 4

VARIABLES
  module,  \* the module in the cage
  loaded,  \* the pages the memory map points to
  forced,  \* cmis_quirk_coherent_adver
  group,   \* the VDM group to read next
  snap     \* the samples read: per group, which ones, and whether frozen by the host

mapVars == <<module, loaded, forced, group, snap>>
vars == <<vdmVars, mapVars>>

Groups == 1 .. NGroups
NoSample == [readable |-> FALSE, sample |-> 0, held |-> FALSE]

Init ==
  /\ VdmInit
  /\ module \in Modules
  /\ loaded = {} /\ forced = FALSE
  /\ group = 1 /\ snap = [g \in Groups |-> NoSample]

-----------------------------------------------------------------------------
\* The pages of each stage.

Banked(names) == (0 .. module.banks - 1) \X names
Unbanked(names) == {0} \X names
When(feature, pages) == IF feature \in module.adver THEN pages ELSE {}

\* cmis_memory_map_init_pages
BasePages ==
  Unbanked({"lower", "00h"})
    \cup IF module.flat THEN {} ELSE Unbanked({"01h", "02h"}) \cup Banked({"11h"})

ExtPages ==
  Banked({"10h"})
    \cup When("tunable", Unbanked({"04h"}) \cup Banked({"12h"}))
    \cup When("diag", Unbanked({"13h", "14h"}))
    \cup When("latency", Banked({"15h"}))
    \cup When("netpath", Banked({"16h", "17h"}))

\* Page 40h may be there from the probe of cmis_quirk_check_coherent.
CoherentPages ==
  IF "coherent" \in module.adver \/ forced
  THEN Unbanked({"35h", "34h", "42h", "44h", "41h", "43h"})
         \cup (Unbanked({"40h"}) \ loaded)
         \cup Banked({"33h", "3Bh", "3Ah", "30h", "31h", "38h"})
  ELSE {}

Descriptors(g) == <<0, <<"20h", "21h", "22h", "23h">>[g]>>
Samples(g) == <<0, <<"24h", "25h", "26h", "27h">>[g]>>
Thresholds(g) == <<0, <<"28h", "29h", "2Ah", "2Bh">>[g]>>
VdmPages(g) == {Descriptors(g), Samples(g), Thresholds(g)}

-----------------------------------------------------------------------------
\* The stages.

ClearMap ==
  /\ loaded' = {} /\ forced' = FALSE
  /\ group' = 1 /\ snap' = [g \in Groups |-> NoSample]
  /\ UNCHANGED module

\* Entry, with an empty memory map.
Show ==
  /\ Start("show", 0, "base")
  /\ UNCHANGED mapVars

Fetch(pages) == loaded' = loaded \cup pages

\* Reads of pages any of which may fail and is then left out.
FetchAny(pages) ==
  \E n \in 0 .. MaxFailures - failures : \E bad \in kSubset(n, pages) :
    Fetch(pages \ bad) /\ failures' = failures + n

HostKeeps == UNCHANGED <<monitor, masks, byteRead, polls, ret, held, wanted>>

GotoStage(place) == pc' = place /\ UNCHANGED <<op, arg>> /\ HostKeeps

\* Return of cmis_show_all_nl: the memory map was its own.
Leave == End /\ HostKeeps /\ ClearMap

\* Mutant of LoadBase: a page that cannot be read is left out.
LoadBaseTolerant ==
  /\ pc = "base"
  /\ FetchAny(BasePages) /\ GotoStage("ext")
  /\ UNCHANGED <<module, forced, group, snap>>

\* cmis_memory_map_init_pages: any failure, and a bank code that is reserved, end
\* the command.
LoadBase ==
  /\ pc = "base"
  /\ \/ Fails /\ Leave
     \/ Succeeds /\ ~module.flat /\ module.banks = 0 /\ Leave
     \/ /\ Succeeds /\ (module.flat \/ module.banks # 0)
        /\ Fetch(BasePages) /\ GotoStage("ext")
        /\ UNCHANGED <<module, forced, group, snap>>

\* First part of cmis_memory_map_init_pages_ext.  cmis_num_banks_get follows the
\* pointer of page 01h.
LoadExt ==
  /\ pc = "ext"
  /\ IF <<0, "01h">> \in loaded
     THEN FetchAny(ExtPages) /\ GotoStage("quirk")
     ELSE GotoStage("crashed") /\ UNCHANGED <<failures, loaded>>
  /\ UNCHANGED <<module, forced, group, snap>>

\* cmis_quirk_check_coherent: a tunable module that does not advertise coherent
\* pages is asked for page 40h, which is kept if it looks valid.
Quirk ==
  /\ pc = "quirk" /\ GotoStage("coherent")
  /\ IF "coherent" \notin module.adver /\ module.dwdm
     THEN \/ Fails /\ UNCHANGED <<loaded, forced>>
          \/ Succeeds /\ ~module.ccmis /\ UNCHANGED <<loaded, forced>>
          \/ Succeeds /\ module.ccmis /\ Fetch(Unbanked({"40h"})) /\ forced' = TRUE
     ELSE UNCHANGED <<failures, loaded, forced>>
  /\ UNCHANGED <<module, group, snap>>

LoadCoherent ==
  /\ pc = "coherent"
  /\ FetchAny(CoherentPages) /\ GotoStage("vdm")
  /\ UNCHANGED <<module, forced, group, snap>>

\* Page 2Fh, without which the VDM pages are not read.
LoadVdm ==
  /\ pc = "vdm"
  /\ IF "vdm" \in module.adver
     THEN \/ Fails /\ GotoStage("display") /\ UNCHANGED <<loaded>>
          \/ Succeeds /\ GotoStage("freeze.read") /\ Fetch(Unbanked({"2Fh"}))
     ELSE GotoStage("display") /\ UNCHANGED <<failures, loaded>>
  /\ UNCHANGED <<module, forced, group, snap>>

\* Descriptor, sample and threshold page of a group.
LoadGroup ==
  /\ pc = "groups"
  /\ FetchAny(VdmPages(group))
  /\ snap' = [snap EXCEPT ![group] =
                [readable |-> Samples(group) \in loaded', sample |-> sample, held |-> held]]
  /\ IF group < NGroups
     THEN group' = group + 1 /\ GotoStage("groups")
     ELSE group' = group /\ GotoStage("unfreeze.read")
  /\ UNCHANGED <<module, forced>>

\* Flag and mask page, after the samples were released.
LoadFlags ==
  /\ pc = "flags"
  /\ FetchAny(Unbanked({"2Ch", "2Dh"})) /\ GotoStage("display")
  /\ UNCHANGED <<module, forced, group, snap>>

-----------------------------------------------------------------------------
\* The pages whose pointers the displays follow.  A display that looks whether a
\* page is there before it uses it follows only loaded ones.

Checked(pages) == pages \cap loaded
Has(name) == <<0, name>> \in loaded
ShownBanks == IF module.banks = 0 THEN {0} ELSE 0 .. module.banks - 1
BanksOf(names) == ShownBanks \X names

\* cmis_show_signals and the displays that need page 01h only
cmis_show_signals == IF Has("01h") THEN Unbanked({"01h"}) \cup Checked(BanksOf({"11h"})) ELSE {}
NeedsPage01 == Checked(Unbanked({"01h"}))

\* Monitors and thresholds: page 01h is used on the word of the memory model.
cmis_show_dom ==
  IF module.flat THEN {}
  ELSE Unbanked({"lower", "01h"}) \cup Checked(Unbanked({"02h"}) \cup BanksOf({"11h"}))

cmis_show_all_common ==
  Unbanked({"lower", "00h"}) \cup cmis_show_signals \cup NeedsPage01 \cup cmis_show_dom

\* cmis_show_tunable_caps uses page 01h when it has page 04h.
cmis_show_tunable_laser ==
  IF Has("01h") /\ "tunable" \in module.adver
  THEN Unbanked({"01h"}) \cup Checked(Unbanked({"04h"}) \cup BanksOf({"12h"}))
         \cup (IF Has("04h") THEN Unbanked({"01h"}) ELSE {})
  ELSE {}

cmis_show_datapath ==
  IF Has("01h") /\ Has("11h")
  THEN Unbanked({"01h", "lower"}) \cup Checked(BanksOf({"10h", "11h", "15h"}))
  ELSE {}

cmis_show_netpath ==
  IF Has("01h") /\ "netpath" \in module.adver /\ Has("16h")
  THEN Unbanked({"01h", "16h"})
         \cup UNION {Checked({<<b, "16h">>, <<b, "17h">>}) :
                       b \in {b \in ShownBanks : <<b, "16h">> \in loaded}}
  ELSE {}

cmis_show_diag ==
  IF Has("01h") /\ "diag" \in module.adver /\ Has("13h")
  THEN Unbanked({"01h", "13h"}) \cup Checked(Unbanked({"14h"}))
  ELSE {}

\* The advertisement is the bit of page 01h that the quirk may have set.
Coherent == Has("01h") /\ ("coherent" \in module.adver \/ forced)

cmis_show_coherent_pm ==
  IF Coherent
  THEN Checked(Unbanked({"01h", "40h", "35h", "34h", "3Ah", "41h", "43h"})
                 \cup BanksOf({"30h", "31h", "38h"}))
         \cup (IF Has("35h") THEN Checked(Unbanked({"42h"})) ELSE {})
  ELSE {}

cmis_show_coherent_flags ==
  IF Coherent THEN Checked(Unbanked({"01h", "44h"}) \cup BanksOf({"33h", "3Bh"})) ELSE {}

\* A group is shown when its descriptors and its samples are there.
cmis_show_vdm ==
  IF Has("01h") /\ "vdm" \in module.adver /\ Has("2Fh")
  THEN Unbanked({"01h", "2Fh"}) \cup Checked(Unbanked({"2Ch", "2Dh"}))
         \cup UNION {Checked(VdmPages(g)) :
                       g \in {g \in Groups : {Descriptors(g), Samples(g)} \subseteq loaded}}
  ELSE {}

Followed ==
  cmis_show_all_common \cup NeedsPage01 \cup cmis_show_tunable_laser \cup cmis_show_datapath
    \cup cmis_show_netpath \cup cmis_show_diag \cup cmis_show_coherent_pm
    \cup cmis_show_coherent_flags \cup cmis_show_vdm

Display ==
  /\ pc = "display"
  /\ UNCHANGED failures
  /\ IF Followed \subseteq loaded THEN Leave ELSE GotoStage("crashed") /\ UNCHANGED mapVars

-----------------------------------------------------------------------------

Next ==
  \/ "vdm" \in module.adver /\ (Monitor \/ VdmCommand \/ VdmStep) /\ UNCHANGED mapVars
  \/ Show
  \/ LoadBase \/ LoadExt \/ Quirk \/ LoadCoherent \/ LoadVdm \/ LoadGroup \/ LoadFlags
  \/ Display

Spec == Init /\ [][Next]_vars

Pages ==
  ((0 .. 3) \X {"lower", "00h", "01h", "02h", "04h", "10h", "11h", "12h", "13h", "14h", "15h",
               "16h", "17h", "2Ch", "2Dh", "2Fh", "30h", "31h", "33h", "34h", "35h", "38h",
               "3Ah", "3Bh", "40h", "41h", "42h", "43h", "44h"})
    \cup UNION {VdmPages(g) : g \in Groups}

Places == {"idle", "crashed", "base", "ext", "quirk", "coherent", "vdm", "groups", "flags",
           "display", "freeze.read", "freeze.write", "freeze.poll", "unfreeze.read",
           "unfreeze.write", "unfreeze.poll", "power.read", "power.write", "mask.read",
           "mask.write"}

\* Type invariant of the loader, the display and the VDM commands.
TypeOK ==
  /\ {request, saving, frozen, thawed, held, forced} \subseteq BOOLEAN
  /\ sample \in 0 .. NSamples - 1
  /\ masks \in [Bytes -> [Halves -> Nibbles]]
  /\ pc \in Places /\ op \in {"none", "freeze", "unfreeze", "power", "mask", "show"}
  /\ polls \in 0 .. MaxPolls - 1 /\ failures \in 0 .. MaxFailures
  /\ ret \in {"none", "ok", "timeout", "failed"}
  /\ wanted \in [Instances -> Nibbles \cup {Unknown}]
  /\ module \in Modules
  /\ loaded \subseteq Pages
  /\ group \in Groups
  /\ snap \in [Groups -> [readable : BOOLEAN, sample : 0 .. NSamples - 1, held : BOOLEAN]]

\* Whatever pages could not be read, neither the loader nor a display follows the
\* pointer of a page that is not there: the checks of the displays match what the
\* loader lets pass.
NoMissingPage == pc # "crashed"

\* The samples a display shows of all groups are of one moment, unless the freeze
\* did not succeed.
SnapshotConsistent ==
  pc = "display" =>
    \A g, h \in Groups :
      snap[g].readable /\ snap[h].readable /\ snap[g].held /\ snap[h].held
        => snap[g].sample = snap[h].sample

\* Samples that a user has frozen stay so until an unfreeze, whatever commands and
\* displays come in between.
HeldIsFrozen == held => frozen

\* When a freeze returns 0 the samples are frozen, and when it times out they were
\* not at its last poll; an unfreeze that returns 0 has released them.
AnswersTrue ==
  [][/\ pc = "freeze.poll" /\ pc' # pc =>
          (ret' = "ok" => frozen) /\ (ret' = "timeout" => ~frozen)
     /\ pc = "unfreeze.poll" /\ pc' # pc /\ ret' = "ok" => ~frozen]_vars

\* The mask an instance was given stays until it is given another, whatever is
\* done to the instance that shares its byte.
MaskHeld ==
  \A i \in Instances : wanted[i] # Unknown => masks[i \div 2][MaskPlace(i)] = wanted[i]
=============================================================================
