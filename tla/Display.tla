------------------------------ MODULE Display ------------------------------
(***************************************************************************)
(* The runs of the command line that read pages of a module and show them: *)
(* without an option, for whichever standard the identifier names          *)
(* (sffcmis.c, sfpid.c, qsfp.c, xfp.c, cmis-ext.c), and the counters of a  *)
(* test (cmis-diag.c).  What counts here is which failed read ends a       *)
(* display, what is open in the JSON document then, and that no pointer to *)
(* a page is followed that was not set.  The other pages of CMIS modules   *)
(* are those of module MemoryMap.                                          *)
(***************************************************************************)
EXTENDS CdbQuery

CONSTANTS
  Identifiers,  \* SFF-8024 identifiers of the modules in the cage
  FlatIds,      \* those of modules that may have no more than their first pages
  JsonUnread,   \* pages whose read may fail in a run with --json
  TextModes     \* options that are not combined with --json

\* "id" is the byte that eeprom_parse reads before any page.
Pages ==
  {"id", "A0h", "A2h", "xfp_lower", "xfp_01h", "lower", "00h", "01h", "02h", "03h", "11h"}

ASSUME DisplayAssumption ==
  /\ Identifiers \subseteq 0 .. 255 /\ Identifiers # {} /\ FlatIds \subseteq Identifiers
  /\ JsonUnread \subseteq Pages /\ TextModes \subseteq {"show", "bert_read"}

VARIABLES
  cage  \* the module: its identifier, and whether it has more than its first pages

DisplayInit ==
  /\ cage \in [id : Identifiers, more : BOOLEAN]
  /\ cage.more \/ cage.id \in FlatIds
  /\ mode # "show" => cage = [id |-> Min(Identifiers), more |-> TRUE]
  /\ mode \in TextModes => ~json

MayFail(page) == page \in IF json THEN JsonUnread ELSE Pages

\* What comes of reading the pages one by one up to the first that fails.
Reads(pages) ==
  {[map |-> ToSet(pages), ret |-> 0]} \cup
    {[map |-> ToSet(SubSeq(pages, 1, k - 1)), ret |-> -1] :
       k \in {i \in DOMAIN pages : MayFail(pages[i])}}

\* Pointers that were not set are null: following one ends the program.
Follow(outs, followed, map) == {IF followed \subseteq map THEN o ELSE Crash(o) : o \in outs}

BeginDocument == Play(new_json_obj(out, json), <<"item">>)

\* Every standard has a vendor name and the like to show before the end.
EndDocument(outs) ==
  {delete_json_obj(o) : o \in UNION {Play(o, <<text, "end">>) : o \in outs, text \in Texts}}

-----------------------------------------------------------------------------
\* sffcmis.c

Standards ==
  [sff8079 |-> {1, 2, 3}, sff8636 |-> {12, 13, 17},
   cmis |-> {24, 25, 27, 30, 31, 32}, xfp |-> {6, 8}]

\* An identifier of no standard is a warning, and a success.
eeprom_parse ==
  /\ Due("eeprom_parse")
  /\ \/ MayFail("id") /\ Leave({out}) /\ ret' = -1
     \/ /\ \/ \E standard \in DOMAIN Standards :
                cage.id \in Standards[standard] /\ todo' = <<standard>>
           \/ /\ \A standard \in DOMAIN Standards : cage.id \notin Standards[standard]
              /\ todo' = <<>>
        /\ UNCHANGED <<out, ret>>

-----------------------------------------------------------------------------
\* sfpid.c: the document is begun once the first page is there, and ended
\* whether or not the second one can be read.

sff8079_show_all_nl ==
  /\ Due("sff8079")
  /\ \E r \in Reads(<<"A0h">>), second \in IF cage.more THEN Reads(<<"A2h">>) ELSE {[ret |-> 0]} :
       /\ Leave(IF r.ret # 0 THEN {out} ELSE EndDocument(BeginDocument))
       /\ ret' = IF r.ret # 0 THEN r.ret ELSE second.ret

-----------------------------------------------------------------------------
\* xfp.c: both pages are read before the document is begun.

xfp_show_all_nl ==
  /\ Due("xfp")
  /\ \E r \in Reads(<<"xfp_lower", "xfp_01h">>) :
       /\ Leave(IF r.ret # 0 THEN {out}
                ELSE EndDocument(Follow(BeginDocument, {"xfp_lower", "xfp_01h"}, r.map)))
       /\ ret' = r.ret

-----------------------------------------------------------------------------
\* qsfp.c: the document is begun first, and left open when a page is not read.

\* Only the monitors look for page 03h, and they look at the pointer.
sff8636_show_all_common(map) == {"lower", "00h"} \cup (map \cap {"03h"})

\* A page 03h that should be there and cannot be read is no error.
sff8636_memory_map_init_pages ==
  LET base == Reads(<<"lower", "00h">>)
      paged == {r \in base : r.ret = 0 /\ cage.more} IN
  {r \in base : r \in paged => MayFail("03h")} \cup
    {[r EXCEPT !.map = @ \cup {"03h"}] : r \in paged}

sff8636_show_all_nl ==
  /\ Due("sff8636")
  /\ \E r \in sff8636_memory_map_init_pages :
       /\ Leave(IF r.ret # 0 THEN BeginDocument
                ELSE EndDocument(Follow(BeginDocument, sff8636_show_all_common(r.map), r.map)))
       /\ ret' = r.ret

-----------------------------------------------------------------------------
\* cmis-ext.c: as for QSFP.  A reserved bank code is an error like an unread page.
\* The bank count and the lanes are on page 01h, which a flat memory does not have.

cmis_show_all_nl ==
  /\ Due("cmis")
  /\ \E r \in Reads(IF cage.more THEN <<"lower", "00h", "01h", "02h", "11h">>
                    ELSE <<"lower", "00h">>) :
       /\ Leave(IF r.ret # 0 THEN BeginDocument
                ELSE EndDocument(Follow(BeginDocument, {"lower", "00h", "01h"}, r.map)))
       /\ ret' = r.ret

-----------------------------------------------------------------------------
\* cmis-diag.c: error rates, then errors and bits of host and media.  Each
\* section is behind a selector of its own; the first that cannot be selected
\* and read ends the display, and all but the first do so with success.

\* Rows of lanes.
Section == <<"array", "item", "fields", "end", "end_array">>

cmis_diag_bert_read ==
  /\ Due("cmis_diag_bert_read")
  /\ \E read \in 0 .. 3 :
       /\ Leave(Play(out, <<"object">> \o FlattenSeq([s \in 1 .. read |-> Section]) \o <<"end">>))
       /\ ret' = IF read = 0 THEN -1 ELSE 0

-----------------------------------------------------------------------------

DisplayNext ==
  /\ \/ eeprom_parse \/ sff8079_show_all_nl \/ xfp_show_all_nl
     \/ sff8636_show_all_nl \/ cmis_show_all_nl \/ cmis_diag_bert_read
  /\ UNCHANGED <<mode, json, rpl, top, cage>>
=============================================================================
