------------------------------- MODULE CdbPm --------------------------------
(***************************************************************************)
(* Performance monitoring over CDB, cmis-cdb.c: the features, and the      *)
(* walks over the records of the module, its host lanes, its media lanes   *)
(* and its data paths.  A record carries no label: the walk tells a lane   *)
(* and an observable by the place of the record in the reply.              *)
(*                                                                         *)
(* External: a module puts, for lane after lane, one record for each       *)
(* observable that it was asked for and supports.                          *)
(***************************************************************************)
EXTENDS CdbQuery

CONSTANTS HostBits, MediaBits   \* feature bytes of modules

ASSUME PmAssumption == HostBits \subseteq 0 .. 255 /\ MediaBits \subseteq 0 .. 255

VARIABLES
  feat,    \* host_feat and media_feat, and whether the module gave them
  walk,    \* off, lane and rec_size of the current walk, rec_size 0 outside
  shown,   \* the records the last pass has shown: <<lane, observable, offset>>
  mod      \* external: host and media observables, record type byte

pm == <<feat, walk, shown, mod>>

\* A reply of the longest length has room for 42 records; a lane counter beyond
\* starts over.
MaxLane == 43

NoWalk == [off |-> 0, lane |-> 0, size |-> 0]
NoFeatures == [host |-> 0, media |-> 0, got |-> FALSE]

PmInit ==
  /\ feat = NoFeatures /\ walk = NoWalk /\ shown = {}
  /\ mod \in [host : HostBits, media : MediaBits, current : {0, 1}]
  /\ mode # "pm" => mod = [host |-> 0, media |-> 0, current |-> 0]

\* An observable whose bit is set in a feature byte has a record.
IfSet(value, bit, name) == IF Bit(value, bit) THEN <<<<bit, name>>>> ELSE <<>>

HostObservables(value) ==
  IfSet(value, 1, "SNR") \o IfSet(value, 2, "PAM4 LTP") \o IfSet(value, 4, "Pre-FEC BER")

\* The second byte of the request asks for the last four, always.
MediaObservables(value) ==
  IfSet(value, 1, "SNR") \o IfSet(value, 2, "LTP")
    \o <<<<16, "Tx Bias">>, <<32, "Tx Power">>, <<64, "Rx Power">>, <<128, "Laser Temp">>>>

ModuleObservables == <<<<1, "Temperature">>, <<2, "Vcc">>>>
DpObservables == <<<<1, "FERC">>, <<2, "Pre-FEC BER">>>>

\* The records of a show as the walk takes them, and as the module lays them out.
Asked(kind) ==
  CASE kind = "module_pm" -> ModuleObservables
    [] kind = "host_pm" -> HostObservables(feat.host)
    [] kind = "media_pm" -> MediaObservables(feat.media)
    [] kind = "dp_pm" -> DpObservables

Supported(kind) ==
  CASE kind = "host_pm" -> HostObservables(mod.host)
    [] kind = "media_pm" -> MediaObservables(mod.media)
    [] OTHER -> Asked(kind)

\* Mutant: every record is taken to carry the current value.
RecSizeFixed(type) == 8

RecSize(type) == IF Bit(type, 1) THEN 8 ELSE 6

\* External: where the module has put the record of a lane's k-th observable.
Place(kind, lane, k) ==
  1 + ((lane - 1) * Len(Supported(kind)) + k - 1) * (IF mod.current = 1 THEN 8 ELSE 6)

-----------------------------------------------------------------------------

cdb_show_pm_features ==
  /\ Due("pm_features")
  /\ \/ Leave({out}) /\ rpl' = NoReply /\ top' = -1 /\ UNCHANGED feat
     \/ Leave(Play(out, <<"object", "fields", "end">>))
          /\ rpl' = NoReply /\ top' = -1 /\ UNCHANGED feat
     \/ \E r \in Replies :
          /\ rpl' = r
          /\ \/ r.len < 2 /\ Leave({out}) /\ top' = -1 /\ UNCHANGED feat
             \/ /\ r.len >= 2
                /\ \E h \in Byte(r, mod.host), m \in Byte(r, mod.media) :
                     feat' = [host |-> h, media |-> m, got |-> r.got]
                /\ top' = 1
                /\ Leave(Play(out, <<"object", "fields", "end">>))
  /\ UNCHANGED <<mode, json, ret, walk, shown, mod>>

\* The head of cdb_show_module_pm, cdb_show_host_pm, cdb_show_media_pm and
\* cdb_show_dp_pm up to the first record.
BeginWalk(kind, shortest, told) ==
  /\ Due(kind) /\ walk = NoWalk
  /\ Ask(<<"object">>, <<"end">>, walk' = NoWalk, LAMBDA r :
       \/ r.len < shortest /\ Leave(Play(out, <<"object", "end">>))
            /\ top' = -1 /\ walk' = NoWalk
       \/ /\ r.len >= shortest
          /\ \E type \in Byte(r, mod.current) :
               walk' = [off |-> 1, lane |-> 1, size |-> RecSize(type)]
          /\ out' \in Play(out, <<"object">> \o told \o <<"array">>)
          /\ top' = 0 /\ UNCHANGED todo)
  /\ shown' = {}
  /\ UNCHANGED <<mode, json, ret, feat, mod>>

\* Mutant: the end of the reply is looked for between lanes only.
HeldUnbounded(kind) == Len(Asked(kind))

\* How many of a lane's records the reply still holds.
Held(kind) ==
  Min({Len(Asked(kind)), (rpl.len - walk.off) \div walk.size})

\* Mutant: a pass that the end of the reply cuts short does not move on.
PassStuck(kind) ==
  LET n == Held(kind) IN
  /\ shown' = {<<walk.lane, Asked(kind)[k][2], walk.off + (k - 1) * walk.size>> : k \in 1 .. n}
  /\ top' = walk.off + n * walk.size - 1
  /\ walk' = IF n < Len(Asked(kind)) THEN walk
             ELSE [walk EXCEPT !.off = @ + n * walk.size, !.lane = (@ % MaxLane) + 1]
  /\ out' \in Play(out, IF n > 0 THEN <<"item", "fields", "end">> ELSE <<>>)

\* The records of one lane are shown, and the walk goes on with the next lane.
Pass(kind) ==
  LET n == Held(kind) IN
  /\ shown' = {<<walk.lane, Asked(kind)[k][2], walk.off + (k - 1) * walk.size>> : k \in 1 .. n}
  /\ top' = walk.off + n * walk.size - 1
  /\ walk' = [walk EXCEPT !.off = @ + n * walk.size, !.lane = (@ % MaxLane) + 1]
  /\ out' \in Play(out, IF n > 0 THEN <<"item", "fields", "end">> ELSE <<>>)

\* Mutant: the object around the records is not closed.
EndWalkLeftOpen ==
  /\ Leave(Play(out, <<"end_array">>))
  /\ walk' = NoWalk /\ shown' = {} /\ UNCHANGED top

EndWalk ==
  /\ Leave(Play(out, <<"end_array", "end">>))
  /\ walk' = NoWalk /\ shown' = {} /\ UNCHANGED top

InWalk(kind) == Due(kind) /\ walk # NoWalk

\* The loop "while (off + rec_size <= rpl_len)".
Loop(kind) ==
  /\ InWalk(kind)
  /\ IF walk.off + walk.size <= rpl.len THEN Pass(kind) /\ UNCHANGED todo ELSE EndWalk
  /\ UNCHANGED <<mode, json, ret, rpl, feat, mod>>

\* Temperature and Vcc of the module: no loop.
cdb_show_module_pm ==
  \/ BeginWalk("module_pm", 1, <<"fields">>)
  \/ /\ InWalk("module_pm")
     /\ IF walk.lane = 1 THEN Pass("module_pm") /\ UNCHANGED todo ELSE EndWalk
     /\ UNCHANGED <<mode, json, ret, rpl, feat, mod>>

\* Not called when no host feature is advertised.
cdb_show_host_pm ==
  \/ /\ Due("host_pm") /\ feat.host = 0 /\ walk = NoWalk
     /\ Leave({out})
     /\ UNCHANGED <<mode, json, ret, rpl, top, pm>>
  \/ feat.host # 0 /\ BeginWalk("host_pm", 2, <<>>)
  \/ Loop("host_pm")

cdb_show_media_pm == BeginWalk("media_pm", 2, <<>>) \/ Loop("media_pm")

cdb_show_dp_pm == BeginWalk("dp_pm", 2, <<>>) \/ Loop("dp_pm")

\* cmis_cdb_show_pm up to its first query: page 01h, CDB instances.
cmis_cdb_show_pm ==
  /\ Due("show_pm")
  /\ \/ ret' = -1 /\ todo' = <<>> /\ out' = out
     \/ ret' = 0 /\ todo' = <<>> /\ out' = out
     \/ /\ out' \in Play(out, <<"object">>) /\ ret' = ret
        /\ todo' = <<"pm_features", "module_pm", "host_pm", "media_pm", "dp_pm", "close">>
  /\ UNCHANGED <<mode, json, rpl, top, pm>>

PmNext ==
  \/ cmis_cdb_show_pm
  \/ cdb_show_pm_features \/ cdb_show_module_pm
  \/ cdb_show_host_pm \/ cdb_show_media_pm \/ cdb_show_dp_pm
=============================================================================
