---------------------------- MODULE CdbFeatures -----------------------------
(***************************************************************************)
(* Feature discovery over CDB, cmis-cdb.c: cmis_cdb_show_features and the  *)
(* seven queries it runs.  A field is shown when the reply is long enough; *)
(* it is given here by the length it asks for and the last byte it uses.   *)
(* The answers of a show to a reply are what it may write and decode: they *)
(* depend on the bits of the reply, which the module chooses.              *)
(***************************************************************************)
EXTENDS CdbQuery

Answer(events, fields) == [events |-> events, fields |-> fields]

\* A list of supported commands: no bit is set, or some are.
CommandLists == {<<"array">> \o items \o <<"end_array">> :
                   items \in {<<>>, <<"item", "fields", "end">>}}

cmis_cdb_show_module_features(r) ==
  IF r.len < 34 THEN {Answer(<<>>, {Dump(r)})}
  ELSE {Answer(list \o <<"fields">>, {Field(34, 33), Field(36, 35)}) : list \in CommandLists}

\* Five maximal durations at the end of the reply.
FwMgmtDurations == {16, 18, 20, 22, 24}

\* Flags, sizes, extension, mechanisms, restart, and the durations.
cmis_cdb_show_fw_mgmt_features(r) ==
  {Answer(<<>>, {Field(need, need - 1) : need \in {2, 3, 4, 6, 8, 11, 12, 13, 14} \cup FwMgmtDurations}
                \cup {Dump(r)})}

\* fw_info_json_image, and the same tests of the text output: the version and
\* the extra string of an image, which is text of the module.
fw_info_json_image(verOff, extraOff) ==
  {Field(verOff + 4, verOff + 3), Field(extraOff + 32, extraOff + 31)}

FwImages == {fw_info_json_image(2, 6), fw_info_json_image(38, 42), fw_info_json_image(74, 78)}

cmis_cdb_show_fw_info(r) ==
  IF r.len < 2 THEN {Answer(<<>>, {})}
  ELSE {Answer(IF present = {} THEN <<>> ELSE <<"object", extra, "end">>,
               {Field(2, 1), Dump(r)} \cup UNION present) :
          present \in SUBSET FwImages, extra \in {"fields"} \cup Texts}

cmis_cdb_show_generic_features(r) ==
  {Answer(IF r.len > 0 THEN <<"array", "values", "end_array">> ELSE <<>>,
          {Field(0, r.len - 1)})}

cmis_cdb_show_bert_features(r) ==
  {Answer(list \o <<"fields">>, {Field(32, 31), Dump(r)}) :
     list \in IF r.len >= 32 THEN CommandLists ELSE {<<>>}}

\* At most four certificate lengths, as many as there are certificates (nc).
CertificateLengths(nc) == {Field(38 + 2 * j, 37 + 2 * j) : j \in 0 .. nc - 1}

cmis_cdb_show_security_features(r) ==
  LET lists == IF r.len >= 1 THEN CommandLists ELSE {<<>>}
      lengths(nc) == CASE r.len < 38 -> <<>>
                       [] r.len >= 38 /\ nc = 0 -> <<"array", "end_array">>
                       [] OTHER -> <<"array", "values", "end_array">>
      bitmap == Field(1, Min({31, r.len - 1}))
      counts == {Field(33, 32), Field(34, 33), Field(35, 34)}
  IN {Answer(list \o <<"fields">> \o lengths(nc),
             counts \cup {bitmap, Dump(r)} \cup CertificateLengths(nc)) :
        list \in lists, nc \in 0 .. 4}

-----------------------------------------------------------------------------

\* A query and its show: the status is told once the reply is there.
Show(key, Answers(_)) ==
  /\ Due(key)
  /\ Ask(<<"object">>, <<"end">>, TRUE, LAMBDA r :
       \E a \in Answers(r) :
         /\ Leave(Play(out, <<"object", "fields">> \o a.events \o <<"end">>))
         /\ top' = LastUsed(r, a.fields))
  /\ UNCHANGED <<mode, json, ret>>

cmis_cdb_show_features ==
  /\ Due("show_features")
  /\ out' \in Play(out, <<"object">>)
  /\ todo' = <<"module", "fw_mgmt", "fw_info", "pm", "bert", "security", "ext", "close">>
  /\ UNCHANGED <<mode, json, ret, rpl, top>>

\* cmis_cdb_fw_run, cmis_cdb_fw_commit and cmis_cdb_fw_copy: one command; text
\* output then shows the images, which leaves their answer as it is.
cmis_cdb_fw_command ==
  /\ Due("fw_command")
  /\ \/ ret' = -1 /\ todo' = <<>>
     \/ ret' = 0 /\ todo' = IF json THEN <<>> ELSE <<"fw_info">>
  /\ UNCHANGED <<mode, json, out, rpl, top>>

FeaturesNext ==
  \/ cmis_cdb_fw_command
  \/ cmis_cdb_show_features
  \/ Show("module", cmis_cdb_show_module_features)
  \/ Show("fw_mgmt", cmis_cdb_show_fw_mgmt_features)
  \/ Show("fw_info", cmis_cdb_show_fw_info)
  \/ Show("pm", cmis_cdb_show_generic_features)
  \/ Show("bert", cmis_cdb_show_bert_features)
  \/ Show("security", cmis_cdb_show_security_features)
  \/ Show("ext", cmis_cdb_show_generic_features)
=============================================================================
