----------------------------- MODULE CdbQueries -----------------------------
(***************************************************************************)
(* One run of the command line that shows something of the module, its     *)
(* pages or what it answers to queries over CDB, from the JSON output it   *)
(* begins to the one it leaves.                                            *)
(***************************************************************************)
EXTENDS CdbPm, CdbFeatures, CdbSecurity, Display

Modes == {"pm", "cdb", "cert", "cert_file", "auth", "fw", "show", "bert_read"}

vars == <<query, pm, security, cage>>

\* main: the plain object is put off until something is written.  Some displays
\* get an array instead, and most of these an object in it.
Begun(m, js) ==
  LET plain == new_json_obj_plain(NoOutput, js) IN
  CASE m \in {"pm", "cdb"} -> Play(new_json_obj(plain, js), <<"item">>)
    [] m = "bert_read" -> {new_json_obj(plain, js)}
    [] OTHER -> {plain}

First == [pm |-> <<"show_pm">>, cdb |-> <<"show_features">>, cert |-> <<"certificates">>,
          cert_file |-> <<"cert_file">>, fw |-> <<"fw_command">>, auth |-> <<"set_digest", "get_signature">>,
          show |-> <<"eeprom_parse">>, bert_read |-> <<"cmis_diag_bert_read">>]

Init ==
  /\ mode \in Modes /\ json \in BOOLEAN
  /\ todo = First[mode] /\ out \in Begun(mode, json)
  /\ rpl = NoReply /\ top = -1 /\ ret = 0
  /\ PmInit /\ SecurityInit /\ DisplayInit

\* The end of cmis_cdb_show_pm and cmis_cdb_show_features.
CloseShow ==
  /\ Due("close")
  /\ Leave(Play(out, <<"end">>))
  /\ rpl' = NoReply /\ top' = -1
  /\ UNCHANGED <<mode, json, ret, pm, security, cage>>

\* The end of main, and delete_json_obj again at the exit of a JSON run.
Exit ==
  /\ mode # "exit" /\ todo = <<>>
  /\ mode' = "exit"
  /\ \E o \in IF mode \in {"pm", "cdb"} THEN Play(out, <<"end">>) ELSE {out} :
       out' = delete_json_obj(IF mode \in {"pm", "cdb", "bert_read"} THEN delete_json_obj(o) ELSE o)
  /\ UNCHANGED <<json, todo, ret, rpl, top, pm, security, cage>>

Next ==
  \/ PmNext /\ UNCHANGED <<security, cage>>
  \/ FeaturesNext /\ UNCHANGED <<pm, security, cage>>
  \/ SecurityNext /\ UNCHANGED <<pm, cage>>
  \/ DisplayNext /\ UNCHANGED <<pm, security>>
  \/ CloseShow \/ Exit

Spec == Init /\ [][Next]_vars /\ WF_vars(Next)

-----------------------------------------------------------------------------

TypeOK ==
  /\ mode \in Modes \cup {"exit"} /\ json \in BOOLEAN /\ ret \in {-1, 0}
  /\ rpl \in [len : 0 .. RplMax, got : BOOLEAN] /\ top \in -1 .. RplMax - 1
  /\ walk.size \in {0, 6, 8} /\ walk.off \in 0 .. RplMax + 1
  /\ certs \in -1 .. 4 /\ index \in 0 .. 3 /\ total <= BufSize

\* No show uses a byte past the length it was told, however short the reply, however
\* many records it holds and whichever features were read before.
WithinReply == top < rpl.len

\* cmis-cdb.h, of reply: "output buffer for LPL reply data (120 bytes max)", and of
\* rpl_len: "number of reply bytes".  No show uses a byte past the buffer of a reply.
WithinBuffer == top < LplMax

\* A record that is shown as an observable of a lane is the one the module has
\* put there, when the features and the records were read: short and truncated
\* replies never move a record to another lane or observable.
RecordsInPlace ==
  rpl.got /\ (feat.got \/ ~(Due("host_pm") \/ Due("media_pm"))) =>
    \A rec \in shown :
      \E k \in 1 .. Len(Supported(Head(todo))) :
        /\ Supported(Head(todo))[k][2] = rec[2]
        /\ rec[3] = Place(Head(todo), rec[1], k)

\* Certificate data is kept in the order of the certificate: every segment in
\* the buffer follows the one before it and only the last one is short.  One that is
\* longer than a segment was not read.
CertificateInOrder ==
  \A i \in DOMAIN buf :
    /\ buf[i].segment = i - 1
    /\ i < Len(buf) => buf[i].len >= LplMax
    /\ buf[i].len > LplMax => ~buf[i].got

\* cmis-cdb.h, of cmis_cdb_get_certificate: "cert_len: actual certificate length
\* returned", "Returns 0 on success, -1 on error".  A certificate that is saved with
\* success, and for which the buffer has room, has all its bytes.
CertificateWhole ==
  mode = "cert_file" /\ todo = <<>> /\ ret = 0 /\ certLen <= BufSize =>
    FoldLeft(LAMBDA bytes, chunk : bytes + chunk.len, 0, buf) = certLen

\* A run with --json leaves one well formed JSON document or none: every early
\* return has closed what it had opened, and main's own closing fits.  Whatever
\* could not be read, no display follows a pointer to a page that is not there.
DocumentComplete == ~out.crashed /\ (mode = "exit" => Complete(out))

\* Every display ends.
QueryReturns == <>(mode = "exit")
=============================================================================
