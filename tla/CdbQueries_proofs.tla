------------------------- MODULE CdbQueries_proofs -------------------------
(***************************************************************************)
(* Proofs about the queries over CDB and what the displays make of their   *)
(* answers: no byte past a reply is used, a performance record is shown    *)
(* for the lane and the observable it was made for, a certificate is kept  *)
(* in the order of its segments, and a run leaves a complete document.     *)
(* The inductive invariant says of a walk how many records it has taken    *)
(* for every lane before, and of a certificate that the buffer is full up  *)
(* to the segment asked for next.  For the documents it says which shows   *)
(* are due and which brackets are open: the outputs are folds over the     *)
(* calls, and the lemmas about them say of every sequence of calls from    *)
(* which brackets to which it leads.                                       *)
(***************************************************************************)
EXTENDS CdbQueries, WellFoundedInduction, TLAPS

\* The reply of the show that is due, what it has used of it, and the answer.
ReplyInv ==
  /\ mode \in Modes \cup {"exit"} /\ json \in BOOLEAN /\ ret \in {-1, 0}
  /\ rpl \in [len : 0 .. RplMax, got : BOOLEAN]
  /\ top \in Int /\ -1 <= top /\ top < rpl.len

\* The features are the module's if their reply was read.
FeaturesInv ==
  /\ feat \in [host : 0 .. 255, media : 0 .. 255, got : BOOLEAN]
  /\ mod \in [host : 0 .. 255, media : 0 .. 255, current : {0, 1}]
  /\ feat.got => feat.host = mod.host /\ feat.media = mod.media

WalkShows == {"module_pm", "host_pm", "media_pm", "dp_pm"}

\* A walk is one of the show that is due.  It stays within the reply, and as long
\* as there is a record to take it has taken as many as there are observables
\* for every lane before.
WalkInv ==
  IF walk = NoWalk THEN shown = {}
  ELSE /\ todo # <<>> /\ Head(todo) \in WalkShows
       /\ walk \in [off : 1 .. rpl.len, lane : 1 .. MaxLane, size : {6, 8}]
       /\ rpl.got => walk.size = RecSize(mod.current)
       /\ \/ walk.off = 1 + ((walk.lane - 1) * Len(Asked(Head(todo)))) * walk.size
          \/ walk.off + walk.size > rpl.len

\* Everything that may be due.
Shows ==
  {"show_pm", "show_features", "certificates", "cert_file", "fw_command", "set_digest",
   "get_signature", "eeprom_parse", "cmis_diag_bert_read"}
  \cup {"pm_features", "module_pm", "host_pm", "media_pm", "dp_pm", "close"}
  \cup {"module", "fw_mgmt", "fw_info", "pm", "bert", "security", "ext"}
  \cup {"sff8079", "sff8636", "cmis", "xfp"}

Chunks == [segment : Nat, len : 0 .. RplMax, got : BOOLEAN]

CertificateDue == Due("certificates") \/ Due("cert_file")

\* While a certificate is read the buffer holds the segments that were asked for,
\* none of them short, and has room.  It is read at the beginning of a run or not
\* at all.
CertificateInv ==
  /\ todo \in Seq(Shows)
  /\ \A i \in 2 .. Len(todo) : todo[i] \notin {"certificates", "cert_file"}
  /\ certs \in -1 .. 4 /\ index \in 0 .. 3 /\ certLen \in Nat
  /\ buf \in Seq(Chunks) /\ total \in 0 .. BufSize
  /\ CertificateDue =>
       /\ segment \in Nat /\ segment = Len(buf)
       /\ LplMax * segment <= total /\ total < BufSize
       /\ \A i \in DOMAIN buf : buf[i].len >= LplMax
  /\ CertificateInOrder

QueriesInv ==
  ReplyInv /\ FeaturesInv /\ WalkInv /\ RecordsInPlace /\ CertificateInv

-----------------------------------------------------------------------------

\* A set of integers with an upper bound has a greatest element.
LEMMA MaxIsOne ==
  ASSUME NEW b \in Int, NEW S \in SUBSET Int, S # {}, \A x \in S : x <= b
  PROVE  Max(S) \in S /\ \A x \in S : Max(S) >= x
<1> DEFINE Below == {b - x : x \in S}
<1>1. Below \subseteq Nat /\ Below # {}
  <2>1. PICK x \in S : TRUE
    OBVIOUS
  <2>2. b - x \in Below
    OBVIOUS
  <2> QED BY <2>2
<1>2. PICK d \in Below : \A e \in Below : ~ (<<e, d>> \in OpToRel(<, Nat))
  <2> HIDE DEF Below
  <2> QED BY <1>1, WFMin, NatLessThanWellFounded
<1>3. PICK m \in S : d = b - m
  OBVIOUS
<1>4. \A x \in S : m >= x
  <2> TAKE x \in S
  <2>1. ~ (b - x < d)
    BY <1>1, <1>2 DEF OpToRel
  <2> QED BY <2>1, <1>3
<1> QED BY <1>4 DEF Max

\* One with a lower bound has a least element.
LEMMA MinIsOne ==
  ASSUME NEW b \in Int, NEW S \in SUBSET Int, S # {}, \A x \in S : x >= b
  PROVE  Min(S) \in S /\ \A x \in S : Min(S) <= x
<1> DEFINE Above == {x - b : x \in S}
<1>1. Above \subseteq Nat /\ Above # {}
  <2>1. PICK x \in S : TRUE
    OBVIOUS
  <2>2. x - b \in Above
    OBVIOUS
  <2> QED BY <2>2
<1>2. PICK d \in Above : \A e \in Above : ~ (<<e, d>> \in OpToRel(<, Nat))
  <2> HIDE DEF Above
  <2> QED BY <1>1, WFMin, NatLessThanWellFounded
<1>3. PICK m \in S : d = m - b
  OBVIOUS
<1>4. \A x \in S : m <= x
  <2> TAKE x \in S
  <2>1. ~ (x - b < d)
    BY <1>1, <1>2 DEF OpToRel
  <2> QED BY <2>1, <1>3
<1> QED BY <1>4 DEF Min

\* Of two integers these are what one expects.
LEMMA MinOfTwo ==
  ASSUME NEW a \in Int, NEW b \in Int
  PROVE  Min({a, b}) = IF a <= b THEN a ELSE b
BY DEF Min

\* The larger of two numbers, as the set operator gives it.
LEMMA MaxOfTwo ==
  ASSUME NEW a \in Int, NEW b \in Int
  PROVE  Max({a, b}) = IF a >= b THEN a ELSE b
BY DEF Max

-----------------------------------------------------------------------------
\* The fields of an answer.

Reply == [len : 0 .. RplMax, got : BOOLEAN]

\* A field that is decoded lies in the reply.
Within(r, fields) ==
  \A f \in fields : /\ f.need \in Int /\ f.last \in Int
                    /\ r.len >= f.need => -1 <= f.last /\ f.last < r.len

\* Replies and their lengths.
LEMMA ReplyLen == \A r \in Reply : r.len \in Int /\ 0 <= r.len /\ r.len <= 255
BY DEF Reply, RplMax

\* The replies that a module may give are replies of the type invariant.
LEMMA RepliesType == Replies \subseteq Reply
<1>1. NoReply \in Reply
  BY DEF NoReply, Reply, RplMax
<1>2. ASSUME NEW r \in [len : RplLens, got : BOOLEAN]
      PROVE  r \in Reply
  BY QueryAssumption DEF QueryAssumption, Reply
<1> QED BY <1>1, <1>2 DEF Replies

\* A reply of which the bytes were read is one of at most 120 bytes.
LEMMA RepliesRead == \A r \in Replies : r.got => r.len <= 120
BY DEF Replies, NoReply, LplMax

\* Of a reply whose fields lie in it, no byte past its end is used.
LEMMA LastUsedWithin ==
  ASSUME NEW r \in Reply, NEW fields, Within(r, fields)
  PROVE  LastUsed(r, fields) \in Int /\ -1 <= LastUsed(r, fields) /\ LastUsed(r, fields) < r.len
<1> DEFINE used == {f.last : f \in {g \in fields : r.len >= g.need}}
           S == {-1} \cup used
<1>1. r.len \in Int /\ 0 <= r.len
  BY DEF Reply, RplMax
<1>2. \A n \in used : n \in Int /\ -1 <= n /\ n < r.len
  BY DEF Within
<1>3. S \in SUBSET Int /\ S # {} /\ -1 \in S /\ \A n \in S : -1 <= n /\ n < r.len /\ n <= r.len
  <2> HIDE DEF used
  <2> QED BY <1>1, <1>2
<1>4. Max(S) \in S
  <2> HIDE DEF S
  <2> QED BY <1>1, <1>3, MaxIsOne
<1>5. Max(S) \in Int /\ -1 <= Max(S) /\ Max(S) < r.len
  <2> HIDE DEF S
  <2> QED BY <1>3, <1>4
<1> QED BY <1>5 DEF LastUsed

\* What is decoded of a reply, show by show.
LEMMA AnswersWithin ==
  ASSUME NEW r \in Reply
  PROVE  /\ \A a \in cmis_cdb_show_module_features(r) : Within(r, a.fields)
         /\ \A a \in cmis_cdb_show_fw_mgmt_features(r) : Within(r, a.fields)
         /\ \A a \in cmis_cdb_show_fw_info(r) : Within(r, a.fields)
         /\ \A a \in cmis_cdb_show_generic_features(r) : Within(r, a.fields)
         /\ \A a \in cmis_cdb_show_bert_features(r) : Within(r, a.fields)
         /\ \A a \in cmis_cdb_show_security_features(r) : Within(r, a.fields)
<1>1. r.len \in Int /\ 0 <= r.len /\ r.len <= 255
  BY DEF Reply, RplMax
<1>2. Within(r, {}) /\ Within(r, {Dump(r)})
  BY <1>1 DEF Within, Dump, RplMax
<1>3. \A need \in Int, last \in Int :
        (r.len >= need => -1 <= last /\ last < r.len) => Within(r, {Field(need, last)})
  BY DEF Within, Field
<1>4. \A F, G : Within(r, F) /\ Within(r, G) => Within(r, F \cup G)
  BY DEF Within
<1>12. \A events, fields : Answer(events, fields).fields = fields
  BY DEF Answer
<1>11. \A F : Within(r, F) => \A events : Within(r, Answer(events, F).fields)
  BY DEF Answer
<1>5. \A a \in cmis_cdb_show_module_features(r) : Within(r, a.fields)
  <2>1. Within(r, {Field(34, 33), Field(36, 35)})
    BY <1>1 DEF Within, Field
  <2>2. \A events : /\ Within(r, Answer(events, {Dump(r)}).fields)
                    /\ Within(r, Answer(events, {Field(34, 33), Field(36, 35)}).fields)
    BY <2>1, <1>2, <1>11
  <2> QED BY <2>2, ZenonT(20) DEF cmis_cdb_show_module_features
<1>6. \A a \in cmis_cdb_show_fw_mgmt_features(r) : Within(r, a.fields)
  <2> DEFINE flags == {Field(need, need - 1) : need \in {2, 3, 4, 6, 8, 11, 12, 13, 14} \cup FwMgmtDurations}
  <2>1. Within(r, flags)
    BY <1>1 DEF Within, Field, FwMgmtDurations
  <2>2. Within(r, flags \cup {Dump(r)})
    <3> HIDE DEF flags
    <3> QED BY <2>1, <1>2, <1>4
  <2>3. cmis_cdb_show_fw_mgmt_features(r) = {Answer(<<>>, flags \cup {Dump(r)})}
    BY DEF cmis_cdb_show_fw_mgmt_features
  <2> HIDE DEF flags
  <2> QED BY <2>2, <2>3, <1>12
<1>7. \A a \in cmis_cdb_show_fw_info(r) : Within(r, a.fields)
  <2>1. \A present \in SUBSET FwImages : Within(r, UNION present)
    BY <1>1 DEF Within, Field, FwImages, fw_info_json_image
  <2>2. Within(r, {Field(2, 1), Dump(r)})
    BY <1>1 DEF Within, Field, Dump, RplMax
  <2>3. \A present \in SUBSET FwImages : Within(r, {Field(2, 1), Dump(r)} \cup UNION present)
    <3> HIDE DEF FwImages
    <3> QED BY <2>1, <2>2, <1>4
  <2>4. \A events : Within(r, Answer(events, {}).fields)
    BY <1>2, <1>11
  <2>5. \A present \in SUBSET FwImages : \A events :
          Within(r, Answer(events, {Field(2, 1), Dump(r)} \cup UNION present).fields)
    <3> HIDE DEF FwImages
    <3> QED BY <2>3, <1>11
  <2> DEFINE Shown(present, extra) ==
               Answer(IF present = {} THEN <<>> ELSE <<"object", extra, "end">>,
                      {Field(2, 1), Dump(r)} \cup UNION present)
             nothing == Answer(<<>>, {})
  <2>6. cmis_cdb_show_fw_info(r) =
          IF r.len < 2 THEN {nothing}
          ELSE {Shown(present, extra) : present \in SUBSET FwImages, extra \in {"fields"} \cup Texts}
    BY DEF cmis_cdb_show_fw_info
  <2>7. Within(r, nothing.fields)
    BY <2>4
  <2>8. \A present \in SUBSET FwImages : \A extra : Within(r, Shown(present, extra).fields)
    BY <2>5, Zenon
  <2> HIDE DEF Shown, nothing
  <2> QED BY <2>6, <2>7, <2>8, SMT
<1>8. \A a \in cmis_cdb_show_generic_features(r) : Within(r, a.fields)
  <2>1. Within(r, {Field(0, r.len - 1)})
    BY <1>1 DEF Within, Field
  <2> QED BY <2>1, <1>12 DEF cmis_cdb_show_generic_features
<1>9. \A a \in cmis_cdb_show_bert_features(r) : Within(r, a.fields)
  <2>1. Within(r, {Field(32, 31), Dump(r)})
    BY <1>1 DEF Within, Field, Dump, RplMax
  <2> QED BY <2>1, <1>12 DEF cmis_cdb_show_bert_features
<1>10. \A a \in cmis_cdb_show_security_features(r) : Within(r, a.fields)
  <2> DEFINE bitmap == Field(1, Min({31, r.len - 1}))
             counts == {Field(33, 32), Field(34, 33), Field(35, 34)}
  <2>1. Within(r, counts) /\ \A nc \in 0 .. 4 : Within(r, CertificateLengths(nc))
    BY <1>1 DEF Within, Field, CertificateLengths
  <2>2. Within(r, {bitmap, Dump(r)})
    BY <1>1, MinOfTwo DEF Within, Field, Dump, RplMax
  <2>3. \A nc \in 0 .. 4 : Within(r, counts \cup {bitmap, Dump(r)} \cup CertificateLengths(nc))
    <3> HIDE DEF bitmap, counts
    <3> QED BY <2>1, <2>2, <1>4
  <2>4. \A nc \in 0 .. 4 : \A events :
          Within(r, Answer(events, counts \cup {bitmap, Dump(r)} \cup CertificateLengths(nc)).fields)
    <3> HIDE DEF bitmap, counts
    <3> QED BY <2>3, <1>11
  <2>5. ASSUME NEW a \in cmis_cdb_show_security_features(r)
        PROVE  \E nc \in 0 .. 4 : \E events :
                 a = Answer(events, counts \cup {bitmap, Dump(r)} \cup CertificateLengths(nc))
    <3> DEFINE lists == IF r.len >= 1 THEN CommandLists ELSE {<<>>}
               lengths(nc) == CASE r.len < 38 -> <<>>
                                [] r.len >= 38 /\ nc = 0 -> <<"array", "end_array">>
                                [] OTHER -> <<"array", "values", "end_array">>
               displayed(list, nc) == Answer(list \o <<"fields">> \o lengths(nc),
                                         counts \cup {bitmap, Dump(r)} \cup CertificateLengths(nc))
    <3>1. cmis_cdb_show_security_features(r) = {displayed(list, nc) : list \in lists, nc \in 0 .. 4}
      BY DEF cmis_cdb_show_security_features
    <3>2. PICK list \in lists, nc \in 0 .. 4 : a = displayed(list, nc)
      <4> HIDE DEF lists, displayed
      <4> QED BY <3>1
    <3> QED BY <3>2
  <2> HIDE DEF counts, bitmap
  <2> QED BY <2>4, <2>5
<1> QED BY <1>5, <1>6, <1>7, <1>8, <1>9, <1>10

-----------------------------------------------------------------------------
\* Steps outside the walks and the certificates.

\* The reply that a step leaves, and what it has used of it.
ReplyUsed == rpl' \in Reply /\ top' \in Int /\ -1 <= top' /\ top' < rpl'.len

\* A command that fails leaves no reply to be used.
LEMMA NothingUsed ==
  ASSUME rpl' = NoReply, top' = -1
  PROVE  ReplyUsed
BY DEF ReplyUsed, Reply, NoReply, RplMax

NoCertificate(shows) ==
  /\ shows \in Seq(Shows)
  /\ \A i \in 1 .. Len(shows) : shows[i] \notin {"certificates", "cert_file"}

\* The shows that a show calls, or puts in its place.
LEMMA CalledShows ==
  /\ NoCertificate(<<>>)
  /\ \A show \in Shows \ {"certificates", "cert_file"} : NoCertificate(<<show>>)
  /\ NoCertificate(<<"pm_features", "module_pm", "host_pm", "media_pm", "dp_pm", "close">>)
  /\ NoCertificate(<<"module", "fw_mgmt", "fw_info", "pm", "bert", "security", "ext", "close">>)
<1>1. NoCertificate(<<>>)
  BY DEF NoCertificate
<1>2. ASSUME NEW show \in Shows \ {"certificates", "cert_file"}
      PROVE  NoCertificate(<<show>>)
  <2> DEFINE shows == <<show>>
  <2>1. shows \in Seq(Shows) /\ Len(shows) = 1 /\ shows[1] = show
    OBVIOUS
  <2> HIDE DEF shows
  <2>2. NoCertificate(shows)
    BY <2>1 DEF NoCertificate
  <2> QED BY <2>2 DEF shows
<1>3. NoCertificate(<<"pm_features", "module_pm", "host_pm", "media_pm", "dp_pm", "close">>)
  <2> DEFINE shows == <<"pm_features", "module_pm", "host_pm", "media_pm", "dp_pm", "close">>
  <2>1. shows \in Seq(Shows) /\ Len(shows) = 6
    BY DEF Shows
  <2>2. \A i \in 1 .. 6 : shows[i] \notin {"certificates", "cert_file"}
    OBVIOUS
  <2> HIDE DEF shows
  <2>3. NoCertificate(shows)
    BY <2>1, <2>2 DEF NoCertificate
  <2> QED BY <2>3 DEF shows
<1>4. NoCertificate(<<"module", "fw_mgmt", "fw_info", "pm", "bert", "security", "ext", "close">>)
  <2> DEFINE shows == <<"module", "fw_mgmt", "fw_info", "pm", "bert", "security", "ext", "close">>
  <2>1. shows \in Seq(Shows) /\ Len(shows) = 8
    BY DEF Shows
  <2>2. \A i \in 1 .. 8 : shows[i] \notin {"certificates", "cert_file"}
    OBVIOUS
  <2> HIDE DEF shows
  <2>3. NoCertificate(shows)
    BY <2>1, <2>2 DEF NoCertificate
  <2> QED BY <2>3 DEF shows
<1> QED BY <1>1, <1>2, <1>3, <1>4

\* How a step goes on: with the same show, with the next, or with others that are
\* not about certificates.
Moves ==
  \/ UNCHANGED todo
  \/ todo # <<>> /\ todo' = Tail(todo)
  \/ NoCertificate(todo')

\* No certificate is read after another show, so a show that ends leaves none due.
LEMMA AgendaKept ==
  ASSUME CertificateInv, Moves
  PROVE  /\ todo' \in Seq(Shows)
         /\ \A i \in 2 .. Len(todo') : todo'[i] \notin {"certificates", "cert_file"}
         /\ UNCHANGED todo \/ ~CertificateDue'
<1>1. CASE UNCHANGED todo
  BY <1>1 DEF CertificateInv
<1>2. CASE todo # <<>> /\ todo' = Tail(todo)
  <2> USE DEF CertificateInv
  <2>1. todo' \in Seq(Shows) /\ Len(todo') = Len(todo) - 1
    BY <1>2
  <2>2. \A i \in 1 .. Len(todo') : todo'[i] = todo[i + 1] /\ i + 1 \in 2 .. Len(todo)
    BY <1>2, <2>1
  <2>3. \A i \in 1 .. Len(todo') : todo'[i] \notin {"certificates", "cert_file"}
    BY <2>2
  <2> QED BY <2>1, <2>3 DEF CertificateDue, Due
<1>3. CASE NoCertificate(todo')
  BY <1>3 DEF CertificateDue, Due, NoCertificate
<1> QED BY <1>1, <1>2, <1>3 DEF Moves

\* A step that does not touch the buffer keeps what is known of it.
LEMMA CertificateKept ==
  ASSUME CertificateInv, UNCHANGED <<index, buf, segment, total, certLen>>, certs' \in -1 .. 4,
         Moves
  PROVE  CertificateInv'
<1>1. UNCHANGED CertificateInOrder
  BY DEF CertificateInOrder
<1>2. CertificateDue' => CertificateDue
  BY AgendaKept DEF CertificateDue, Due
<1> QED BY <1>1, <1>2, AgendaKept DEF CertificateInv

\* A show that is none of a walk runs outside the walks.
LEMMA OutsideWalks ==
  ASSUME WalkInv, NEW show, Due(show), show \notin WalkShows
  PROVE  walk = NoWalk /\ shown = {}
BY DEF WalkInv, Due

\* Then nothing that the walks keep is disturbed.
LEMMA WalksKept ==
  ASSUME FeaturesInv, walk = NoWalk, shown = {}, UNCHANGED pm
  PROVE  FeaturesInv' /\ WalkInv' /\ RecordsInPlace'
<1>1. walk' = walk /\ shown' = shown /\ feat' = feat /\ mod' = mod
  BY DEF pm
<1> QED BY <1>1 DEF FeaturesInv, WalkInv, RecordsInPlace, NoWalk

\* What a step outside the walks has to leave for the invariant to hold again.
LEMMA PlainStep ==
  ASSUME QueriesInv, walk = NoWalk, shown = {}, UNCHANGED <<pm, security>>, Moves,
         mode' \in {mode, "exit"}, json' = json, ret' \in {ret, -1, 0},
         UNCHANGED <<rpl, top>> \/ ReplyUsed
  PROVE  QueriesInv'
<1>1. FeaturesInv' /\ WalkInv' /\ RecordsInPlace'
  BY WalksKept DEF QueriesInv
<1>2. CertificateInv'
  BY CertificateKept DEF QueriesInv, CertificateInv, security
<1>3. ReplyInv'
  BY DEF QueriesInv, ReplyInv, ReplyUsed, Reply
<1> QED BY <1>1, <1>2, <1>3 DEF QueriesInv

FeatureShows == {"module", "fw_mgmt", "fw_info", "pm", "bert", "security", "ext"}

\* Feature discovery, show by show.
LEMMA FeaturesStep ==
  ASSUME QueriesInv, FeaturesNext, UNCHANGED <<pm, security, cage>>
  PROVE  QueriesInv'
<1>1. CASE cmis_cdb_fw_command
  <2> USE <1>1 DEF cmis_cdb_fw_command
  <2>1. walk = NoWalk /\ shown = {}
    BY OutsideWalks DEF QueriesInv, WalkShows
  <2>2. Moves
    BY CalledShows DEF Moves, Shows
  <2> QED BY <2>1, <2>2, PlainStep
<1>2. CASE cmis_cdb_show_features
  <2> USE <1>2 DEF cmis_cdb_show_features
  <2>1. walk = NoWalk /\ shown = {}
    BY OutsideWalks DEF QueriesInv, WalkShows
  <2>2. Moves
    BY CalledShows, Zenon DEF Moves
  <2> QED BY <2>1, <2>2, PlainStep
<1>3. ASSUME NEW key \in FeatureShows, Due(key), todo' = Tail(todo), UNCHANGED <<mode, json, ret>>,
             \/ rpl' = NoReply /\ top' = -1
             \/ \E r \in Replies : \E F :
                  rpl' = r /\ Within(r, F) /\ top' = LastUsed(r, F)
      PROVE  QueriesInv'
  <2>1. walk = NoWalk /\ shown = {}
    BY <1>3, OutsideWalks DEF QueriesInv, WalkShows, FeatureShows
  <2>2. ReplyUsed
    <3>1. CASE rpl' = NoReply /\ top' = -1
      BY <3>1, NothingUsed
    <3>2. ASSUME NEW r \in Replies, NEW F, rpl' = r, Within(r, F), top' = LastUsed(r, F)
          PROVE  ReplyUsed
      BY <3>2, RepliesType, LastUsedWithin DEF ReplyUsed
    <3> QED BY <1>3, <3>1, <3>2
  <2>3. Moves
    BY <1>3 DEF Moves, Due
  <2> QED BY <1>3, <2>1, <2>2, <2>3, PlainStep
<1> USE AnswersWithin, RepliesType DEF Show, Ask, Leave, FeatureShows
<1>4. CASE Show("module", cmis_cdb_show_module_features) BY <1>3, <1>4
<1>5. CASE Show("fw_mgmt", cmis_cdb_show_fw_mgmt_features) BY <1>3, <1>5
<1>6. CASE Show("fw_info", cmis_cdb_show_fw_info) BY <1>3, <1>6
<1>7. CASE Show("pm", cmis_cdb_show_generic_features) BY <1>3, <1>7
<1>8. CASE Show("bert", cmis_cdb_show_bert_features) BY <1>3, <1>8
<1>9. CASE Show("security", cmis_cdb_show_security_features) BY <1>3, <1>9
<1>10. CASE Show("ext", cmis_cdb_show_generic_features) BY <1>3, <1>10
<1> QED BY <1>1, <1>2, <1>4, <1>5, <1>6, <1>7, <1>8, <1>9, <1>10 DEF FeaturesNext

\* A display of pages answers success or failure.
LEMMA ReadsAnswer ==
  /\ \A pages : \A r \in Reads(pages) : r.ret \in {-1, 0}
  /\ \A r \in sff8636_memory_map_init_pages : r.ret \in {-1, 0}
<1>1. ASSUME NEW pages, NEW r \in Reads(pages)
      PROVE  r.ret \in {-1, 0}
  BY DEF Reads
<1>2. ASSUME NEW r \in sff8636_memory_map_init_pages
      PROVE  r.ret \in {-1, 0}
  <2>1. CASE r \in Reads(<<"lower", "00h">>)
    BY <1>1, <2>1
  <2>2. ASSUME NEW q \in Reads(<<"lower", "00h">>), r = [q EXCEPT !.map = @ \cup {"03h"}]
        PROVE  r.ret \in {-1, 0}
    <3>1. r.ret = q.ret
      BY <2>2 DEF Reads
    <3> QED BY <3>1, <1>1
  <2> QED BY <2>1, <2>2 DEF sff8636_memory_map_init_pages
<1> QED BY <1>1, <1>2

\* The displays of pages ask nothing over CDB.
LEMMA DisplayStep ==
  ASSUME QueriesInv, DisplayNext, UNCHANGED <<pm, security>>
  PROVE  QueriesInv'
<1> USE DEF Leave
<1>1. \E show : Due(show) /\ show \notin WalkShows
  BY DEF DisplayNext, WalkShows, eeprom_parse, sff8079_show_all_nl, xfp_show_all_nl,
         sff8636_show_all_nl, cmis_show_all_nl, cmis_diag_bert_read
<1>2. UNCHANGED <<mode, json, rpl, top>>
  BY DEF DisplayNext
<1>3. ret' \in {ret, -1, 0} /\ Moves
  <2>1. CASE eeprom_parse
    <3>1. CASE todo' = Tail(todo)
      BY <2>1, <3>1 DEF eeprom_parse, Moves, Due
    <3>2. CASE \E standard \in DOMAIN Standards : todo' = <<standard>>
      <4>1. NoCertificate(todo')
        BY <3>2, CalledShows DEF Standards, Shows
      <4> QED BY <2>1, <4>1 DEF eeprom_parse, Moves
    <3>3. CASE todo' = <<>>
      BY <2>1, <3>3, CalledShows DEF eeprom_parse, Moves
    <3> QED BY <2>1, <3>1, <3>2, <3>3 DEF eeprom_parse
  <2>2. CASE sff8079_show_all_nl
    BY <2>2, ReadsAnswer DEF sff8079_show_all_nl, Moves, Due
  <2>3. CASE xfp_show_all_nl
    BY <2>3, ReadsAnswer DEF xfp_show_all_nl, Moves, Due
  <2>4. CASE sff8636_show_all_nl
    BY <2>4, ReadsAnswer DEF sff8636_show_all_nl, Moves, Due
  <2>5. CASE cmis_show_all_nl
    BY <2>5, ReadsAnswer DEF cmis_show_all_nl, Moves, Due
  <2>6. CASE cmis_diag_bert_read
    BY <2>6 DEF cmis_diag_bert_read, Moves, Due
  <2> QED BY <2>1, <2>2, <2>3, <2>4, <2>5, <2>6 DEF DisplayNext
<1>4. walk = NoWalk /\ shown = {}
  BY <1>1, OutsideWalks DEF QueriesInv
<1> QED BY <1>2, <1>3, <1>4, PlainStep

\* The ends of the displays and of the program.
LEMMA EndStep ==
  ASSUME QueriesInv, CloseShow \/ Exit
  PROVE  QueriesInv'
<1>1. walk = NoWalk /\ shown = {}
  BY OutsideWalks DEF CloseShow, Exit, QueriesInv, WalkInv, WalkShows
<1>2. CASE CloseShow
  <2>1. ReplyUsed
    BY <1>2, NothingUsed DEF CloseShow
  <2>2. Moves
    BY <1>2 DEF CloseShow, Leave, Moves, Due
  <2> QED BY <1>1, <1>2, <2>1, <2>2, PlainStep DEF CloseShow
<1>3. CASE Exit
  BY <1>1, <1>3, PlainStep DEF Exit, Moves
<1> QED BY <1>2, <1>3

-----------------------------------------------------------------------------
\* Certificates.

\* How many certificates there are.
LEMMA CertificatesBegin ==
  ASSUME ReplyInv, CertificateInv, cmis_cdb_show_certificates
  PROVE  ReplyInv' /\ CertificateInv'
<1> USE DEF cmis_cdb_show_certificates, Leave
<1>1. ReplyUsed
  <2>1. CASE rpl' = NoReply /\ top' = -1
    BY <2>1, NothingUsed
  <2>2. ASSUME NEW r \in Replies, rpl' = r, top' = LastUsed(r, {Field(33, 32), Field(35, 34)})
        PROVE  ReplyUsed
    <3>1. Within(r, {Field(33, 32), Field(35, 34)})
      <4>1. r \in Reply
        BY RepliesType
      <4>2. r.len \in Int
        BY <4>1 DEF Reply
      <4> QED BY <4>2 DEF Within, Field
    <3> QED BY <2>2, <3>1, RepliesType, LastUsedWithin DEF ReplyUsed
  <2> QED BY <2>1, <2>2
<1>2. certs' \in -1 .. 4
  <2>1. CASE certs' = certs
    BY <2>1 DEF CertificateInv
  <2>2. ASSUME NEW n \in Nat, certs' = Min({n, 4})
        PROVE  certs' \in -1 .. 4
    BY <2>2, MinOfTwo
  <2>3. CertCounts \subseteq Nat /\ Garbage \subseteq Nat
    BY QueryAssumption, SecurityAssumption DEF QueryAssumption, SecurityAssumption
  <2>4. certs' = certs \/ \E n \in {0} \cup CertCounts \cup Garbage : certs' = Min({n, 4})
    OBVIOUS
  <2> QED BY <2>1, <2>2, <2>3, <2>4
<1>3. Moves
  BY DEF Moves, Due
<1>4. CertificateInv'
  BY <1>2, <1>3, CertificateKept
<1> QED BY <1>1, <1>4 DEF ReplyInv, ReplyUsed, Reply

\* The segments of a certificate, in order and full up to the last one.
InOrder(chunks) ==
  /\ chunks \in Seq(Chunks)
  /\ \A i \in DOMAIN chunks :
       /\ chunks[i].segment = i - 1
       /\ i < Len(chunks) => chunks[i].len >= LplMax
       /\ chunks[i].len > LplMax => ~chunks[i].got

\* A certificate that is complete, or whose command failed, is shown or kept.
LEMMA CertificateDoneKeeps ==
  ASSUME CertificateInv, Reading, NEW chunks, InOrder(chunks), NEW answer \in {-1, 0},
         CertificateDone(chunks, answer), segment' = 0, total' = 0, UNCHANGED <<certs, certLen>>
  PROVE  CertificateInv' /\ ret' \in {ret, -1, 0}
<1>1. Moves
  BY DEF CertificateDone, NextItem, Leave, Moves, Due
<1>2. InOrder(<<>>)
  BY DEF InOrder
<1>3. index' \in 0 .. 3
  BY DEF CertificateDone, NextItem, CertificateInv
<1>4. InOrder(buf')
  BY <1>2 DEF CertificateDone
<1>5. CertificateInOrder'
  BY <1>4 DEF InOrder, CertificateInOrder
<1>6. CertificateDue' => buf' = <<>>
  <2>1. CASE Due("certificates") /\ buf' = <<>>
    BY <2>1
  <2>2. CASE todo # <<>> /\ todo' = Tail(todo)
    <3>1. todo' # todo
      BY <2>2 DEF CertificateInv
    <3> QED BY <1>1, <3>1, AgendaKept
  <2> QED BY <2>1, <2>2 DEF CertificateDone, Leave, Due
<1>7. buf' \in Seq(Chunks)
  BY <1>4 DEF InOrder
<1>8. 0 \in 0 .. BufSize /\ 0 < BufSize
  BY SecurityAssumption DEF SecurityAssumption, LplMax
<1>9. CertificateDue' => /\ segment' \in Nat /\ segment' = Len(buf')
                         /\ LplMax * segment' <= total' /\ total' < BufSize
                         /\ \A i \in DOMAIN buf' : buf'[i].len >= LplMax
  BY <1>6, <1>8 DEF LplMax
<1>10. CertificateInv'
  BY <1>1, <1>3, <1>5, <1>7, <1>8, <1>9, AgendaKept DEF CertificateInv
<1>11. ret' \in {ret, -1, 0}
  BY DEF CertificateDone
<1> QED BY <1>10, <1>11

\* External: a segment is at most 120 bytes.
LEMMA SegmentLenType ==
  ASSUME certLen \in Nat, segment \in Nat
  PROVE  SegmentLen(segment) \in 0 .. LplMax
<1> DEFINE left == certLen - LplMax * segment
           room == Min({LplMax, left})
<1>1. LplMax = 120 /\ left \in Int
  BY DEF LplMax
<1>2. room \in Int /\ room <= LplMax
  <2> HIDE DEF left
  <2> QED BY <1>1, MinOfTwo
<1>3. Max({0, room}) \in 0 .. LplMax
  <2> HIDE DEF room
  <2>1. Max({0, room}) = IF 0 >= room THEN 0 ELSE room
    BY <1>2, MaxOfTwo
  <2> QED BY <1>1, <1>2, <2>1
<1> QED BY <1>3 DEF SegmentLen

\* What the caller has of one may be announced longer, but is not read then.
LEMMA SegmentsType ==
  ASSUME certLen \in Nat, segment \in Nat
  PROVE  \A r \in Segments(segment) : r \in Reply /\ (r.got => r.len <= LplMax)
<1> TAKE r \in Segments(segment)
<1>1. CASE r = NoReply
  BY <1>1 DEF NoReply, Reply, RplMax
<1>2. CASE r \in [len : {SegmentLen(segment)}, got : BOOLEAN]
  BY <1>2, SegmentLenType DEF Reply, LplMax, RplMax
<1>3. CASE r \in Replies
  BY <1>3, RepliesType, RepliesRead DEF LplMax
<1> QED BY <1>1, <1>2, <1>3 DEF Segments

\* The segment that is asked for goes to its place in the buffer.
LEMMA SegmentAppended ==
  ASSUME CertificateInv, CertificateDue, NEW n \in 0 .. RplMax, NEW got \in BOOLEAN,
         n > LplMax => ~got, NEW chunks,
         chunks = IF n > 0 THEN Append(buf, [segment |-> segment, len |-> n, got |-> got]) ELSE buf
  PROVE  /\ InOrder(chunks)
         /\ n >= LplMax => /\ Len(chunks) = segment + 1
                          /\ \A i \in DOMAIN chunks : chunks[i].len >= LplMax
<1> DEFINE chunk == [segment |-> segment, len |-> n, got |-> got]
<1>1. buf \in Seq(Chunks) /\ segment \in Nat /\ segment = Len(buf)
      /\ \A i \in DOMAIN buf : buf[i].len >= LplMax
  BY DEF CertificateInv
<1>2. \A i \in DOMAIN buf : buf[i].segment = i - 1 /\ (buf[i].len > LplMax => ~buf[i].got)
  BY DEF CertificateInv, CertificateInOrder
<1>3. CASE n = 0
  <2>1. chunks = buf
    BY <1>3
  <2> QED BY <1>1, <1>2, <1>3, <2>1 DEF InOrder, LplMax
<1>4. CASE n > 0
  <2>1. chunk \in Chunks /\ chunk.segment = segment /\ chunk.len = n /\ chunk.got = got
    BY <1>1 DEF Chunks
  <2>2. chunks = Append(buf, chunk)
    BY <1>4
  <2> HIDE DEF chunk
  <2>3. /\ chunks \in Seq(Chunks) /\ Len(chunks) = Len(buf) + 1
        /\ \A i \in 1 .. Len(buf) : chunks[i] = buf[i]
        /\ chunks[Len(buf) + 1] = chunk
    BY <1>1, <2>1, <2>2
  <2>4. \A i \in DOMAIN chunks : i \in DOMAIN buf \/ i = Len(buf) + 1
    BY <1>1, <2>3
  <2>5. InOrder(chunks)
    BY <1>1, <1>2, <2>1, <2>3, <2>4 DEF InOrder
  <2>6. n >= LplMax => \A i \in DOMAIN chunks : chunks[i].len >= LplMax
    BY <1>1, <2>1, <2>3, <2>4
  <2> QED BY <1>1, <2>3, <2>5, <2>6
<1> QED BY <1>3, <1>4

\* One command for a segment.
LEMMA CertificateStep ==
  ASSUME ReplyInv, CertificateInv, cmis_cdb_get_certificate
  PROVE  ReplyInv' /\ CertificateInv'
<1> USE DEF Reading
<1>1. CertificateDue
  BY DEF cmis_cdb_get_certificate, CertificateCommandFails, CertificateSegment, CertificateDue
<1>2. /\ buf \in Seq(Chunks) /\ certLen \in Nat
      /\ segment \in Nat /\ segment = Len(buf)
      /\ LplMax * segment <= total /\ total < BufSize /\ total \in Nat
  BY <1>1, SecurityAssumption DEF SecurityAssumption, CertificateInv
<1>3. BufSize \in Int /\ BufSize <= 256 * 120
  BY SecurityAssumption DEF SecurityAssumption, LplMax
<1>4. CASE CertificateCommandFails
  <2> USE <1>4 DEF CertificateCommandFails
  <2>1. InOrder(buf)
    BY DEF CertificateInv, CertificateInOrder, InOrder
  <2>2. CertificateInv' /\ ret' \in {ret, -1, 0}
    <3> DEFINE answer == IF segment > 0 /\ total > 0 THEN 0 ELSE -1
    <3>1. answer \in {-1, 0} /\ CertificateDone(buf, answer)
      OBVIOUS
    <3> HIDE DEF answer
    <3> QED BY <2>1, <3>1, CertificateDoneKeeps
  <2> QED BY <2>2, NothingUsed DEF ReplyInv, ReplyUsed, Reply
<1>5. CASE CertificateSegment
  <2>1. PICK r \in Segments(segment) :
          LET n == Min({r.len, BufSize - total})
              chunk == [segment |-> segment, len |-> n, got |-> r.got]
              chunks == IF n > 0 THEN Append(buf, chunk) ELSE buf
          IN /\ rpl' = r /\ top' = n - 1
             /\ IF n < LplMax \/ total + n >= BufSize
                THEN CertificateDone(chunks, 0) /\ segment' = 0 /\ total' = 0
                ELSE /\ buf' = chunks /\ segment' = (segment + 1) % 256 /\ total' = total + n
                     /\ UNCHANGED <<out, todo, ret, index>>
    BY <1>5 DEF CertificateSegment
  <2> DEFINE n == Min({r.len, BufSize - total})
             chunks == IF n > 0 THEN Append(buf, [segment |-> segment, len |-> n, got |-> r.got]) ELSE buf
  <2>2. r \in Reply /\ (r.got => r.len <= LplMax)
    BY <1>2, SegmentsType
  <2>3. r.len \in 0 .. RplMax /\ r.got \in BOOLEAN
    BY <2>2 DEF Reply
  <2>4. n \in 0 .. RplMax /\ n <= r.len
    <3> DEFINE room == BufSize - total
    <3>1. r.len \in 0 .. RplMax /\ room \in Int /\ room > 0 /\ RplMax = 255
      BY <1>2, <1>3, <2>3 DEF RplMax
    <3> HIDE DEF room
    <3>4. r.len \in Int /\ 0 <= r.len /\ r.len <= 255
      BY <3>1
    <3>2. Min({r.len, room}) = IF r.len <= room THEN r.len ELSE room
      BY <3>1, <3>4, MinOfTwo, Zenon
    <3>3. n = IF r.len <= room THEN r.len ELSE room
      BY <3>2 DEF room
    <3> HIDE DEF n
    <3> QED BY <3>1, <3>3, <3>4
  <2>5. ReplyUsed
    <3>1. rpl' = r /\ top' = n - 1
      BY <2>1
    <3> HIDE DEF n
    <3> QED BY <2>2, <2>3, <2>4, <3>1 DEF ReplyUsed, RplMax
  <2>6. /\ InOrder(chunks)
        /\ n >= LplMax => /\ Len(chunks) = segment + 1
                         /\ \A i \in DOMAIN chunks : chunks[i].len >= LplMax
    <3> HIDE DEF n
    <3>1. n > LplMax => ~r.got
      BY <2>2, <2>3, <2>4 DEF LplMax, RplMax
    <3> QED BY <1>1, <2>3, <2>4, <3>1, SegmentAppended
  <2>7. UNCHANGED <<mode, json, certs, certLen>>
    BY <1>5 DEF CertificateSegment
  <2>8. CASE n < LplMax \/ total + n >= BufSize
    <3>1. CertificateDone(chunks, 0) /\ segment' = 0 /\ total' = 0
      BY <2>1, <2>8
    <3>2. CertificateInv' /\ ret' \in {ret, -1, 0}
      <4> HIDE DEF chunks
      <4> QED BY <1>5, <2>6, <2>7, <3>1, CertificateDoneKeeps DEF CertificateSegment
    <3> QED BY <2>5, <2>7, <3>2 DEF ReplyInv, ReplyUsed, Reply
  <2>9. CASE ~(n < LplMax \/ total + n >= BufSize)
    <3>1. n >= LplMax /\ n \in Nat
      BY <2>4, <2>9 DEF LplMax, RplMax
    <3>2. /\ buf' = chunks /\ segment' = (segment + 1) % 256 /\ total' = total + n
          /\ UNCHANGED <<todo, ret, index>>
      BY <2>1, <2>9
    <3> HIDE DEF chunks, n
    <3>3. 120 * (segment + 1) <= total' /\ total' < BufSize /\ total' \in 0 .. BufSize
      BY <1>2, <1>3, <2>9, <3>1, <3>2 DEF LplMax
    <3>4. segment' = segment + 1
      <4>1. segment + 1 \in 0 .. 255
        <5>1. 120 * (segment + 1) < 256 * 120 /\ segment \in Nat
          BY <1>2, <1>3, <3>3
        <5> QED BY <5>1
      <4> QED BY <3>2, <4>1
    <3>5. CertificateInOrder' /\ buf' \in Seq(Chunks)
      BY <2>6, <3>2 DEF InOrder, CertificateInOrder
    <3>6. CertificateInv'
      <4>1. CertificateDue' <=> CertificateDue
        BY <3>2 DEF CertificateDue, Due
      <4>2. /\ segment' \in Nat /\ segment' = Len(buf')
            /\ \A i \in DOMAIN buf' : buf'[i].len >= LplMax
        BY <1>2, <2>6, <3>1, <3>2, <3>4
      <4>3. LplMax * segment' <= total'
        BY <3>3, <3>4 DEF LplMax
      <4>4. /\ todo' \in Seq(Shows) /\ \A i \in 2 .. Len(todo') : todo'[i] \notin {"certificates", "cert_file"}
            /\ certs' \in -1 .. 4 /\ index' \in 0 .. 3 /\ certLen' \in Nat
        BY <2>7, <3>2 DEF CertificateInv
      <4> QED BY <3>3, <3>5, <4>1, <4>2, <4>3, <4>4 DEF CertificateInv
    <3> QED BY <2>5, <2>7, <3>2, <3>6 DEF ReplyInv, ReplyUsed, Reply
  <2> QED BY <2>8, <2>9
<1> QED BY <1>4, <1>5 DEF cmis_cdb_get_certificate

\* What the command line keeps of a signature is one chunk, not longer than a segment.
LEMMA SignatureChunk ==
  ASSUME NEW r \in Reply
  PROVE  LET chunk == [segment |-> 0, len |-> Min({r.len, SigBufSize}), got |-> r.got]
         IN  chunk \in Chunks /\ chunk.segment = 0 /\ ~(chunk.len > LplMax)
<1> DEFINE kept == Min({r.len, SigBufSize})
<1>1. 0 <= r.len /\ r.got \in BOOLEAN
  BY DEF Reply, RplMax
<1>2. r.len \in Int /\ SigBufSize \in Int
  BY DEF Reply, RplMax, SigBufSize
<1>5. kept = IF r.len <= SigBufSize THEN r.len ELSE SigBufSize
  BY <1>2, MinOfTwo, Zenon
<1> HIDE DEF kept
<1>3. kept \in 0 .. 120
  BY <1>1, <1>2, <1>5 DEF SigBufSize
<1>4. LET chunk == [segment |-> 0, len |-> kept, got |-> r.got]
      IN  chunk \in Chunks /\ chunk.segment = 0 /\ ~(chunk.len > LplMax)
  BY <1>1, <1>3 DEF Chunks, LplMax, RplMax
<1> QED BY <1>4 DEF kept

\* Digest and signature.
LEMMA SignatureStep ==
  ASSUME ReplyInv, CertificateInv, cmis_cdb_set_digest \/ cmis_cdb_get_signature
  PROVE  ReplyInv' /\ CertificateInv'
<1> USE DEF cmis_cdb_set_digest, cmis_cdb_get_signature, Leave
<1>1. Moves
  BY CalledShows DEF Moves, Due
<1>2. CASE cmis_cdb_set_digest
  <2>1. CertificateInv'
    BY <1>1, <1>2, CertificateKept DEF CertificateInv
  <2> QED BY <1>2, <2>1 DEF ReplyInv
<1>3. CASE cmis_cdb_get_signature
  <2>1. ReplyUsed
    <3>1. CASE rpl' = NoReply /\ top' = -1
      BY <3>1, NothingUsed
    <3>2. ASSUME NEW r \in Reply, rpl' = r, top' = Min({r.len, SigBufSize}) - 1
          PROVE  ReplyUsed
      <4>1. /\ r.len \in Int /\ 0 <= r.len
            /\ Min({r.len, SigBufSize}) = IF r.len <= 120 THEN r.len ELSE 120
        BY ReplyLen, MinOfTwo DEF SigBufSize
      <4> QED BY <3>2, <4>1 DEF ReplyUsed
    <3> QED BY <1>3, <3>1, <3>2, RepliesType
  <2>2. /\ todo # <<>> /\ todo' = Tail(todo) /\ UNCHANGED <<index, certs, segment, total, certLen>>
        /\ ret' \in {-1, 0}
    BY <1>3 DEF Due
  <2>3. ~CertificateDue'
    <3>1. todo' # todo
      BY <2>2 DEF CertificateInv
    <3> QED BY <1>1, <3>1, AgendaKept
  <2>4. InOrder(buf')
    <3>1. CASE UNCHANGED buf
      BY <3>1 DEF CertificateInv, CertificateInOrder, InOrder
    <3>2. ASSUME NEW r \in Reply,
                 buf' = <<[segment |-> 0, len |-> Min({r.len, SigBufSize}), got |-> r.got]>>
          PROVE  InOrder(buf')
      <4> DEFINE chunk == [segment |-> 0, len |-> Min({r.len, SigBufSize}), got |-> r.got]
      <4>1. chunk \in Chunks /\ chunk.segment = 0 /\ ~(chunk.len > LplMax)
        BY SignatureChunk
      <4> HIDE DEF chunk
      <4>2. buf' \in Seq(Chunks) /\ Len(buf') = 1 /\ buf'[1] = chunk
        BY <3>2, <4>1 DEF chunk
      <4> QED BY <4>1, <4>2 DEF InOrder
    <3> QED BY <1>3, <3>1, <3>2, RepliesType
  <2>5. CertificateInOrder' /\ buf' \in Seq(Chunks)
    BY <2>4 DEF InOrder, CertificateInOrder
  <2>6. CertificateInv'
    BY <1>1, <2>2, <2>3, <2>5, AgendaKept DEF CertificateInv
  <2> QED BY <1>3, <2>1, <2>6 DEF ReplyInv, ReplyUsed, Reply
<1> QED BY <1>2, <1>3

\* Certificates and signatures leave the walks alone.
LEMMA SecurityStep ==
  ASSUME QueriesInv, SecurityNext, UNCHANGED <<pm, cage>>
  PROVE  QueriesInv'
<1>1. walk = NoWalk /\ shown = {}
  BY OutsideWalks
  DEF QueriesInv, SecurityNext, WalkShows, cmis_cdb_show_certificates, cmis_cdb_get_certificate,
      CertificateCommandFails, CertificateSegment, Reading, cmis_cdb_set_digest, cmis_cdb_get_signature
<1>2. FeaturesInv' /\ WalkInv' /\ RecordsInPlace'
  BY <1>1, WalksKept DEF QueriesInv
<1>3. ReplyInv' /\ CertificateInv'
  BY CertificatesBegin, CertificateStep, SignatureStep DEF QueriesInv, SecurityNext
<1> QED BY <1>2, <1>3 DEF QueriesInv

-----------------------------------------------------------------------------
\* The walks.

Records ==
  {<<1, "SNR">>, <<2, "PAM4 LTP">>, <<2, "LTP">>, <<4, "Pre-FEC BER">>, <<1, "Temperature">>,
   <<2, "Vcc">>, <<1, "FERC">>, <<2, "Pre-FEC BER">>, <<16, "Tx Bias">>, <<32, "Tx Power">>,
   <<64, "Rx Power">>, <<128, "Laser Temp">>}

\* The records that a walk takes.
LEMMA AskedType ==
  /\ \A value : HostObservables(value) \in Seq(Records) /\ MediaObservables(value) \in Seq(Records)
  /\ \A kind \in WalkShows : Asked(kind) \in Seq(Records)
<1>1. ASSUME NEW value, NEW bit, NEW name, <<bit, name>> \in Records
      PROVE  IfSet(value, bit, name) \in Seq(Records)
  BY <1>1 DEF IfSet
<1>2. <<<<16, "Tx Bias">>, <<32, "Tx Power">>, <<64, "Rx Power">>, <<128, "Laser Temp">>>> \in Seq(Records)
  BY DEF Records
<1>3. \A a, b \in Seq(Records) : a \o b \in Seq(Records)
  OBVIOUS
<1>4. ASSUME NEW value
      PROVE  HostObservables(value) \in Seq(Records)
  <2>1. /\ IfSet(value, 1, "SNR") \in Seq(Records)
        /\ IfSet(value, 2, "PAM4 LTP") \in Seq(Records)
        /\ IfSet(value, 4, "Pre-FEC BER") \in Seq(Records)
    <3>1. <<1, "SNR">> \in Records /\ <<2, "PAM4 LTP">> \in Records /\ <<4, "Pre-FEC BER">> \in Records
      BY DEF Records
    <3> QED BY <1>1, <3>1, Zenon
  <2> QED BY <1>3, <2>1 DEF HostObservables
<1>5. ASSUME NEW value
      PROVE  MediaObservables(value) \in Seq(Records)
  <2>1. /\ IfSet(value, 1, "SNR") \in Seq(Records)
        /\ IfSet(value, 2, "LTP") \in Seq(Records)
    <3>1. <<1, "SNR">> \in Records /\ <<2, "LTP">> \in Records
      BY DEF Records
    <3> QED BY <1>1, <3>1, Zenon
  <2> QED BY <1>2, <1>3, <2>1 DEF MediaObservables
<1>6. ModuleObservables \in Seq(Records) /\ DpObservables \in Seq(Records)
  BY DEF ModuleObservables, DpObservables, Records
<1> QED BY <1>4, <1>5, <1>6 DEF Asked, WalkShows

\* The end of the reply cuts a pass at the last record it has room for.
LEMMA HeldFits ==
  ASSUME NEW kind \in WalkShows, rpl \in Reply,
         walk \in [off : 1 .. rpl.len, lane : 1 .. MaxLane, size : {6, 8}]
  PROVE  /\ Held(kind) \in 0 .. Len(Asked(kind))
         /\ walk.off + Held(kind) * walk.size <= rpl.len
         /\ Held(kind) < Len(Asked(kind)) => walk.off + Held(kind) * walk.size + walk.size > rpl.len
<1> DEFINE L == Len(Asked(kind))
           room == (rpl.len - walk.off) \div walk.size
<1>1. L \in Nat
  BY AskedType
<1>2. rpl.len \in Int /\ walk.off \in 1 .. rpl.len /\ walk.size \in {6, 8}
  BY DEF Reply
<1>3. /\ room \in Nat /\ walk.off + room * walk.size <= rpl.len
      /\ walk.off + room * walk.size + walk.size > rpl.len
  <2>1. CASE walk.size = 6
    BY <1>2, <2>1
  <2>2. CASE walk.size = 8
    BY <1>2, <2>2
  <2> QED BY <1>2, <2>1, <2>2
<1> HIDE DEF L, room
<1>4. Min({L, room}) = IF L <= room THEN L ELSE room
  BY <1>1, <1>3, MinOfTwo
<1>5. Held(kind) = IF L <= room THEN L ELSE room
  BY <1>4 DEF Held, L, room
<1>6. L <= room => walk.off + L * walk.size <= rpl.len
  <2>1. CASE walk.size = 6
    BY <1>1, <1>2, <1>3, <2>1
  <2>2. CASE walk.size = 8
    BY <1>1, <1>2, <1>3, <2>2
  <2> QED BY <1>2, <2>1, <2>2
<1>7. Held(kind) \in 0 .. L /\ Held(kind) < L => Held(kind) = room
  BY <1>1, <1>3, <1>5
<1> QED BY <1>1, <1>3, <1>5, <1>6 DEF L

\* What the lanes before have taken, and this one.
LEMMA LaneTaken ==
  ASSUME NEW lane \in Int, NEW L \in Nat, NEW size \in {6, 8}
  PROVE  1 + ((lane - 1) * L) * size + L * size = 1 + (((lane + 1) - 1) * L) * size
<1>1. lane * L = (lane - 1) * L + L
  OBVIOUS
<1>2. (lane - 1) * L \in Int /\ lane * L \in Int /\ (lane + 1) - 1 = lane
  OBVIOUS
<1> DEFINE before == (lane - 1) * L
           after == lane * L
<1>3. 1 + before * size + L * size = 1 + after * size
  <2>1. before \in Int /\ after \in Int /\ after = before + L
    BY <1>1, <1>2
  <2> HIDE DEF before, after
  <2>2. CASE size = 6
    BY <2>1, <2>2
  <2>3. CASE size = 8
    BY <2>1, <2>3
  <2> QED BY <2>2, <2>3
<1> QED BY <1>2, <1>3

\* A walk finds no record for a lane past the forty-second: the reply ends before.
LEMMA LaneWithinReply ==
  ASSUME NEW lane \in 1 .. MaxLane, NEW L \in Nat, NEW size \in {6, 8}, NEW off \in Nat,
         off = 1 + ((lane - 1) * L) * size, off + size <= RplMax, L # 0
  PROVE  (lane % MaxLane) + 1 = lane + 1
<1>1. CASE lane = 43
  <2>1. (lane - 1) * L = 42 * L /\ 42 * L >= 42
    BY <1>1
  <2>2. off >= 1 + 42 * 6
    BY <2>1
  <2> QED BY <2>2 DEF RplMax
<1>2. CASE lane \in 1 .. 42
  BY <1>2 DEF MaxLane
<1> QED BY <1>1, <1>2 DEF MaxLane

\* One pass of a walk.
PassOf(kind) ==
  /\ Due(kind) /\ walk # NoWalk /\ Pass(kind)
  /\ UNCHANGED <<todo, rpl, feat, mod>>
  /\ walk.off + walk.size <= rpl.len \/ walk.lane = 1

\* A pass over the records that a reply holds stays within it, and a record that is
\* shown is in its own place.
LEMMA PassMoves ==
  ASSUME ReplyInv, WalkInv, NEW kind \in WalkShows, PassOf(kind)
  PROVE  /\ WalkInv'
         /\ top' \in Int /\ -1 <= top' /\ top' < rpl'.len
         /\ Held(kind) > 0 => walk.off = 1 + ((walk.lane - 1) * Len(Asked(kind))) * walk.size
<1> DEFINE L == Len(Asked(kind))
           n == Held(kind)
           off == walk.off
           size == walk.size
           lane == walk.lane
<1>1. kind = Head(todo) /\ todo # <<>> /\ walk # NoWalk
  BY DEF PassOf, Due
<1>2. walk \in [off : 1 .. rpl.len, lane : 1 .. MaxLane, size : {6, 8}]
  BY <1>1 DEF WalkInv
<1>3. rpl \in Reply /\ rpl.len \in Int /\ rpl.len <= RplMax
  BY DEF ReplyInv, Reply, RplMax
<1>4. /\ L \in Nat /\ n \in 0 .. L /\ off \in 1 .. rpl.len /\ lane \in 1 .. MaxLane /\ size \in {6, 8}
      /\ off + n * size <= rpl.len
      /\ n < L => off + n * size + size > rpl.len
  BY <1>2, <1>3, HeldFits, AskedType
<1>5. \/ off = 1 + ((lane - 1) * L) * size
      \/ off + size > rpl.len
  BY <1>1 DEF WalkInv
<1>6. walk' = [off |-> off + n * size, lane |-> (lane % MaxLane) + 1, size |-> size]
  BY <1>2 DEF PassOf, Pass
<1>7. top' = off + n * size - 1
  BY DEF PassOf, Pass
<1>8. UNCHANGED <<todo, rpl, feat, mod>>
  BY DEF PassOf
<1>9. Asked(kind)' = Asked(kind)
  BY <1>8 DEF Asked
<1> HIDE DEF L, n, off, size, lane
<1>10. n * size \in Nat /\ (n = 0 => n * size = 0) /\ (n > 0 => n * size >= size)
  <2>1. CASE size = 6
    BY <1>4, <2>1
  <2>2. CASE size = 8
    BY <1>4, <2>2
  <2> QED BY <1>4, <2>1, <2>2
<1>11. n > 0 => off + size <= rpl.len
  BY <1>3, <1>4, <1>10
<1>12. n > 0 => off = 1 + ((lane - 1) * L) * size
  BY <1>3, <1>4, <1>5, <1>11
<1>13. off + n * size = 1 + ((((lane % MaxLane) + 1) - 1) * L) * size
       \/ off + n * size + size > rpl.len
  <2>1. CASE n < L
    BY <1>4, <2>1
  <2>2. CASE n = L /\ L = 0
    <3>1. n * size = 0 /\ off = off + n * size
      BY <1>4, <1>10, <2>2
    <3>2. CASE off + size > rpl.len
      BY <3>1, <3>2
    <3>3. CASE off = 1 + ((lane - 1) * L) * size
      <4>1. ((lane - 1) * L) * size = 0 /\ ((((lane % MaxLane) + 1) - 1) * L) * size = 0
        BY <1>4, <2>2 DEF MaxLane
      <4> QED BY <3>1, <3>3, <4>1
    <3> QED BY <1>5, <3>2, <3>3
  <2>3. CASE n = L /\ L # 0
    <3>1. off = 1 + ((lane - 1) * L) * size /\ off + size <= RplMax
      BY <1>3, <1>4, <1>11, <1>12, <2>3 DEF RplMax
    <3>2. (lane % MaxLane) + 1 = lane + 1
      <4>1. off \in Nat
        BY <1>3, <1>4
      <4> QED BY <1>4, <2>3, <3>1, <4>1, LaneWithinReply
    <3>3. off + L * size = 1 + (((lane + 1) - 1) * L) * size
      BY <1>4, <3>1, LaneTaken DEF MaxLane
    <3> QED BY <2>3, <3>2, <3>3
  <2> QED BY <1>4, <2>1, <2>2, <2>3
<1>14. /\ walk'.off = off + n * size /\ walk'.size = size /\ walk'.lane = (lane % MaxLane) + 1
       /\ walk' \in [off : 1 .. rpl.len, lane : 1 .. MaxLane, size : {6, 8}]
  <2>1. (lane % MaxLane) + 1 \in 1 .. MaxLane
    BY <1>4 DEF MaxLane
  <2>2. off + n * size \in 1 .. rpl.len
    BY <1>3, <1>4, <1>10
  <2> QED BY <1>4, <1>6, <2>1, <2>2
<1>15. walk' # NoWalk
  BY <1>4, <1>14 DEF NoWalk
<1>16. rpl'.got => walk'.size = RecSize(mod'.current)
  BY <1>1, <1>8, <1>14 DEF WalkInv, size
<1>17. WalkInv'
  <2>1. Head(todo)' = kind /\ Len(Asked(kind))' = L
    BY <1>1, <1>8, <1>9 DEF L
  <2> QED BY <1>1, <1>8, <1>13, <1>14, <1>15, <1>16, <2>1 DEF WalkInv
<1>18. top' \in Int /\ -1 <= top' /\ top' < rpl'.len
  BY <1>3, <1>4, <1>7, <1>8, <1>10
<1> QED BY <1>12, <1>17, <1>18 DEF n, L, off, size, lane

\* When the features and the records were read, the records that are asked for
\* are those the module has.
LEMMA SupportedIsAsked ==
  ASSUME FeaturesInv, NEW kind \in WalkShows, feat.got \/ kind \notin {"host_pm", "media_pm"}
  PROVE  Supported(kind) = Asked(kind)
<1>1. CASE kind = "host_pm"
  BY <1>1 DEF FeaturesInv, Supported, Asked
<1>2. CASE kind = "media_pm"
  BY <1>2 DEF FeaturesInv, Supported, Asked
<1>3. CASE kind \notin {"host_pm", "media_pm"}
  BY <1>3 DEF Supported
<1> QED BY <1>1, <1>2, <1>3

\* What a pass shows is where the module has put it.
LEMMA PassShows ==
  ASSUME ReplyInv, FeaturesInv, WalkInv, NEW kind \in WalkShows, PassOf(kind)
  PROVE  RecordsInPlace'
<1> DEFINE L == Len(Asked(kind))
           n == Held(kind)
           off == walk.off
           size == walk.size
           lane == walk.lane
<1>1. kind = Head(todo) /\ walk # NoWalk /\ todo # <<>>
  BY DEF PassOf, Due
<1>2. walk \in [off : 1 .. rpl.len, lane : 1 .. MaxLane, size : {6, 8}] /\ rpl \in Reply
  BY <1>1 DEF WalkInv, ReplyInv, Reply
<1>3. /\ L \in Nat /\ n \in 0 .. L /\ lane \in 1 .. MaxLane /\ size \in {6, 8}
      /\ n > 0 => off = 1 + ((lane - 1) * L) * size
  BY <1>2, HeldFits, AskedType, PassMoves
<1>4. shown' = {<<lane, Asked(kind)[k][2], off + (k - 1) * size>> : k \in 1 .. n}
  BY DEF PassOf, Pass
<1>5. UNCHANGED <<todo, rpl, feat, mod>>
  BY DEF PassOf
<1> SUFFICES ASSUME rpl.got, feat.got \/ kind \notin {"host_pm", "media_pm"}
             PROVE  \A rec \in shown' : \E k \in 1 .. Len(Supported(kind)) :
                      /\ Supported(kind)[k][2] = rec[2]
                      /\ rec[3] = Place(kind, rec[1], k)
  <2>1. Supported(kind)' = Supported(kind)
    BY <1>5 DEF Supported, Asked
  <2>2. \A lane_, k : Place(kind, lane_, k)' = Place(kind, lane_, k)
    BY <1>5, <2>1 DEF Place
  <2> QED BY <1>1, <1>5, <2>1, <2>2 DEF RecordsInPlace, Due
<1>6. Supported(kind) = Asked(kind)
  BY SupportedIsAsked
<1>7. size = IF mod.current = 1 THEN 8 ELSE 6
  <2>1. size = RecSize(mod.current) /\ mod.current \in {0, 1}
    BY <1>1 DEF WalkInv, FeaturesInv
  <2> QED BY <2>1 DEF RecSize, Bit
<1>8. ASSUME NEW k \in 1 .. n
      PROVE  off + (k - 1) * size = Place(kind, lane, k)
  <2> HIDE DEF L, n, off, size, lane
  <2>1. Place(kind, lane, k) = 1 + ((lane - 1) * L + k - 1) * size
    BY <1>6, <1>7 DEF Place, L
  <2> DEFINE before == (lane - 1) * L
  <2>2. before \in Int /\ k \in Int /\ off = 1 + before * size
    BY <1>3 DEF MaxLane
  <2>3. Place(kind, lane, k) = 1 + (before + k - 1) * size
    BY <2>1
  <2> HIDE DEF before
  <2>4. CASE size = 6
    BY <2>2, <2>3, <2>4
  <2>5. CASE size = 8
    BY <2>2, <2>3, <2>5
  <2> QED BY <1>3, <2>4, <2>5
<1>9. ASSUME NEW k \in 1 .. n
      PROVE  k \in 1 .. Len(Supported(kind))
  <2> HIDE DEF n
  <2> QED BY <1>3, <1>6
<1> HIDE DEF L, n, off, size, lane
<1> QED BY <1>4, <1>6, <1>8, <1>9

\* The head of the walks.
LEMMA BeginWalkStep ==
  ASSUME QueriesInv, NEW kind \in WalkShows, NEW shortest \in {1, 2}, NEW told,
         BeginWalk(kind, shortest, told)
  PROVE  ReplyInv' /\ FeaturesInv' /\ WalkInv' /\ RecordsInPlace' /\ Moves
<1> USE DEF QueriesInv
<1>1. Due(kind) /\ walk = NoWalk /\ shown' = {} /\ UNCHANGED <<mode, json, ret, feat, mod>>
  BY DEF BeginWalk
<1>2. FeaturesInv' /\ RecordsInPlace'
  BY <1>1 DEF FeaturesInv, RecordsInPlace
<1>3. CASE rpl' = NoReply /\ top' = -1 /\ walk' = NoWalk /\ todo' = Tail(todo)
  <2>1. ReplyUsed
    BY <1>3, NothingUsed
  <2> QED BY <1>1, <1>2, <1>3, <2>1 DEF ReplyInv, ReplyUsed, Reply, WalkInv, Moves, Due
<1>4. ASSUME NEW r \in Reply, rpl' = r, top' = -1, walk' = NoWalk, todo' = Tail(todo)
      PROVE  ReplyInv' /\ WalkInv' /\ Moves
  <2>1. ReplyUsed
    BY <1>4, ReplyLen DEF ReplyUsed
  <2> QED BY <1>1, <1>4, <2>1 DEF ReplyInv, ReplyUsed, Reply, WalkInv, Moves, Due
<1>5. ASSUME NEW r \in Reply, rpl' = r, r.len >= shortest, top' = 0, UNCHANGED todo,
             NEW type \in Byte(r, mod.current), walk' = [off |-> 1, lane |-> 1, size |-> RecSize(type)]
      PROVE  ReplyInv' /\ WalkInv' /\ Moves
  <2>1. ReplyUsed
    BY <1>5, ReplyLen DEF ReplyUsed
  <2>2. RecSize(type) \in {6, 8}
    BY DEF RecSize
  <2>3. r.got => type = mod.current
    BY DEF Byte
  <2>4. 1 \in 1 .. r.len
    BY <1>5, ReplyLen
  <2>5. Len(Asked(kind)) \in Nat /\ Asked(kind)' = Asked(kind)
    BY <1>1, AskedType DEF Asked
  <2>6. /\ walk' \in [off : 1 .. r.len, lane : 1 .. MaxLane, size : {6, 8}]
        /\ walk'.off = 1 /\ walk'.lane = 1 /\ walk'.size = RecSize(type)
    BY <1>5, <2>2, <2>4 DEF MaxLane
  <2>7. walk' # NoWalk
    BY <2>2, <2>6 DEF NoWalk
  <2>8. 1 = 1 + ((1 - 1) * Len(Asked(kind))) * RecSize(type)
    BY <2>2, <2>5
  <2>9. Head(todo)' = kind /\ todo' # <<>>
    BY <1>1, <1>5 DEF Due
  <2>10. rpl'.got => walk'.size = RecSize(mod'.current)
    BY <1>1, <1>5, <2>3, <2>6
  <2>11. WalkInv'
    BY <1>5, <2>5, <2>6, <2>7, <2>8, <2>9, <2>10 DEF WalkInv
  <2> QED BY <1>1, <1>5, <2>1, <2>11 DEF ReplyInv, ReplyUsed, Reply, Moves
<1> QED BY <1>2, <1>3, <1>4, <1>5, RepliesType DEF BeginWalk, Ask, Leave

\* A pass, or the end of the walk.
LEMMA WalkOnStep ==
  ASSUME QueriesInv, NEW kind \in WalkShows, InWalk(kind),
         UNCHANGED <<mode, json, ret, rpl, feat, mod>>,
         \/ /\ Pass(kind) /\ UNCHANGED todo
            /\ walk.off + walk.size <= rpl.len \/ walk.lane = 1
         \/ EndWalk
  PROVE  ReplyInv' /\ FeaturesInv' /\ WalkInv' /\ RecordsInPlace' /\ Moves
<1> USE DEF QueriesInv
<1>1. FeaturesInv'
  BY DEF FeaturesInv
<1>2. CASE Pass(kind) /\ UNCHANGED todo /\ (walk.off + walk.size <= rpl.len \/ walk.lane = 1)
  <2>1. PassOf(kind)
    BY <1>2 DEF PassOf, InWalk
  <2>2. WalkInv' /\ RecordsInPlace' /\ top' \in Int /\ -1 <= top' /\ top' < rpl'.len
    BY <2>1, PassMoves, PassShows
  <2> QED BY <1>1, <1>2, <2>2 DEF ReplyInv, Moves
<1>3. CASE EndWalk
  <2>1. Moves
    BY <1>3 DEF EndWalk, Leave, InWalk, Due, Moves
  <2>2. walk' = NoWalk /\ shown' = {} /\ UNCHANGED top
    BY <1>3 DEF EndWalk
  <2> QED BY <1>1, <2>1, <2>2 DEF ReplyInv, WalkInv, RecordsInPlace
<1> QED BY <1>2, <1>3

\* The features that the walks rely on.
LEMMA PmFeaturesStep ==
  ASSUME QueriesInv, cdb_show_pm_features
  PROVE  ReplyInv' /\ FeaturesInv' /\ WalkInv' /\ RecordsInPlace' /\ Moves
<1> USE DEF QueriesInv, cdb_show_pm_features, Leave
<1>1. walk = NoWalk /\ shown = {} /\ UNCHANGED <<mode, json, ret, walk, shown, mod>>
  BY OutsideWalks DEF WalkShows
<1>2. Moves
  BY DEF Moves, Due
<1>3. WalkInv' /\ RecordsInPlace'
  BY <1>1 DEF WalkInv, RecordsInPlace
<1>4. CASE /\ UNCHANGED feat
           /\ \/ rpl' = NoReply /\ top' = -1
              \/ \E r \in Reply : rpl' = r /\ top' = -1
  <2>1. ReplyUsed
    BY <1>4, NothingUsed, ReplyLen DEF ReplyUsed
  <2> QED BY <1>1, <1>2, <1>3, <1>4, <2>1 DEF ReplyInv, ReplyUsed, Reply, FeaturesInv
<1>5. ASSUME NEW r \in Reply, rpl' = r, r.len >= 2, top' = 1,
             NEW h \in Byte(r, mod.host), NEW m \in Byte(r, mod.media),
             feat' = [host |-> h, media |-> m, got |-> r.got]
      PROVE  ReplyInv' /\ FeaturesInv'
  <2>1. ReplyUsed
    BY <1>5, ReplyLen DEF ReplyUsed
  <2>2. h \in 0 .. 255 /\ m \in 0 .. 255 /\ r.got \in BOOLEAN
    <3>1. Garbage \subseteq 0 .. 255
      BY QueryAssumption DEF QueryAssumption
    <3>2. mod.host \in 0 .. 255 /\ mod.media \in 0 .. 255
      BY DEF FeaturesInv
    <3>3. r.got \in BOOLEAN
      BY DEF Reply
    <3> QED BY <3>1, <3>2, <3>3 DEF Byte
  <2>3. r.got => h = mod.host /\ m = mod.media
    BY <1>5 DEF Byte
  <2>4. FeaturesInv'
    BY <1>1, <1>5, <2>2, <2>3 DEF FeaturesInv
  <2> QED BY <1>1, <2>1, <2>4 DEF ReplyInv, ReplyUsed, Reply
<1> QED BY <1>2, <1>3, <1>4, <1>5, RepliesType

\* Performance monitoring leaves the certificates alone.
LEMMA PmStep ==
  ASSUME QueriesInv, PmNext, UNCHANGED <<security, cage>>
  PROVE  QueriesInv'
<1>1. ReplyInv' /\ FeaturesInv' /\ WalkInv' /\ RecordsInPlace' /\ Moves
  <2>1. CASE cmis_cdb_show_pm
    <3> USE <2>1 DEF cmis_cdb_show_pm
    <3>1. walk = NoWalk /\ shown = {}
      BY OutsideWalks DEF QueriesInv, WalkShows
    <3>2. FeaturesInv' /\ WalkInv' /\ RecordsInPlace'
      BY <3>1, WalksKept DEF QueriesInv
    <3>3. Moves
      BY CalledShows, Zenon DEF Moves
    <3> QED BY <3>2, <3>3 DEF QueriesInv, ReplyInv
  <2>2. CASE cdb_show_pm_features
    BY <2>2, PmFeaturesStep
  <2>3. CASE cdb_show_module_pm
    <3>1. CASE BeginWalk("module_pm", 1, <<"fields">>)
      BY <3>1, BeginWalkStep DEF WalkShows
    <3>2. CASE /\ InWalk("module_pm")
               /\ IF walk.lane = 1 THEN Pass("module_pm") /\ UNCHANGED todo ELSE EndWalk
               /\ UNCHANGED <<mode, json, ret, rpl, feat, mod>>
      BY <3>2, WalkOnStep DEF WalkShows
    <3> QED BY <2>3, <3>1, <3>2 DEF cdb_show_module_pm
  <2>4. ASSUME NEW kind \in WalkShows, Loop(kind)
        PROVE  ReplyInv' /\ FeaturesInv' /\ WalkInv' /\ RecordsInPlace' /\ Moves
    BY <2>4, WalkOnStep DEF Loop
  <2>5. CASE cdb_show_host_pm
    <3>1. CASE /\ Due("host_pm") /\ feat.host = 0 /\ walk = NoWalk
               /\ Leave({out})
               /\ UNCHANGED <<mode, json, ret, rpl, top, pm>>
      <4>1. Moves
        BY <3>1 DEF Moves, Due, Leave
      <4>2. shown = {}
        BY <3>1 DEF QueriesInv, WalkInv
      <4> QED BY <3>1, <4>1, <4>2, WalksKept DEF QueriesInv, ReplyInv
    <3>2. CASE BeginWalk("host_pm", 2, <<>>)
      BY <3>2, BeginWalkStep DEF WalkShows
    <3> QED BY <2>4, <2>5, <3>1, <3>2 DEF cdb_show_host_pm, WalkShows
  <2>6. CASE cdb_show_media_pm
    BY <2>4, <2>6, BeginWalkStep DEF cdb_show_media_pm, WalkShows
  <2>7. CASE cdb_show_dp_pm
    BY <2>4, <2>7, BeginWalkStep DEF cdb_show_dp_pm, WalkShows
  <2> QED BY <2>1, <2>2, <2>3, <2>5, <2>6, <2>7 DEF PmNext
<1>2. CertificateInv'
  BY <1>1, CertificateKept DEF QueriesInv, CertificateInv, security
<1> QED BY <1>1, <1>2 DEF QueriesInv

-----------------------------------------------------------------------------

\* A program that has just started.
LEMMA QueriesInit == Init => QueriesInv
<1> SUFFICES ASSUME Init PROVE QueriesInv
  OBVIOUS
<1> USE DEF Init
<1>1. ReplyInv
  BY DEF ReplyInv, NoReply, RplMax
<1>2. FeaturesInv
  <2>1. mod \in [host : 0 .. 255, media : 0 .. 255, current : {0, 1}]
    BY PmAssumption DEF PmAssumption, PmInit
  <2>2. feat = NoFeatures /\ NoFeatures \in [host : 0 .. 255, media : 0 .. 255, got : BOOLEAN]
    BY DEF PmInit, NoFeatures
  <2> QED BY <2>1, <2>2 DEF FeaturesInv, NoFeatures
<1>3. WalkInv /\ RecordsInPlace
  BY DEF PmInit, WalkInv, RecordsInPlace
<1>4. CertificateInv
  <2>1. todo \in Seq(Shows) /\ \A i \in 2 .. Len(todo) : todo[i] \notin {"certificates", "cert_file"}
    <3>1. \/ todo = <<"set_digest", "get_signature">>
          \/ \E show \in Shows : todo = <<show>>
      BY DEF First, Modes, Shows
    <3>2. CASE todo = <<"set_digest", "get_signature">>
      <4>1. todo \in Seq(Shows) /\ Len(todo) = 2 /\ todo[2] = "get_signature"
        BY <3>2 DEF Shows
      <4> QED BY <4>1
    <3>3. CASE \E show \in Shows : todo = <<show>>
      <4>1. todo \in Seq(Shows) /\ Len(todo) = 1
        BY <3>3
      <4> QED BY <4>1
    <3> QED BY <3>1, <3>2, <3>3
  <2>2. certLen \in Nat /\ certs = -1 /\ index = 0 /\ buf = <<>> /\ segment = 0 /\ total = 0
    BY SecurityAssumption DEF SecurityAssumption, SecurityInit
  <2>3. BufSize \in Nat /\ 0 < BufSize
    BY SecurityAssumption DEF SecurityAssumption, LplMax
  <2> QED BY <2>1, <2>2, <2>3 DEF CertificateInv, CertificateInOrder, LplMax
<1> QED BY <1>1, <1>2, <1>3, <1>4 DEF QueriesInv

\* Every step of every show.
LEMMA QueriesStep == QueriesInv /\ [Next]_vars => QueriesInv'
<1> SUFFICES ASSUME QueriesInv, [Next]_vars PROVE QueriesInv'
  OBVIOUS
<1>1. CASE PmNext /\ UNCHANGED <<security, cage>> BY <1>1, PmStep
<1>2. CASE FeaturesNext /\ UNCHANGED <<pm, security, cage>> BY <1>2, FeaturesStep
<1>3. CASE SecurityNext /\ UNCHANGED <<pm, cage>> BY <1>3, SecurityStep
<1>4. CASE DisplayNext /\ UNCHANGED <<pm, security>> BY <1>4, DisplayStep
<1>5. CASE CloseShow \/ Exit BY <1>5, EndStep
<1>6. CASE UNCHANGED vars
  <2>1. UNCHANGED <<query, pm, security>>
    BY <1>6 DEF vars
  <2>2. ReplyInv' /\ FeaturesInv'
    BY <2>1 DEF QueriesInv, ReplyInv, FeaturesInv, query, pm
  <2>3. WalkInv'
    <3>1. Asked(Head(todo))' = Asked(Head(todo))
      BY <2>1 DEF Asked, query, pm
    <3> QED BY <2>1, <3>1 DEF QueriesInv, WalkInv, query, pm
  <2>4. RecordsInPlace'
    <3>1. Supported(Head(todo))' = Supported(Head(todo))
      BY <2>1 DEF Supported, Asked, query, pm
    <3>2. \A lane, k : Place(Head(todo), lane, k)' = Place(Head(todo), lane, k)
      BY <2>1, <3>1 DEF Place, query, pm
    <3> QED BY <2>1, <3>1, <3>2 DEF QueriesInv, RecordsInPlace, Due, query, pm
  <2>5. CertificateInv'
    BY <2>1, CertificateKept DEF QueriesInv, CertificateInv, Moves, query, security
  <2> QED BY <2>2, <2>3, <2>4, <2>5 DEF QueriesInv
<1> QED BY <1>1, <1>2, <1>3, <1>4, <1>5, <1>6 DEF Next

-----------------------------------------------------------------------------
\* The documents: what a sequence of calls does to an output, call by call.

Perform(outs, call) ==
  FoldLeft(LAMBDA ps, step : {WriterStep(p, step) : p \in ps}, outs, Calls[call])

\* One pass of either fold of Play: over the calls, or over the steps of one.
OnePass(over, outs, next) ==
  IF over = "calls" THEN Perform(outs, next) ELSE {WriterStep(p, next) : p \in outs}

\* What a fold makes of the first places of its sequence, given for fewer by g.
Folded(over, base, seq, m, g) ==
  [s \in SUBSET (1 .. m) |->
     IF s = {} THEN base ELSE OnePass(over, g[s \ {Max(s)}], seq[Max(s)])]

\* The results r of the passes one by one.
Run(over, base, seq, n, r) ==
  /\ r[0] = base
  /\ \A k \in 1 .. n : r[k] = OnePass(over, r[k - 1], seq[k])

\* Induction over the numbers, for a set of them.
LEMMA Induction ==
  ASSUME NEW T, 0 \in T, \A n \in Nat : n \in T => n + 1 \in T
  PROVE  Nat \subseteq T
<1> SUFFICES ASSUME Nat \ T # {} PROVE FALSE
  OBVIOUS
<1>1. PICK x \in Nat \ T : \A y \in Nat \ T : ~ (<<y, x>> \in OpToRel(<, Nat))
  BY WFMin, NatLessThanWellFounded
<1>2. \A y \in Nat \ T : ~ (y < x)
  BY <1>1 DEF OpToRel
<1>3. x - 1 \in Nat
  OBVIOUS
<1>4. x - 1 \in T
  BY <1>2, <1>3
<1> QED BY <1>3, <1>4

\* The greatest of some of the first places.
LEMMA MaxOfInterval ==
  ASSUME NEW n \in Nat, NEW s \in SUBSET (1 .. n + 1), s # {}
  PROVE  /\ Max(s) \in s
         /\ n + 1 \in s => Max(s) = n + 1
         /\ n + 1 \notin s => s \in SUBSET (1 .. n)
<1>1. n + 1 \in Int /\ s \in SUBSET Int /\ \A x \in s : x <= n + 1
  OBVIOUS
<1>2. Max(s) \in s /\ \A x \in s : Max(s) >= x
  <2> HIDE DEF Max
  <2> QED BY <1>1, MaxIsOne
<1>3. n + 1 \in s => Max(s) = n + 1
  <2>1. Max(s) \in Int /\ Max(s) <= n + 1
    BY <1>1, <1>2
  <2>2. n + 1 \in s => Max(s) >= n + 1
    BY <1>2
  <2> HIDE DEF Max
  <2> QED BY <2>1, <2>2
<1>4. n + 1 \notin s => s \in SUBSET (1 .. n)
  <2> SUFFICES ASSUME n + 1 \notin s, NEW x \in s PROVE x \in 1 .. n
    OBVIOUS
  <2>1. x \in 1 .. n + 1 /\ x # n + 1
    OBVIOUS
  <2> QED BY <2>1
<1> QED BY <1>2, <1>3, <1>4

\* The fold of FoldLeft, which the library chooses among the functions that satisfy
\* its equation, exists for every number of places.
LEMMA FoldDefined ==
  ASSUME NEW over, NEW base, NEW seq, NEW n \in Nat
  PROVE  \E g : g = Folded(over, base, seq, n, g)
<1> DEFINE Defined == {m \in Nat : \E g : g = Folded(over, base, seq, m, g)}
<1>1. 0 \in Defined
  <2> DEFINE g == [s \in SUBSET (1 .. 0) |-> base]
  <2>1. g = Folded(over, base, seq, 0, g)
    <3>1. \A s \in SUBSET (1 .. 0) : s = {}
      OBVIOUS
    <3> QED BY <3>1 DEF Folded
  <2> QED BY <2>1
<1>2. ASSUME NEW m \in Nat, m \in Defined PROVE m + 1 \in Defined
  <2>1. PICK g : g = Folded(over, base, seq, m, g)
    BY <1>2
  <2> DEFINE h == [s \in SUBSET (1 .. m + 1) |->
                     IF m + 1 \in s THEN OnePass(over, g[s \ {m + 1}], seq[m + 1]) ELSE g[s]]
  <2>2. \A s \in SUBSET (1 .. m) : h[s] = g[s]
    OBVIOUS
  <2>3. ASSUME NEW s \in SUBSET (1 .. m + 1)
        PROVE  h[s] = IF s = {} THEN base ELSE OnePass(over, h[s \ {Max(s)}], seq[Max(s)])
    <3>1. CASE s = {}
      <4>1. g[{}] = base
        BY <2>1 DEF Folded
      <4> QED BY <4>1, <3>1
    <3>2. CASE m + 1 \in s
      <4>1. Max(s) = m + 1 /\ s \ {m + 1} \in SUBSET (1 .. m)
        BY <3>2, MaxOfInterval
      <4>2. h[s] = OnePass(over, g[s \ {m + 1}], seq[m + 1])
        BY <3>2
      <4> HIDE DEF h
      <4> QED BY <3>2, <4>1, <4>2, <2>2
    <3>3. CASE s # {} /\ m + 1 \notin s
      <4>1. s \in SUBSET (1 .. m) /\ Max(s) \in s
        BY <3>3, MaxOfInterval
      <4>2. s \ {Max(s)} \in SUBSET (1 .. m)
        BY <4>1
      <4>3. h[s] = g[s] /\ h[s \ {Max(s)}] = g[s \ {Max(s)}]
        BY <4>1, <4>2, <2>2
      <4>4. g[s] = OnePass(over, g[s \ {Max(s)}], seq[Max(s)])
        BY <2>1, <4>1, <3>3 DEF Folded
      <4> QED BY <4>3, <4>4, <3>3
    <3> QED BY <3>1, <3>2, <3>3
  <2>4. h = Folded(over, base, seq, m + 1, h)
    BY <2>3 DEF Folded
  <2>5. \E f : f = Folded(over, base, seq, m + 1, f)
    <3> HIDE DEF h
    <3> QED BY <2>4
  <2>6. m + 1 \in Nat
    OBVIOUS
  <2> QED BY <2>5, <2>6
<1>3. n \in Defined
  <2> HIDE DEF Defined
  <2> QED BY <1>1, <1>2, Induction
<1> QED BY <1>3

\* Its value for the first n places is the last result of n passes, one by one.
LEMMA FoldRuns ==
  \A over, base, seq, g : \A n \in Nat :
    g = Folded(over, base, seq, n, g) =>
      \E r : Run(over, base, seq, n, r) /\ g[1 .. n] = r[n]
<1> SUFFICES ASSUME NEW over, NEW base, NEW seq, NEW g, NEW n \in Nat,
                    g = Folded(over, base, seq, n, g)
             PROVE  \E r : Run(over, base, seq, n, r) /\ g[1 .. n] = r[n]
  OBVIOUS
<1> DEFINE r == [k \in 0 .. n |-> g[1 .. k]]
<1>1. r[0] = base
  BY DEF Folded
<1>2. ASSUME NEW k \in 1 .. n PROVE r[k] = OnePass(over, r[k - 1], seq[k])
  <2>1. k - 1 \in Nat /\ (k - 1) + 1 = k
    OBVIOUS
  <2>2. k \in 1 .. k /\ 1 .. k \in SUBSET (1 .. n)
    OBVIOUS
  <2>3. Max(1 .. k) = k
    <3>1. 1 .. k \in SUBSET (1 .. (k - 1) + 1) /\ 1 .. k # {} /\ (k - 1) + 1 \in 1 .. k
      BY <2>1, <2>2
    <3> HIDE DEF r
    <3> QED BY <2>1, <3>1, MaxOfInterval
  <2>4. (1 .. k) \ {k} = 1 .. (k - 1)
    OBVIOUS
  <2>5. g[1 .. k] = OnePass(over, g[1 .. (k - 1)], seq[k])
    BY <2>2, <2>3, <2>4 DEF Folded
  <2> QED BY <2>5
<1>3. g[1 .. n] = r[n]
  OBVIOUS
<1> QED
  <2>1. Run(over, base, seq, n, r)
    BY <1>1, <1>2 DEF Run
  <2> HIDE DEF r
  <2> QED BY <2>1, <1>3

\* Play runs over the calls.
LEMMA PlayRuns ==
  \A o, calls : \A n \in Nat :
    DOMAIN calls = 1 .. n =>
      \E r : Run("calls", {o}, calls, n, r) /\ Play(o, calls) = r[n]
<1> SUFFICES ASSUME NEW o, NEW calls, NEW n \in Nat, DOMAIN calls = 1 .. n
             PROVE  \E r : Run("calls", {o}, calls, n, r) /\ Play(o, calls) = r[n]
  OBVIOUS
<1> DEFINE Body(g) == [s \in SUBSET (1 .. n) |->
                         IF s = {} THEN {o} ELSE Perform(g[s \ {Max(s)}], calls[Max(s)])]
           iter == CHOOSE g : g = Body(g)
<1>1. \A g : Folded("calls", {o}, calls, n, g) = Body(g)
  BY DEF Folded, OnePass
<1>2. iter = Body(iter)
  <2>1. \E g : g = Body(g)
    <3>1. PICK g : g = Folded("calls", {o}, calls, n, g)
      BY FoldDefined
    <3>2. g = Body(g)
      <4> HIDE DEF Body
      <4> QED BY <1>1, <3>1
    <3> HIDE DEF Body
    <3> QED BY <3>2
  <2> HIDE DEF Body
  <2> QED BY <2>1
<1>3. Play(o, calls) = iter[1 .. n]
  BY DEF Play, FoldLeft, MapThenFoldSet, Perform
<1>4. iter = Folded("calls", {o}, calls, n, iter)
  <2> HIDE DEF iter, Body
  <2> QED BY <1>1, <1>2
<1>5. PICK r : Run("calls", {o}, calls, n, r) /\ iter[1 .. n] = r[n]
  <2> HIDE DEF iter
  <2> QED BY <1>4, FoldRuns
<1> QED
  <2> HIDE DEF iter
  <2> QED BY <1>3, <1>5

\* One call runs over the steps of the writer.
LEMMA PerformRuns ==
  \A outs, call : \A n \in Nat :
    DOMAIN Calls[call] = 1 .. n =>
      \E r : Run("steps", outs, Calls[call], n, r) /\ Perform(outs, call) = r[n]
<1> SUFFICES ASSUME NEW outs, NEW call, NEW n \in Nat, DOMAIN Calls[call] = 1 .. n
             PROVE  \E r : Run("steps", outs, Calls[call], n, r) /\ Perform(outs, call) = r[n]
  OBVIOUS
<1> DEFINE Body(g) == [s \in SUBSET (1 .. n) |->
                         IF s = {} THEN outs
                         ELSE {WriterStep(p, Calls[call][Max(s)]) : p \in g[s \ {Max(s)}]}]
           iter == CHOOSE g : g = Body(g)
<1>1. \A g : Folded("steps", outs, Calls[call], n, g) = Body(g)
  BY DEF Folded, OnePass
<1>2. iter = Body(iter)
  <2>1. \E g : g = Body(g)
    <3>1. PICK g : g = Folded("steps", outs, Calls[call], n, g)
      BY FoldDefined
    <3>2. g = Body(g)
      <4> HIDE DEF Body
      <4> QED BY <1>1, <3>1
    <3> HIDE DEF Body
    <3> QED BY <3>2
  <2> HIDE DEF Body
  <2> QED BY <2>1
<1>3. Perform(outs, call) = iter[1 .. n]
  BY DEF Perform, FoldLeft, MapThenFoldSet
<1>4. iter = Folded("steps", outs, Calls[call], n, iter)
  <2> HIDE DEF iter, Body
  <2> QED BY <1>1, <1>2
<1>5. PICK r : Run("steps", outs, Calls[call], n, r) /\ iter[1 .. n] = r[n]
  <2> HIDE DEF iter
  <2> QED BY <1>4, FoldRuns
<1> QED
  <2> HIDE DEF iter
  <2> QED BY <1>3, <1>5

\* What a call makes of one output.
Called(o, call) ==
  LET c == Calls[call] IN
  CASE Len(c) = 1 -> WriterStep(o, c[1])
    [] Len(c) = 2 -> WriterStep(WriterStep(o, c[1]), c[2])
    [] OTHER -> WriterStep(WriterStep(WriterStep(o, c[1]), c[2]), c[3])

\* A sequence of one, two or three elements.
Short(s) == DOMAIN s = 1 .. Len(s) /\ Len(s) \in 1 .. 3

\* Sequences of at most three steps are functions on their places.
LEMMA ShortSequences ==
  ASSUME NEW a, NEW b, NEW c
  PROVE  Short(<<a>>) /\ Short(<<a, b>>) /\ Short(<<a, b, c>>)
<1>1. Short(<<a>>)
  BY DEF Short
<1>2. Short(<<a, b>>)
  BY DEF Short
<1>3. Short(<<a, b, c>>)
  <2>1. <<a, b, c>> \in Seq({a, b, c})
    OBVIOUS
  <2>2. DOMAIN <<a, b, c>> = 1 .. Len(<<a, b, c>>)
    BY <2>1
  <2>3. Len(<<a, b, c>>) = 3
    OBVIOUS
  <2> QED BY <2>2, <2>3 DEF Short
<1> QED BY <1>1, <1>2, <1>3

\* No call of json_print.c is more than three steps of the writer.
LEMMA CallSteps ==
  ASSUME NEW call \in DOMAIN Calls
  PROVE  DOMAIN Calls[call] = 1 .. Len(Calls[call]) /\ Len(Calls[call]) \in 1 .. 3
<1>1. call \in {"object", "item", "array", "end", "end_array", "fields", "values", "quoted"}
  BY DEF Calls
<1>2. Short(Calls[call])
  <2>1. CASE call = "object"
    <3>1. Calls[call] = <<"ensure", "name", "lbrace">>
      BY <2>1 DEF Calls
    <3> QED BY <3>1, ShortSequences, Zenon
  <2>2. CASE call = "item"
    <3>1. Calls[call] = <<"ensure", "lbrace">>
      BY <2>2 DEF Calls
    <3> QED BY <3>1, ShortSequences, Zenon
  <2>3. CASE call = "array"
    <3>1. Calls[call] = <<"ensure", "name", "lbracket">>
      BY <2>3 DEF Calls
    <3> QED BY <3>1, ShortSequences, Zenon
  <2>4. CASE call = "end"
    <3>1. Calls[call] = <<"rbrace">>
      BY <2>4 DEF Calls
    <3> QED BY <3>1, ShortSequences, Zenon
  <2>5. CASE call = "end_array"
    <3>1. Calls[call] = <<"rbracket">>
      BY <2>5 DEF Calls
    <3> QED BY <3>1, ShortSequences, Zenon
  <2>6. CASE call = "fields"
    <3>1. Calls[call] = <<"name", "value">>
      BY <2>6 DEF Calls
    <3> QED BY <3>1, ShortSequences, Zenon
  <2>7. CASE call = "values"
    <3>1. Calls[call] = <<"value">>
      BY <2>7 DEF Calls
    <3> QED BY <3>1, ShortSequences, Zenon
  <2>8. CASE call = "quoted"
    <3>1. Calls[call] = <<"name", "malformed">>
      BY <2>8 DEF Calls
    <3> QED BY <3>1, ShortSequences, Zenon
  <2> QED BY <1>1, <2>1, <2>2, <2>3, <2>4, <2>5, <2>6, <2>7, <2>8
<1> QED BY <1>2 DEF Short

\* A call is made on every output in the same way.
LEMMA PerformEach ==
  ASSUME NEW outs, NEW call \in DOMAIN Calls
  PROVE  Perform(outs, call) = {Called(o, call) : o \in outs}
<1> DEFINE c == Calls[call]
           n == Len(c)
<1>1. n \in 1 .. 3 /\ DOMAIN Calls[call] = 1 .. n
  BY CallSteps
<1>2. n \in Nat
  <2> HIDE DEF n
  <2> QED BY <1>1
<1> HIDE DEF n, c
<1>3. PICK r : Run("steps", outs, Calls[call], n, r) /\ Perform(outs, call) = r[n]
  BY <1>1, <1>2, PerformRuns
<1>4. /\ r[0] = outs
      /\ \A k \in 1 .. n : r[k] = {WriterStep(p, c[k]) : p \in r[k - 1]}
  BY <1>3 DEF c, Run, OnePass
<1>5. r[1] = {WriterStep(p, c[1]) : p \in outs}
  BY <1>1, <1>3, <1>4
<1>6. CASE n = 1
  <2>1. \A o : Called(o, call) = WriterStep(o, c[1])
    BY <1>6 DEF Called, c, n
  <2> QED BY <2>1, <1>3, <1>5, <1>6
<1>7. CASE n = 2
  <2>1. \A o : Called(o, call) = WriterStep(WriterStep(o, c[1]), c[2])
    BY <1>7 DEF Called, c, n
  <2>2. r[2] = {WriterStep(p, c[2]) : p \in r[1]}
    BY <1>4, <1>7
  <2> QED BY <2>1, <2>2, <1>3, <1>5, <1>7
<1>8. CASE n = 3
  <2>1. \A o : Called(o, call) = WriterStep(WriterStep(WriterStep(o, c[1]), c[2]), c[3])
    BY <1>8 DEF Called, c, n
  <2>2. r[2] = {WriterStep(p, c[2]) : p \in r[1]}
    BY <1>4, <1>8
  <2>3. r[3] = {WriterStep(p, c[3]) : p \in r[2]}
    BY <1>4, <1>8
  <2>4. r[2] = {WriterStep(WriterStep(p, c[1]), c[2]) : p \in outs}
    BY <2>2, <1>5
  <2> QED BY <2>1, <2>3, <2>4, <1>3, <1>8
<1> QED BY <1>1, <1>6, <1>7, <1>8

\* No call, no change.
LEMMA PlayNone == \A o : Play(o, <<>>) = {o}
<1> SUFFICES ASSUME NEW o PROVE Play(o, <<>>) = {o}
  OBVIOUS
<1>1. DOMAIN <<>> = 1 .. 0
  OBVIOUS
<1>2. PICK r : Run("calls", {o}, <<>>, 0, r) /\ Play(o, <<>>) = r[0]
  BY <1>1, PlayRuns
<1> QED BY <1>2 DEF Run

\* One more call is made on what the calls before it have left.
LEMMA PlayAppend ==
  ASSUME NEW o, NEW calls \in Seq(DOMAIN Calls), NEW call \in DOMAIN Calls
  PROVE  \A q : q \in Play(o, Append(calls, call)) <=> \E p \in Play(o, calls) : q = Called(p, call)
<1> DEFINE n == Len(calls)
           more == Append(calls, call)
<1>1. n \in Nat /\ DOMAIN calls = 1 .. n
  OBVIOUS
<1>2. DOMAIN more = 1 .. n + 1 /\ more[n + 1] = call /\ \A k \in 1 .. n : more[k] = calls[k]
  OBVIOUS
<1>3. \E r : Run("calls", {o}, calls, n, r) /\ Play(o, calls) = r[n]
  <2> HIDE DEF n, more
  <2> QED BY <1>1, PlayRuns
<1>4. \E q : Run("calls", {o}, more, n + 1, q) /\ Play(o, more) = q[n + 1]
  <2>1. n + 1 \in Nat
    OBVIOUS
  <2> HIDE DEF n, more
  <2> QED BY <2>1, <1>2, PlayRuns
<1>8. PICK r : /\ r[0] = {o}
               /\ \A k \in 1 .. n : r[k] = Perform(r[k - 1], calls[k])
               /\ Play(o, calls) = r[n]
  BY <1>3 DEF Run, OnePass
<1>9. PICK q : /\ q[0] = {o}
               /\ \A k \in 1 .. n + 1 : q[k] = Perform(q[k - 1], more[k])
               /\ Play(o, more) = q[n + 1]
  BY <1>4 DEF Run, OnePass
<1> HIDE DEF n, more
<1> DEFINE Same == {k \in Nat : k <= n => q[k] = r[k]}
<1>5. n \in Same
  <2>1. 0 \in Same
    BY <1>8, <1>9
  <2>2. ASSUME NEW k \in Nat, k \in Same PROVE k + 1 \in Same
    <3> SUFFICES ASSUME k + 1 <= n PROVE q[k + 1] = r[k + 1]
      OBVIOUS
    <3>1. q[k] = r[k]
      BY <2>2, <1>1
    <3>2. k + 1 \in 1 .. n /\ k + 1 \in 1 .. n + 1 /\ (k + 1) - 1 = k
      BY <1>1
    <3> QED BY <3>1, <3>2, <1>2, <1>8, <1>9
  <2> HIDE DEF Same
  <2> QED BY <1>1, <2>1, <2>2, Induction
<1>6. q[n + 1] = Perform(r[n], call)
  <2>1. n + 1 \in 1 .. n + 1 /\ (n + 1) - 1 = n
    BY <1>1
  <2> QED BY <2>1, <1>1, <1>2, <1>9, <1>5
<1>7. Play(o, more) = Perform(Play(o, calls), call)
  BY <1>8, <1>9, <1>6
<1>10. Play(o, more) = {Called(p, call) : p \in Play(o, calls)}
  BY <1>7, PerformEach
<1> QED BY <1>10 DEF more

Brackets == {"lbrace", "lbracket"}

\* The last tokens of something complete.
Ends == {"value", "rbrace", "rbracket"}

Tokens == {"start", "lbrace", "lbracket", "name", "comma"} \cup Ends

Outputs ==
  [jw : BOOLEAN, hasArray : BOOLEAN, deferred : BOOLEAN, depth : Nat, sep : BOOLEAN,
   open : Seq(Brackets), last : Tokens, valid : BOOLEAN, crashed : BOOLEAN]

\* The text of an output: valid so far, with these brackets open and this token last.
Text(o, s, last) ==
  o \in Outputs /\ o.valid /\ ~o.crashed /\ o.open = s /\ o.last = last

\* A document with a writer: its text, and what the writer knows of it.
Doc(o, s, h, sep, last) ==
  Text(o, s, last) /\ o.jw /\ ~o.deferred /\ o.hasArray = h /\ o.depth = Len(s) /\ o.sep = sep

\* The bracket opened last.
LEMMA LastBracket ==
  ASSUME NEW s \in Seq(Brackets), s # <<>>
  PROVE  Last(s) \in Brackets /\ Len(s) \in Nat /\ Len(s) # 0
BY DEF Last

\* What is allowed next, by the last token.
LEMMA Allowed ==
  ASSUME NEW o, NEW s \in Seq(Brackets), s # <<>>, o.open = s
  PROVE  /\ o.last \in Ends => Expected(o) = {"comma", Closer[Last(s)]}
         /\ o.last = "name" => Expected(o) = Values
         /\ o.last = "lbrace" => Expected(o) = {"name", "rbrace"}
         /\ o.last = "lbracket" => Expected(o) = Values \cup {"rbracket"}
         /\ o.last = "comma" => Expected(o) = IF Last(s) = "lbrace" THEN {"name"} ELSE Values
<1>1. Last(s) # "none"
  BY LastBracket DEF Brackets
<1>3. ASSUME o.last \in Ends PROVE Expected(o) = {"comma", Closer[Last(s)]}
  BY <1>1, <1>3 DEF Expected, Ends
<1>4. ASSUME o.last = "name" PROVE Expected(o) = Values
  BY <1>4 DEF Expected
<1>5. ASSUME o.last = "lbrace" PROVE Expected(o) = {"name", "rbrace"}
  BY <1>5 DEF Expected
<1>6. ASSUME o.last = "lbracket" PROVE Expected(o) = Values \cup {"rbracket"}
  BY <1>6 DEF Expected
<1>7. ASSUME o.last = "comma" PROVE Expected(o) = IF Last(s) = "lbrace" THEN {"name"} ELSE Values
  BY <1>7 DEF Expected
<1> QED BY <1>3, <1>4, <1>5, <1>6, <1>7

\* A document after an allowed token; the writer's depth does not follow yet.
LEMMA PutDoc ==
  ASSUME NEW o, NEW s \in Seq(Brackets), NEW l, Text(o, s, l), NEW t \in Tokens, t \in Expected(o)
  PROVE  /\ Text(Put(o, t), CASE t \in {"lbrace", "lbracket"} -> Append(s, t)
                              [] t \in {"rbrace", "rbracket"} /\ s # <<>> -> Front(s)
                              [] OTHER -> s, t)
         /\ \A f \in {"jw", "hasArray", "deferred", "depth", "sep"} : Put(o, t)[f] = o[f]
<1> DEFINE open == CASE t \in {"lbrace", "lbracket"} -> Append(s, t)
                     [] t \in {"rbrace", "rbracket"} /\ s # <<>> -> Front(s)
                     [] OTHER -> s
<1>1. (o.valid /\ t \in Expected(o)) = TRUE
  <2>1. o.valid
    BY DEF Text
  <2> QED BY <2>1
<1>2. o.open = s /\ o \in Outputs /\ ~o.crashed
  BY DEF Text
<1>3. Put(o, t) = [o EXCEPT !.valid = TRUE, !.last = t, !.open = open]
  BY <1>1, <1>2, Zenon DEF Put
<1>4. open \in Seq(Brackets)
  <2>1. CASE t \in {"lbrace", "lbracket"}
    <3>1. open = Append(s, t)
      BY <2>1
    <3> HIDE DEF open
    <3> QED BY <2>1, <3>1 DEF Brackets
  <2>2. CASE t \in {"rbrace", "rbracket"} /\ s # <<>>
    <3>1. open = Front(s)
      BY <2>2
    <3>2. Front(s) \in Seq(Brackets)
      BY <2>2 DEF Front
    <3> HIDE DEF open
    <3> QED BY <3>1, <3>2
  <2>3. CASE t \notin {"lbrace", "lbracket"} /\ ~ (t \in {"rbrace", "rbracket"} /\ s # <<>>)
    BY <2>3
  <2> QED BY <2>1, <2>2, <2>3
<1> HIDE DEF open
<1>5. Put(o, t) \in Outputs /\ Put(o, t).valid /\ ~Put(o, t).crashed
      /\ Put(o, t).open = open /\ Put(o, t).last = t
  BY <1>2, <1>3, <1>4 DEF Outputs
<1>6. \A f \in {"jw", "hasArray", "deferred", "depth", "sep"} : Put(o, t)[f] = o[f]
  BY <1>2, <1>3 DEF Outputs
<1> QED BY <1>5, <1>6 DEF Text, open

\* Where one more element may follow: after something complete, or right after
\* the bracket.
Element(s, sep, l) ==
  /\ s \in Seq(Brackets) /\ s # <<>>
  /\ IF sep THEN l \in Ends ELSE l = Last(s)

\* jsonw_eor puts a comma where one is due, and only there.
LEMMA Eor ==
  ASSUME NEW o, NEW s, NEW h, NEW sep \in BOOLEAN, NEW l, Element(s, sep, l), Doc(o, s, h, sep, l)
  PROVE  \E x \in {"comma", "lbrace", "lbracket"} :
           /\ x = IF sep THEN "comma" ELSE Last(s)
           /\ Doc(jsonw_eor(o), s, h, TRUE, x)
<1>1. s \in Seq(Brackets) /\ s # <<>> /\ Last(s) \in Brackets /\ o \in Outputs /\ o.sep = sep
      /\ Text(o, s, l)
  BY LastBracket DEF Element, Doc, Text
<1>2. CASE sep
  <2>1. "comma" \in Expected(o)
    BY <1>1, <1>2, Allowed DEF Element, Text
  <2>2. Text(Put(o, "comma"), s, "comma")
    BY <1>1, <2>1, PutDoc DEF Tokens
  <2>3. \A f \in {"jw", "hasArray", "deferred", "depth", "sep"} : Put(o, "comma")[f] = o[f]
    BY <1>1, <2>1, PutDoc DEF Tokens
  <2>4. jsonw_eor(o) = [Put(o, "comma") EXCEPT !.sep = TRUE]
    BY <1>1, <1>2 DEF jsonw_eor
  <2>5. Doc(jsonw_eor(o), s, h, TRUE, "comma")
    BY <2>2, <2>3, <2>4 DEF Doc, Text, Outputs
  <2> QED BY <2>5, <1>2
<1>3. CASE ~sep
  <2>1. jsonw_eor(o) = [o EXCEPT !.sep = TRUE]
    BY <1>1, <1>3 DEF jsonw_eor
  <2>2. Doc(jsonw_eor(o), s, h, TRUE, Last(s))
    BY <1>1, <1>3, <2>1 DEF Doc, Text, Outputs, Element
  <2> QED BY <2>2, <1>1, <1>3 DEF Brackets
<1> QED BY <1>2, <1>3

\* The writer's own fields are set beside the text.
LEMMA Counted ==
  ASSUME NEW o \in Outputs, NEW d \in Nat, NEW sep \in BOOLEAN
  PROVE  LET n == [o EXCEPT !.depth = d, !.sep = sep] IN
         /\ n \in Outputs /\ n.depth = d /\ n.sep = sep
         /\ n.jw = o.jw /\ n.hasArray = o.hasArray /\ n.deferred = o.deferred
         /\ n.open = o.open /\ n.last = o.last /\ n.valid = o.valid /\ n.crashed = o.crashed
BY DEF Outputs

\* A bracket that is opened where it may be.
LEMMA Opened ==
  ASSUME NEW o, NEW s \in Seq(Brackets), NEW h, NEW l, NEW c \in Brackets,
         Doc(o, s, h, TRUE, l), c \in Expected(o)
  PROVE  Doc([Put(o, c) EXCEPT !.depth = @ + 1, !.sep = FALSE], Append(s, c), h, FALSE, c)
<1>1. Text(Put(o, c), Append(s, c), c)
      /\ \A f \in {"jw", "hasArray", "deferred", "depth", "sep"} : Put(o, c)[f] = o[f]
  BY PutDoc DEF Doc, Brackets, Tokens
<1>2. Append(s, c) \in Seq(Brackets) /\ Len(Append(s, c)) = Len(s) + 1 /\ Len(s) \in Nat
  OBVIOUS
<1> DEFINE n == [Put(o, c) EXCEPT !.depth = @ + 1, !.sep = FALSE]
<1>3. Put(o, c) \in Outputs /\ Put(o, c).depth = Len(s)
  BY <1>1 DEF Doc, Text
<1>4. /\ n \in Outputs /\ n.depth = Len(s) + 1 /\ n.sep = FALSE
      /\ n.jw = Put(o, c).jw /\ n.hasArray = Put(o, c).hasArray /\ n.deferred = Put(o, c).deferred
      /\ n.open = Put(o, c).open /\ n.last = Put(o, c).last
      /\ n.valid = Put(o, c).valid /\ n.crashed = Put(o, c).crashed
  <2>1. n = [Put(o, c) EXCEPT !.depth = Len(s) + 1, !.sep = FALSE]
    BY <1>3
  <2>2. Len(s) + 1 \in Nat
    BY <1>2
  <2> HIDE DEF n
  <2> QED BY <1>3, <2>1, <2>2, Counted
<1> HIDE DEF n
<1>5. Doc(n, Append(s, c), h, FALSE, c)
  BY <1>1, <1>2, <1>4 DEF Doc, Text
<1> QED BY <1>5 DEF n

\* In an array.
LEMMA BeginElement ==
  ASSUME NEW o, NEW s, NEW h, NEW sep \in BOOLEAN, NEW l, Element(s, sep, l), Doc(o, s, h, sep, l),
         Last(s) = "lbracket", NEW c \in Brackets
  PROVE  Doc(jsonw_begin(o, c), Append(s, c), h, FALSE, c)
<1>1. s \in Seq(Brackets) /\ s # <<>>
  BY DEF Element
<1>2. PICK x : /\ x = IF sep THEN "comma" ELSE "lbracket"
               /\ Doc(jsonw_eor(o), s, h, TRUE, x)
  BY Eor
<1>3. c \in Expected(jsonw_eor(o))
  BY <1>1, <1>2, Allowed DEF Doc, Text, Values, Brackets
<1> QED BY <1>1, <1>2, <1>3, Opened DEF jsonw_begin

\* After a name.
LEMMA BeginNamed ==
  ASSUME NEW o, NEW s \in Seq(Brackets), s # <<>>, NEW h, Doc(o, s, h, FALSE, "name"), NEW c \in Brackets
  PROVE  Doc(jsonw_begin(o, c), Append(s, c), h, FALSE, c)
<1>1. jsonw_eor(o) = [o EXCEPT !.sep = TRUE]
  BY DEF jsonw_eor, Doc
<1>2. Doc(jsonw_eor(o), s, h, TRUE, "name")
  BY <1>1 DEF Doc, Text, Outputs
<1>3. c \in Expected(jsonw_eor(o))
  BY <1>2, Allowed DEF Doc, Text, Values, Brackets
<1> QED BY <1>2, <1>3, Opened DEF jsonw_begin

\* jsonw_name in an object.
LEMMA Named ==
  ASSUME NEW o, NEW s, NEW h, NEW sep \in BOOLEAN, NEW l, Element(s, sep, l), Doc(o, s, h, sep, l),
         Last(s) = "lbrace"
  PROVE  Doc(jsonw_name(o), s, h, FALSE, "name")
<1>1. s \in Seq(Brackets) /\ s # <<>>
  BY DEF Element
<1>2. PICK x : /\ x = IF sep THEN "comma" ELSE "lbrace"
               /\ Doc(jsonw_eor(o), s, h, TRUE, x)
  BY Eor
<1>3. "name" \in Expected(jsonw_eor(o))
  BY <1>1, <1>2, Allowed DEF Doc, Text
<1>4. Text(Put(jsonw_eor(o), "name"), s, "name")
      /\ \A f \in {"jw", "hasArray", "deferred", "depth", "sep"} :
           Put(jsonw_eor(o), "name")[f] = jsonw_eor(o)[f]
  BY <1>1, <1>2, <1>3, PutDoc DEF Doc, Tokens
<1> QED BY <1>2, <1>4 DEF jsonw_name, Doc, Text, Outputs

\* A value in an array.
LEMMA ValueElement ==
  ASSUME NEW o, NEW s, NEW h, NEW sep \in BOOLEAN, NEW l, Element(s, sep, l), Doc(o, s, h, sep, l),
         Last(s) = "lbracket"
  PROVE  Doc(jsonw_value(o, "value"), s, h, TRUE, "value")
<1>1. s \in Seq(Brackets) /\ s # <<>>
  BY DEF Element
<1>2. PICK x : /\ x = IF sep THEN "comma" ELSE "lbracket"
               /\ Doc(jsonw_eor(o), s, h, TRUE, x)
  BY Eor
<1>3. "value" \in Expected(jsonw_eor(o))
  BY <1>1, <1>2, Allowed DEF Doc, Text, Values
<1>4. Text(Put(jsonw_eor(o), "value"), s, "value")
      /\ \A f \in {"jw", "hasArray", "deferred", "depth", "sep"} :
           Put(jsonw_eor(o), "value")[f] = jsonw_eor(o)[f]
  BY <1>1, <1>2, <1>3, PutDoc DEF Doc, Tokens, Ends
<1> QED BY <1>2, <1>4 DEF jsonw_value, Doc, Text, Outputs

\* The value of a name.
LEMMA ValueNamed ==
  ASSUME NEW o, NEW s \in Seq(Brackets), s # <<>>, NEW h, Doc(o, s, h, FALSE, "name")
  PROVE  Doc(jsonw_value(o, "value"), s, h, TRUE, "value")
<1>1. jsonw_eor(o) = [o EXCEPT !.sep = TRUE]
  BY DEF jsonw_eor, Doc
<1>2. Doc(jsonw_eor(o), s, h, TRUE, "name")
  BY <1>1 DEF Doc, Text, Outputs
<1>3. "value" \in Expected(jsonw_eor(o))
  BY <1>2, Allowed DEF Doc, Text, Values
<1>4. Text(Put(jsonw_eor(o), "value"), s, "value")
      /\ \A f \in {"jw", "hasArray", "deferred", "depth", "sep"} :
           Put(jsonw_eor(o), "value")[f] = jsonw_eor(o)[f]
  BY <1>2, <1>3, PutDoc DEF Doc, Tokens, Ends
<1> QED BY <1>2, <1>4 DEF jsonw_value, Doc, Text, Outputs

\* The bracket that was opened last is closed.
LEMMA Closed ==
  ASSUME NEW o, NEW s, NEW h, NEW sep \in BOOLEAN, NEW l, Element(s, sep, l), Doc(o, s, h, sep, l)
  PROVE  Doc(jsonw_end(o, Closer[Last(s)]), Front(s), h, TRUE, Closer[Last(s)])
<1> DEFINE c == Closer[Last(s)]
<1>1. s \in Seq(Brackets) /\ s # <<>> /\ Last(s) \in Brackets /\ Len(s) \in Nat /\ Len(s) # 0
  BY LastBracket DEF Element
<1>2. c \in {"rbrace", "rbracket"} /\ c \in Ends /\ c \in Tokens
  BY <1>1 DEF Closer, Brackets, Ends, Tokens
<1>3. Front(s) \in Seq(Brackets) /\ Len(Front(s)) = Len(s) - 1
  <2>1. Len(s) - 1 \in Nat /\ Len(s) - 1 <= Len(s)
    BY <1>1
  <2>2. Front(s) = [i \in 1 .. Len(s) - 1 |-> s[i]]
    BY <1>1, <2>1 DEF Front
  <2>3. \A i \in 1 .. Len(s) - 1 : s[i] \in Brackets
    BY <1>1
  <2> QED BY <2>1, <2>2, <2>3
<1>4. c \in Expected(o)
  <2>1. CASE sep
    BY <2>1, <1>1, Allowed DEF Doc, Text, Element
  <2>2. CASE ~sep /\ Last(s) = "lbrace"
    BY <2>2, <1>1, Allowed DEF Doc, Text, Element, Closer
  <2>3. CASE ~sep /\ Last(s) = "lbracket"
    BY <2>3, <1>1, Allowed DEF Doc, Text, Element, Closer
  <2> QED BY <1>1, <2>1, <2>2, <2>3 DEF Brackets
<1> HIDE DEF c
<1>5. Text(Put(o, c), Front(s), c)
      /\ \A f \in {"jw", "hasArray", "deferred", "depth", "sep"} : Put(o, c)[f] = o[f]
  <2>1. Text(o, s, l)
    BY DEF Doc
  <2> QED BY <1>1, <1>2, <1>4, <2>1, PutDoc
<1>6. jsonw_end(o, c) = [Put(o, c) EXCEPT !.depth = @ - 1, !.sep = TRUE]
  BY <1>1 DEF jsonw_end, Doc
<1> DEFINE n == [Put(o, c) EXCEPT !.depth = @ - 1, !.sep = TRUE]
<1>8. Put(o, c) \in Outputs /\ Put(o, c).depth = Len(s)
  BY <1>5 DEF Doc, Text
<1>9. /\ n \in Outputs /\ n.depth = Len(s) - 1 /\ n.sep = TRUE
      /\ n.jw = Put(o, c).jw /\ n.hasArray = Put(o, c).hasArray /\ n.deferred = Put(o, c).deferred
      /\ n.open = Put(o, c).open /\ n.last = Put(o, c).last
      /\ n.valid = Put(o, c).valid /\ n.crashed = Put(o, c).crashed
  <2>1. n = [Put(o, c) EXCEPT !.depth = Len(s) - 1, !.sep = TRUE]
    BY <1>8
  <2>2. Len(s) - 1 \in Nat
    BY <1>1
  <2> HIDE DEF n
  <2> QED BY <1>8, <2>1, <2>2, Counted
<1>7. Doc(jsonw_end(o, c), Front(s), h, TRUE, c)
  <2> HIDE DEF n
  <2>1. Doc(n, Front(s), h, TRUE, c)
    BY <1>3, <1>5, <1>9 DEF Doc, Text
  <2> QED BY <2>1, <1>6 DEF n
<1> QED BY <1>7 DEF c

-----------------------------------------------------------------------------
\* What a call does to a document in which brackets are open.

\* The output that main puts off until something is written.
Fresh == new_json_obj_plain(NoOutput, TRUE)

\* The output of a run whose document has been closed, or that has none.
Done(o) == o.valid /\ ~o.crashed /\ o.open = <<>> /\ ~o.jw /\ ~o.deferred

\* An output in which these brackets are open and one more element may follow.
\* In text mode nothing is ever written.
Ready(o, s) ==
  \/ \E sep \in BOOLEAN, l \in Tokens : Element(s, sep, l) /\ Doc(o, s, s[1] = "lbracket", sep, l)
  \/ s = <<"lbrace">> /\ o = Fresh

Stands(js, o, s) == IF js THEN Ready(o, s) ELSE Done(o)

\* The calls that fit a document, by the bracket opened last, and what is open
\* after them.
Fits(s, call) ==
  /\ s \in Seq(Brackets) /\ s # <<>>
  /\ \/ call \in {"object", "array"} /\ Last(s) = "lbrace"
     \/ call \in {"end", "fields"} /\ Last(s) = "lbrace" /\ Len(s) > 1
     \/ call \in {"item", "values"} /\ Last(s) = "lbracket"
     \/ call = "end_array" /\ Last(s) = "lbracket" /\ Len(s) > 1

After(s, call) ==
  CASE call \in {"object", "item"} -> Append(s, "lbrace")
    [] call = "array" -> Append(s, "lbracket")
    [] call \in {"end", "end_array"} -> Front(s)
    [] OTHER -> s

\* In text mode no call writes.
LEMMA TextCalled ==
  ASSUME NEW o, Done(o), NEW call \in DOMAIN Calls
  PROVE  Called(o, call) = o
<1>1. \A step : WriterStep(o, step) = o
  BY DEF Done, WriterStep, ensure_plain_writer, is_json_context
<1> QED BY <1>1 DEF Called

\* What the calls are, in steps of the writer.
LEMMA CalledAs ==
  ASSUME NEW o
  PROVE  /\ Called(o, "object") = WriterStep(WriterStep(WriterStep(o, "ensure"), "name"), "lbrace")
         /\ Called(o, "array") = WriterStep(WriterStep(WriterStep(o, "ensure"), "name"), "lbracket")
         /\ Called(o, "item") = WriterStep(WriterStep(o, "ensure"), "lbrace")
         /\ Called(o, "end") = WriterStep(o, "rbrace")
         /\ Called(o, "end_array") = WriterStep(o, "rbracket")
         /\ Called(o, "fields") = WriterStep(WriterStep(o, "name"), "value")
         /\ Called(o, "values") = WriterStep(o, "value")
<1>1. Called(o, "object") = WriterStep(WriterStep(WriterStep(o, "ensure"), "name"), "lbrace")
  BY DEF Called, Calls
<1>2. Called(o, "array") = WriterStep(WriterStep(WriterStep(o, "ensure"), "name"), "lbracket")
  BY DEF Called, Calls
<1>3. Called(o, "item") = WriterStep(WriterStep(o, "ensure"), "lbrace")
  BY DEF Called, Calls
<1>4. Called(o, "end") = WriterStep(o, "rbrace")
  BY DEF Called, Calls
<1>5. Called(o, "end_array") = WriterStep(o, "rbracket")
  BY DEF Called, Calls
<1>6. Called(o, "fields") = WriterStep(WriterStep(o, "name"), "value")
  BY DEF Called, Calls
<1>7. Called(o, "values") = WriterStep(o, "value")
  BY DEF Called, Calls
<1> QED BY <1>1, <1>2, <1>3, <1>4, <1>5, <1>6, <1>7

\* The steps of a writer that is there.
LEMMA WithWriter ==
  ASSUME NEW o, ~o.crashed, o.jw
  PROVE  /\ WriterStep(o, "ensure") = o
         /\ \A c \in Brackets : WriterStep(o, c) = jsonw_begin(o, c)
         /\ \A c \in {"rbrace", "rbracket"} : WriterStep(o, c) = jsonw_end(o, c)
         /\ WriterStep(o, "name") = jsonw_name(o)
         /\ WriterStep(o, "value") = jsonw_value(o, "value")
<1>1. WriterStep(o, "ensure") = o
  BY DEF WriterStep, ensure_plain_writer
<1>2. \A c \in Brackets : WriterStep(o, c) = jsonw_begin(o, c)
  BY DEF WriterStep, is_json_context, Brackets
<1>3. \A c \in {"rbrace", "rbracket"} : WriterStep(o, c) = jsonw_end(o, c)
  BY DEF WriterStep, is_json_context
<1>4. WriterStep(o, "name") = jsonw_name(o)
  BY DEF WriterStep, is_json_context
<1>5. WriterStep(o, "value") = jsonw_value(o, "value")
  BY DEF WriterStep, is_json_context
<1> QED BY <1>1, <1>2, <1>3, <1>4, <1>5

\* Nothing has been written to it, and there is no writer yet.
LEMMA FreshIs ==
  /\ Fresh \in Outputs /\ Fresh.valid /\ ~Fresh.crashed /\ Fresh.open = <<>> /\ Fresh.last = "start"
  /\ Fresh.deferred /\ ~Fresh.jw
<1>1. <<>> \in Seq(Brackets) /\ "start" \in Tokens
  BY DEF Tokens
<1>2. /\ NoOutput \in Outputs /\ NoOutput.valid /\ ~NoOutput.crashed /\ NoOutput.open = <<>>
      /\ NoOutput.last = "start" /\ ~NoOutput.jw /\ ~NoOutput.deferred
  BY <1>1 DEF NoOutput, Outputs
<1>3. Fresh = [NoOutput EXCEPT !.deferred = TRUE]
  BY <1>2 DEF Fresh, new_json_obj_plain
<1> QED BY <1>2, <1>3 DEF Outputs

\* The first bracket of a document.
LEMMA Started ==
  ASSUME NEW c \in Brackets
  PROVE  LET o == jsonw_begin(jsonw_new(Fresh), c) IN
         Text(o, <<c>>, c) /\ o.jw /\ o.depth = 1 /\ o.sep = FALSE
<1> DEFINE n == jsonw_eor(jsonw_new(Fresh))
<1>1. /\ n \in Outputs /\ n.valid /\ ~n.crashed /\ n.open = <<>> /\ n.last = "start"
      /\ n.jw /\ n.depth = 0
  <2> DEFINE m == jsonw_new(Fresh)
  <2>2. /\ m \in Outputs /\ m.valid /\ ~m.crashed /\ m.open = <<>> /\ m.last = "start"
        /\ m.jw /\ m.depth = 0 /\ ~m.sep
    BY FreshIs DEF jsonw_new, Outputs
  <2>3. n = [m EXCEPT !.sep = TRUE]
    <3> HIDE DEF m
    <3>1. jsonw_eor(m) = [m EXCEPT !.sep = TRUE]
      BY <2>2 DEF jsonw_eor
    <3> QED BY <3>1 DEF m
  <2> HIDE DEF m, n
  <2> QED BY <2>2, <2>3 DEF Outputs
<1> HIDE DEF n
<1>2. c \in Expected(n)
  BY <1>1 DEF Expected, Values, Brackets
<1>3. Text(n, <<>>, "start") /\ <<>> \in Seq(Brackets) /\ c \in Tokens
  BY <1>1 DEF Text, Brackets, Tokens
<1>4. /\ Text(Put(n, c), Append(<<>>, c), c)
      /\ \A f \in {"jw", "hasArray", "deferred", "depth", "sep"} : Put(n, c)[f] = n[f]
  BY <1>2, <1>3, PutDoc DEF Brackets
<1>5. Append(<<>>, c) = <<c>>
  OBVIOUS
<1>6. Put(n, c) \in Outputs /\ Put(n, c).depth = 0 /\ Put(n, c).jw
  BY <1>1, <1>4 DEF Text
<1> DEFINE o == [Put(n, c) EXCEPT !.depth = @ + 1, !.sep = FALSE]
<1>7. o = [Put(n, c) EXCEPT !.depth = 1, !.sep = FALSE]
  BY <1>6
<1> HIDE DEF o
<1>8. /\ o \in Outputs /\ o.depth = 1 /\ o.sep = FALSE /\ o.jw = Put(n, c).jw
      /\ o.open = Put(n, c).open /\ o.last = Put(n, c).last
      /\ o.valid = Put(n, c).valid /\ o.crashed = Put(n, c).crashed
  <2>1. 1 \in Nat /\ FALSE \in BOOLEAN
    OBVIOUS
  <2> DEFINE q == Put(n, c)
  <2>2. q \in Outputs /\ o = [q EXCEPT !.depth = 1, !.sep = FALSE]
    BY <1>6, <1>7
  <2> HIDE DEF q
  <2>3. /\ o \in Outputs /\ o.depth = 1 /\ o.sep = FALSE /\ o.jw = q.jw /\ o.open = q.open
        /\ o.last = q.last /\ o.valid = q.valid /\ o.crashed = q.crashed
    BY <2>1, <2>2 DEF Outputs
  <2> QED BY <2>3 DEF q
<1>9. Text(o, <<c>>, c) /\ o.jw /\ o.depth = 1 /\ o.sep = FALSE
  BY <1>4, <1>5, <1>6, <1>8 DEF Text
<1> QED BY <1>9 DEF o, n, jsonw_begin

\* The two ways a writer is made, with what it then has open.
LEMMA WriterMade ==
  /\ Doc(ensure_plain_writer(Fresh), <<"lbrace">>, FALSE, FALSE, "lbrace")
  /\ Doc(new_json_obj(Fresh, TRUE), <<"lbracket">>, TRUE, FALSE, "lbracket")
<1>1. Fresh.deferred /\ ~Fresh.jw
  BY FreshIs
<1> HIDE DEF Fresh
<1>2. Len(<<"lbrace">>) = 1 /\ Len(<<"lbracket">>) = 1
  OBVIOUS
<1>3. Doc(ensure_plain_writer(Fresh), <<"lbrace">>, FALSE, FALSE, "lbrace")
  <2> DEFINE o == jsonw_begin(jsonw_new(Fresh), "lbrace")
  <2>1. Text(o, <<"lbrace">>, "lbrace") /\ o.jw /\ o.depth = 1 /\ o.sep = FALSE
    BY Started DEF Brackets
  <2>2. ensure_plain_writer(Fresh) = [o EXCEPT !.hasArray = FALSE, !.deferred = FALSE]
    BY <1>1 DEF ensure_plain_writer
  <2> HIDE DEF o
  <2> QED BY <1>2, <2>1, <2>2 DEF Doc, Text, Outputs
<1>4. Doc(new_json_obj(Fresh, TRUE), <<"lbracket">>, TRUE, FALSE, "lbracket")
  <2> DEFINE o == jsonw_begin(jsonw_new(Fresh), "lbracket")
  <2>1. Text(o, <<"lbracket">>, "lbracket") /\ o.jw /\ o.depth = 1 /\ o.sep = FALSE
    BY Started DEF Brackets
  <2>2. new_json_obj(Fresh, TRUE) = [o EXCEPT !.hasArray = TRUE, !.deferred = FALSE]
    BY <1>1 DEF new_json_obj
  <2> HIDE DEF o
  <2> QED BY <1>2, <2>1, <2>2 DEF Doc, Text, Outputs
<1> QED BY <1>3, <1>4

\* Sequences of brackets.
LEMMA OpenOrClose ==
  ASSUME NEW s \in Seq(Brackets), s # <<>>
  PROVE  /\ \A c \in Brackets : /\ Append(s, c) \in Seq(Brackets) /\ Append(s, c) # <<>>
                                /\ Last(Append(s, c)) = c /\ Append(s, c)[1] = s[1]
                                /\ Front(Append(s, c)) = s /\ Len(Append(s, c)) > 1
         /\ Len(s) > 1 => Front(s) \in Seq(Brackets) /\ Front(s) # <<>> /\ Front(s)[1] = s[1]
<1>1. Len(s) \in Nat /\ Len(s) > 0
  OBVIOUS
<1>2. ASSUME NEW c \in Brackets
      PROVE  /\ Append(s, c) \in Seq(Brackets) /\ Append(s, c) # <<>>
             /\ Last(Append(s, c)) = c /\ Append(s, c)[1] = s[1]
             /\ Front(Append(s, c)) = s /\ Len(Append(s, c)) > 1
  <2> DEFINE t == Append(s, c)
  <2>1. t \in Seq(Brackets) /\ Len(t) = Len(s) + 1 /\ t[Len(s) + 1] = c
        /\ \A i \in 1 .. Len(s) : t[i] = s[i]
    OBVIOUS
  <2> HIDE DEF t
  <2>2. t # <<>> /\ Len(t) > 1 /\ t[1] = s[1]
    BY <1>1, <2>1
  <2>3. Last(t) = c
    BY <2>1 DEF Last
  <2>4. Front(t) = s
    <3>1. Front(t) \in Seq(Brackets) /\ Len(Front(t)) = Len(s)
          /\ \A i \in 1 .. Len(s) : Front(t)[i] = t[i]
      BY <1>1, <2>1 DEF Front
    <3> QED BY <2>1, <3>1
  <2> QED BY <2>1, <2>2, <2>3, <2>4 DEF t
<1>3. ASSUME Len(s) > 1 PROVE Front(s) \in Seq(Brackets) /\ Front(s) # <<>> /\ Front(s)[1] = s[1]
  <2>1. Front(s) \in Seq(Brackets) /\ Len(Front(s)) = Len(s) - 1
        /\ \A i \in 1 .. Len(s) - 1 : Front(s)[i] = s[i]
    BY <1>1, <1>3 DEF Front
  <2> QED BY <1>1, <1>3, <2>1
<1> QED BY <1>2, <1>3

\* A document with a bracket open that was opened just now, or something complete
\* in it, is ready for more.
LEMMA DocReady ==
  ASSUME NEW o, NEW s \in Seq(Brackets), s # <<>>, NEW h, h = (s[1] = "lbracket")
  PROVE  /\ \A l \in Ends : Doc(o, s, h, TRUE, l) => Ready(o, s)
         /\ Doc(o, s, h, FALSE, Last(s)) => Ready(o, s)
<1>1. ASSUME NEW l \in Ends, Doc(o, s, h, TRUE, l) PROVE Ready(o, s)
  <2>1. l \in Tokens /\ Element(s, TRUE, l)
    BY DEF Tokens, Element
  <2> HIDE DEF Element, Doc, Tokens
  <2> QED BY <1>1, <2>1 DEF Ready
<1>2. ASSUME Doc(o, s, h, FALSE, Last(s)) PROVE Ready(o, s)
  <2>1. Last(s) \in Tokens /\ Element(s, FALSE, Last(s))
    BY LastBracket DEF Tokens, Element, Brackets
  <2> HIDE DEF Element, Doc, Tokens
  <2> QED BY <1>2, <2>1 DEF Ready
<1> QED BY <1>1, <1>2

\* What a call does to a document in which something is open.
LEMMA DocCalled ==
  ASSUME NEW o, NEW s, NEW sep \in BOOLEAN, NEW l, Element(s, sep, l),
         Doc(o, s, s[1] = "lbracket", sep, l), NEW call, Fits(s, call)
  PROVE  Ready(Called(o, call), After(s, call))
<1> DEFINE h == (s[1] = "lbracket")
<1>1. s \in Seq(Brackets) /\ s # <<>> /\ o.jw /\ ~o.crashed
  BY DEF Doc, Text, Element
<1>2. Doc(o, s, h, sep, l)
  OBVIOUS
<1>3. ASSUME NEW c \in Brackets, Doc(Called(o, call), Append(s, c), h, FALSE, c), After(s, call) = Append(s, c)
      PROVE  Ready(Called(o, call), After(s, call))
  <2>1. /\ Append(s, c) \in Seq(Brackets) /\ Append(s, c) # <<>>
        /\ Last(Append(s, c)) = c /\ Append(s, c)[1] = s[1]
    BY <1>1, OpenOrClose
  <2>2. h = (Append(s, c)[1] = "lbracket")
    BY <2>1
  <2> HIDE DEF h
  <2> QED BY <1>3, <2>1, <2>2, DocReady
<1>4. ASSUME NEW e \in Ends, Doc(Called(o, call), After(s, call), h, TRUE, e),
             After(s, call) = s \/ (After(s, call) = Front(s) /\ Len(s) > 1)
      PROVE  Ready(Called(o, call), After(s, call))
  <2> DEFINE t == After(s, call)
  <2>1. t \in Seq(Brackets) /\ t # <<>> /\ t[1] = s[1]
    BY <1>1, <1>4, OpenOrClose
  <2>2. h = (t[1] = "lbracket")
    BY <2>1
  <2>3. Doc(Called(o, call), t, h, TRUE, e)
    BY <1>4
  <2> HIDE DEF t, h
  <2>4. Ready(Called(o, call), t)
    BY <1>4, <2>1, <2>2, <2>3, DocReady
  <2> QED BY <2>4 DEF t
<1> HIDE DEF h
<1>5. ASSUME NEW c \in Brackets, Last(s) = "lbrace" PROVE
        Doc(WriterStep(WriterStep(WriterStep(o, "ensure"), "name"), c), Append(s, c), h, FALSE, c)
  <2> DEFINE n == jsonw_name(o)
  <2>1. Doc(n, s, h, FALSE, "name")
    BY <1>2, <1>5, Named
  <2>2. WriterStep(WriterStep(o, "ensure"), "name") = n
    BY <1>1, WithWriter
  <2>3. n.jw /\ ~n.crashed
    BY <2>1 DEF Doc, Text
  <2> HIDE DEF n
  <2>4. WriterStep(n, c) = jsonw_begin(n, c)
    BY <2>3, WithWriter
  <2> QED BY <1>1, <2>1, <2>2, <2>4, BeginNamed
<1>6. CASE call = "object"
  <2>1. Last(s) = "lbrace" /\ After(s, call) = Append(s, "lbrace") /\ "lbrace" \in Brackets
    BY <1>6 DEF Fits, After, Brackets
  <2>2. Doc(Called(o, call), Append(s, "lbrace"), h, FALSE, "lbrace")
    BY <1>5, <1>6, <2>1, CalledAs
  <2> QED BY <1>3, <2>1, <2>2
<1>7. CASE call = "array"
  <2>1. Last(s) = "lbrace" /\ After(s, call) = Append(s, "lbracket") /\ "lbracket" \in Brackets
    BY <1>7 DEF Fits, After, Brackets
  <2>2. Doc(Called(o, call), Append(s, "lbracket"), h, FALSE, "lbracket")
    BY <1>5, <1>7, <2>1, CalledAs
  <2> QED BY <1>3, <2>1, <2>2
<1>8. CASE call = "item"
  <2>1. Last(s) = "lbracket" /\ After(s, call) = Append(s, "lbrace") /\ "lbrace" \in Brackets
    BY <1>8 DEF Fits, After, Brackets
  <2>2. Called(o, call) = jsonw_begin(o, "lbrace")
    BY <1>1, <1>8, <2>1, CalledAs, WithWriter
  <2>3. Doc(Called(o, call), Append(s, "lbrace"), h, FALSE, "lbrace")
    BY <1>2, <2>1, <2>2, BeginElement
  <2> QED BY <1>3, <2>1, <2>3
<1>9. CASE call = "fields"
  <2>1. Last(s) = "lbrace" /\ After(s, call) = s
    BY <1>9 DEF Fits, After
  <2> DEFINE n == jsonw_name(o)
  <2>2. Doc(n, s, h, FALSE, "name")
    BY <1>2, <2>1, Named
  <2>3. n.jw /\ ~n.crashed
    BY <2>2 DEF Doc, Text
  <2>4. WriterStep(o, "name") = n
    BY <1>1, WithWriter
  <2> HIDE DEF n
  <2>5. Called(o, call) = jsonw_value(n, "value")
    BY <1>9, <2>3, <2>4, CalledAs, WithWriter
  <2>6. Doc(Called(o, call), After(s, call), h, TRUE, "value")
    BY <1>1, <2>1, <2>2, <2>5, ValueNamed
  <2> QED BY <1>4, <2>1, <2>6 DEF Ends
<1>10. CASE call = "values"
  <2>1. Last(s) = "lbracket" /\ After(s, call) = s
    BY <1>10 DEF Fits, After
  <2>2. Called(o, call) = jsonw_value(o, "value")
    BY <1>1, <1>10, CalledAs, WithWriter
  <2>3. Doc(Called(o, call), After(s, call), h, TRUE, "value")
    BY <1>2, <2>1, <2>2, ValueElement
  <2> QED BY <1>4, <2>1, <2>3 DEF Ends
<1>11. CASE call \in {"end", "end_array"}
  <2>1. /\ Len(s) > 1 /\ After(s, call) = Front(s)
        /\ call = "end" => Last(s) = "lbrace"
        /\ call = "end_array" => Last(s) = "lbracket"
    BY <1>11 DEF Fits, After
  <2>2. /\ call = "end" => Closer[Last(s)] = "rbrace"
        /\ call = "end_array" => Closer[Last(s)] = "rbracket"
    BY <2>1 DEF Closer
  <2>3. Called(o, call) = jsonw_end(o, Closer[Last(s)]) /\ Closer[Last(s)] \in Ends
    BY <1>1, <1>11, <2>2, CalledAs, WithWriter DEF Ends
  <2>4. Doc(Called(o, call), After(s, call), h, TRUE, Closer[Last(s)])
    BY <1>2, <2>1, <2>3, Closed
  <2> QED BY <1>4, <2>1, <2>3, <2>4
<1> QED BY <1>6, <1>7, <1>8, <1>9, <1>10, <1>11 DEF Fits

\* What a call does to any output it fits.
LEMMA CallStands ==
  ASSUME NEW js, NEW o, NEW s, Stands(js, o, s), NEW call \in DOMAIN Calls, Fits(s, call)
  PROVE  Stands(js, Called(o, call), After(s, call))
<1>1. CASE ~js
  BY <1>1, TextCalled DEF Stands
<1>2. CASE js /\ \E sep \in BOOLEAN, l \in Tokens :
                   Element(s, sep, l) /\ Doc(o, s, s[1] = "lbracket", sep, l)
  BY <1>2, DocCalled DEF Stands
<1>3. CASE js /\ s = <<"lbrace">> /\ o = Fresh
  <2> DEFINE n == ensure_plain_writer(Fresh)
  <2>1. call \in {"object", "array"}
    <3>1. Len(s) = 1 /\ Last(s) = "lbrace"
      BY <1>3 DEF Last
    <3> QED BY <3>1 DEF Fits
  <2>2. Doc(n, s, FALSE, FALSE, "lbrace")
    BY <1>3, WriterMade
  <2>3. WriterStep(Fresh, "ensure") = n
    BY FreshIs DEF WriterStep
  <2>4. n.jw /\ ~n.crashed
    BY <2>2 DEF Doc, Text
  <2> HIDE DEF n
  <2>5. WriterStep(n, "ensure") = n
    BY <2>4, WithWriter
  <2>6. Called(o, call) = Called(n, call)
    BY <1>3, <2>1, <2>3, <2>5, CalledAs
  <2>7. Element(s, FALSE, "lbrace") /\ (s[1] = "lbracket") = FALSE
    <3>1. s \in Seq(Brackets) /\ s # <<>> /\ s[1] = "lbrace" /\ Last(s) = "lbrace"
      BY <1>3 DEF Brackets, Last
    <3> QED BY <3>1 DEF Element
  <2>8. Doc(n, s, s[1] = "lbracket", FALSE, "lbrace")
    BY <2>2, <2>7
  <2>9. Ready(Called(n, call), After(s, call))
    BY <2>7, <2>8, DocCalled
  <2> QED BY <1>3, <2>6, <2>9 DEF Stands
<1> QED BY <1>1, <1>2, <1>3 DEF Stands, Ready

-----------------------------------------------------------------------------
\* What a sequence of calls does to it.

\* These calls lead from a document where s is open to one where t is.
Leads(js, s, calls, t) ==
  /\ calls \in Seq(DOMAIN Calls)
  /\ \A o : Stands(js, o, s) => \A p \in Play(o, calls) : Stands(js, p, t)

\* No call leads anywhere else.
LEMMA LeadsNone == \A js, s : Leads(js, s, <<>>, s)
<1> SUFFICES ASSUME NEW js, NEW s PROVE Leads(js, s, <<>>, s)
  OBVIOUS
<1>1. \A o : \A p \in Play(o, <<>>) : p = o
  BY PlayNone
<1>2. \A o : Stands(js, o, s) => \A p \in Play(o, <<>>) : Stands(js, p, s)
  BY <1>1, Zenon
<1> QED BY <1>2 DEF Leads

\* A call that fits leads to what is open after it.
LEMMA LeadsOne ==
  ASSUME NEW js, NEW s, NEW call \in DOMAIN Calls, Fits(s, call)
  PROVE  Leads(js, s, <<call>>, After(s, call))
<1>1. <<call>> = Append(<<>>, call) /\ <<>> \in Seq(DOMAIN Calls) /\ <<call>> \in Seq(DOMAIN Calls)
  OBVIOUS
<1>2. ASSUME NEW o, Stands(js, o, s), NEW p \in Play(o, <<call>>)
      PROVE  Stands(js, p, After(s, call))
  <2>1. Play(o, <<>>) = {o}
    BY PlayNone
  <2> DEFINE e == <<>>
  <2>2. e \in Seq(DOMAIN Calls) /\ Append(e, call) = <<call>> /\ Play(o, e) = {o}
    BY <1>1, <2>1
  <2> HIDE DEF e
  <2>4. p \in Play(o, Append(e, call))
    BY <1>2, <2>2, Zenon
  <2>3. PICK q \in Play(o, e) : p = Called(q, call)
    <3>1. e \in Seq(DOMAIN Calls)
      BY <2>2
    <3>2. \A q : q \in Play(o, Append(e, call)) <=> \E r \in Play(o, e) : q = Called(r, call)
      BY <3>1, PlayAppend
    <3> QED BY <3>2, <2>4, Zenon
  <2> QED BY <1>2, <2>2, <2>3, CallStands
<1> QED BY <1>1, <1>2 DEF Leads

\* A sequence of calls is played in parts.
LEMMA PlayConcat ==
  ASSUME NEW a \in Seq(DOMAIN Calls), NEW b \in Seq(DOMAIN Calls), NEW o
  PROVE  \A q : q \in Play(o, a \o b) <=> \E p \in Play(o, a) : q \in Play(p, b)
<1> DEFINE Parts(c) == \A q : q \in Play(o, a \o c) <=> \E p \in Play(o, a) : q \in Play(p, c)
           T == {n \in Nat : \A c \in Seq(DOMAIN Calls) : Len(c) = n => Parts(c)}
<1>1. 0 \in T
  <2>1. ASSUME NEW c \in Seq(DOMAIN Calls), Len(c) = 0
        PROVE  Parts(c)
    <3>1. c = <<>> /\ a \o c = a
      BY <2>1
    <3>2. \A p : Play(p, c) = {p}
      BY <3>1, PlayNone
    <3> QED BY <3>1, <3>2
  <2> HIDE DEF Parts
  <2> QED BY <2>1
<1>2. ASSUME NEW n \in Nat, n \in T PROVE n + 1 \in T
  <2>1. ASSUME NEW c \in Seq(DOMAIN Calls), Len(c) = n + 1
        PROVE  Parts(c)
    <3> DEFINE f == SubSeq(c, 1, n)
               l == c[n + 1]
    <3>1. f \in Seq(DOMAIN Calls) /\ Len(f) = n /\ l \in DOMAIN Calls
      BY <2>1
    <3>2. c = Append(f, l)
      <4>1. Append(f, l) \in Seq(DOMAIN Calls) /\ Len(Append(f, l)) = n + 1
        BY <3>1
      <4>2. \A i \in 1 .. n + 1 : Append(f, l)[i] = c[i]
        BY <2>1
      <4> HIDE DEF f, l
      <4> QED BY <2>1, <4>1, <4>2
    <3> HIDE DEF f, l
    <3>3. a \o c = Append(a \o f, l) /\ a \o f \in Seq(DOMAIN Calls)
      BY <3>1, <3>2
    <3>4. \A q : q \in Play(o, a \o c) <=> \E p \in Play(o, a \o f) : q = Called(p, l)
      <4>1. Play(o, a \o c) = Play(o, Append(a \o f, l))
        BY <3>3, Zenon
      <4>2. \A q : q \in Play(o, Append(a \o f, l)) <=> \E p \in Play(o, a \o f) : q = Called(p, l)
        BY <3>1, <3>3, PlayAppend
      <4> QED BY <4>1, <4>2, Zenon
    <3>5. \A p, q : q \in Play(p, c) <=> \E r \in Play(p, f) : q = Called(r, l)
      <4>1. \A p : Play(p, c) = Play(p, Append(f, l))
        BY <3>2, Zenon
      <4>2. \A p, q : q \in Play(p, Append(f, l)) <=> \E r \in Play(p, f) : q = Called(r, l)
        BY <3>1, PlayAppend
      <4> QED BY <4>1, <4>2, Zenon
    <3>6. \A q : q \in Play(o, a \o f) <=> \E p \in Play(o, a) : q \in Play(p, f)
      BY <1>2, <3>1
    <3> QED BY <3>4, <3>5, <3>6
  <2>2. n + 1 \in Nat
    OBVIOUS
  <2> HIDE DEF Parts
  <2> QED BY <2>1, <2>2
<1>3. Nat \subseteq T
  <2> HIDE DEF T
  <2> QED BY <1>1, <1>2, Induction
<1>4. Len(b) \in Nat
  OBVIOUS
<1>5. Len(b) \in T
  <2> HIDE DEF T
  <2> QED BY <1>3, <1>4
<1> QED BY <1>5

\* One sequence after the other.
LEMMA LeadsOn ==
  ASSUME NEW js, NEW s, NEW a, NEW t, NEW b, NEW u, Leads(js, s, a, t), Leads(js, t, b, u)
  PROVE  Leads(js, s, a \o b, u)
<1>1. a \in Seq(DOMAIN Calls) /\ b \in Seq(DOMAIN Calls) /\ a \o b \in Seq(DOMAIN Calls)
  BY DEF Leads
<1>2. ASSUME NEW o, Stands(js, o, s), NEW p \in Play(o, a \o b)
      PROVE  Stands(js, p, u)
  <2>1. PICK q \in Play(o, a) : p \in Play(q, b)
    BY <1>1, <1>2, PlayConcat
  <2>2. Stands(js, q, t)
    BY <1>2, <2>1 DEF Leads
  <2> QED BY <2>1, <2>2 DEF Leads
<1> QED BY <1>1, <1>2 DEF Leads

\* What the calls of the displays lead to, where an object s or an array is open.
Object(s) == s \in Seq(Brackets) /\ s # <<>> /\ Last(s) = "lbrace"

Member(s) == Append(s, "lbrace")

List(s) == Append(s, "lbracket")

\* The members of an object or a list that are objects themselves.
LEMMA MemberObject ==
  ASSUME NEW s \in Seq(Brackets)
  PROVE  Object(Member(s)) /\ Member(s) \in Seq(Brackets) /\ List(s) \in Seq(Brackets)
<1>1. /\ Member(s) \in Seq(Brackets) /\ List(s) \in Seq(Brackets) /\ Member(s) # <<>>
      /\ Len(Member(s)) = Len(s) + 1 /\ Member(s)[Len(s) + 1] = "lbrace"
  BY DEF Member, List, Brackets
<1> HIDE DEF Member, List
<1>2. Last(Member(s)) = "lbrace"
  BY <1>1 DEF Last
<1> QED BY <1>1, <1>2 DEF Object

\* The single calls of the displays.
LEMMA OneCall ==
  ASSUME NEW js, NEW s, Object(s)
  PROVE  /\ Leads(js, s, <<"object">>, Member(s)) /\ Leads(js, s, <<"array">>, List(s))
         /\ Leads(js, List(s), <<"item">>, Member(List(s)))
         /\ Leads(js, List(s), <<"values">>, List(s))
         /\ Leads(js, List(s), <<"end_array">>, s)
         /\ Leads(js, Member(s), <<"fields">>, Member(s))
         /\ Leads(js, Member(s), <<"end">>, s)
         /\ Leads(js, Member(List(s)), <<"fields">>, Member(List(s)))
         /\ Leads(js, Member(List(s)), <<"end">>, List(s))
<1>1. s \in Seq(Brackets) /\ s # <<>> /\ Last(s) = "lbrace"
  BY DEF Object
<1>2. {"object", "item", "array", "end", "end_array", "fields", "values"} \subseteq DOMAIN Calls
  BY DEF Calls
<1>3. \A c \in Brackets : \A t \in Seq(Brackets) : t # <<>> =>
        /\ Append(t, c) \in Seq(Brackets) /\ Append(t, c) # <<>> /\ Last(Append(t, c)) = c
        /\ Front(Append(t, c)) = t /\ Len(Append(t, c)) > 1
  BY OpenOrClose
<1>4. /\ Member(s) \in Seq(Brackets) /\ Member(s) # <<>> /\ Last(Member(s)) = "lbrace"
      /\ Front(Member(s)) = s /\ Len(Member(s)) > 1
  BY <1>1, <1>3 DEF Member, Brackets
<1>5. /\ List(s) \in Seq(Brackets) /\ List(s) # <<>> /\ Last(List(s)) = "lbracket"
      /\ Front(List(s)) = s /\ Len(List(s)) > 1
  BY <1>1, <1>3 DEF List, Brackets
<1>6. /\ Member(List(s)) \in Seq(Brackets) /\ Member(List(s)) # <<>> /\ Last(Member(List(s))) = "lbrace"
      /\ Front(Member(List(s))) = List(s) /\ Len(Member(List(s))) > 1
  BY <1>5, <1>3 DEF Member, Brackets
<1>7. Leads(js, s, <<"object">>, Member(s)) /\ Leads(js, s, <<"array">>, List(s))
  <2>1. Fits(s, "object") /\ Fits(s, "array")
    BY <1>1 DEF Fits
  <2>2. After(s, "object") = Member(s) /\ After(s, "array") = List(s)
    BY DEF After, Member, List
  <2> QED BY <1>2, <2>1, <2>2, LeadsOne
<1>8. /\ Leads(js, List(s), <<"item">>, Member(List(s)))
      /\ Leads(js, List(s), <<"values">>, List(s)) /\ Leads(js, List(s), <<"end_array">>, s)
  <2>1. Fits(List(s), "item") /\ Fits(List(s), "values") /\ Fits(List(s), "end_array")
    BY <1>5 DEF Fits
  <2>2. /\ After(List(s), "item") = Member(List(s)) /\ After(List(s), "values") = List(s)
        /\ After(List(s), "end_array") = s
    BY <1>5 DEF After, Member
  <2> QED BY <1>2, <2>1, <2>2, LeadsOne
<1>9. ASSUME NEW t, t \in Seq(Brackets), t # <<>>, Last(t) = "lbrace", Len(t) > 1
      PROVE  Leads(js, t, <<"fields">>, t) /\ Leads(js, t, <<"end">>, Front(t))
  <2>1. Fits(t, "fields") /\ Fits(t, "end")
    BY <1>9 DEF Fits
  <2>2. After(t, "fields") = t /\ After(t, "end") = Front(t)
    BY DEF After
  <2> QED BY <1>2, <2>1, <2>2, LeadsOne
<1> QED BY <1>4, <1>6, <1>7, <1>8, <1>9

-----------------------------------------------------------------------------
\* The sequences that the displays write.

\* Sequences as the displays write them are made of single calls.
LEMMA Joined ==
  /\ \A a, b : <<a>> \o <<b>> = <<a, b>>
  /\ \A a, b, c : <<a, b>> \o <<c>> = <<a, b, c>>
  /\ \A a, b, c, d : <<a, b, c>> \o <<d>> = <<a, b, c, d>>
  /\ \A a, b, c, d, e : <<a, b, c, d>> \o <<e>> = <<a, b, c, d, e>>
  /\ \A a, b, c, d : <<a>> \o <<b, c, d>> = <<a, b, c, d>>
<1>1. ASSUME NEW a, NEW b PROVE <<a>> \o <<b>> = <<a, b>>
  <2> DEFINE x == <<a>> \o <<b>>
             y == <<a, b>>
             S == {a, b}
  <2>1. <<a>> \in Seq(S) /\ <<b>> \in Seq(S) /\ Len(<<a>>) = 1 /\ Len(<<b>>) = 1
    OBVIOUS
  <2>2. x \in Seq(S) /\ Len(x) = 2 /\ \A k \in 1 .. 2 : x[k] = y[k]
    BY <2>1
  <2>3. y \in Seq(S) /\ Len(y) = 2
    OBVIOUS
  <2>4. x = y
    <3> HIDE DEF x, y
    <3> QED BY <2>2, <2>3
  <2> QED BY <2>4
<1>2. ASSUME NEW a, NEW b, NEW c PROVE <<a, b>> \o <<c>> = <<a, b, c>>
  <2> DEFINE x == <<a, b>> \o <<c>>
             y == <<a, b, c>>
             S == {a, b, c}
  <2>1. <<a, b>> \in Seq(S) /\ <<c>> \in Seq(S) /\ Len(<<a, b>>) = 2 /\ Len(<<c>>) = 1
    OBVIOUS
  <2>2. x \in Seq(S) /\ Len(x) = 3 /\ \A k \in 1 .. 3 : x[k] = y[k]
    BY <2>1
  <2>3. y \in Seq(S) /\ Len(y) = 3
    OBVIOUS
  <2>4. x = y
    <3> HIDE DEF x, y
    <3> QED BY <2>2, <2>3
  <2> QED BY <2>4
<1>3. ASSUME NEW a, NEW b, NEW c, NEW d PROVE <<a, b, c>> \o <<d>> = <<a, b, c, d>>
  <2> DEFINE x == <<a, b, c>> \o <<d>>
             y == <<a, b, c, d>>
             S == {a, b, c, d}
  <2>1. <<a, b, c>> \in Seq(S) /\ <<d>> \in Seq(S) /\ Len(<<a, b, c>>) = 3 /\ Len(<<d>>) = 1
    OBVIOUS
  <2>2. x \in Seq(S) /\ Len(x) = 4 /\ \A k \in 1 .. 4 : x[k] = y[k]
    BY <2>1
  <2>3. y \in Seq(S) /\ Len(y) = 4
    OBVIOUS
  <2>4. x = y
    <3> HIDE DEF x, y
    <3> QED BY <2>2, <2>3
  <2> QED BY <2>4
<1>4. ASSUME NEW a, NEW b, NEW c, NEW d, NEW e PROVE <<a, b, c, d>> \o <<e>> = <<a, b, c, d, e>>
  <2> DEFINE x == <<a, b, c, d>> \o <<e>>
             y == <<a, b, c, d, e>>
             S == {a, b, c, d, e}
  <2>1. <<a, b, c, d>> \in Seq(S) /\ <<e>> \in Seq(S) /\ Len(<<a, b, c, d>>) = 4 /\ Len(<<e>>) = 1
    OBVIOUS
  <2>2. x \in Seq(S) /\ Len(x) = 5 /\ \A k \in 1 .. 5 : x[k] = y[k]
    BY <2>1
  <2>3. y \in Seq(S) /\ Len(y) = 5
    OBVIOUS
  <2>4. x = y
    <3> HIDE DEF x, y
    <3> QED BY <2>2, <2>3
  <2> QED BY <2>4
<1>5. ASSUME NEW a, NEW b, NEW c, NEW d PROVE <<a>> \o <<b, c, d>> = <<a, b, c, d>>
  <2> DEFINE x == <<a>> \o <<b, c, d>>
             y == <<a, b, c, d>>
             S == {a, b, c, d}
  <2>1. <<a>> \in Seq(S) /\ <<b, c, d>> \in Seq(S) /\ Len(<<a>>) = 1 /\ Len(<<b, c, d>>) = 3
    OBVIOUS
  <2>2. x \in Seq(S) /\ Len(x) = 4 /\ \A k \in 1 .. 4 : x[k] = y[k]
    BY <2>1
  <2>3. y \in Seq(S) /\ Len(y) = 4
    OBVIOUS
  <2>4. x = y
    <3> HIDE DEF x, y
    <3> QED BY <2>2, <2>3
  <2> QED BY <2>4
<1> QED BY <1>1, <1>2, <1>3, <1>4, <1>5

\* The objects of the displays.
LEMMA Objects ==
  ASSUME NEW js, NEW s, Object(s)
  PROVE  /\ Leads(js, s, <<"object", "end">>, s)
         /\ Leads(js, Member(s), <<"fields", "end">>, s)
         /\ Leads(js, s, <<"object", "fields">>, Member(s))
         /\ Leads(js, s, <<"object", "fields", "end">>, s)
<1>1. /\ Leads(js, s, <<"object">>, Member(s)) /\ Leads(js, Member(s), <<"fields">>, Member(s))
      /\ Leads(js, Member(s), <<"end">>, s)
  BY OneCall
<1>2. Leads(js, s, <<"object">> \o <<"end">>, s)
  BY <1>1, LeadsOn
<1>3. Leads(js, Member(s), <<"fields">> \o <<"end">>, s)
  BY <1>1, LeadsOn
<1>4. Leads(js, s, <<"object">> \o <<"fields">>, Member(s))
  BY <1>1, LeadsOn
<1>5. Leads(js, s, <<"object", "fields">>, Member(s))
  BY <1>4, Joined, Zenon
<1>6. Leads(js, s, <<"object", "fields">> \o <<"end">>, s)
  BY <1>1, <1>5, LeadsOn
<1> QED BY <1>2, <1>3, <1>5, <1>6, Joined, Zenon

\* The lists, in an object.
LEMMA Lists ==
  ASSUME NEW js, NEW s, Object(s)
  PROVE  /\ Leads(js, List(s), <<"item", "fields">>, Member(List(s)))
         /\ Leads(js, List(s), <<"item", "fields", "end">>, List(s))
         /\ Leads(js, s, <<"array", "end_array">>, s)
         /\ Leads(js, s, <<"array", "values", "end_array">>, s)
<1>1. /\ Leads(js, s, <<"array">>, List(s)) /\ Leads(js, List(s), <<"item">>, Member(List(s)))
      /\ Leads(js, List(s), <<"values">>, List(s)) /\ Leads(js, List(s), <<"end_array">>, s)
      /\ Leads(js, Member(List(s)), <<"fields">>, Member(List(s)))
      /\ Leads(js, Member(List(s)), <<"end">>, List(s))
  BY OneCall
<1>2. Leads(js, List(s), <<"item">> \o <<"fields">>, Member(List(s)))
  BY <1>1, LeadsOn
<1>3. Leads(js, List(s), <<"item", "fields">>, Member(List(s)))
  BY <1>2, Joined, Zenon
<1>4. Leads(js, List(s), <<"item", "fields">> \o <<"end">>, List(s))
  BY <1>1, <1>3, LeadsOn
<1>5. Leads(js, s, <<"array">> \o <<"end_array">>, s)
  BY <1>1, LeadsOn
<1>6. Leads(js, s, <<"array">> \o <<"values">>, List(s))
  BY <1>1, LeadsOn
<1>7. Leads(js, s, <<"array", "values">>, List(s))
  BY <1>6, Joined, Zenon
<1>8. Leads(js, s, <<"array", "values">> \o <<"end_array">>, s)
  BY <1>1, <1>7, LeadsOn
<1> QED BY <1>3, <1>4, <1>5, <1>8, Joined, Zenon

Told == {<<>>, <<"fields">>}

\* What Ask and the heads of the walks write.
LEMMA Asking ==
  ASSUME NEW js, NEW s, Object(s), NEW told \in Told
  PROVE  /\ Leads(js, s, <<"object">> \o told \o <<"end">>, s)
         /\ Leads(js, s, <<"object">> \o told \o <<"array">>, List(Member(s)))
<1>1. Object(Member(s))
  BY MemberObject DEF Object
<1>2. /\ Leads(js, s, <<"object">>, Member(s)) /\ Leads(js, Member(s), <<"end">>, s)
      /\ Leads(js, Member(s), <<"array">>, List(Member(s)))
  BY <1>1, OneCall
<1>3. Leads(js, Member(s), told, Member(s))
  <2>1. CASE told = <<>>
    BY <2>1, LeadsNone, Zenon
  <2>2. CASE told = <<"fields">>
    BY <2>2, OneCall, Zenon
  <2> QED BY <2>1, <2>2 DEF Told
<1>4. Leads(js, s, <<"object">> \o told, Member(s))
  BY <1>2, <1>3, LeadsOn
<1> QED BY <1>2, <1>4, LeadsOn

\* What the display of the certificates writes, and what is left open in an item.
Item(s) == Member(List(Member(s)))

Ended == {<<"fields", "end">>, <<"fields", "array", "values", "end_array", "end">>}

\* What cmis_cdb_show_certificates writes, with the list of certificates left open
\* between its steps.
LEMMA Certificates ==
  ASSUME NEW js, NEW s, Object(s)
  PROVE  /\ Leads(js, s, <<"object", "fields", "array", "item", "fields">>, Item(s))
         /\ Leads(js, List(Member(s)), <<"end_array", "end">>, s)
         /\ \A events \in Ended :
              /\ Leads(js, Item(s), events \o <<"item", "fields">>, Item(s))
              /\ Leads(js, Item(s), events \o <<"end_array", "end">>, s)
<1> DEFINE m == Member(s)
           l == List(m)
           i == Member(l)
<1>1. Object(m) /\ Object(i)
  BY MemberObject DEF Object
<1>2. /\ Leads(js, m, <<"array">>, l) /\ Leads(js, l, <<"item">>, i) /\ Leads(js, i, <<"fields">>, i)
      /\ Leads(js, i, <<"end">>, l) /\ Leads(js, l, <<"end_array">>, m)
      /\ Leads(js, m, <<"end">>, s) /\ Leads(js, s, <<"object", "fields">>, m)
      /\ Leads(js, l, <<"item", "fields">>, i) /\ Leads(js, i, <<"array", "values", "end_array">>, i)
  BY <1>1, OneCall, Objects, Lists
<1> HIDE DEF m, l, i
<1>3. Leads(js, s, <<"object", "fields", "array", "item", "fields">>, i)
  <2>1. Leads(js, s, <<"object", "fields">> \o <<"array">>, l)
    BY <1>2, LeadsOn
  <2>2. Leads(js, s, <<"object", "fields", "array">>, l)
    BY <2>1, Joined, Zenon
  <2>3. Leads(js, s, <<"object", "fields", "array">> \o <<"item">>, i)
    BY <1>2, <2>2, LeadsOn
  <2>4. Leads(js, s, <<"object", "fields", "array", "item">>, i)
    <3>1. <<"object", "fields", "array">> \o <<"item">> = <<"object", "fields", "array", "item">>
      BY Joined
    <3> QED BY <2>3, <3>1, Zenon
  <2>5. Leads(js, s, <<"object", "fields", "array", "item">> \o <<"fields">>, i)
    BY <1>2, <2>4, LeadsOn
  <2>6. <<"object", "fields", "array", "item">> \o <<"fields">>
          = <<"object", "fields", "array", "item", "fields">>
    BY Joined
  <2> QED BY <2>5, <2>6, Zenon
<1>4. Leads(js, l, <<"end_array", "end">>, s)
  <2>1. Leads(js, l, <<"end_array">> \o <<"end">>, s)
    BY <1>2, LeadsOn
  <2> QED BY <2>1, Joined, Zenon
<1>5. ASSUME NEW events \in Ended PROVE Leads(js, i, events, l)
  <2>1. CASE events = <<"fields", "end">>
    <3>1. Leads(js, i, <<"fields">> \o <<"end">>, l)
      BY <1>2, LeadsOn
    <3> QED BY <2>1, <3>1, Joined, Zenon
  <2>2. CASE events = <<"fields", "array", "values", "end_array", "end">>
    <3>1. Leads(js, i, <<"fields">> \o <<"array", "values", "end_array">>, i)
      BY <1>2, LeadsOn
    <3>3. Leads(js, i, <<"fields", "array", "values", "end_array">>, i)
      <4>1. <<"fields">> \o <<"array", "values", "end_array">> = <<"fields", "array", "values", "end_array">>
        BY Joined
      <4> QED BY <3>1, <4>1, Zenon
    <3>4. Leads(js, i, <<"fields", "array", "values", "end_array">> \o <<"end">>, l)
      BY <1>2, <3>3, LeadsOn
    <3>5. <<"fields", "array", "values", "end_array">> \o <<"end">>
            = <<"fields", "array", "values", "end_array", "end">>
      BY Joined
    <3> QED BY <2>2, <3>4, <3>5, Zenon
  <2> QED BY <2>1, <2>2 DEF Ended
<1>6. \A events \in Ended : /\ Leads(js, i, events \o <<"item", "fields">>, i)
                            /\ Leads(js, i, events \o <<"end_array", "end">>, s)
  BY <1>2, <1>4, <1>5, LeadsOn
<1> QED BY <1>3, <1>4, <1>6 DEF i, l, m, Item

\* What the shows of features write of an answer leaves their object open, when
\* the text of a module is text that the writer carries.
LEMMA Answers ==
  ASSUME NEW js, NEW t, Object(t), NEW s, s = Member(t), NEW r \in Reply, Texts = {"fields"}
  PROVE  /\ \A a \in cmis_cdb_show_module_features(r) : Leads(js, s, a.events, s)
         /\ \A a \in cmis_cdb_show_fw_mgmt_features(r) : Leads(js, s, a.events, s)
         /\ \A a \in cmis_cdb_show_fw_info(r) : Leads(js, s, a.events, s)
         /\ \A a \in cmis_cdb_show_generic_features(r) : Leads(js, s, a.events, s)
         /\ \A a \in cmis_cdb_show_bert_features(r) : Leads(js, s, a.events, s)
         /\ \A a \in cmis_cdb_show_security_features(r) : Leads(js, s, a.events, s)
<1>3. Object(s)
  BY MemberObject DEF Object
<1>1. /\ Leads(js, s, <<>>, s) /\ Leads(js, s, <<"array", "end_array">>, s)
      /\ Leads(js, s, <<"array", "values", "end_array">>, s)
  BY <1>3, LeadsNone, Lists, Zenon
<1>2. \A events, fields : Answer(events, fields).events = events
  BY DEF Answer
<1>4. ASSUME NEW list \in CommandLists PROVE Leads(js, s, list, s)
  <2>1. PICK items \in {<<>>, <<"item", "fields", "end">>} : list = <<"array">> \o items \o <<"end_array">>
    BY DEF CommandLists
  <2>2. Leads(js, List(s), items, List(s))
    <3>1. CASE items = <<>>
      BY <3>1, LeadsNone, Zenon
    <3>2. CASE items = <<"item", "fields", "end">>
      BY <1>3, <3>2, Lists, Zenon
    <3> QED BY <3>1, <3>2
  <2>3. Leads(js, s, <<"array">>, List(s)) /\ Leads(js, List(s), <<"end_array">>, s)
    BY <1>3, OneCall
  <2>4. Leads(js, s, <<"array">> \o items, List(s))
    BY <2>2, <2>3, LeadsOn
  <2>5. Leads(js, s, <<"array">> \o items \o <<"end_array">>, s)
    BY <2>3, <2>4, LeadsOn
  <2> QED BY <2>1, <2>5, Zenon
<1>5. Leads(js, s, <<"fields">>, s) /\ Leads(js, s, <<"object", "fields", "end">>, s)
  BY <1>3, OneCall, Objects
<1>6. \A list \in CommandLists : Leads(js, s, list \o <<"fields">>, s)
  BY <1>4, <1>5, LeadsOn
<1>7. \A a \in cmis_cdb_show_module_features(r) : Leads(js, s, a.events, s)
  <2>1. ASSUME NEW a \in cmis_cdb_show_module_features(r)
        PROVE  \E events \in {<<>>} \cup {list \o <<"fields">> : list \in CommandLists} : \E fields :
                 a = Answer(events, fields)
    <3>1. CASE r.len < 34
      BY <3>1, Zenon DEF cmis_cdb_show_module_features
    <3>2. CASE ~(r.len < 34)
      BY <3>2, Zenon DEF cmis_cdb_show_module_features
    <3> QED BY <3>1, <3>2
  <2> DEFINE E == {<<>>} \cup {list \o <<"fields">> : list \in CommandLists}
  <2>2. \A events \in E : Leads(js, s, events, s)
    BY <1>1, <1>6
  <2>3. \A a \in cmis_cdb_show_module_features(r) : \E events \in E : \E fields : a = Answer(events, fields)
    BY <2>1
  <2> HIDE DEF E
  <2> QED BY <2>2, <2>3, <1>2
<1>8. \A a \in cmis_cdb_show_fw_mgmt_features(r) : Leads(js, s, a.events, s)
  BY <1>1, <1>2 DEF cmis_cdb_show_fw_mgmt_features
<1>9. \A a \in cmis_cdb_show_fw_info(r) : Leads(js, s, a.events, s)
  <2> DEFINE images(present, extra) ==
               Answer(IF present = {} THEN <<>> ELSE <<"object", extra, "end">>,
                      {Field(2, 1), Dump(r)} \cup UNION present)
  <2>2. cmis_cdb_show_fw_info(r) =
          IF r.len < 2 THEN {Answer(<<>>, {})}
          ELSE {images(present, extra) : present \in SUBSET FwImages, extra \in {"fields"} \cup Texts}
    BY DEF cmis_cdb_show_fw_info
  <2>3. \A present : \E events \in {<<>>, <<"object", "fields", "end">>} : \E fields :
          images(present, "fields") = Answer(events, fields)
    <3> TAKE present
    <3>1. CASE present = {}
      BY <3>1, Zenon
    <3>2. CASE present # {}
      BY <3>2, Zenon
    <3> QED BY <3>1, <3>2
  <2> HIDE DEF images
  <2>1. ASSUME NEW a \in cmis_cdb_show_fw_info(r)
        PROVE  \E events \in {<<>>, <<"object", "fields", "end">>} : \E fields : a = Answer(events, fields)
    <3>1. CASE r.len < 2
      BY <2>2, <3>1
    <3>2. CASE ~(r.len < 2)
      <4>1. PICK present \in SUBSET FwImages, extra \in {"fields"} \cup Texts : a = images(present, extra)
        BY <2>2, <3>2
      <4>2. extra = "fields"
        OBVIOUS
      <4> QED BY <2>3, <4>1, <4>2
    <3> QED BY <3>1, <3>2
  <2> QED BY <2>1, <1>1, <1>2, <1>5
<1>10. \A a \in cmis_cdb_show_generic_features(r) : Leads(js, s, a.events, s)
  BY <1>1, <1>2 DEF cmis_cdb_show_generic_features
<1>11. \A a \in cmis_cdb_show_bert_features(r) : Leads(js, s, a.events, s)
  <2> DEFINE lists == IF r.len >= 32 THEN CommandLists ELSE {<<>>}
  <2>1. ASSUME NEW list \in lists PROVE Leads(js, s, list \o <<"fields">>, s)
    <3>1. Leads(js, s, list, s)
      BY <1>1, <1>4
    <3> QED BY <3>1, <1>5, LeadsOn
  <2>2. \A a \in cmis_cdb_show_bert_features(r) : \E list \in lists : \E fields :
          a = Answer(list \o <<"fields">>, fields)
    BY DEF cmis_cdb_show_bert_features
  <2> HIDE DEF lists
  <2> QED BY <2>1, <2>2, <1>2
<1>12. \A a \in cmis_cdb_show_security_features(r) : Leads(js, s, a.events, s)
  <2> DEFINE lists == IF r.len >= 1 THEN CommandLists ELSE {<<>>}
             lengths(nc) == CASE r.len < 38 -> <<>>
                              [] r.len >= 38 /\ nc = 0 -> <<"array", "end_array">>
                              [] OTHER -> <<"array", "values", "end_array">>
             fields(nc) == {Field(33, 32), Field(34, 33), Field(35, 34)}
                             \cup {Field(1, Min({31, r.len - 1})), Dump(r)} \cup CertificateLengths(nc)
             displayed(list, nc) == Answer(list \o <<"fields">> \o lengths(nc), fields(nc))
  <2>1. ASSUME NEW list \in lists, NEW nc \in 0 .. 4
        PROVE  Leads(js, s, list \o <<"fields">> \o lengths(nc), s)
    <3>1. Leads(js, s, list, s)
      BY <1>1, <1>4
    <3>2. Leads(js, s, list \o <<"fields">>, s)
      BY <3>1, <1>5, LeadsOn
    <3>3. Leads(js, s, lengths(nc), s)
      <4>1. lengths(nc) \in {<<>>, <<"array", "end_array">>, <<"array", "values", "end_array">>}
        OBVIOUS
      <4> HIDE DEF lengths
      <4> QED BY <4>1, <1>1
    <3> HIDE DEF lengths
    <3> QED BY <3>2, <3>3, LeadsOn
  <2>2. cmis_cdb_show_security_features(r) = {displayed(list, nc) : list \in lists, nc \in 0 .. 4}
    BY DEF cmis_cdb_show_security_features
  <2>3. \A list \in lists, nc \in 0 .. 4 : displayed(list, nc).events = list \o <<"fields">> \o lengths(nc)
    <3> HIDE DEF lists, lengths, fields
    <3> QED BY <1>2
  <2> HIDE DEF lists, displayed, lengths
  <2>4. ASSUME NEW a \in cmis_cdb_show_security_features(r)
        PROVE  \E list \in lists, nc \in 0 .. 4 : a = displayed(list, nc)
    BY <2>2
  <2>5. ASSUME NEW a \in cmis_cdb_show_security_features(r)
        PROVE  Leads(js, s, a.events, s)
    <3>1. PICK list \in lists, nc \in 0 .. 4 : a = displayed(list, nc)
      BY <2>4
    <3>2. a.events = list \o <<"fields">> \o lengths(nc)
      BY <2>3, <3>1
    <3>3. Leads(js, s, list \o <<"fields">> \o lengths(nc), s)
      BY <2>1
    <3> QED BY <3>2, <3>3, Zenon
  <2> QED BY <2>5
<1> QED BY <1>7, <1>8, <1>9, <1>10, <1>11, <1>12

\* Closing what main has begun.
LEMMA DeleteStanding ==
  ASSUME NEW js \in BOOLEAN, NEW b \in Brackets, NEW o, Stands(js, o, <<b>>)
  PROVE  Done(delete_json_obj(o))
<1> DEFINE s == <<b>>
<1>1. CASE ~js
  <2>1. delete_json_obj(o) = o /\ Done(o)
    BY <1>1 DEF Stands, Done, delete_json_obj
  <2> QED BY <2>1
<1>2. CASE js /\ s = <<"lbrace">> /\ o = Fresh
  <2>2. delete_json_obj(Fresh) = [Fresh EXCEPT !.deferred = FALSE]
    BY FreshIs DEF delete_json_obj
  <2>3. Done([Fresh EXCEPT !.deferred = FALSE])
    BY FreshIs DEF Done, Outputs
  <2> QED BY <1>2, <2>2, <2>3
<1>3. ASSUME NEW sep \in BOOLEAN, NEW l, Element(s, sep, l), Doc(o, s, s[1] = "lbracket", sep, l)
      PROVE  Done(delete_json_obj(o))
  <2>1. s \in Seq(Brackets) /\ s # <<>> /\ s[1] = b /\ Last(s) = b /\ Front(s) = <<>> /\ Len(s) = 1
    BY DEF Last, Front
  <2>2. o.jw /\ ~o.deferred /\ o.hasArray = (b = "lbracket")
    BY <1>3, <2>1 DEF Doc
  <2> DEFINE h == (s[1] = "lbracket")
             n == jsonw_end(o, Closer[b])
  <2>3. Doc(n, <<>>, h, TRUE, Closer[b])
    BY <1>3, <2>1, Closed
  <2>4. (IF o.hasArray THEN "rbracket" ELSE "rbrace") = Closer[b]
    BY <2>2 DEF Closer, Brackets
  <2>5. delete_json_obj(o) = jsonw_destroy(n)
    BY <2>2, <2>4 DEF delete_json_obj
  <2> HIDE DEF n, h, s
  <2>6. n \in Outputs /\ n.valid /\ ~n.crashed /\ n.open = <<>> /\ n.depth = 0 /\ ~n.deferred
    BY <2>3 DEF Doc, Text
  <2>7. jsonw_destroy(n) = [n EXCEPT !.jw = FALSE]
    BY <2>6 DEF jsonw_destroy
  <2> QED BY <2>5, <2>6, <2>7 DEF Done, Outputs
<1> HIDE DEF s
<1>4. Stands(js, o, s)
  BY DEF s
<1> QED BY <1>1, <1>2, <1>3, <1>4 DEF Stands, Ready

\* delete_json_obj called again finds nothing to close.
LEMMA DeleteDone ==
  ASSUME NEW o, Done(o)
  PROVE  delete_json_obj(o) = o
BY DEF Done, delete_json_obj

\* The brackets around everything, and around the object of a show.
Array == <<"lbracket">>

Outer == <<"lbracket", "lbrace">>

Plain == <<"lbrace">>

\* Both are objects to which more may be added.
LEMMA OuterObjects ==
  /\ Object(Outer) /\ Object(Plain) /\ Outer = Member(Array) /\ Array \in Seq(Brackets)
  /\ Outer \in Seq(Brackets) /\ Plain \in Seq(Brackets)
  /\ Object(Member(Outer)) /\ Object(Member(Plain))
<1>1. Outer \in Seq(Brackets) /\ Outer # <<>> /\ Len(Outer) = 2 /\ Outer[2] = "lbrace"
  BY DEF Outer, Brackets
<1>2. Plain \in Seq(Brackets) /\ Plain # <<>> /\ Len(Plain) = 1 /\ Plain[1] = "lbrace"
  BY DEF Plain, Brackets
<1>3. Outer = Member(Array)
  BY DEF Outer, Member, Array
<1>4. Array \in Seq(Brackets)
  BY DEF Array, Brackets
<1>5. Object(Outer)
  <2> HIDE DEF Outer
  <2> QED BY <1>1 DEF Object, Last
<1>6. Object(Plain)
  <2> HIDE DEF Plain
  <2> QED BY <1>2 DEF Object, Last
<1> QED BY <1>1, <1>2, <1>3, <1>4, <1>5, <1>6, MemberObject

\* Beginning a document in an array with one object, and ending it.
LEMMA InArray ==
  ASSUME NEW js \in BOOLEAN
  PROVE  /\ \A o \in Play(new_json_obj(new_json_obj_plain(NoOutput, js), js), <<"item">>) :
              Stands(js, o, Outer)
         /\ Leads(js, Outer, <<"end">>, Array)
<1>1. Stands(js, new_json_obj(new_json_obj_plain(NoOutput, js), js), Array)
  <2>1. CASE ~js
    <3> DEFINE n == new_json_obj_plain(NoOutput, js)
    <3>1. Done(n)
      <4>1. /\ NoOutput \in Outputs /\ NoOutput.valid /\ ~NoOutput.crashed /\ NoOutput.open = <<>>
            /\ ~NoOutput.jw /\ ~NoOutput.deferred
        <5>1. <<>> \in Seq(Brackets) /\ "start" \in Tokens
          BY DEF Tokens
        <5> QED BY <5>1 DEF NoOutput, Outputs
      <4>2. n = [NoOutput EXCEPT !.deferred = FALSE]
        BY <2>1, <4>1 DEF new_json_obj_plain
      <4> HIDE DEF n
      <4> QED BY <4>1, <4>2 DEF Done, Outputs
    <3> HIDE DEF n
    <3>2. new_json_obj(n, js) = n
      BY <2>1 DEF new_json_obj
    <3> QED BY <2>1, <3>1, <3>2 DEF Stands, n
  <2>2. CASE js
    <3> DEFINE n == new_json_obj(Fresh, TRUE)
    <3>1. new_json_obj(new_json_obj_plain(NoOutput, js), js) = n
      <4>1. js = TRUE
        BY <2>2
      <4> QED BY <4>1, Zenon DEF Fresh
    <3>2. Doc(n, Array, TRUE, FALSE, "lbracket")
      BY WriterMade DEF Array
    <3> HIDE DEF n
    <3>3. Array \in Seq(Brackets) /\ Array # <<>> /\ Array[1] = "lbracket" /\ Last(Array) = "lbracket"
      BY DEF Array, Brackets, Last
    <3>4. Ready(n, Array)
      BY <3>2, <3>3, DocReady
    <3> QED BY <2>2, <3>1, <3>4 DEF Stands
  <2> QED BY <2>1, <2>2
<1>2. Leads(js, Array, <<"item">>, Outer)
  <2>1. Fits(Array, "item") /\ "item" \in DOMAIN Calls
    BY DEF Fits, Array, Brackets, Last, Calls
  <2>2. After(Array, "item") = Outer
    BY OuterObjects DEF After, Member
  <2> QED BY <2>1, <2>2, LeadsOne
<1>3. Leads(js, Outer, <<"end">>, Array)
  <2>1. Array \in Seq(Brackets) /\ Array # <<>> /\ "lbrace" \in Brackets /\ Outer = Append(Array, "lbrace")
    BY OuterObjects DEF Array, Brackets, Member
  <2>2. /\ Outer \in Seq(Brackets) /\ Outer # <<>> /\ Last(Outer) = "lbrace" /\ Len(Outer) > 1
        /\ Front(Outer) = Array
    <3> HIDE DEF Array, Outer, Brackets
    <3> QED BY <2>1, OpenOrClose
  <2>3. Fits(Outer, "end") /\ "end" \in DOMAIN Calls
    BY <2>2 DEF Fits, Calls
  <2>4. After(Outer, "end") = Array
    BY <2>2 DEF After
  <2> QED BY <2>3, <2>4, LeadsOne
<1> QED BY <1>1, <1>2, <1>3 DEF Leads

-----------------------------------------------------------------------------
\* What is due and what is open between two steps.

PmShows == WalkShows \cup {"pm_features"}

\* The shows of one display, up to its own end.
Closing(shows) ==
  /\ todo \in Seq(shows \cup {"close"}) /\ todo # <<>> /\ todo[Len(todo)] = "close"
  /\ \A i \in 1 .. Len(todo) - 1 : todo[i] \in shows

\* What is still due, by the option of the command line.
Agenda ==
  /\ mode = "pm" => todo \in {<<>>, <<"show_pm">>} \/ Closing(PmShows)
  /\ mode = "cdb" => todo \in {<<>>, <<"show_features">>} \/ Closing(FeatureShows)
  /\ mode = "cert" => todo \in {<<>>, <<"certificates">>}
  /\ mode = "cert_file" => todo \in {<<>>, <<"cert_file">>}
  /\ mode = "fw" => todo \in {<<>>, <<"fw_command">>, <<"fw_info">>}
  /\ mode = "auth" => todo \in {<<>>, <<"get_signature">>, <<"set_digest", "get_signature">>}
  /\ mode = "show" => todo \in {<<>>, <<"eeprom_parse">>} \cup {<<standard>> : standard \in DOMAIN Standards}
  /\ mode = "bert_read" => todo \in {<<>>, <<"cmis_diag_bert_read">>}
  /\ mode = "exit" => todo = <<>>

\* The brackets that are open between two steps: what main has begun, the object
\* of a display of several shows, and the list of a walk or of the certificates.
OpenAt(option, shows, w, n) ==
  LET main == IF option \in {"pm", "cdb"} THEN Outer ELSE Plain
      inside == option \in {"pm", "cdb"} /\ shows # <<>> /\ Head(shows) \notin {"show_pm", "show_features"}
      show == IF inside THEN Member(main) ELSE main
  IN IF w # NoWalk THEN List(Member(show))
     ELSE IF shows # <<>> /\ Head(shows) = "certificates" /\ n > 0 THEN Item(show)
     ELSE show

Opens == OpenAt(mode, todo, walk, certs)

DocumentInv ==
  /\ Agenda
  /\ mode \notin {"show", "exit"} => Stands(json, out, Opens)
  /\ mode = "show" => out = new_json_obj_plain(NoOutput, json) \/ (todo = <<>> /\ Done(out))
  /\ mode = "exit" => Done(out)
  /\ mode = "bert_read" => ~json

\* Failed reads that leave the document open, and the counters of a test, are left
\* to text output; the strings of a module have only characters that the writer
\* puts out as JSON; and a CMIS module has page 01h.
Handled ==
  /\ "bert_read" \in TextModes
  /\ JsonUnread \cap {"lower", "00h", "01h", "02h", "11h"} = {}
  /\ Chars \subseteq {"plain", "escaped"}
  /\ FlatIds \cap Standards.cmis = {}

\* Such a string is written as any other field.
LEMMA TextsCarried == Handled => Texts = {"fields"}
BY CharsAssumption DEF Handled, CharsAssumption, Texts, jsonw_puts

\* The module that is shown as a CMIS module is one.
CageInv ==
  /\ cage.more \/ cage.id \in FlatIds
  /\ mode = "show" /\ Due("cmis") => cage.id \in Standards.cmis

\* Which show may be due.
LEMMA Heads ==
  ASSUME Agenda, mode \in Modes \cup {"exit"}, todo # <<>>
  PROVE  /\ mode # "exit"
         /\ mode = "pm" => Head(todo) \in PmShows \cup {"show_pm", "close"}
         /\ mode = "cdb" => Head(todo) \in FeatureShows \cup {"show_features", "close"}
         /\ mode = "cert" => Head(todo) = "certificates"
         /\ mode = "cert_file" => Head(todo) = "cert_file"
         /\ mode = "fw" => Head(todo) \in {"fw_command", "fw_info"}
         /\ mode = "auth" => Head(todo) \in {"set_digest", "get_signature"}
         /\ mode = "show" => Head(todo) \in {"eeprom_parse"} \cup DOMAIN Standards
         /\ mode = "bert_read" => Head(todo) = "cmis_diag_bert_read"
<1>1. ASSUME NEW shows, Closing(shows) PROVE Head(todo) \in shows \cup {"close"}
  BY <1>1 DEF Closing
<1>2. \A x : Head(<<x>>) = x /\ <<x>> # <<>>
  OBVIOUS
<1>3. Head(<<"set_digest", "get_signature">>) = "set_digest"
  OBVIOUS
<1>4. mode # "exit"
  BY DEF Agenda
<1>5. ASSUME mode = "pm" PROVE Head(todo) \in PmShows \cup {"show_pm", "close"}
  BY <1>1, <1>2, <1>5 DEF Agenda
<1>6. ASSUME mode = "cdb" PROVE Head(todo) \in FeatureShows \cup {"show_features", "close"}
  BY <1>1, <1>2, <1>6 DEF Agenda
<1>7. ASSUME mode = "cert" PROVE Head(todo) = "certificates"
  BY <1>2, <1>7 DEF Agenda
<1>8. ASSUME mode = "cert_file" PROVE Head(todo) = "cert_file"
  BY <1>2, <1>8 DEF Agenda
<1>9. ASSUME mode = "fw" PROVE Head(todo) \in {"fw_command", "fw_info"}
  BY <1>2, <1>9 DEF Agenda
<1>10. ASSUME mode = "auth" PROVE Head(todo) \in {"set_digest", "get_signature"}
  BY <1>2, <1>3, <1>10 DEF Agenda
<1>11. ASSUME mode = "show" PROVE Head(todo) \in {"eeprom_parse"} \cup DOMAIN Standards
  BY <1>2, <1>11 DEF Agenda
<1>12. ASSUME mode = "bert_read" PROVE Head(todo) = "cmis_diag_bert_read"
  BY <1>2, <1>12 DEF Agenda
<1> QED BY <1>4, <1>5, <1>6, <1>7, <1>8, <1>9, <1>10, <1>11, <1>12

\* A show is due in its display.
LEMMA DueIn ==
  ASSUME Agenda, mode \in Modes \cup {"exit"}, NEW show, Due(show)
  PROVE  /\ show \in PmShows => mode = "pm"
         /\ show \in FeatureShows => mode \in {"cdb", "fw"}
         /\ show \in FeatureShows \ {"fw_info"} => mode = "cdb"
         /\ show = "close" => mode \in {"pm", "cdb"}
         /\ show = "show_pm" => mode = "pm"
         /\ show = "show_features" => mode = "cdb"
         /\ show = "certificates" => mode = "cert"
         /\ show = "cert_file" => mode = "cert_file"
         /\ show = "fw_command" => mode = "fw"
         /\ show \in {"set_digest", "get_signature"} => mode = "auth"
         /\ show \in {"eeprom_parse"} \cup DOMAIN Standards => mode = "show"
         /\ show = "cmis_diag_bert_read" => mode = "bert_read"
<1>1. todo # <<>> /\ Head(todo) = show
  BY DEF Due
<1> QED BY <1>1, Heads DEF Modes, PmShows, WalkShows, FeatureShows, Standards

\* The next show of the display.
LEMMA NextShow ==
  ASSUME Agenda, mode \in Modes \cup {"exit"}, NEW show, Due(show), todo' = Tail(todo), mode' = mode
  PROVE  /\ Agenda'
         /\ mode = "pm" /\ show \in PmShows =>
              todo' # <<>> /\ Head(todo') \in PmShows \cup {"close"}
         /\ mode = "cdb" /\ show \in FeatureShows =>
              todo' # <<>> /\ Head(todo') \in FeatureShows \cup {"close"}
         /\ show \in {"close", "certificates", "cert_file", "fw_command", "get_signature",
                      "eeprom_parse", "cmis_diag_bert_read"} \cup DOMAIN Standards => todo' = <<>>
         /\ mode \notin {"pm", "cdb"} => todo' \in {<<>>, <<"get_signature">>}
<1>1. ASSUME NEW shows, Closing(shows), "close" \notin shows
      PROVE  /\ show = "close" => todo' = <<>>
             /\ show # "close" => Closing(shows)' /\ Head(todo') \in shows \cup {"close"}
  <2>1. todo \in Seq(shows \cup {"close"}) /\ todo # <<>> /\ todo[Len(todo)] = "close" /\ todo[1] = show
    BY <1>1 DEF Closing, Due
  <2>2. CASE show = "close"
    <3>1. Len(todo) \in Nat /\ Len(todo) > 0 /\ \A i \in 1 .. Len(todo) - 1 : todo[i] \in shows
      BY <1>1, <2>1 DEF Closing
    <3>2. ~(1 \in 1 .. Len(todo) - 1)
      BY <1>1, <2>1, <2>2, <3>1
    <3>3. Len(todo) = 1
      <4>1. \A n \in Nat : n > 0 /\ ~(1 \in 1 .. n - 1) => n = 1
        OBVIOUS
      <4> QED BY <3>1, <3>2, <4>1
    <3> QED BY <2>1, <2>2, <3>3
  <2>3. CASE show # "close"
    <3>1. Len(todo) >= 2 /\ Len(todo) \in Nat
      BY <2>1, <2>3
    <3>2. /\ todo' \in Seq(shows \cup {"close"}) /\ Len(todo') = Len(todo) - 1
          /\ \A i \in 1 .. Len(todo') : todo'[i] = todo[i + 1]
      BY <2>1, <3>1
    <3>3. todo' # <<>> /\ todo'[Len(todo')] = "close"
      <4>1. Len(todo') \in 1 .. Len(todo') /\ Len(todo') + 1 = Len(todo) /\ Len(todo') # 0
        BY <3>1, <3>2
      <4>2. todo'[Len(todo')] = todo[Len(todo)]
        BY <3>2, <4>1
      <4> QED BY <2>1, <4>1, <4>2
    <3>4. \A i \in 1 .. Len(todo') - 1 : todo'[i] \in shows
      BY <1>1, <3>1, <3>2 DEF Closing
    <3>5. Head(todo') \in shows \cup {"close"}
      BY <3>1, <3>2, <3>3
    <3> QED BY <2>3, <3>2, <3>3, <3>4, <3>5 DEF Closing
  <2> QED BY <2>2, <2>3
<1>2. \A x : Tail(<<x>>) = <<>> /\ Head(<<x>>) = x
  OBVIOUS
<1>3. /\ Tail(<<"set_digest", "get_signature">>) = <<"get_signature">>
      /\ Head(<<"set_digest", "get_signature">>) = "set_digest"
  OBVIOUS
<1>4. "close" \notin PmShows /\ "close" \notin FeatureShows
  BY DEF PmShows, WalkShows, FeatureShows
<1>5. todo # <<>> /\ Head(todo) = show
  BY DEF Due
<1>6. CASE mode = "pm"
  <2>1. CASE todo = <<"show_pm">>
    BY <1>2, <1>5, <1>6, <2>1 DEF Agenda, PmShows, WalkShows, Standards
  <2>2. CASE Closing(PmShows)
    <3>1. show \in PmShows \cup {"close"}
      BY <1>5, <2>2 DEF Closing
    <3>2. /\ show = "close" => todo' = <<>>
          /\ show # "close" => Closing(PmShows)' /\ Head(todo') \in PmShows \cup {"close"}
      <4> HIDE DEF Closing, PmShows
      <4> QED BY <1>1, <1>4, <2>2
    <3>3. Agenda'
      BY <1>6, <3>2 DEF Agenda
    <3>4. show # "close" => todo' # <<>>
      BY <3>2 DEF Closing
    <3>5. show \notin {"certificates", "cert_file", "fw_command", "get_signature", "eeprom_parse",
                     "cmis_diag_bert_read"} \cup DOMAIN Standards
      BY <3>1 DEF PmShows, WalkShows, Standards
    <3>6. show \in PmShows => show # "close"
      BY <1>4
    <3> QED BY <1>6, <3>2, <3>3, <3>4, <3>5, <3>6
  <2> QED BY <1>5, <1>6, <2>1, <2>2 DEF Agenda
<1>7. CASE mode = "cdb"
  <2>1. CASE todo = <<"show_features">>
    BY <1>2, <1>5, <1>7, <2>1 DEF Agenda, FeatureShows, Standards
  <2>2. CASE Closing(FeatureShows)
    <3>1. show \in FeatureShows \cup {"close"}
      BY <1>5, <2>2 DEF Closing
    <3>2. /\ show = "close" => todo' = <<>>
          /\ show # "close" => Closing(FeatureShows)' /\ Head(todo') \in FeatureShows \cup {"close"}
      <4> HIDE DEF Closing, FeatureShows
      <4> QED BY <1>1, <1>4, <2>2
    <3>3. Agenda'
      BY <1>7, <3>2 DEF Agenda
    <3>4. show # "close" => todo' # <<>>
      BY <3>2 DEF Closing
    <3>5. show \notin {"certificates", "cert_file", "fw_command", "get_signature", "eeprom_parse",
                     "cmis_diag_bert_read"} \cup DOMAIN Standards
      BY <3>1 DEF FeatureShows, Standards
    <3>6. show \in FeatureShows => show # "close"
      BY <1>4
    <3> QED BY <1>7, <3>2, <3>3, <3>4, <3>5, <3>6
  <2> QED BY <1>5, <1>7, <2>1, <2>2 DEF Agenda
<1>8. CASE mode \notin {"pm", "cdb"}
  <2>1. \/ (\E x : todo = <<x>>) /\ todo' = <<>>
        \/ mode = "auth" /\ show = "set_digest" /\ todo' = <<"get_signature">>
    BY <1>2, <1>3, <1>5, <1>8 DEF Agenda, Modes
  <2>2. Agenda'
    BY <1>8, <2>1 DEF Agenda
  <2> QED BY <1>8, <2>1, <2>2 DEF Standards
<1> QED BY <1>6, <1>7, <1>8

-----------------------------------------------------------------------------
\* The displays, step by step.

\* What is open, case by case.
LEMMA OpenIs ==
  \A option, shows, w, n :
    /\ option \in {"pm", "cdb"} /\ shows # <<>> /\ w = NoWalk
         /\ Head(shows) \notin {"show_pm", "show_features", "certificates"} =>
         OpenAt(option, shows, w, n) = Member(Outer)
    /\ option \in {"pm", "cdb"} /\ shows # <<>> /\ w # NoWalk
         /\ Head(shows) \notin {"show_pm", "show_features"} =>
         OpenAt(option, shows, w, n) = List(Member(Member(Outer)))
    /\ option \in {"pm", "cdb"} /\ w = NoWalk
         /\ (shows = <<>> \/ Head(shows) \in {"show_pm", "show_features"}) =>
         OpenAt(option, shows, w, n) = Outer
    /\ option \notin {"pm", "cdb"} /\ w = NoWalk
         /\ (shows = <<>> \/ Head(shows) # "certificates" \/ ~(n > 0)) =>
         OpenAt(option, shows, w, n) = Plain
    /\ option \notin {"pm", "cdb"} /\ w = NoWalk
         /\ shows # <<>> /\ Head(shows) = "certificates" /\ n > 0 =>
         OpenAt(option, shows, w, n) = Item(Plain)
<1> SUFFICES ASSUME NEW option, NEW shows, NEW w, NEW n
             PROVE  LET at == OpenAt(option, shows, w, n) IN
                    /\ option \in {"pm", "cdb"} /\ shows # <<>> /\ w = NoWalk
                         /\ Head(shows) \notin {"show_pm", "show_features", "certificates"} =>
                         at = Member(Outer)
                    /\ option \in {"pm", "cdb"} /\ shows # <<>> /\ w # NoWalk
                         /\ Head(shows) \notin {"show_pm", "show_features"} =>
                         at = List(Member(Member(Outer)))
                    /\ option \in {"pm", "cdb"} /\ w = NoWalk
                         /\ (shows = <<>> \/ Head(shows) \in {"show_pm", "show_features"}) =>
                         at = Outer
                    /\ option \notin {"pm", "cdb"} /\ w = NoWalk
                         /\ (shows = <<>> \/ Head(shows) # "certificates" \/ ~(n > 0)) =>
                         at = Plain
                    /\ option \notin {"pm", "cdb"} /\ w = NoWalk
                         /\ shows # <<>> /\ Head(shows) = "certificates" /\ n > 0 =>
                         at = Item(Plain)
  BY Zenon
<1> DEFINE at == OpenAt(option, shows, w, n)
<1>1. CASE option \in {"pm", "cdb"}
  <2>1. CASE shows # <<>> /\ Head(shows) \notin {"show_pm", "show_features"}
    BY <1>1, <2>1 DEF OpenAt
  <2>2. CASE ~(shows # <<>> /\ Head(shows) \notin {"show_pm", "show_features"})
    BY <1>1, <2>2 DEF OpenAt
  <2> QED BY <2>1, <2>2
<1>2. CASE option \notin {"pm", "cdb"}
  BY <1>2 DEF OpenAt
<1> QED BY <1>1, <1>2

\* A step that writes as the displays do.
LEMMA Written ==
  ASSUME DocumentInv, mode \notin {"show", "exit"}, UNCHANGED <<mode, json>>, Agenda',
         NEW calls, out' \in Play(out, calls), Leads(json, Opens, calls, Opens')
  PROVE  DocumentInv'
<1>1. Stands(json, out, Opens)
  BY DEF DocumentInv
<1>2. Stands(json, out', Opens')
  BY <1>1 DEF Leads
<1>3. Stands(json', out', Opens')
  BY <1>2
<1>4. (mode = "bert_read" => ~json)'
  BY DEF DocumentInv
<1> QED BY <1>3, <1>4 DEF DocumentInv

\* One that writes nothing.
LEMMA NotWritten ==
  ASSUME NEW s
  PROVE  /\ Leads(json, s, <<>>, s) /\ out \in Play(out, <<>>)
         /\ \A o \in {out} : o \in Play(out, <<>>)
BY LeadsNone, PlayNone, Zenon

\* What is open in the shows of cmis_cdb_show_pm.
PmOpen(w) == IF w = NoWalk THEN Member(Outer) ELSE List(Member(Member(Outer)))

\* A step of a performance show that writes what fits there.
LEMMA PmWritten ==
  ASSUME QueriesInv, DocumentInv, NEW show \in PmShows, Due(show), UNCHANGED <<mode, json>>,
         walk' = NoWalk => todo' = Tail(todo), walk' # NoWalk => UNCHANGED todo,
         NEW calls, out' \in Play(out, calls), Leads(json, PmOpen(walk), calls, PmOpen(walk'))
  PROVE  DocumentInv'
<1>1. Agenda /\ mode \in Modes \cup {"exit"}
  BY DEF DocumentInv, QueriesInv, ReplyInv
<1>2. mode = "pm"
  BY <1>1, DueIn
<1>3. \A x \in PmShows \cup {"close"} : x \notin {"show_pm", "show_features", "certificates"}
  BY DEF PmShows, WalkShows
<1>4. todo # <<>> /\ Head(todo) \in PmShows
  BY DEF Due
<1>5. Agenda' /\ todo' # <<>> /\ Head(todo') \in PmShows \cup {"close"}
  <2>1. CASE walk' = NoWalk
    BY <1>1, <1>2, <2>1, NextShow
  <2>2. CASE walk' # NoWalk
    <3>1. todo' = todo /\ mode' = mode
      BY <2>2
    <3>2. Agenda'
      BY <1>1, <3>1 DEF Agenda, Closing
    <3> QED BY <1>4, <3>1, <3>2
  <2> QED BY <2>1, <2>2
<1>6. Opens = PmOpen(walk)
  <2>1. CASE walk = NoWalk
    BY <1>2, <1>3, <1>4, <2>1, OpenIs DEF Opens, PmOpen
  <2>2. CASE walk # NoWalk
    BY <1>2, <1>3, <1>4, <2>2, OpenIs DEF Opens, PmOpen
  <2> QED BY <2>1, <2>2
<1>7. Opens' = PmOpen(walk')
  <2>1. CASE walk' = NoWalk
    BY <1>2, <1>3, <1>5, <2>1, OpenIs DEF Opens, PmOpen
  <2>2. CASE walk' # NoWalk
    BY <1>2, <1>3, <1>5, <2>2, OpenIs DEF Opens, PmOpen
  <2> QED BY <2>1, <2>2
<1> QED BY <1>2, <1>5, <1>6, <1>7, Written

\* The beginning of a walk: every early return has closed what was opened.
LEMMA BeginWalkWritten ==
  ASSUME QueriesInv, DocumentInv, NEW kind \in WalkShows, NEW shortest, NEW told \in Told,
         BeginWalk(kind, shortest, told)
  PROVE  DocumentInv'
<1> DEFINE m == Member(Outer)
<1>1. kind \in PmShows /\ Due(kind) /\ walk = NoWalk /\ UNCHANGED <<mode, json>>
  BY DEF PmShows, BeginWalk
<1>2. Object(m) /\ PmOpen(NoWalk) = m
  BY OuterObjects DEF PmOpen
<1> HIDE DEF m
<1>3. ASSUME NEW calls, Leads(json, m, calls, m), out' \in Play(out, calls), todo' = Tail(todo),
             walk' = NoWalk
      PROVE  DocumentInv'
  BY <1>1, <1>2, <1>3, PmWritten
<1>4. CASE (\E t \in {<<>>, <<"fields">>} : Leave(Play(out, <<"object">> \o t \o <<"end">>))) /\ walk' = NoWalk
  <2>1. PICK t \in Told : Leave(Play(out, <<"object">> \o t \o <<"end">>))
    BY <1>4 DEF Told
  <2>2. Leads(json, m, <<"object">> \o t \o <<"end">>, m)
    BY <1>2, Asking
  <2> QED BY <1>3, <1>4, <2>1, <2>2 DEF Leave
<1>5. CASE Leave(Play(out, <<"object", "end">>)) /\ walk' = NoWalk
  <2>1. Leads(json, m, <<"object", "end">>, m)
    BY <1>2, Objects
  <2> QED BY <1>3, <1>5, <2>1 DEF Leave
<1>6. CASE /\ out' \in Play(out, <<"object">> \o told \o <<"array">>) /\ UNCHANGED todo
           /\ \E type : walk' = [off |-> 1, lane |-> 1, size |-> RecSize(type)]
  <2>1. walk' # NoWalk
    BY <1>6 DEF NoWalk
  <2>2. Leads(json, m, <<"object">> \o told \o <<"array">>, List(Member(m)))
    BY <1>2, Asking
  <2>3. PmOpen(walk') = List(Member(m))
    BY <2>1 DEF PmOpen, m
  <2> QED BY <1>1, <1>2, <1>6, <2>1, <2>2, <2>3, PmWritten
<1> QED BY <1>4, <1>5, <1>6 DEF BeginWalk, Ask

\* A pass over the records, or the end of the walk.
LEMMA WalkOnWritten ==
  ASSUME QueriesInv, DocumentInv, NEW kind \in WalkShows, InWalk(kind), UNCHANGED <<mode, json>>,
         (Pass(kind) /\ UNCHANGED todo) \/ EndWalk
  PROVE  DocumentInv'
<1> DEFINE s == Member(Outer)
           l == List(Member(s))
<1>1. kind \in PmShows /\ Due(kind) /\ walk # NoWalk
  BY DEF PmShows, InWalk
<1>2. Object(s) /\ Object(Member(s)) /\ PmOpen(NoWalk) = s /\ \A w : w # NoWalk => PmOpen(w) = l
  BY OuterObjects, MemberObject DEF PmOpen, Object
<1> HIDE DEF s, l
<1>3. CASE Pass(kind) /\ UNCHANGED todo
  <2> DEFINE calls == IF Held(kind) > 0 THEN <<"item", "fields", "end">> ELSE <<>>
  <2>1. out' \in Play(out, calls)
    BY <1>3 DEF Pass
  <2>2. walk' # NoWalk
    <3>1. walk' = [walk EXCEPT !.off = @ + Held(kind) * walk.size, !.lane = (@ % MaxLane) + 1]
      BY <1>3 DEF Pass
    <3>2. walk \in [off : 1 .. rpl.len, lane : 1 .. MaxLane, size : {6, 8}]
      BY <1>1 DEF QueriesInv, WalkInv
    <3>3. walk'.size \in {6, 8}
      BY <3>1, <3>2
    <3> QED BY <3>3 DEF NoWalk
  <2>3. Leads(json, l, calls, l)
    <3>1. Leads(json, l, <<"item", "fields", "end">>, l)
      BY <1>2, Lists DEF l
    <3>2. Leads(json, l, <<>>, l)
      BY LeadsNone
    <3> QED BY <3>1, <3>2
  <2> HIDE DEF calls
  <2> QED BY <1>1, <1>2, <1>3, <2>1, <2>2, <2>3, PmWritten
<1>4. CASE EndWalk
  <2>1. out' \in Play(out, <<"end_array", "end">>) /\ todo' = Tail(todo) /\ walk' = NoWalk
    BY <1>4 DEF EndWalk, Leave
  <2>2. Leads(json, l, <<"end_array", "end">>, s)
    BY <1>2, Certificates DEF l
  <2> QED BY <1>1, <1>2, <2>1, <2>2, PmWritten
<1> QED BY <1>3, <1>4

\* The beginning of a display of several shows.
LEMMA DisplayBegun ==
  ASSUME QueriesInv, DocumentInv, NEW show \in {"show_pm", "show_features"}, Due(show),
         UNCHANGED <<mode, json, walk>>,
         \/ todo' = <<>> /\ out' = out
         \/ /\ out' \in Play(out, <<"object">>)
            /\ \/ show = "show_pm"
                    /\ todo' = <<"pm_features", "module_pm", "host_pm", "media_pm", "dp_pm", "close">>
               \/ show = "show_features"
                    /\ todo' = <<"module", "fw_mgmt", "fw_info", "pm", "bert", "security", "ext", "close">>
  PROVE  DocumentInv'
<1>1. Agenda /\ mode \in Modes \cup {"exit"} /\ todo # <<>> /\ Head(todo) = show
  BY DEF DocumentInv, QueriesInv, ReplyInv, Due
<1>2. mode \in {"pm", "cdb"} /\ (mode = "pm" <=> show = "show_pm")
  BY <1>1, DueIn
<1>3. walk = NoWalk /\ walk' = NoWalk
  BY OutsideWalks DEF QueriesInv, WalkShows
<1>4. Opens = Outer
  BY <1>1, <1>2, <1>3, OpenIs DEF Opens
<1>5. CASE todo' = <<>> /\ out' = out
  <2>1. Agenda'
    BY <1>2, <1>5 DEF Agenda
  <2>2. Opens' = Outer
    BY <1>2, <1>3, <1>5, OpenIs DEF Opens
  <2>3. Leads(json, Outer, <<>>, Outer) /\ out' \in Play(out, <<>>)
    BY <1>5, NotWritten
  <2> QED BY <1>2, <1>4, <2>1, <2>2, <2>3, Written
<1>6. ASSUME out' \in Play(out, <<"object">>),
             NEW shows, "close" \notin shows, Closing(shows)', Head(todo') \in shows,
             \/ mode = "pm" /\ shows = PmShows
             \/ mode = "cdb" /\ shows = FeatureShows
      PROVE  DocumentInv'
  <2>1. Agenda'
    BY <1>2, <1>6 DEF Agenda
  <2>2. todo' # <<>> /\ Head(todo') \notin {"show_pm", "show_features", "certificates"}
    BY <1>6 DEF Closing, PmShows, WalkShows, FeatureShows
  <2>3. Opens' = Member(Outer)
    BY <1>2, <1>3, <2>2, OpenIs DEF Opens
  <2>4. Leads(json, Outer, <<"object">>, Member(Outer))
    BY OuterObjects, OneCall
  <2> QED BY <1>2, <1>4, <1>6, <2>1, <2>3, <2>4, Written
<1>7. CASE /\ out' \in Play(out, <<"object">>) /\ show = "show_pm"
           /\ todo' = <<"pm_features", "module_pm", "host_pm", "media_pm", "dp_pm", "close">>
  <2> DEFINE shows == <<"pm_features", "module_pm", "host_pm", "media_pm", "dp_pm", "close">>
  <2>1. shows \in Seq(PmShows \cup {"close"}) /\ Len(shows) = 6
    BY DEF PmShows, WalkShows
  <2>2. /\ shows[6] = "close" /\ shows[1] = "pm_features" /\ \A i \in 1 .. 5 : shows[i] \in PmShows
    BY DEF PmShows, WalkShows
  <2>3. todo' = shows
    BY <1>7
  <2> HIDE DEF shows
  <2>4. shows # <<>> /\ Head(shows) = "pm_features"
    BY <2>1, <2>2
  <2>5. Closing(PmShows)' /\ Head(todo') \in PmShows
    <3>1. Len(shows) - 1 = 5 /\ "pm_features" \in PmShows
      BY <2>1 DEF PmShows
    <3>2. Len(todo') - 1 = 5 /\ todo'[Len(todo')] = "close"
      BY <2>1, <2>2, <2>3, <3>1
    <3>3. \A i \in 1 .. Len(todo') - 1 : todo'[i] \in PmShows
      BY <2>2, <2>3, <3>2
    <3>4. todo' \in Seq(PmShows \cup {"close"}) /\ todo' # <<>>
      BY <2>1, <2>3, <2>4
    <3>5. Closing(PmShows)'
      BY <3>2, <3>3, <3>4, Zenon DEF Closing
    <3> QED BY <2>3, <2>4, <3>1, <3>5
  <2>6. "close" \notin PmShows
    BY DEF PmShows, WalkShows
  <2> QED BY <1>2, <1>6, <1>7, <2>5, <2>6
<1>8. CASE /\ out' \in Play(out, <<"object">>) /\ show = "show_features"
           /\ todo' = <<"module", "fw_mgmt", "fw_info", "pm", "bert", "security", "ext", "close">>
  <2> DEFINE shows == <<"module", "fw_mgmt", "fw_info", "pm", "bert", "security", "ext", "close">>
  <2>1. shows \in Seq(FeatureShows \cup {"close"}) /\ Len(shows) = 8
    BY DEF FeatureShows
  <2>2. /\ shows[8] = "close" /\ shows[1] = "module" /\ \A i \in 1 .. 7 : shows[i] \in FeatureShows
    BY DEF FeatureShows
  <2>3. todo' = shows
    BY <1>8
  <2> HIDE DEF shows
  <2>4. shows # <<>> /\ Head(shows) = "module"
    BY <2>1, <2>2
  <2>5. Closing(FeatureShows)' /\ Head(todo') \in FeatureShows
    <3>1. Len(shows) - 1 = 7 /\ "module" \in FeatureShows
      BY <2>1 DEF FeatureShows
    <3>2. Len(todo') - 1 = 7 /\ todo'[Len(todo')] = "close"
      BY <2>1, <2>2, <2>3, <3>1
    <3>3. \A i \in 1 .. Len(todo') - 1 : todo'[i] \in FeatureShows
      BY <2>2, <2>3, <3>2
    <3>4. todo' \in Seq(FeatureShows \cup {"close"}) /\ todo' # <<>>
      BY <2>1, <2>3, <2>4
    <3>5. Closing(FeatureShows)'
      BY <3>2, <3>3, <3>4, Zenon DEF Closing
    <3> QED BY <2>3, <2>4, <3>1, <3>5
  <2>6. "close" \notin FeatureShows
    BY DEF FeatureShows
  <2> QED BY <1>2, <1>6, <1>8, <2>5, <2>6
<1> QED BY <1>5, <1>7, <1>8

\* Performance monitoring.
LEMMA PmDocument ==
  ASSUME QueriesInv, DocumentInv, PmNext
  PROVE  DocumentInv'
<1> DEFINE m == Member(Outer)
<1>1. Object(m) /\ PmOpen(NoWalk) = m
  BY OuterObjects DEF PmOpen
<1> HIDE DEF m
<1>2. ASSUME NEW show \in PmShows, Due(show), UNCHANGED <<mode, json, walk>>, walk = NoWalk,
             Leave({out}) \/ Leave(Play(out, <<"object", "fields", "end">>))
      PROVE  DocumentInv'
  <2>1. CASE Leave({out})
    <3>1. Leads(json, m, <<>>, m) /\ out' \in Play(out, <<>>)
      BY <2>1, NotWritten DEF Leave
    <3> QED BY <1>1, <1>2, <2>1, <3>1, PmWritten DEF Leave
  <2>2. CASE Leave(Play(out, <<"object", "fields", "end">>))
    <3>1. Leads(json, m, <<"object", "fields", "end">>, m)
      BY <1>1, Objects
    <3> QED BY <1>1, <1>2, <2>2, <3>1, PmWritten DEF Leave
  <2> QED BY <1>2, <2>1, <2>2
<1>3. CASE cmis_cdb_show_pm
  <2>1. UNCHANGED <<mode, json, walk>> /\ Due("show_pm")
    BY <1>3 DEF cmis_cdb_show_pm, pm
  <2> QED BY <1>3, <2>1, DisplayBegun DEF cmis_cdb_show_pm
<1>4. CASE cdb_show_pm_features
  <2>1. UNCHANGED <<mode, json, walk>> /\ Due("pm_features") /\ "pm_features" \in PmShows
    BY <1>4 DEF cdb_show_pm_features, PmShows
  <2>2. walk = NoWalk
    BY <2>1, OutsideWalks DEF QueriesInv, WalkShows
  <2>3. Leave({out}) \/ Leave(Play(out, <<"object", "fields", "end">>))
    BY <1>4 DEF cdb_show_pm_features
  <2> QED BY <1>2, <2>1, <2>2, <2>3
<1>5. <<>> \in Told /\ <<"fields">> \in Told
  BY DEF Told
<1>6. ASSUME NEW kind \in WalkShows, NEW shortest, NEW told \in Told, BeginWalk(kind, shortest, told)
      PROVE  DocumentInv'
  BY <1>6, BeginWalkWritten
<1>7. ASSUME NEW kind \in WalkShows, Loop(kind) PROVE DocumentInv'
  BY <1>7, WalkOnWritten DEF Loop
<1>8. CASE cdb_show_module_pm
  <2>1. CASE BeginWalk("module_pm", 1, <<"fields">>)
    BY <1>5, <1>6, <2>1 DEF WalkShows
  <2>2. CASE /\ InWalk("module_pm")
             /\ IF walk.lane = 1 THEN Pass("module_pm") /\ UNCHANGED todo ELSE EndWalk
             /\ UNCHANGED <<mode, json, ret, rpl, feat, mod>>
    BY <2>2, WalkOnWritten DEF WalkShows
  <2> QED BY <1>8, <2>1, <2>2 DEF cdb_show_module_pm
<1>9. CASE cdb_show_host_pm
  <2>1. CASE /\ Due("host_pm") /\ feat.host = 0 /\ walk = NoWalk /\ Leave({out})
             /\ UNCHANGED <<mode, json, ret, rpl, top, pm>>
    BY <1>2, <2>1 DEF pm, PmShows, WalkShows
  <2>2. CASE BeginWalk("host_pm", 2, <<>>)
    BY <1>5, <1>6, <2>2 DEF WalkShows
  <2> QED BY <1>7, <1>9, <2>1, <2>2 DEF cdb_show_host_pm, WalkShows
<1>10. CASE cdb_show_media_pm
  BY <1>5, <1>6, <1>7, <1>10 DEF cdb_show_media_pm, WalkShows
<1>11. CASE cdb_show_dp_pm
  BY <1>5, <1>6, <1>7, <1>11 DEF cdb_show_dp_pm, WalkShows
<1> QED BY <1>3, <1>4, <1>8, <1>9, <1>10, <1>11 DEF PmNext

\* A show that writes an object and ends.
LEMMA FeatureWritten ==
  ASSUME QueriesInv, DocumentInv, NEW key \in FeatureShows, Due(key), UNCHANGED <<mode, json, walk>>,
         NEW calls, Leave(Play(out, calls)), \A s : Object(s) => Leads(json, s, calls, s)
  PROVE  DocumentInv'
<1>1. Agenda /\ mode \in Modes \cup {"exit"} /\ todo # <<>> /\ Head(todo) = key
  BY DEF DocumentInv, QueriesInv, ReplyInv, Due
<1>2. walk = NoWalk /\ walk' = NoWalk
  BY OutsideWalks DEF QueriesInv, WalkShows, FeatureShows
<1>3. todo' = Tail(todo) /\ out' \in Play(out, calls)
  BY DEF Leave
<1>4. mode \in {"cdb", "fw"} /\ Agenda'
  BY <1>1, <1>3, DueIn, NextShow
<1>5. CASE mode = "cdb"
  <2>1. todo' # <<>> /\ Head(todo') \in FeatureShows \cup {"close"}
    BY <1>1, <1>3, <1>5, NextShow
  <2>2. \A x \in FeatureShows \cup {"close"} : x \notin {"show_pm", "show_features", "certificates"}
    BY DEF FeatureShows
  <2>3. Opens = Member(Outer) /\ Opens' = Member(Outer)
    BY <1>1, <1>2, <1>5, <2>1, <2>2, OpenIs DEF Opens
  <2>4. Leads(json, Member(Outer), calls, Member(Outer))
    BY OuterObjects
  <2> QED BY <1>3, <1>4, <2>3, <2>4, Written
<1>6. CASE mode = "fw"
  <2>1. todo' = <<>> \/ Head(todo') # "certificates"
    <3>1. todo' \in {<<>>, <<"get_signature">>}
      BY <1>1, <1>3, <1>6, NextShow
    <3> QED BY <3>1
  <2>2. key # "certificates"
    BY DEF FeatureShows
  <2>3. Opens = Plain /\ Opens' = Plain
    BY <1>1, <1>2, <1>6, <2>1, <2>2, OpenIs DEF Opens
  <2>4. Leads(json, Plain, calls, Plain)
    BY OuterObjects
  <2> QED BY <1>3, <1>4, <2>3, <2>4, Written
<1> QED BY <1>4, <1>5, <1>6

\* A feature query: what is opened is closed on every way out.
LEMMA ShowWritten ==
  ASSUME QueriesInv, DocumentInv, NEW key \in FeatureShows, Due(key), UNCHANGED <<mode, json, walk>>,
         \/ \E told \in {<<>>, <<"fields">>} : Leave(Play(out, <<"object">> \o told \o <<"end">>))
         \/ \E events : /\ \A s, t : Object(t) /\ s = Member(t) => Leads(json, s, events, s)
                        /\ Leave(Play(out, <<"object", "fields">> \o events \o <<"end">>))
  PROVE  DocumentInv'
<1>1. CASE \E told \in {<<>>, <<"fields">>} : Leave(Play(out, <<"object">> \o told \o <<"end">>))
  <2>1. PICK told \in Told : Leave(Play(out, <<"object">> \o told \o <<"end">>))
    BY <1>1 DEF Told
  <2>2. \A s : Object(s) => Leads(json, s, <<"object">> \o told \o <<"end">>, s)
    BY Asking
  <2> QED BY <2>1, <2>2, FeatureWritten
<1>2. ASSUME NEW events, \A s, t : Object(t) /\ s = Member(t) => Leads(json, s, events, s),
             Leave(Play(out, <<"object", "fields">> \o events \o <<"end">>))
      PROVE  DocumentInv'
  <2>1. ASSUME NEW s, Object(s)
        PROVE  Leads(json, s, <<"object", "fields">> \o events \o <<"end">>, s)
    <3> DEFINE m == Member(s)
    <3>1. Leads(json, s, <<"object", "fields">>, m)
      BY <2>1, Objects
    <3>2. Leads(json, m, events, m)
      BY <1>2, <2>1
    <3>3. Leads(json, m, <<"end">>, s)
      BY <2>1, OneCall
    <3> HIDE DEF m
    <3>4. Leads(json, s, <<"object", "fields">> \o events, m)
      BY <3>1, <3>2, LeadsOn
    <3> QED BY <3>3, <3>4, LeadsOn
  <2> QED BY <1>2, <2>1, FeatureWritten
<1> QED BY <1>1, <1>2

\* Feature discovery.
LEMMA FeaturesDocument ==
  ASSUME Handled, QueriesInv, DocumentInv, FeaturesNext, UNCHANGED <<pm, security, cage>>
  PROVE  DocumentInv'
<1>1. walk' = walk
  BY DEF pm
<1>2. \A s, t : Object(t) /\ s = Member(t) => \A r \in Reply :
        /\ \A a \in cmis_cdb_show_module_features(r) : Leads(json, s, a.events, s)
        /\ \A a \in cmis_cdb_show_fw_mgmt_features(r) : Leads(json, s, a.events, s)
        /\ \A a \in cmis_cdb_show_fw_info(r) : Leads(json, s, a.events, s)
        /\ \A a \in cmis_cdb_show_generic_features(r) : Leads(json, s, a.events, s)
        /\ \A a \in cmis_cdb_show_bert_features(r) : Leads(json, s, a.events, s)
        /\ \A a \in cmis_cdb_show_security_features(r) : Leads(json, s, a.events, s)
  BY Answers, TextsCarried, Zenon
<1>3. CASE cmis_cdb_fw_command
  <2>1. Due("fw_command") /\ UNCHANGED <<mode, json, out>> /\ todo' \in {<<>>, <<"fw_info">>}
    BY <1>3 DEF cmis_cdb_fw_command
  <2>2. Agenda /\ mode \in Modes \cup {"exit"} /\ todo # <<>> /\ Head(todo) = "fw_command"
    BY <2>1 DEF DocumentInv, QueriesInv, ReplyInv, Due
  <2>3. mode = "fw" /\ walk = NoWalk
    BY <2>1, <2>2, DueIn, OutsideWalks DEF QueriesInv, WalkShows
  <2>4. Agenda'
    BY <2>1, <2>3 DEF Agenda
  <2>5. todo' = <<>> \/ Head(todo') # "certificates"
    BY <2>1
  <2>6. Opens = Plain /\ Opens' = Plain
    BY <1>1, <2>1, <2>2, <2>3, <2>5, OpenIs DEF Opens
  <2>7. Leads(json, Plain, <<>>, Plain) /\ out' \in Play(out, <<>>)
    BY <2>1, NotWritten
  <2> QED BY <2>1, <2>3, <2>4, <2>6, <2>7, Written
<1>4. CASE cmis_cdb_show_features
  <2>1. UNCHANGED <<mode, json, walk>> /\ Due("show_features")
    BY <1>1, <1>4 DEF cmis_cdb_show_features
  <2> QED BY <1>4, <2>1, DisplayBegun DEF cmis_cdb_show_features
<1>5. CASE Show("module", cmis_cdb_show_module_features)
  <2> USE <1>5 DEF Show, Ask
  <2>1. Due("module") /\ "module" \in FeatureShows /\ UNCHANGED <<mode, json, walk>>
    BY <1>1 DEF FeatureShows
  <2>2. \/ \E told \in {<<>>, <<"fields">>} : Leave(Play(out, <<"object">> \o told \o <<"end">>))
        \/ \E r \in Replies : \E a \in cmis_cdb_show_module_features(r) :
             Leave(Play(out, <<"object", "fields">> \o a.events \o <<"end">>))
    OBVIOUS
  <2>3. \A r \in Replies : \A a \in cmis_cdb_show_module_features(r) : \A s, t :
          Object(t) /\ s = Member(t) => Leads(json, s, a.events, s)
    BY <1>2, RepliesType
  <2> QED BY <2>1, <2>2, <2>3, ShowWritten
<1>6. CASE Show("fw_mgmt", cmis_cdb_show_fw_mgmt_features)
  <2> USE <1>6 DEF Show, Ask
  <2>1. Due("fw_mgmt") /\ "fw_mgmt" \in FeatureShows /\ UNCHANGED <<mode, json, walk>>
    BY <1>1 DEF FeatureShows
  <2>2. \/ \E told \in {<<>>, <<"fields">>} : Leave(Play(out, <<"object">> \o told \o <<"end">>))
        \/ \E r \in Replies : \E a \in cmis_cdb_show_fw_mgmt_features(r) :
             Leave(Play(out, <<"object", "fields">> \o a.events \o <<"end">>))
    OBVIOUS
  <2>3. \A r \in Replies : \A a \in cmis_cdb_show_fw_mgmt_features(r) : \A s, t :
          Object(t) /\ s = Member(t) => Leads(json, s, a.events, s)
    BY <1>2, RepliesType
  <2> QED BY <2>1, <2>2, <2>3, ShowWritten
<1>7. CASE Show("fw_info", cmis_cdb_show_fw_info)
  <2> USE <1>7 DEF Show, Ask
  <2>1. Due("fw_info") /\ "fw_info" \in FeatureShows /\ UNCHANGED <<mode, json, walk>>
    BY <1>1 DEF FeatureShows
  <2>2. \/ \E told \in {<<>>, <<"fields">>} : Leave(Play(out, <<"object">> \o told \o <<"end">>))
        \/ \E r \in Replies : \E a \in cmis_cdb_show_fw_info(r) :
             Leave(Play(out, <<"object", "fields">> \o a.events \o <<"end">>))
    OBVIOUS
  <2>3. \A r \in Replies : \A a \in cmis_cdb_show_fw_info(r) : \A s, t :
          Object(t) /\ s = Member(t) => Leads(json, s, a.events, s)
    BY <1>2, RepliesType
  <2> QED BY <2>1, <2>2, <2>3, ShowWritten
<1>8. CASE Show("pm", cmis_cdb_show_generic_features)
  <2> USE <1>8 DEF Show, Ask
  <2>1. Due("pm") /\ "pm" \in FeatureShows /\ UNCHANGED <<mode, json, walk>>
    BY <1>1 DEF FeatureShows
  <2>2. \/ \E told \in {<<>>, <<"fields">>} : Leave(Play(out, <<"object">> \o told \o <<"end">>))
        \/ \E r \in Replies : \E a \in cmis_cdb_show_generic_features(r) :
             Leave(Play(out, <<"object", "fields">> \o a.events \o <<"end">>))
    OBVIOUS
  <2>3. \A r \in Replies : \A a \in cmis_cdb_show_generic_features(r) : \A s, t :
          Object(t) /\ s = Member(t) => Leads(json, s, a.events, s)
    BY <1>2, RepliesType
  <2> QED BY <2>1, <2>2, <2>3, ShowWritten
<1>9. CASE Show("bert", cmis_cdb_show_bert_features)
  <2> USE <1>9 DEF Show, Ask
  <2>1. Due("bert") /\ "bert" \in FeatureShows /\ UNCHANGED <<mode, json, walk>>
    BY <1>1 DEF FeatureShows
  <2>2. \/ \E told \in {<<>>, <<"fields">>} : Leave(Play(out, <<"object">> \o told \o <<"end">>))
        \/ \E r \in Replies : \E a \in cmis_cdb_show_bert_features(r) :
             Leave(Play(out, <<"object", "fields">> \o a.events \o <<"end">>))
    OBVIOUS
  <2>3. \A r \in Replies : \A a \in cmis_cdb_show_bert_features(r) : \A s, t :
          Object(t) /\ s = Member(t) => Leads(json, s, a.events, s)
    BY <1>2, RepliesType
  <2> QED BY <2>1, <2>2, <2>3, ShowWritten
<1>10. CASE Show("security", cmis_cdb_show_security_features)
  <2> USE <1>10 DEF Show, Ask
  <2>1. Due("security") /\ "security" \in FeatureShows /\ UNCHANGED <<mode, json, walk>>
    BY <1>1 DEF FeatureShows
  <2>2. \/ \E told \in {<<>>, <<"fields">>} : Leave(Play(out, <<"object">> \o told \o <<"end">>))
        \/ \E r \in Replies : \E a \in cmis_cdb_show_security_features(r) :
             Leave(Play(out, <<"object", "fields">> \o a.events \o <<"end">>))
    OBVIOUS
  <2>3. \A r \in Replies : \A a \in cmis_cdb_show_security_features(r) : \A s, t :
          Object(t) /\ s = Member(t) => Leads(json, s, a.events, s)
    BY <1>2, RepliesType
  <2> QED BY <2>1, <2>2, <2>3, ShowWritten
<1>11. CASE Show("ext", cmis_cdb_show_generic_features)
  <2> USE <1>11 DEF Show, Ask
  <2>1. Due("ext") /\ "ext" \in FeatureShows /\ UNCHANGED <<mode, json, walk>>
    BY <1>1 DEF FeatureShows
  <2>2. \/ \E told \in {<<>>, <<"fields">>} : Leave(Play(out, <<"object">> \o told \o <<"end">>))
        \/ \E r \in Replies : \E a \in cmis_cdb_show_generic_features(r) :
             Leave(Play(out, <<"object", "fields">> \o a.events \o <<"end">>))
    OBVIOUS
  <2>3. \A r \in Replies : \A a \in cmis_cdb_show_generic_features(r) : \A s, t :
          Object(t) /\ s = Member(t) => Leads(json, s, a.events, s)
    BY <1>2, RepliesType
  <2> QED BY <2>1, <2>2, <2>3, ShowWritten
<1> QED BY <1>3, <1>4, <1>5, <1>6, <1>7, <1>8, <1>9, <1>10, <1>11 DEF FeaturesNext

\* The end of a display of several shows.
LEMMA CloseDocument ==
  ASSUME QueriesInv, DocumentInv, CloseShow
  PROVE  DocumentInv'
<1>1. Due("close") /\ UNCHANGED <<mode, json, walk>> /\ todo' = Tail(todo) /\ out' \in Play(out, <<"end">>)
  BY DEF CloseShow, Leave, pm
<1>2. Agenda /\ mode \in Modes \cup {"exit"} /\ todo # <<>> /\ Head(todo) = "close"
  BY <1>1 DEF DocumentInv, QueriesInv, ReplyInv, Due
<1>3. mode \in {"pm", "cdb"} /\ walk = NoWalk
  BY <1>1, <1>2, DueIn, OutsideWalks DEF QueriesInv, WalkShows
<1>4. Agenda' /\ todo' = <<>>
  BY <1>1, <1>2, NextShow
<1>5. Opens = Member(Outer) /\ Opens' = Outer
  BY <1>1, <1>2, <1>3, <1>4, OpenIs DEF Opens
<1>6. Leads(json, Member(Outer), <<"end">>, Outer)
  BY OuterObjects, OneCall
<1> QED BY <1>1, <1>3, <1>4, <1>5, <1>6, Written

\* A show of a plain document that ends, or goes on.
LEMMA PlainWritten ==
  ASSUME QueriesInv, DocumentInv, NEW show, Due(show), UNCHANGED <<mode, json, walk>>,
         show \in {"certificates", "cert_file", "set_digest", "get_signature"},
         NEW from, NEW to, NEW calls, out' \in Play(out, calls), Leads(json, from, calls, to),
         from = IF show = "certificates" /\ certs > 0 THEN Item(Plain) ELSE Plain,
         \/ UNCHANGED todo /\ to = IF show = "certificates" /\ certs' > 0 THEN Item(Plain) ELSE Plain
         \/ todo' \in {Tail(todo), <<>>} /\ to = Plain
  PROVE  DocumentInv'
<1>1. Agenda /\ mode \in Modes \cup {"exit"} /\ todo # <<>> /\ Head(todo) = show
  BY DEF DocumentInv, QueriesInv, ReplyInv, Due
<1>2. mode \in {"cert", "cert_file", "auth"}
  BY <1>1, DueIn
<1>3. walk = NoWalk /\ walk' = NoWalk
  BY OutsideWalks DEF QueriesInv, WalkShows
<1>4. Opens = from
  <2>1. CASE show = "certificates" /\ certs > 0
    BY <1>1, <1>2, <1>3, <2>1, OpenIs DEF Opens
  <2>2. CASE ~(show = "certificates" /\ certs > 0)
    BY <1>1, <1>2, <1>3, <2>2, OpenIs DEF Opens
  <2> QED BY <2>1, <2>2
<1>5. CASE UNCHANGED todo /\ to = IF show = "certificates" /\ certs' > 0 THEN Item(Plain) ELSE Plain
  <2>1. Agenda'
    BY <1>1, <1>2, <1>5 DEF Agenda
  <2>2. Opens' = to
    <3>1. CASE show = "certificates" /\ certs' > 0
      BY <1>1, <1>2, <1>3, <1>5, <3>1, OpenIs DEF Opens
    <3>2. CASE ~(show = "certificates" /\ certs' > 0)
      BY <1>1, <1>2, <1>3, <1>5, <3>2, OpenIs DEF Opens
    <3> QED BY <3>1, <3>2
  <2> QED BY <1>2, <1>4, <2>1, <2>2, Written
<1>6. CASE todo' \in {Tail(todo), <<>>} /\ to = Plain
  <2>1. Agenda' /\ todo' \in {<<>>, <<"get_signature">>}
    <3>1. CASE todo' = Tail(todo)
      BY <1>1, <1>2, <3>1, NextShow
    <3>2. CASE todo' = <<>>
      BY <1>2, <3>2 DEF Agenda
    <3> QED BY <1>6, <3>1, <3>2
  <2>2. todo' = <<>> \/ Head(todo') # "certificates"
    BY <2>1
  <2>3. Opens' = Plain
    BY <1>2, <1>3, <2>2, OpenIs DEF Opens
  <2> QED BY <1>2, <1>4, <1>6, <2>1, <2>3, Written
<1> QED BY <1>5, <1>6

\* Certificates and signatures.
LEMMA SecurityDocument ==
  ASSUME QueriesInv, DocumentInv, SecurityNext, UNCHANGED <<pm, cage>>
  PROVE  DocumentInv'
<1>1. walk' = walk /\ Object(Plain)
  BY OuterObjects DEF pm
<1>2. Leads(json, Plain, <<>>, Plain) /\ Leads(json, Item(Plain), <<>>, Item(Plain)) /\ out \in Play(out, <<>>)
  BY NotWritten
<1>3. CASE cmis_cdb_show_certificates
  <2> USE <1>3 DEF cmis_cdb_show_certificates
  <2>1. Due("certificates") /\ certs = -1 /\ ~(certs > 0) /\ UNCHANGED <<mode, json, walk>>
    BY <1>1
  <2>2. CASE Leave({out})
    <3>1. out' \in Play(out, <<>>) /\ todo' = Tail(todo)
      BY <1>2, <2>2 DEF Leave
    <3> QED BY <1>2, <2>1, <3>1, PlainWritten
  <2>3. CASE Leave(Play(out, <<"object", "fields", "end">>))
    <3>1. Leads(json, Plain, <<"object", "fields", "end">>, Plain)
      BY <1>1, Objects
    <3>2. out' \in Play(out, <<"object", "fields", "end">>) /\ todo' = Tail(todo)
      BY <2>3 DEF Leave
    <3> QED BY <2>1, <3>1, <3>2, PlainWritten
  <2>4. ASSUME NEW r \in Replies,
               NEW n \in IF r.len < 33 THEN {0} ELSE CertCounts \cup (IF r.got THEN {} ELSE Garbage),
               certs' = Min({n, 4}), n > 0, UNCHANGED todo,
               out' \in Play(out, <<"object", "fields", "array", "item", "fields">>)
        PROVE  DocumentInv'
    <3>1. n \in Int
      BY SecurityAssumption, QueryAssumption
    <3>2. certs' > 0
      BY <2>4, <3>1, MinOfTwo
    <3>3. Leads(json, Plain, <<"object", "fields", "array", "item", "fields">>, Item(Plain))
      BY <1>1, Certificates
    <3> QED BY <2>1, <2>4, <3>2, <3>3, PlainWritten
  <2> QED BY <2>2, <2>3, <2>4
<1>4. ASSUME NEW chunks, NEW answer, Reading, CertificateDone(chunks, answer), UNCHANGED <<mode, json, certs>>
      PROVE  DocumentInv'
  <2>1. CASE /\ Due("cert_file") /\ Leave({out})
    <3>1. out' \in Play(out, <<>>) /\ todo' = Tail(todo)
      BY <1>2, <2>1 DEF Leave
    <3> QED BY <1>1, <1>2, <1>4, <2>1, <3>1, PlainWritten
  <2>2. ASSUME Due("certificates"), NEW events \in Ended, NextItem(events)
        PROVE  DocumentInv'
    <3>1. certs > 0 /\ certs' > 0
      BY <1>4, <2>2 DEF Reading, Due
    <3>2. CASE out' \in Play(out, events \o <<"item", "fields">>) /\ UNCHANGED todo
      <4>1. Leads(json, Item(Plain), events \o <<"item", "fields">>, Item(Plain))
        BY <1>1, Certificates
      <4> QED BY <1>1, <1>4, <2>2, <3>1, <3>2, <4>1, PlainWritten
    <3>3. CASE Leave(Play(out, events \o <<"end_array", "end">>))
      <4>1. Leads(json, Item(Plain), events \o <<"end_array", "end">>, Plain)
        BY <1>1, Certificates
      <4>2. out' \in Play(out, events \o <<"end_array", "end">>) /\ todo' = Tail(todo)
        BY <3>3 DEF Leave
      <4> QED BY <1>1, <1>4, <2>2, <3>1, <4>1, <4>2, PlainWritten
    <3> QED BY <2>2, <3>2, <3>3 DEF NextItem
  <2>3. <<"fields", "end">> \in Ended /\ <<"fields", "array", "values", "end_array", "end">> \in Ended
    BY DEF Ended
  <2> QED BY <1>4, <2>1, <2>2, <2>3 DEF CertificateDone
<1>5. ASSUME Reading, UNCHANGED <<mode, json, certs, out, todo>>
      PROVE  DocumentInv'
  <2>1. CASE Due("cert_file")
    BY <1>1, <1>2, <1>5, <2>1, PlainWritten
  <2>2. CASE Due("certificates") /\ certs > 0
    BY <1>1, <1>2, <1>5, <2>2, PlainWritten
  <2> QED BY <1>5, <2>1, <2>2 DEF Reading
<1>6. CASE cmis_cdb_get_certificate
  <2>1. CASE CertificateCommandFails
    BY <1>4, <2>1 DEF CertificateCommandFails
  <2>2. CASE CertificateSegment
    BY <1>4, <1>5, <2>2 DEF CertificateSegment
  <2> QED BY <1>6, <2>1, <2>2 DEF cmis_cdb_get_certificate
<1>7. CASE cmis_cdb_set_digest
  <2>1. Due("set_digest") /\ UNCHANGED <<mode, json, walk>> /\ todo' \in {Tail(todo), <<>>} /\ out' = out
    BY <1>1, <1>7 DEF cmis_cdb_set_digest, Leave
  <2> QED BY <1>2, <2>1, PlainWritten
<1>8. CASE cmis_cdb_get_signature
  <2>1. Due("get_signature") /\ UNCHANGED <<mode, json, walk>> /\ todo' = Tail(todo) /\ out' = out
    BY <1>1, <1>8 DEF cmis_cdb_get_signature, Leave
  <2> QED BY <1>2, <2>1, PlainWritten
<1> QED BY <1>3, <1>6, <1>7, <1>8 DEF SecurityNext

\* What main has put off, before anything is written.
Deferred == new_json_obj_plain(NoOutput, json)

\* It stands as a plain object would, without a writer.
LEMMA DeferredStands ==
  ASSUME json \in BOOLEAN
  PROVE  Stands(json, Deferred, Plain)
<1>1. CASE json
  <2>1. json = TRUE
    BY <1>1
  <2>2. Deferred = Fresh
    BY <2>1, Zenon DEF Deferred, Fresh
  <2> QED BY <1>1, <2>2 DEF Stands, Ready, Plain
<1>2. CASE ~json
  <2>1. NoOutput \in Outputs
    <3>1. <<>> \in Seq(Brackets) /\ "start" \in Tokens
      BY DEF Tokens
    <3> QED BY <3>1 DEF NoOutput, Outputs
  <2>2. Deferred = [NoOutput EXCEPT !.deferred = FALSE]
    BY <1>2, <2>1 DEF Deferred, new_json_obj_plain, NoOutput
  <2>3. Done(Deferred)
    BY <2>1, <2>2 DEF Done, Outputs, NoOutput
  <2> QED BY <1>2, <2>3 DEF Stands
<1> QED BY <1>1, <1>2

\* What comes of a list of reads.
LEMMA ReadsEnd ==
  ASSUME NEW pages, NEW r \in Reads(pages)
  PROVE  /\ r.ret = 0 => r.map = ToSet(pages)
         /\ r.ret # 0 => \E k \in DOMAIN pages : MayFail(pages[k])
<1>1. CASE r = [map |-> ToSet(pages), ret |-> 0]
  BY <1>1
<1>2. ASSUME NEW k \in {i \in DOMAIN pages : MayFail(pages[i])},
             r = [map |-> ToSet(SubSeq(pages, 1, k - 1)), ret |-> -1]
      PROVE  r.ret = -1 /\ \E i \in DOMAIN pages : MayFail(pages[i])
  BY <1>2
<1> QED BY <1>1, <1>2 DEF Reads

\* With --json the pages of a QSFP or CMIS module are read.
LEMMA PagesRead ==
  ASSUME Handled, json
  PROVE  /\ \A pages \in {<<"lower", "00h", "01h", "02h", "11h">>, <<"lower", "00h">>} :
              \A r \in Reads(pages) : r.ret = 0
         /\ \A r \in sff8636_memory_map_init_pages : r.ret = 0
<1> DEFINE Needed == {"lower", "00h", "01h", "02h", "11h"}
<1>1. \A page \in Needed : ~MayFail(page)
  BY DEF Handled, MayFail
<1>2. ASSUME NEW pages \in Seq(Needed), NEW r \in Reads(pages) PROVE r.ret = 0
  <2>1. \A k \in DOMAIN pages : pages[k] \in Needed
    OBVIOUS
  <2> HIDE DEF Needed
  <2> QED BY <1>1, <1>2, <2>1, ReadsEnd
<1>3. <<"lower", "00h", "01h", "02h", "11h">> \in Seq(Needed) /\ <<"lower", "00h">> \in Seq(Needed)
  OBVIOUS
<1> HIDE DEF Needed
<1>4. \A r \in Reads(<<"lower", "00h">>) : r.ret = 0
  BY <1>2, <1>3
<1>5. ASSUME NEW r \in sff8636_memory_map_init_pages PROVE r.ret = 0
  <2>1. CASE r \in Reads(<<"lower", "00h">>)
    BY <1>4, <2>1
  <2>2. ASSUME NEW q \in Reads(<<"lower", "00h">>), r = [q EXCEPT !.map = @ \cup {"03h"}] PROVE r.ret = 0
    <3>1. q.ret = 0 /\ q \in [map : {q.map}, ret : {q.ret}]
      BY <1>4, <2>2 DEF Reads
    <3> QED BY <2>2, <3>1
  <2> QED BY <2>1, <2>2 DEF sff8636_memory_map_init_pages
<1> QED BY <1>2, <1>3, <1>5

\* No display follows a pointer to a page that was not read, if page 01h is among
\* the pages of a CMIS module.
LEMMA Followed ==
  /\ \A r \in Reads(<<"xfp_lower", "xfp_01h">>) : r.ret = 0 => {"xfp_lower", "xfp_01h"} \subseteq r.map
  /\ \A r \in sff8636_memory_map_init_pages : r.ret = 0 => sff8636_show_all_common(r.map) \subseteq r.map
  /\ \A r \in Reads(<<"lower", "00h", "01h", "02h", "11h">>) :
       r.ret = 0 => {"lower", "00h", "01h"} \subseteq r.map
<1>1. ToSet(<<"xfp_lower", "xfp_01h">>) = {"xfp_lower", "xfp_01h"} /\ ToSet(<<"lower", "00h">>) = {"lower", "00h"}
  BY DEF ToSet
<1>2. \A r \in Reads(<<"xfp_lower", "xfp_01h">>) : r.ret = 0 => {"xfp_lower", "xfp_01h"} \subseteq r.map
  BY <1>1, ReadsEnd
<1>3. ASSUME NEW r \in sff8636_memory_map_init_pages, r.ret = 0
      PROVE  {"lower", "00h"} \subseteq r.map
  <2>1. CASE r \in Reads(<<"lower", "00h">>)
    BY <1>1, <1>3, <2>1, ReadsEnd
  <2>2. ASSUME NEW q \in Reads(<<"lower", "00h">>), q.ret = 0, r = [q EXCEPT !.map = @ \cup {"03h"}]
        PROVE {"lower", "00h"} \subseteq r.map
    <3>1. q.map = {"lower", "00h"}
      BY <1>1, <2>2, ReadsEnd
    <3>2. r.map = q.map \cup {"03h"}
      BY <2>2 DEF Reads
    <3> QED BY <3>1, <3>2
  <2> QED BY <2>1, <2>2 DEF sff8636_memory_map_init_pages
<1>4. ASSUME NEW r \in Reads(<<"lower", "00h", "01h", "02h", "11h">>), r.ret = 0
      PROVE  {"lower", "00h", "01h"} \subseteq r.map
  <2>1. {"lower", "00h", "01h"} \subseteq ToSet(<<"lower", "00h", "01h", "02h", "11h">>)
    BY DEF ToSet
  <2> QED BY <1>4, <2>1, ReadsEnd
<1> QED BY <1>2, <1>3, <1>4 DEF sff8636_show_all_common

\* A document that a display begins and ends is complete.
LEMMA DocumentBegun ==
  ASSUME json \in BOOLEAN, out = Deferred, Texts = {"fields"}
  PROVE  /\ \A o \in BeginDocument : Stands(json, o, Outer)
         /\ \A o \in EndDocument(BeginDocument) : Done(o)
<1>1. \A o \in BeginDocument : Stands(json, o, Outer)
  BY InArray DEF BeginDocument, Deferred
<1>2. Leads(json, Outer, <<"fields">>, Outer)
  <2>1. Outer \in Seq(Brackets) /\ Outer # <<>> /\ Len(Outer) = 2 /\ Last(Outer) = "lbrace"
    BY OuterObjects DEF Outer, Last
  <2>2. Fits(Outer, "fields") /\ "fields" \in DOMAIN Calls
    BY <2>1 DEF Fits, Calls
  <2>3. After(Outer, "fields") = Outer
    BY DEF After
  <2> QED BY <2>2, <2>3, LeadsOne
<1>3. Leads(json, Outer, <<"fields", "end">>, Array)
  <2>1. Leads(json, Outer, <<"fields">> \o <<"end">>, Array)
    BY <1>2, InArray, LeadsOn
  <2>2. <<"fields">> \o <<"end">> = <<"fields", "end">>
    BY Joined
  <2> QED BY <2>1, <2>2, Zenon
<1>4. \A o \in BeginDocument : \A p \in Play(o, <<"fields", "end">>) : Stands(json, p, Array)
  BY <1>1, <1>3 DEF Leads
<1>5. \A p : Stands(json, p, Array) => Done(delete_json_obj(p))
  BY DeleteStanding DEF Array, Brackets
<1>6. ASSUME NEW d \in EndDocument(BeginDocument) PROVE Done(d)
  <2> DEFINE outs == UNION {Play(o, <<text, "end">>) : o \in BeginDocument, text \in Texts}
  <2>5. EndDocument(BeginDocument) = {delete_json_obj(o) : o \in outs}
    BY DEF EndDocument
  <2>6. \A p \in outs : \E o \in BeginDocument, text \in Texts : p \in Play(o, <<text, "end">>)
    OBVIOUS
  <2> HIDE DEF outs
  <2>1. PICK p \in outs : d = delete_json_obj(p)
    BY <2>5
  <2>2. PICK o \in BeginDocument, text \in Texts : p \in Play(o, <<text, "end">>)
    BY <2>6
  <2>3. text = "fields"
    OBVIOUS
  <2>4. p \in Play(o, <<"fields", "end">>)
    BY <2>2, <2>3
  <2> QED BY <1>4, <1>5, <2>1, <2>4
<1> QED BY <1>1, <1>6

\* The sections of the counters of a test, one after the other.
LEMMA SectionsAre ==
  ASSUME NEW read \in 0 .. 3
  PROVE  FlattenSeq([s \in 1 .. read |-> Section]) \in
           {<<>>, Section, Section \o Section, (Section \o Section) \o Section}
<1> DEFINE seqs == [s \in 1 .. read |-> Section]
           Step(f) == [i \in 1 .. Len(seqs) |-> IF i = 1 THEN seqs[i] ELSE f[i - 1] \o seqs[i]]
           flatten == CHOOSE f : f = Step(f)
           g == [i \in 1 .. Len(seqs) |->
                   IF i = 1 THEN Section ELSE IF i = 2 THEN Section \o Section
                   ELSE (Section \o Section) \o Section]
<1>1. seqs \in Seq({Section}) /\ Len(seqs) = read /\ \A i \in 1 .. read : seqs[i] = Section
  OBVIOUS
<1>2. FlattenSeq(seqs) = IF Len(seqs) = 0 THEN seqs ELSE flatten[Len(seqs)]
  BY DEF FlattenSeq
<1> HIDE DEF seqs
<1>3. CASE read = 0
  <2>1. seqs = <<>>
    BY <1>1, <1>3
  <2> QED BY <1>1, <1>2, <1>3, <2>1 DEF seqs
<1>4. CASE read # 0
  <2>1. g = Step(g)
    <3>1. \A i \in 1 .. Len(seqs) : g[i] = IF i = 1 THEN seqs[i] ELSE g[i - 1] \o seqs[i]
      <4> SUFFICES ASSUME NEW i \in 1 .. Len(seqs)
                   PROVE  g[i] = IF i = 1 THEN seqs[i] ELSE g[i - 1] \o seqs[i]
        OBVIOUS
      <4>1. i \in {1, 2, 3} /\ seqs[i] = Section
        BY <1>1
      <4>2. CASE i = 1
        BY <4>1, <4>2
      <4>3. CASE i = 2
        <5>1. 1 \in 1 .. Len(seqs)
          BY <1>1, <1>4
        <5>2. g[1] = Section /\ g[2] = Section \o Section
          BY <4>3, <5>1
        <5> HIDE DEF g
        <5>3. g[i] = Section \o Section /\ g[i - 1] = Section /\ i # 1
          BY <4>3, <5>2
        <5> QED BY <4>1, <5>3, Zenon
      <4>4. CASE i = 3
        <5>1. 2 \in 1 .. Len(seqs)
          BY <1>1, <4>4
        <5>2. g[2] = Section \o Section /\ g[3] = (Section \o Section) \o Section
          BY <4>4, <5>1
        <5> HIDE DEF g
        <5>3. g[i] = (Section \o Section) \o Section /\ g[i - 1] = Section \o Section /\ i # 1
          BY <4>4, <5>2
        <5> QED BY <4>1, <5>3, Zenon
      <4> QED BY <4>1, <4>2, <4>3, <4>4
    <3> QED BY <3>1
  <2>2. flatten = Step(flatten)
    <3> HIDE DEF g, Step
    <3> QED BY <2>1
  <2>3. \A i \in 1 .. read : flatten[i] = IF i = 1 THEN Section ELSE flatten[i - 1] \o Section
    <3> HIDE DEF flatten
    <3>1. \A i \in 1 .. Len(seqs) : Step(flatten)[i] = IF i = 1 THEN seqs[i] ELSE flatten[i - 1] \o seqs[i]
      OBVIOUS
    <3> HIDE DEF Step
    <3> QED BY <1>1, <2>2, <3>1
  <2> HIDE DEF flatten, Step, g
  <2>4. FlattenSeq(seqs) = flatten[read]
    BY <1>1, <1>2, <1>4
  <2>5. read \in {1, 2, 3}
    BY <1>4
  <2>6. flatten[1] = Section
    <3>1. 1 \in 1 .. read
      BY <1>4
    <3> QED BY <2>3, <3>1, Zenon
  <2>7. read >= 2 => flatten[2] = Section \o Section
    <3> SUFFICES ASSUME read >= 2 PROVE flatten[2] = Section \o Section
      OBVIOUS
    <3>1. 2 \in 1 .. read /\ 2 # 1 /\ 2 - 1 = 1
      OBVIOUS
    <3>2. flatten[2] = flatten[2 - 1] \o Section
      BY <2>3, <3>1, Zenon
    <3> QED BY <2>6, <3>1, <3>2, Zenon
  <2>8. read >= 3 => flatten[3] = (Section \o Section) \o Section
    <3> SUFFICES ASSUME read >= 3 PROVE flatten[3] = (Section \o Section) \o Section
      OBVIOUS
    <3>1. 3 \in 1 .. read /\ 3 # 1 /\ 3 - 1 = 2 /\ read >= 2
      OBVIOUS
    <3>2. flatten[3] = flatten[3 - 1] \o Section
      BY <2>3, <3>1, Zenon
    <3> QED BY <2>7, <3>1, <3>2, Zenon
  <2>9. CASE read = 1
    BY <2>4, <2>6, <2>9, Zenon DEF seqs
  <2>10. CASE read = 2
    <3>1. FlattenSeq(seqs) = flatten[2] /\ read >= 2
      BY <2>4, <2>10
    <3> QED BY <2>7, <3>1, Zenon DEF seqs
  <2>11. CASE read = 3
    <3>1. FlattenSeq(seqs) = flatten[3] /\ read >= 3
      BY <2>4, <2>11
    <3> QED BY <2>8, <3>1, Zenon DEF seqs
  <2> QED BY <2>5, <2>9, <2>10, <2>11
<1> QED BY <1>3, <1>4

\* However many sections can be read, what is written of them fits.
LEMMA SectionsWritten ==
  ASSUME NEW js, NEW s, Object(s), NEW read \in 0 .. 3
  PROVE  Leads(js, s, <<"object">> \o FlattenSeq([i \in 1 .. read |-> Section]) \o <<"end">>, s)
<1> DEFINE m == Member(s)
           all == FlattenSeq([i \in 1 .. read |-> Section])
<1>1. Object(m) /\ Leads(js, s, <<"object">>, m) /\ Leads(js, m, <<"end">>, s)
  BY OneCall, MemberObject DEF Object
<1> HIDE DEF m
<1>2. Leads(js, m, Section, m)
  <2>1. /\ Leads(js, m, <<"array">>, List(m)) /\ Leads(js, List(m), <<"item", "fields", "end">>, List(m))
        /\ Leads(js, List(m), <<"end_array">>, m)
    BY <1>1, OneCall, Lists
  <2>2. Leads(js, m, <<"array">> \o <<"item", "fields", "end">>, List(m))
    BY <2>1, LeadsOn
  <2>3. Leads(js, m, (<<"array">> \o <<"item", "fields", "end">>) \o <<"end_array">>, m)
    BY <2>1, <2>2, LeadsOn
  <2>4. <<"array">> \o <<"item", "fields", "end">> = <<"array", "item", "fields", "end">>
    BY Joined
  <2>5. <<"array", "item", "fields", "end">> \o <<"end_array">> = Section
    BY Joined DEF Section
  <2> QED BY <2>3, <2>4, <2>5, Zenon
<1>3. Leads(js, m, Section \o Section, m)
  BY <1>2, LeadsOn
<1>4. Leads(js, m, (Section \o Section) \o Section, m)
  BY <1>2, <1>3, LeadsOn
<1>5. Leads(js, m, <<>>, m)
  BY LeadsNone, Zenon
<1>6. Leads(js, m, all, m)
  <2>1. all \in {<<>>, Section, Section \o Section, (Section \o Section) \o Section}
    BY SectionsAre
  <2> HIDE DEF all
  <2> QED BY <1>2, <1>3, <1>4, <1>5, <2>1
<1> HIDE DEF all
<1>7. Leads(js, s, <<"object">> \o all, m)
  BY <1>1, <1>6, LeadsOn
<1>8. Leads(js, s, <<"object">> \o all \o <<"end">>, s)
  BY <1>1, <1>7, LeadsOn
<1> QED BY <1>8 DEF all

\* The runs that show pages, and the counters of a test.
LEMMA DisplayDocument ==
  ASSUME Handled, QueriesInv, DocumentInv, CageInv, DisplayNext, UNCHANGED <<pm, security>>
  PROVE  DocumentInv'
<1>1. UNCHANGED <<mode, json, walk>> /\ Agenda /\ mode \in Modes \cup {"exit"} /\ json \in BOOLEAN
  BY DEF DisplayNext, pm, DocumentInv, QueriesInv, ReplyInv
<1>2. ASSUME NEW show \in {"eeprom_parse"} \cup DOMAIN Standards, Due(show)
      PROVE  mode = "show" /\ out = Deferred /\ (todo' = Tail(todo) => Agenda' /\ todo' = <<>>)
  <2>1. mode = "show" /\ todo # <<>>
    BY <1>1, <1>2, DueIn DEF Due
  <2>2. out = Deferred
    BY <2>1 DEF DocumentInv, Deferred
  <2>3. todo' = Tail(todo) => Agenda' /\ todo' = <<>>
    BY <1>1, <1>2, NextShow
  <2> QED BY <2>1, <2>2, <2>3
<1>3. ASSUME mode = "show", Agenda', out' = Deferred \/ (todo' = <<>> /\ Done(out'))
      PROVE  DocumentInv'
  BY <1>1, <1>3 DEF DocumentInv, Deferred
<1>4. ASSUME NEW show \in DOMAIN Standards, Due(show), NEW outs, Leave(outs),
             \A o \in outs : o = Deferred \/ Done(o)
      PROVE  DocumentInv'
  BY <1>2, <1>3, <1>4 DEF Leave
<1>5. ASSUME NEW show \in DOMAIN Standards, Due(show)
      PROVE  /\ \A o \in {out} : o = Deferred
             /\ \A o \in EndDocument(BeginDocument) : Done(o)
             /\ ~json => \A o \in BeginDocument : Done(o)
  BY <1>1, <1>2, <1>5, DocumentBegun, TextsCarried DEF Stands
<1>6. {"sff8079", "sff8636", "cmis", "xfp"} = DOMAIN Standards
  BY DEF Standards
<1>7. \A outs, map, followed : followed \subseteq map => Follow(outs, followed, map) = outs
  BY DEF Follow
<1>8. CASE eeprom_parse
  <2>1. Due("eeprom_parse") /\ out' = out
    BY <1>8 DEF eeprom_parse, Leave
  <2>2. CASE todo' = Tail(todo)
    BY <1>2, <1>3, <2>1, <2>2
  <2>3. ASSUME NEW standard \in DOMAIN Standards, todo' = <<standard>> PROVE DocumentInv'
    <3>1. Agenda'
      BY <1>1, <1>2, <2>1, <2>3 DEF Agenda
    <3> QED BY <1>2, <1>3, <2>1, <3>1
  <2>4. CASE todo' = <<>>
    <3>1. Agenda'
      BY <1>1, <1>2, <2>1, <2>4 DEF Agenda
    <3> QED BY <1>2, <1>3, <2>1, <3>1
  <2> QED BY <1>8, <2>2, <2>3, <2>4 DEF eeprom_parse, Leave
<1>9. CASE sff8079_show_all_nl
  <2>1. Due("sff8079") /\ (Leave({out}) \/ Leave(EndDocument(BeginDocument)))
    BY <1>9 DEF sff8079_show_all_nl
  <2> QED BY <1>4, <1>5, <1>6, <2>1
<1>10. CASE xfp_show_all_nl
  <2>1. Due("xfp") /\ (Leave({out}) \/ Leave(EndDocument(BeginDocument)))
    BY <1>7, <1>10, Followed DEF xfp_show_all_nl
  <2> QED BY <1>4, <1>5, <1>6, <2>1
<1>11. CASE sff8636_show_all_nl
  <2>1. Due("sff8636") /\ ((~json /\ Leave(BeginDocument)) \/ Leave(EndDocument(BeginDocument)))
    <3>1. PICK r \in sff8636_memory_map_init_pages :
            Leave(IF r.ret # 0 THEN BeginDocument
                  ELSE EndDocument(Follow(BeginDocument, sff8636_show_all_common(r.map), r.map)))
      BY <1>11 DEF sff8636_show_all_nl
    <3>2. CASE r.ret # 0
      BY <1>11, <3>1, <3>2, PagesRead DEF sff8636_show_all_nl
    <3>3. CASE r.ret = 0
      BY <1>7, <1>11, <3>1, <3>3, Followed DEF sff8636_show_all_nl
    <3> QED BY <3>2, <3>3
  <2> QED BY <1>4, <1>5, <1>6, <2>1
<1>12. CASE cmis_show_all_nl
  <2>1. Due("cmis") /\ ((~json /\ Leave(BeginDocument)) \/ Leave(EndDocument(BeginDocument)))
    <3>1. cage.more
      <4>1. mode = "show" /\ Due("cmis")
        BY <1>2, <1>6, <1>12 DEF cmis_show_all_nl
      <4> QED BY <4>1 DEF CageInv, Handled
    <3>2. PICK r \in Reads(<<"lower", "00h", "01h", "02h", "11h">>) :
            Leave(IF r.ret # 0 THEN BeginDocument
                  ELSE EndDocument(Follow(BeginDocument, {"lower", "00h", "01h"}, r.map)))
      BY <1>12, <3>1 DEF cmis_show_all_nl
    <3>3. CASE r.ret # 0
      BY <1>12, <3>2, <3>3, PagesRead DEF cmis_show_all_nl
    <3>4. CASE r.ret = 0
      BY <1>7, <1>12, <3>2, <3>4, Followed DEF cmis_show_all_nl
    <3> QED BY <3>3, <3>4
  <2> QED BY <1>4, <1>5, <1>6, <2>1
<1>13. CASE cmis_diag_bert_read
  <2>1. PICK read \in 0 .. 3 :
          Leave(Play(out, <<"object">> \o FlattenSeq([s \in 1 .. read |-> Section]) \o <<"end">>))
    BY <1>13 DEF cmis_diag_bert_read
  <2>2. Due("cmis_diag_bert_read")
    BY <1>13 DEF cmis_diag_bert_read
  <2>3. mode = "bert_read" /\ walk = NoWalk
    BY <1>1, <2>2, DueIn, OutsideWalks DEF QueriesInv, WalkShows
  <2> DEFINE calls == <<"object">> \o FlattenSeq([s \in 1 .. read |-> Section]) \o <<"end">>
  <2>4. Leads(json, Plain, calls, Plain)
    BY SectionsWritten, OuterObjects
  <2>5. out' \in Play(out, calls) /\ todo' = Tail(todo)
    BY <2>1 DEF Leave
  <2> HIDE DEF calls
  <2>6. Agenda' /\ todo' = <<>>
    BY <1>1, <2>2, <2>5, NextShow
  <2>7. todo # <<>> /\ Head(todo) = "cmis_diag_bert_read"
    BY <2>2 DEF Due
  <2>8. Opens = Plain /\ Opens' = Plain
    BY <1>1, <2>3, <2>6, <2>7, OpenIs DEF Opens
  <2> QED BY <1>1, <2>3, <2>4, <2>5, <2>6, <2>8, Written
<1> QED BY <1>8, <1>9, <1>10, <1>11, <1>12, <1>13 DEF DisplayNext

\* The end of main.
LEMMA ExitDocument ==
  ASSUME QueriesInv, DocumentInv, Exit
  PROVE  DocumentInv'
<1>1. mode # "exit" /\ mode \in Modes \cup {"exit"} /\ json \in BOOLEAN /\ todo = <<>>
  BY DEF Exit, QueriesInv, ReplyInv
<1>2. walk = NoWalk
  BY <1>1 DEF QueriesInv, WalkInv
<1>3. mode' = "exit" /\ todo' = <<>>
  BY <1>1 DEF Exit
<1>4. Done(out')
  <2>1. CASE mode \in {"pm", "cdb"}
    <3>1. Opens = Outer
      BY <1>1, <1>2, <2>1, OpenIs DEF Opens
    <3>2. Stands(json, out, Outer)
      BY <2>1, <3>1 DEF DocumentInv
    <3>3. \A o \in Play(out, <<"end">>) : Stands(json, o, Array)
      BY <1>1, <3>2, InArray DEF Leads
    <3>4. \A o \in Play(out, <<"end">>) : Done(delete_json_obj(o))
      BY <1>1, <3>3, DeleteStanding DEF Array, Brackets
    <3>5. \E o \in Play(out, <<"end">>) : out' = delete_json_obj(delete_json_obj(o))
      BY <2>1 DEF Exit
    <3> QED BY <3>4, <3>5, DeleteDone
  <2>2. CASE mode \notin {"pm", "cdb", "show"}
    <3>1. Opens = Plain
      BY <1>1, <1>2, <2>2, OpenIs DEF Opens
    <3>2. Stands(json, out, Plain)
      BY <1>1, <2>2, <3>1 DEF DocumentInv
    <3>3. Done(delete_json_obj(out))
      BY <1>1, <3>2, DeleteStanding DEF Plain, Brackets
    <3>4. out' \in {delete_json_obj(out), delete_json_obj(delete_json_obj(out))}
      BY <2>2 DEF Exit
    <3> QED BY <3>3, <3>4, DeleteDone
  <2>3. CASE mode = "show"
    <3>1. out = Deferred \/ Done(out)
      BY <2>3 DEF DocumentInv, Deferred
    <3>2. Stands(json, Deferred, Plain)
      BY <1>1, DeferredStands
    <3>3. Done(delete_json_obj(Deferred))
      BY <1>1, <3>2, DeleteStanding DEF Plain, Brackets
    <3>4. out' = delete_json_obj(out)
      BY <2>3 DEF Exit
    <3> QED BY <3>1, <3>3, <3>4, DeleteDone
  <2> QED BY <2>1, <2>2, <2>3
<1> QED BY <1>3, <1>4 DEF DocumentInv, Agenda

\* main begins a document that fits the display.
LEMMA DocumentInit ==
  ASSUME Handled, Init
  PROVE  DocumentInv
<1> USE DEF Init
<1>1. mode \in Modes /\ json \in BOOLEAN /\ todo = First[mode] /\ walk = NoWalk
      /\ out \in Begun(mode, json) /\ certs = -1 /\ ~(certs > 0)
  BY DEF PmInit, SecurityInit
<1>2. Agenda
  BY <1>1 DEF Agenda, Modes, First
<1>3. mode = "bert_read" => ~json
  BY DEF DisplayInit, Handled
<1>4. CASE mode \in {"pm", "cdb"}
  <2>1. Opens = Outer
    <3>1. todo # <<>> /\ Head(todo) \in {"show_pm", "show_features"}
      BY <1>1, <1>4 DEF First
    <3> QED BY <1>1, <1>4, <3>1, OpenIs DEF Opens
  <2>2. Stands(json, out, Outer)
    BY <1>1, <1>4, InArray DEF Begun
  <2> QED BY <1>2, <1>4, <2>1, <2>2 DEF DocumentInv
<1>5. CASE mode = "show"
  BY <1>1, <1>2, <1>5 DEF DocumentInv, Begun
<1>6. CASE mode \notin {"pm", "cdb", "show"}
  <2>1. Opens = Plain
    BY <1>1, <1>6, OpenIs DEF Opens
  <2>2. out = Deferred
    <3>1. CASE mode = "bert_read"
      <4>1. out = new_json_obj(Deferred, json) /\ json = FALSE
        BY <1>1, <1>3, <3>1 DEF Begun, Deferred
      <4> QED BY <4>1 DEF new_json_obj
    <3>2. CASE mode # "bert_read"
      BY <1>1, <1>6, <3>2 DEF Begun, Deferred
    <3> QED BY <3>1, <3>2
  <2>3. Stands(json, out, Plain)
    BY <1>1, <2>2, DeferredStands
  <2>4. mode # "exit"
    BY <1>1 DEF Modes
  <2> QED BY <1>2, <1>3, <1>6, <2>1, <2>3, <2>4 DEF DocumentInv
<1> QED BY <1>4, <1>5, <1>6

\* No step leaves it otherwise.
LEMMA DocumentStep ==
  ASSUME Handled, QueriesInv, DocumentInv, CageInv, [Next]_vars
  PROVE  DocumentInv'
<1>1. CASE PmNext /\ UNCHANGED <<security, cage>> BY <1>1, PmDocument
<1>2. CASE FeaturesNext /\ UNCHANGED <<pm, security, cage>> BY <1>2, FeaturesDocument
<1>3. CASE SecurityNext /\ UNCHANGED <<pm, cage>> BY <1>3, SecurityDocument
<1>4. CASE DisplayNext /\ UNCHANGED <<pm, security>> BY <1>4, DisplayDocument
<1>5. CASE CloseShow BY <1>5, CloseDocument
<1>6. CASE Exit BY <1>6, ExitDocument
<1>7. CASE UNCHANGED vars
  <2>1. mode' = mode /\ json' = json /\ todo' = todo /\ out' = out /\ walk' = walk /\ certs' = certs
    BY <1>7 DEF vars, query, pm, security
  <2> QED BY <2>1 DEF DocumentInv, Agenda, Closing, Opens
<1> QED BY <1>1, <1>2, <1>3, <1>4, <1>5, <1>6, <1>7 DEF Next

\* The module stays in its cage, and eeprom_parse takes its identifier for the
\* display.
LEMMA CageStep ==
  ASSUME QueriesInv, DocumentInv, CageInv, [Next]_vars
  PROVE  CageInv'
<1>1. Agenda /\ mode \in Modes \cup {"exit"}
  BY DEF DocumentInv, QueriesInv, ReplyInv
<1>3. ASSUME UNCHANGED <<mode, cage>>, mode # "show"
      PROVE  CageInv'
  BY <1>3 DEF CageInv
<1>4. CASE PmNext /\ UNCHANGED <<security, cage>>
  <2>1. \E show \in PmShows \cup {"show_pm"} : Due(show)
    <3>1. Due("show_pm") \/ Due("pm_features") \/ (\E kind \in WalkShows : Due(kind))
      BY <1>4 DEF PmNext, cmis_cdb_show_pm, cdb_show_pm_features, cdb_show_module_pm, cdb_show_host_pm,
            cdb_show_media_pm, cdb_show_dp_pm, BeginWalk, Loop, InWalk, WalkShows
    <3> QED BY <3>1 DEF PmShows, WalkShows
  <2>2. mode = "pm"
    BY <1>1, <2>1, DueIn
  <2>3. mode' = mode
    BY <1>4 DEF PmNext, cmis_cdb_show_pm, cdb_show_pm_features, cdb_show_module_pm, cdb_show_host_pm,
          cdb_show_media_pm, cdb_show_dp_pm, BeginWalk, Loop
  <2> QED BY <1>3, <1>4, <2>2, <2>3
<1>5. CASE FeaturesNext /\ UNCHANGED <<pm, security, cage>>
  <2>1. /\ \E show \in FeatureShows \cup {"show_features", "fw_command"} : Due(show)
        /\ mode' = mode
    BY <1>5 DEF FeaturesNext, cmis_cdb_fw_command, cmis_cdb_show_features, Show, FeatureShows
  <2>2. mode # "show"
    BY <1>1, <2>1, DueIn
  <2> QED BY <1>3, <1>5, <2>1, <2>2
<1>6. CASE SecurityNext /\ UNCHANGED <<pm, cage>>
  <2>1. /\ \E show \in {"certificates", "cert_file", "set_digest", "get_signature"} : Due(show)
        /\ mode' = mode
    BY <1>6 DEF SecurityNext, cmis_cdb_show_certificates, cmis_cdb_get_certificate, CertificateCommandFails,
          CertificateSegment, Reading, cmis_cdb_set_digest, cmis_cdb_get_signature
  <2>2. mode # "show"
    BY <1>1, <2>1, DueIn
  <2> QED BY <1>3, <1>6, <2>1, <2>2
<1>7. CASE DisplayNext /\ UNCHANGED <<pm, security>>
  <2>1. UNCHANGED <<mode, cage>>
    BY <1>7 DEF DisplayNext
  <2>2. CASE eeprom_parse
    <3>1. Due("eeprom_parse")
      BY <2>2 DEF eeprom_parse
    <3>2. CASE todo' = Tail(todo) \/ todo' = <<>>
      <4>1. todo' = <<>>
        BY <1>1, <2>1, <3>1, <3>2, NextShow
      <4> QED BY <2>1, <4>1 DEF CageInv, Due
    <3>3. ASSUME NEW standard \in DOMAIN Standards, cage.id \in Standards[standard], todo' = <<standard>>
          PROVE  CageInv'
      <4>1. Head(todo') = standard
        BY <3>3
      <4> QED BY <2>1, <3>3, <4>1 DEF CageInv, Due
    <3> QED BY <2>2, <3>2, <3>3 DEF eeprom_parse, Leave
  <2>3. ASSUME NEW show \in DOMAIN Standards \cup {"cmis_diag_bert_read"}, Due(show), todo' = Tail(todo)
        PROVE  CageInv'
    <3>1. todo' = <<>>
      BY <1>1, <2>1, <2>3, NextShow
    <3> QED BY <2>1, <3>1 DEF CageInv, Due
  <2>4. CASE sff8079_show_all_nl \/ xfp_show_all_nl
    BY <2>3, <2>4 DEF sff8079_show_all_nl, xfp_show_all_nl, Leave, Standards
  <2>5. CASE sff8636_show_all_nl \/ cmis_show_all_nl
    BY <2>3, <2>5 DEF sff8636_show_all_nl, cmis_show_all_nl, Leave, Standards
  <2>6. CASE cmis_diag_bert_read
    BY <2>3, <2>6 DEF cmis_diag_bert_read, Leave
  <2> QED BY <1>7, <2>2, <2>4, <2>5, <2>6 DEF DisplayNext
<1>8. CASE CloseShow
  <2>1. Due("close") /\ UNCHANGED <<mode, cage>>
    BY <1>8 DEF CloseShow
  <2>2. mode # "show"
    BY <1>1, <2>1, DueIn
  <2> QED BY <1>3, <2>1, <2>2
<1>9. CASE Exit
  BY <1>9 DEF Exit, CageInv
<1>10. CASE UNCHANGED vars
  BY <1>10 DEF vars, query, CageInv, Due
<1> QED BY <1>4, <1>5, <1>6, <1>7, <1>8, <1>9, <1>10 DEF Next

-----------------------------------------------------------------------------

\* Whatever a module answers to a query, and whichever part of its answer is lost,
\* the show that is due knows what it has read.
THEOREM QueriesInvariant == Spec => []QueriesInv
<1>1. Init => QueriesInv
  BY QueriesInit
<1>2. QueriesInv /\ [Next]_vars => QueriesInv'
  BY QueriesStep
<1> QED BY <1>1, <1>2, PTL DEF Spec

\* The queries and their answers have their types.
THEOREM QueriesTypeCorrect == Spec => []TypeOK
<1>1. QueriesInv => TypeOK
  <2> SUFFICES ASSUME QueriesInv PROVE TypeOK
    OBVIOUS
  <2>1. rpl.len \in 0 .. RplMax /\ top \in -1 .. RplMax - 1
    BY DEF QueriesInv, ReplyInv, RplMax
  <2>2. walk.size \in {0, 6, 8} /\ walk.off \in 0 .. RplMax + 1
    <3>1. CASE walk = NoWalk
      BY <3>1 DEF NoWalk, RplMax
    <3>2. CASE walk # NoWalk
      <4>1. walk \in [off : 1 .. rpl.len, lane : 1 .. MaxLane, size : {6, 8}]
        BY <3>2 DEF QueriesInv, WalkInv
      <4>2. walk.off \in 1 .. rpl.len /\ walk.size \in {6, 8}
        BY <4>1
      <4> QED BY <2>1, <4>2 DEF RplMax
    <3> QED BY <3>1, <3>2
  <2>3. total <= BufSize
    BY SecurityAssumption DEF SecurityAssumption, LplMax, QueriesInv, CertificateInv
  <2> QED BY <2>1, <2>2, <2>3 DEF TypeOK, QueriesInv, ReplyInv, CertificateInv
<1> QED BY <1>1, QueriesInvariant, PTL

\* No show uses a byte past the length it was told (the length tests before every
\* field of cmis-cdb.c, and the loops over records), whichever length from 0 to 255 a
\* module announces and whether or not its bytes were read.  That the length is one a
\* reply can have is not tested, and not proved.
THEOREM ReplyBounds == Spec => []WithinReply
<1>1. QueriesInv => WithinReply
  BY DEF QueriesInv, ReplyInv, WithinReply
<1> QED BY <1>1, QueriesInvariant, PTL

\* A record is shown for the lane and the observable it was made for, however many
\* records the reply has room for and whatever observables were asked for.
THEOREM RecordsPlaced == Spec => []RecordsInPlace
<1>1. QueriesInv => RecordsInPlace
  BY DEF QueriesInv
<1> QED BY <1>1, QueriesInvariant, PTL

\* cmis_cdb_get_certificate keeps the segments of a certificate of any length in
\* order, in a buffer of any size up to what the segment number can count.
THEOREM CertificateOrdered == Spec => []CertificateInOrder
<1>1. QueriesInv => CertificateInOrder
  BY DEF QueriesInv, CertificateInv
<1> QED BY <1>1, QueriesInvariant, PTL

\* Every run with --json leaves one well formed document or none, and no display
\* follows a pointer to a page that was not read: whatever a module answers to a
\* query, however many records and certificates there are and whichever reads fail,
\* as long as the reads that leave the document open, and the counters of a test,
\* are those of a run without --json, the strings of modules have only characters
\* that jsonw_puts writes as JSON does, and CMIS modules have page 01h.
THEOREM DocumentsComplete ==
  ASSUME Handled
  PROVE  Spec => []DocumentComplete
<1>1. Init => DocumentInv /\ CageInv
  <2>1. Init => CageInv
    BY DEF Init, DisplayInit, CageInv, Due, First, Modes
  <2> QED BY <2>1, DocumentInit
<1>2. QueriesInv /\ (DocumentInv /\ CageInv) /\ [Next]_vars => (DocumentInv /\ CageInv)'
  BY DocumentStep, CageStep
<1>3. QueriesInv /\ DocumentInv => DocumentComplete
  <2> SUFFICES ASSUME QueriesInv, DocumentInv PROVE DocumentComplete
    OBVIOUS
  <2>1. \A js, o, s : Stands(js, o, s) => ~o.crashed
    BY FreshIs DEF Stands, Ready, Done, Doc, Text
  <2>2. json \in BOOLEAN
    BY DEF QueriesInv, ReplyInv
  <2>3. ~Deferred.crashed
    BY <2>1, <2>2, DeferredStands
  <2>4. mode # "exit" => ~out.crashed
    BY <2>1, <2>3 DEF DocumentInv, Done, Deferred
  <2>5. mode = "exit" => Done(out)
    BY DEF DocumentInv
  <2> QED BY <2>4, <2>5 DEF DocumentComplete, Complete, Done
<1> QED BY <1>1, <1>2, <1>3, QueriesInvariant, PTL DEF Spec

-----------------------------------------------------------------------------
(* The length of a run. *)

\* The shows that make others due.
Commands == {"show_pm", "show_features", "fw_command", "eeprom_parse"}

\* The shows that are due, with those that the first of them will make due.
ShowsLeft ==
  IF mode = "exit" THEN 0
  ELSE 1 + Len(todo) + (IF todo # <<>> /\ Head(todo) \in Commands THEN 10 ELSE 0)

\* Before the command, and for each certificate: the bytes that its buffer has room for.
RoomLeft == (IF certs = -1 /\ Due("certificates") THEN 5 ELSE 4 - index) * (BufSize + 1) - total

\* The passes that the show in progress can still make: over the bytes that a
\* certificate can have, or the bytes of the reply that a walk has not taken.
PassesLeft ==
  IF CertificateDue THEN RoomLeft
  ELSE IF walk = NoWalk THEN 2 * (RplMax + 1)
  ELSE 1 + 2 * (rpl.len - walk.off) + (IF walk.lane = 1 THEN 1 ELSE 0)

\* Host feature bytes, read or not, that are zero or name an observable: the
\* condition under which every pass of the walk over the host lanes takes a record.
HostObserved == \A h \in HostBits \cup Garbage : h = 0 \/ HostObservables(h) # <<>>

\* The shows of a command are made due once, and the host lanes are walked only when
\* there is a feature.
AgendaInv ==
  /\ mode = "exit" => todo = <<>>
  /\ \A i \in 2 .. Len(todo) : todo[i] \notin Commands
  /\ feat.host \in HostBits \cup Garbage \cup {0}
  /\ mod.host \in HostBits \cup {0}
  /\ walk # NoWalk /\ Due("host_pm") => feat.host # 0

\* A show ends, or a pass of it.
Nearer ==
  \/ ShowsLeft' < ShowsLeft
  \/ ShowsLeft' = ShowsLeft /\ PassesLeft' < PassesLeft

\* What a run has left is counted, and each certificate has room for a byte.
LEMMA LeftCounted ==
  ASSUME QueriesInv
  PROVE  ShowsLeft \in Nat /\ PassesLeft \in Nat
<1> USE DEF QueriesInv
<1>1. ShowsLeft \in Nat
  <2>1. Len(todo) \in Nat
    BY DEF CertificateInv
  <2> QED BY <2>1 DEF ShowsLeft
<1>2. CASE CertificateDue
  <2>1. index \in 0 .. 3 /\ total \in Nat /\ total < BufSize /\ BufSize \in Nat
    BY <1>2, SecurityAssumption DEF CertificateInv, LplMax
  <2> DEFINE items == IF certs = -1 /\ Due("certificates") THEN 5 ELSE 4 - index
  <2>2. items \in {1, 2, 3, 4, 5}
    BY <2>1
  <2> HIDE DEF items
  <2>3. items * (BufSize + 1) - total \in Nat
    BY <2>1, <2>2
  <2> QED BY <1>1, <1>2, <2>3 DEF PassesLeft, RoomLeft, items
<1>3. CASE ~CertificateDue /\ walk = NoWalk
  BY <1>1, <1>3 DEF PassesLeft, RplMax
<1>4. CASE ~CertificateDue /\ walk # NoWalk
  <2>1. walk.off \in 1 .. rpl.len /\ rpl.len \in Int
    BY <1>4 DEF WalkInv, ReplyInv
  <2> QED BY <1>1, <1>4, <2>1 DEF PassesLeft
<1> QED BY <1>2, <1>3, <1>4

\* A show that ends, or a run that it ends, leaves no command due.
LEMMA ShowOver ==
  ASSUME QueriesInv, AgendaInv, UNCHANGED mode, todo # <<>>, todo' \in {Tail(todo), <<>>}
  PROVE  /\ ShowsLeft' < ShowsLeft
         /\ mode' = "exit" => todo' = <<>>
         /\ \A i \in 2 .. Len(todo') : todo'[i] \notin Commands
<1>1. todo \in Seq(Shows) /\ \A i \in 2 .. Len(todo) : todo[i] \notin Commands
  BY DEF QueriesInv, CertificateInv, AgendaInv
<1>2. mode # "exit"
  BY DEF AgendaInv
<1>3. CASE todo' = <<>>
  <2>1. ShowsLeft' = 1
    BY <1>2, <1>3 DEF ShowsLeft
  <2>2. Len(todo) \in Nat \ {0}
    BY <1>1
  <2>3. ShowsLeft > 1
    BY <1>2, <2>2 DEF ShowsLeft
  <2> QED BY <1>2, <1>3, <2>1, <2>3
<1>4. CASE todo' = Tail(todo)
  <2>1. /\ Len(todo) \in Nat \ {0} /\ Len(todo') = Len(todo) - 1
        /\ \A i \in 1 .. Len(todo') : todo'[i] = todo[i + 1]
    BY <1>1, <1>4
  <2>2. \A i \in 1 .. Len(todo') : todo'[i] \notin Commands
    BY <1>1, <2>1
  <2>3. ~(todo' # <<>> /\ Head(todo') \in Commands)
    BY <1>1, <1>4, <2>1, <2>2
  <2>4. ShowsLeft' = 1 + Len(todo')
    BY <1>2, <2>1, <2>3 DEF ShowsLeft
  <2>5. ShowsLeft >= 1 + Len(todo)
    BY <1>2, <2>1 DEF ShowsLeft
  <2>6. ShowsLeft \in Int
    BY LeftCounted
  <2> QED BY <1>2, <2>1, <2>2, <2>4, <2>5, <2>6
<1> QED BY <1>3, <1>4

\* Shows that a command makes due: fewer than ten, and none that makes others due.
CalledBy(shows) ==
  /\ shows \in Seq(Shows) /\ Len(shows) <= 8
  /\ \A i \in 1 .. Len(shows) : shows[i] \notin Commands

\* The lists of shows of the four commands.
LEMMA CalledLists ==
  /\ CalledBy(<<>>)
  /\ CalledBy(<<"fw_info">>)
  /\ \A standard \in DOMAIN Standards : CalledBy(<<standard>>)
  /\ CalledBy(<<"pm_features", "module_pm", "host_pm", "media_pm", "dp_pm", "close">>)
  /\ CalledBy(<<"module", "fw_mgmt", "fw_info", "pm", "bert", "security", "ext", "close">>)
<1> USE DEF CalledBy, Commands
<1>1. CalledBy(<<>>)
  OBVIOUS
<1>2. ASSUME NEW show \in Shows \ Commands
      PROVE  CalledBy(<<show>>)
  <2> DEFINE s == <<show>>
  <2>1. s \in Seq(Shows) /\ Len(s) = 1 /\ s[1] = show
    OBVIOUS
  <2> HIDE DEF s
  <2>2. CalledBy(s)
    BY <1>2, <2>1
  <2> QED BY <2>2 DEF s
<1>3. "fw_info" \in Shows \ Commands /\ DOMAIN Standards \subseteq Shows \ Commands
  BY DEF Standards, Shows
<1>4. CalledBy(<<"pm_features", "module_pm", "host_pm", "media_pm", "dp_pm", "close">>)
  <2> DEFINE s == <<"pm_features", "module_pm", "host_pm", "media_pm", "dp_pm", "close">>
  <2>1. s \in Seq(Shows) /\ Len(s) = 6 /\ \A i \in 1 .. 6 : s[i] \notin Commands
    BY DEF Shows
  <2> HIDE DEF s
  <2>2. CalledBy(s)
    BY <2>1
  <2> QED BY <2>2 DEF s
<1>5. CalledBy(<<"module", "fw_mgmt", "fw_info", "pm", "bert", "security", "ext", "close">>)
  <2> DEFINE s == <<"module", "fw_mgmt", "fw_info", "pm", "bert", "security", "ext", "close">>
  <2>1. s \in Seq(Shows) /\ Len(s) = 8 /\ \A i \in 1 .. 8 : s[i] \notin Commands
    BY DEF Shows
  <2> HIDE DEF s
  <2>2. CalledBy(s)
    BY <2>1
  <2> QED BY <2>2 DEF s
<1> HIDE DEF CalledBy, Commands
<1> QED BY <1>1, <1>2, <1>3, <1>4, <1>5

\* A command is over when its shows are due.
LEMMA ShowsCalled ==
  ASSUME QueriesInv, AgendaInv, UNCHANGED mode, NEW show \in Commands, Due(show), CalledBy(todo')
  PROVE  /\ ShowsLeft' < ShowsLeft
         /\ mode' = "exit" => todo' = <<>>
         /\ \A i \in 2 .. Len(todo') : todo'[i] \notin Commands
<1>1. mode # "exit" /\ todo # <<>> /\ Head(todo) \in Commands
  BY DEF AgendaInv, Due
<1>2. Len(todo) \in Nat \ {0}
  BY <1>1 DEF QueriesInv, CertificateInv
<1>3. ShowsLeft = 11 + Len(todo)
  BY <1>1, <1>2 DEF ShowsLeft
<1>4. /\ todo' \in Seq(Shows) /\ Len(todo') <= 8
      /\ \A i \in 1 .. Len(todo') : todo'[i] \notin Commands
  BY DEF CalledBy
<1>5. ~(todo' # <<>> /\ Head(todo') \in Commands)
  <2>1. todo' # <<>> => Head(todo') = todo'[1] /\ 1 \in 1 .. Len(todo')
    BY <1>4
  <2> QED BY <1>4, <2>1
<1>6. ShowsLeft' = 1 + Len(todo')
  BY <1>1, <1>4, <1>5 DEF ShowsLeft
<1> QED BY <1>1, <1>2, <1>3, <1>4, <1>6

\* A step outside the walks that ends its show, or makes others due in its place.
LEMMA PlainNearer ==
  ASSUME QueriesInv, AgendaInv, UNCHANGED <<mode, feat, mod>>, walk' = NoWalk,
         \/ todo # <<>> /\ todo' \in {Tail(todo), <<>>}
         \/ CalledBy(todo') /\ \E show \in Commands : Due(show)
  PROVE  AgendaInv' /\ Nearer
<1>1. /\ ShowsLeft' < ShowsLeft
      /\ mode' = "exit" => todo' = <<>>
      /\ \A i \in 2 .. Len(todo') : todo'[i] \notin Commands
  BY ShowOver, ShowsCalled, Zenon
<1> QED BY <1>1 DEF AgendaInv, Nearer

\* The walk over the host lanes has an observable to take, as the other walks have.
LEMMA RecordAsked ==
  ASSUME AgendaInv, HostObserved, NEW kind \in WalkShows, InWalk(kind)
  PROVE  Len(Asked(kind)) \in Nat \ {0}
<1>1. \A s \in Seq(Records) : s # <<>> => Len(s) \in Nat \ {0}
  OBVIOUS
<1>2. Asked(kind) \in Seq(Records)
  BY AskedType
<1>3. CASE kind = "host_pm"
  <2>1. feat.host # 0 /\ feat.host \in HostBits \cup Garbage
    BY <1>3 DEF AgendaInv, InWalk
  <2>2. HostObservables(feat.host) # <<>>
    BY <2>1 DEF HostObserved
  <2>3. Asked(kind) = HostObservables(feat.host)
    BY <1>3 DEF Asked
  <2> QED BY <1>1, <1>2, <2>2, <2>3
<1>4. CASE kind = "media_pm"
  <2> DEFINE always == <<<<16, "Tx Bias">>, <<32, "Tx Power">>, <<64, "Rx Power">>, <<128, "Laser Temp">>>>
             first == IfSet(feat.media, 1, "SNR") \o IfSet(feat.media, 2, "LTP")
  <2>1. always \in Seq(Records) /\ Len(always) = 4
    BY DEF Records
  <2>2. first \in Seq(Records)
    <3>1. ASSUME NEW bit, NEW name, <<bit, name>> \in Records
          PROVE  IfSet(feat.media, bit, name) \in Seq(Records)
      BY <3>1 DEF IfSet
    <3>2. <<1, "SNR">> \in Records /\ <<2, "LTP">> \in Records
      BY DEF Records
    <3>3. IfSet(feat.media, 1, "SNR") \in Seq(Records) /\ IfSet(feat.media, 2, "LTP") \in Seq(Records)
      BY <3>1, <3>2, Zenon
    <3>4. \A a, b \in Seq(Records) : a \o b \in Seq(Records)
      OBVIOUS
    <3> QED BY <3>3, <3>4
  <2>3. Asked(kind) = first \o always
    BY <1>4 DEF Asked, MediaObservables
  <2> HIDE DEF first, always
  <2>4. \A a, b \in Seq(Records) : Len(a \o b) = Len(a) + Len(b) /\ Len(a) \in Nat
    OBVIOUS
  <2>5. Len(first \o always) = Len(first) + Len(always) /\ Len(first) \in Nat
    BY <2>1, <2>2, <2>4, Zenon
  <2>6. Len(Asked(kind)) = Len(first) + Len(always)
    BY <2>3, <2>5, Zenon
  <2> QED BY <2>1, <2>5, <2>6
<1>5. CASE kind \in {"module_pm", "dp_pm"}
  BY <1>5 DEF Asked, ModuleObservables, DpObservables
<1> QED BY <1>3, <1>4, <1>5 DEF WalkShows

\* A pass takes a record, or is the only one over the module's own records.
LEMMA PassNearer ==
  ASSUME QueriesInv, AgendaInv, HostObserved, NEW kind \in WalkShows, InWalk(kind), Pass(kind),
         UNCHANGED <<mode, todo, rpl, feat, mod>>,
         walk.off + walk.size <= rpl.len \/ walk.lane = 1
  PROVE  AgendaInv' /\ Nearer
<1> DEFINE n == Held(kind)
<1>1. todo # <<>> /\ Head(todo) = kind /\ walk # NoWalk /\ ~CertificateDue
  BY DEF InWalk, Due, CertificateDue, WalkShows
<1>2. rpl \in Reply /\ rpl.len \in Int
  BY ReplyLen DEF QueriesInv, ReplyInv, Reply
<1>3. walk \in [off : 1 .. rpl.len, lane : 1 .. MaxLane, size : {6, 8}]
  BY <1>1 DEF QueriesInv, WalkInv
<1>4. /\ walk.off \in Int /\ 1 <= walk.off /\ walk.off <= rpl.len
      /\ walk.lane \in 1 .. 43 /\ walk.size \in {6, 8}
  BY <1>2, <1>3 DEF MaxLane
<1>5. n \in Nat /\ walk.off + n * walk.size <= rpl.len /\ (n > 0 \/ walk.off + walk.size > rpl.len)
  <2>1. Len(Asked(kind)) \in Nat \ {0}
    BY RecordAsked
  <2>2. /\ n \in 0 .. Len(Asked(kind))
        /\ walk.off + n * walk.size <= rpl.len
        /\ n < Len(Asked(kind)) => walk.off + n * walk.size + walk.size > rpl.len
    BY <1>2, <1>3, HeldFits
  <2> HIDE DEF n
  <2>3. CASE n > 0
    BY <2>1, <2>2, <2>3
  <2>4. CASE n = 0
    BY <1>4, <2>1, <2>2, <2>4
  <2> QED BY <2>1, <2>2, <2>3, <2>4
<1>6. walk' = [walk EXCEPT !.off = @ + n * walk.size, !.lane = (@ % MaxLane) + 1]
  BY DEF Pass
<1>7. walk'.off = walk.off + n * walk.size /\ walk'.lane = (walk.lane % 43) + 1 /\ walk'.size = walk.size
  BY <1>3, <1>6 DEF MaxLane
<1>8. walk' # NoWalk
  BY <1>4, <1>7 DEF NoWalk
<1>9. PassesLeft = 1 + 2 * (rpl.len - walk.off) + (IF walk.lane = 1 THEN 1 ELSE 0)
  BY <1>1 DEF PassesLeft
<1>10. PassesLeft' = 1 + 2 * (rpl.len - walk'.off) + (IF walk'.lane = 1 THEN 1 ELSE 0)
  BY <1>1, <1>8 DEF PassesLeft, CertificateDue, Due
<1> HIDE DEF n
<1>11. PassesLeft' < PassesLeft
  <2>1. CASE n = 0
    <3>1. walk.lane = 1
      BY <1>2, <1>4, <1>5, <2>1
    <3>2. walk'.lane = 2
      BY <1>7, <3>1
    <3>3. walk'.off = walk.off
      <4>1. n * walk.size = 0
        BY <1>4, <2>1
      <4> QED BY <1>4, <1>7, <4>1
    <3> QED BY <1>2, <1>4, <1>9, <1>10, <3>1, <3>2, <3>3
  <2>2. CASE n > 0
    <3>1. n * walk.size >= 6 /\ n * walk.size \in Int
      BY <1>4, <1>5, <2>2
    <3> QED BY <1>2, <1>4, <1>5, <1>7, <1>9, <1>10, <3>1
  <2> QED BY <1>5, <2>1, <2>2
<1>12. ShowsLeft' = ShowsLeft
  BY DEF ShowsLeft
<1> QED BY <1>1, <1>11, <1>12 DEF AgendaInv, Nearer, Due

\* A walk begins at the first byte of its reply.
LEMMA BeginNearer ==
  ASSUME QueriesInv, AgendaInv, NEW kind \in WalkShows, NEW shortest \in {1, 2}, NEW told,
         BeginWalk(kind, shortest, told), kind = "host_pm" => feat.host # 0
  PROVE  AgendaInv' /\ Nearer
<1>1. Due(kind) /\ walk = NoWalk /\ UNCHANGED <<mode, feat, mod>>
  BY DEF BeginWalk
<1>2. todo # <<>> /\ Head(todo) = kind /\ ~CertificateDue
  BY <1>1 DEF Due, CertificateDue, WalkShows
<1>3. CASE walk' = NoWalk /\ todo' = Tail(todo)
  BY <1>1, <1>2, <1>3, PlainNearer
<1>4. ASSUME NEW r \in Reply, rpl' = r, UNCHANGED todo,
             NEW type, walk' = [off |-> 1, lane |-> 1, size |-> RecSize(type)]
      PROVE  AgendaInv' /\ Nearer
  <2>1. RecSize(type) \in {6, 8}
    BY DEF RecSize
  <2>2. walk' # NoWalk /\ walk'.off = 1 /\ walk'.lane = 1
    BY <1>4, <2>1 DEF NoWalk
  <2>3. r.len \in Int /\ r.len <= 255
    BY ReplyLen
  <2>4. PassesLeft = 512
    BY <1>1, <1>2 DEF PassesLeft, RplMax
  <2>5. PassesLeft' = 1 + 2 * (r.len - 1) + 1
    BY <1>2, <1>4, <2>2 DEF PassesLeft, CertificateDue, Due
  <2>6. PassesLeft' < PassesLeft
    BY <2>3, <2>4, <2>5
  <2>7. ShowsLeft' = ShowsLeft
    BY <1>1, <1>4 DEF ShowsLeft
  <2> QED BY <1>1, <1>2, <1>4, <2>6, <2>7 DEF AgendaInv, Nearer, Due
<1> QED BY <1>3, <1>4, RepliesType DEF BeginWalk, Ask, Leave

\* Performance monitoring.
LEMMA PmNearer ==
  ASSUME QueriesInv, AgendaInv, HostObserved, PmNext
  PROVE  AgendaInv' /\ Nearer
<1>1. CASE cmis_cdb_show_pm
  <2> USE <1>1 DEF cmis_cdb_show_pm
  <2>1. walk' = NoWalk /\ UNCHANGED <<mode, feat, mod>>
    BY OutsideWalks DEF QueriesInv, WalkShows, pm
  <2>2. Due("show_pm") /\ "show_pm" \in Commands
    BY DEF Commands
  <2>3. CalledBy(todo')
    BY CalledLists, Zenon
  <2> QED BY <2>1, <2>2, <2>3, PlainNearer
<1>2. CASE cdb_show_pm_features
  <2> USE <1>2 DEF cdb_show_pm_features, Leave
  <2>1. walk' = NoWalk /\ UNCHANGED <<mode, mod>>
    BY OutsideWalks DEF QueriesInv, WalkShows
  <2>2. todo # <<>> /\ todo' = Tail(todo)
    BY DEF Due
  <2>3. feat'.host \in HostBits \cup Garbage \cup {0}
    BY DEF AgendaInv, Byte
  <2>4. /\ ShowsLeft' < ShowsLeft
        /\ mode' = "exit" => todo' = <<>>
        /\ \A i \in 2 .. Len(todo') : todo'[i] \notin Commands
    BY <2>1, <2>2, ShowOver
  <2> QED BY <2>1, <2>3, <2>4 DEF AgendaInv, Nearer
<1>3. ASSUME NEW kind \in WalkShows, InWalk(kind), EndWalk, UNCHANGED <<mode, feat, mod>>
      PROVE  AgendaInv' /\ Nearer
  BY <1>3, PlainNearer DEF EndWalk, Leave, InWalk, Due
<1>4. ASSUME NEW kind \in WalkShows, Loop(kind) PROVE AgendaInv' /\ Nearer
  BY <1>3, <1>4, PassNearer DEF Loop
<1>5. CASE cdb_show_module_pm
  <2>1. CASE BeginWalk("module_pm", 1, <<"fields">>)
    BY <2>1, BeginNearer DEF WalkShows
  <2>2. CASE /\ InWalk("module_pm")
             /\ IF walk.lane = 1 THEN Pass("module_pm") /\ UNCHANGED todo ELSE EndWalk
             /\ UNCHANGED <<mode, json, ret, rpl, feat, mod>>
    BY <1>3, <2>2, PassNearer DEF WalkShows
  <2> QED BY <1>5, <2>1, <2>2 DEF cdb_show_module_pm
<1>6. CASE cdb_show_host_pm
  <2>1. CASE /\ Due("host_pm") /\ feat.host = 0 /\ walk = NoWalk /\ Leave({out})
             /\ UNCHANGED <<mode, json, ret, rpl, top, pm>>
    BY <2>1, PlainNearer DEF Due, Leave, pm
  <2>2. CASE feat.host # 0 /\ BeginWalk("host_pm", 2, <<>>)
    BY <2>2, BeginNearer DEF WalkShows
  <2> QED BY <1>4, <1>6, <2>1, <2>2 DEF cdb_show_host_pm, WalkShows
<1>7. CASE cdb_show_media_pm
  BY <1>4, <1>7, BeginNearer DEF cdb_show_media_pm, WalkShows
<1>8. CASE cdb_show_dp_pm
  BY <1>4, <1>8, BeginNearer DEF cdb_show_dp_pm, WalkShows
<1> QED BY <1>1, <1>2, <1>5, <1>6, <1>7, <1>8 DEF PmNext

\* Feature discovery: every query is a show.
LEMMA FeaturesNearer ==
  ASSUME QueriesInv, AgendaInv, FeaturesNext, UNCHANGED pm
  PROVE  AgendaInv' /\ Nearer
<1>1. CASE cmis_cdb_fw_command \/ cmis_cdb_show_features
  <2> USE <1>1 DEF cmis_cdb_fw_command, cmis_cdb_show_features
  <2>1. walk' = NoWalk /\ UNCHANGED <<mode, feat, mod>>
    BY OutsideWalks DEF QueriesInv, WalkShows, pm
  <2>2. \E show \in Commands : Due(show)
    BY DEF Commands
  <2>3. CalledBy(todo')
    BY CalledLists, Zenon
  <2> QED BY <2>1, <2>2, <2>3, PlainNearer
<1>2. ASSUME NEW key \in FeatureShows, Due(key), todo' = Tail(todo), UNCHANGED mode
      PROVE  AgendaInv' /\ Nearer
  <2>1. walk' = NoWalk /\ UNCHANGED <<feat, mod>>
    BY <1>2, OutsideWalks DEF QueriesInv, WalkShows, FeatureShows, pm
  <2> QED BY <1>2, <2>1, PlainNearer DEF Due
<1> USE DEF Show, Ask, Leave, FeatureShows
<1>3. CASE Show("module", cmis_cdb_show_module_features) BY <1>2, <1>3
<1>4. CASE Show("fw_mgmt", cmis_cdb_show_fw_mgmt_features) BY <1>2, <1>4
<1>5. CASE Show("fw_info", cmis_cdb_show_fw_info) BY <1>2, <1>5
<1>6. CASE Show("pm", cmis_cdb_show_generic_features) BY <1>2, <1>6
<1>7. CASE Show("bert", cmis_cdb_show_bert_features) BY <1>2, <1>7
<1>8. CASE Show("security", cmis_cdb_show_security_features) BY <1>2, <1>8
<1>9. CASE Show("ext", cmis_cdb_show_generic_features) BY <1>2, <1>9
<1> QED BY <1>1, <1>3, <1>4, <1>5, <1>6, <1>7, <1>8, <1>9 DEF FeaturesNext

\* A display of pages ends with its reads.
LEMMA DisplayNearer ==
  ASSUME QueriesInv, AgendaInv, DisplayNext, UNCHANGED pm
  PROVE  AgendaInv' /\ Nearer
<1> USE DEF Leave
<1>1. \E show : Due(show) /\ show \notin WalkShows
  <2>1. /\ eeprom_parse => Due("eeprom_parse")
        /\ sff8079_show_all_nl => Due("sff8079")
        /\ xfp_show_all_nl => Due("xfp")
        /\ cmis_diag_bert_read => Due("cmis_diag_bert_read")
    BY DEF eeprom_parse, sff8079_show_all_nl, xfp_show_all_nl, cmis_diag_bert_read
  <2>2. sff8636_show_all_nl => Due("sff8636")
    BY DEF sff8636_show_all_nl
  <2>3. cmis_show_all_nl => Due("cmis")
    BY DEF cmis_show_all_nl
  <2> QED BY <2>1, <2>2, <2>3 DEF DisplayNext, WalkShows
<1>2. walk' = NoWalk /\ UNCHANGED <<mode, feat, mod>>
  BY <1>1, OutsideWalks DEF QueriesInv, DisplayNext, pm
<1>3. CASE eeprom_parse
  <2>1. \E show \in Commands : Due(show)
    BY <1>3 DEF eeprom_parse, Commands
  <2>2. CASE todo' = Tail(todo)
    BY <1>2, <2>1, <2>2, PlainNearer DEF Due
  <2>3. CASE todo' = <<>>
    BY <1>2, <2>1, <2>3, PlainNearer DEF Due
  <2>4. CASE \E standard \in DOMAIN Standards : todo' = <<standard>>
    <3>1. CalledBy(todo')
      BY <2>4, CalledLists, Zenon
    <3> QED BY <1>2, <2>1, <3>1, PlainNearer
  <2> QED BY <1>3, <2>2, <2>3, <2>4 DEF eeprom_parse
<1>4. CASE todo # <<>> /\ todo' = Tail(todo)
  BY <1>2, <1>4, PlainNearer
<1>5. eeprom_parse \/ (todo # <<>> /\ todo' = Tail(todo))
  BY DEF DisplayNext, Due, sff8079_show_all_nl, xfp_show_all_nl, sff8636_show_all_nl,
         cmis_show_all_nl, cmis_diag_bert_read
<1> QED BY <1>3, <1>4, <1>5

\* A certificate less, or bytes more of this one, leave less room.
LEMMA RoomLowered ==
  ASSUME NEW size \in Nat, NEW items \in 0 .. 5, NEW after \in 0 .. 5,
         NEW t \in Nat, NEW u \in Nat, t <= size, after < items \/ (after = items /\ u > t)
  PROVE  after * (size + 1) - u < items * (size + 1) - t
<1>1. items * (size + 1) \in Int /\ after * (size + 1) \in Int
  OBVIOUS
<1>2. CASE after = items /\ u > t
  BY <1>1, <1>2
<1>3. CASE after < items
  <2>1. after * (size + 1) <= (items - 1) * (size + 1)
    BY <1>3
  <2>2. (items - 1) * (size + 1) = items * (size + 1) - (size + 1)
    OBVIOUS
  <2> QED BY <1>1, <2>1, <2>2
<1> QED BY <1>2, <1>3

\* The first certificate is read next, or one is done, or has more of its bytes.
LEMMA ItemNearer ==
  ASSUME QueriesInv, AgendaInv, UNCHANGED <<mode, todo, walk, feat, mod>>, walk = NoWalk,
         index' \in 0 .. 3, total' \in Nat,
         \/ Due("certificates") /\ certs = -1 /\ certs' > 0 /\ index' = index /\ total' = total
         \/ Reading /\ certs' = certs /\ index' = index + 1
         \/ Reading /\ certs' = certs /\ index' = index /\ total' > total
  PROVE  AgendaInv' /\ Nearer
<1> DEFINE now == index
           next == index'
           size == BufSize
           t == total
           u == total'
<1>1. /\ now \in 0 .. 3 /\ next \in 0 .. 3 /\ t \in Nat /\ u \in Nat /\ t <= size /\ size \in Nat
  BY SecurityAssumption DEF QueriesInv, CertificateInv, LplMax
<1>2. PassesLeft' < PassesLeft
  <2>1. CASE Due("certificates") /\ certs = -1 /\ certs' > 0 /\ next = now
    <3>1. PassesLeft = 5 * (size + 1) - t /\ PassesLeft' = (4 - next) * (size + 1) - u
      BY <2>1 DEF PassesLeft, RoomLeft, CertificateDue, Due
    <3> HIDE DEF now, next, size, t, u
    <3>2. 4 - next \in 0 .. 5 /\ 4 - next < 5 /\ 5 \in 0 .. 5
      BY <1>1
    <3> QED BY <1>1, <3>1, <3>2, RoomLowered
  <2>2. CASE Reading /\ certs' = certs /\ (next = now + 1 \/ (next = now /\ u > t))
    <3>1. PassesLeft = (4 - now) * (size + 1) - t /\ PassesLeft' = (4 - next) * (size + 1) - u
      BY <2>2 DEF PassesLeft, RoomLeft, CertificateDue, Due, Reading
    <3> HIDE DEF now, next, size, t, u
    <3>2. /\ 4 - next \in 0 .. 5 /\ 4 - now \in 0 .. 5
          /\ 4 - next < 4 - now \/ (4 - next = 4 - now /\ u > t)
      BY <1>1, <2>2
    <3> QED BY <1>1, <3>1, <3>2, RoomLowered
  <2> QED BY <2>1, <2>2
<1>3. ShowsLeft' = ShowsLeft
  BY DEF ShowsLeft
<1>4. AgendaInv'
  BY DEF AgendaInv
<1> QED BY <1>2, <1>3, <1>4 DEF Nearer

\* Certificates, digest and signature.
LEMMA SecurityNearer ==
  ASSUME QueriesInv, QueriesInv', AgendaInv, SecurityNext, UNCHANGED pm
  PROVE  AgendaInv' /\ Nearer
<1>1. walk = NoWalk /\ walk' = NoWalk /\ UNCHANGED <<mode, feat, mod>>
  <2>1. UNCHANGED mode
    BY DEF SecurityNext, cmis_cdb_show_certificates, cmis_cdb_get_certificate,
           CertificateCommandFails, CertificateSegment, cmis_cdb_set_digest, cmis_cdb_get_signature
  <2>2. \E show : Due(show) /\ show \notin WalkShows
    BY DEF SecurityNext, WalkShows, cmis_cdb_show_certificates, cmis_cdb_get_certificate,
           CertificateCommandFails, CertificateSegment, Reading, cmis_cdb_set_digest, cmis_cdb_get_signature
  <2> QED BY <2>1, <2>2, OutsideWalks DEF QueriesInv, pm
<1>2. CASE todo # <<>> /\ todo' \in {Tail(todo), <<>>}
  BY <1>1, <1>2, PlainNearer
<1>3. CASE cmis_cdb_set_digest \/ cmis_cdb_get_signature
  BY <1>2, <1>3 DEF cmis_cdb_set_digest, cmis_cdb_get_signature, Leave, Due
<1>4. /\ certs \in -1 .. 4 /\ certs' \in -1 .. 4 /\ index \in 0 .. 3 /\ index' \in 0 .. 3
      /\ total \in Nat /\ total' \in Nat /\ BufSize \in Nat
  BY SecurityAssumption DEF QueriesInv, CertificateInv, LplMax
<1>5. CASE cmis_cdb_show_certificates
  <2> USE <1>5 DEF cmis_cdb_show_certificates
  <2>1. CASE todo' = Tail(todo)
    BY <1>2, <2>1 DEF Due
  <2>2. CASE UNCHANGED todo /\ certs' > 0
    BY <1>1, <1>4, <2>2, ItemNearer DEF CertificateDue
  <2>3. \/ todo' = Tail(todo)
        \/ \E n \in {0} \cup CertCounts \cup Garbage : n > 0 /\ certs' = Min({n, 4}) /\ UNCHANGED todo
    BY DEF Leave
  <2>4. ASSUME NEW n \in {0} \cup CertCounts \cup Garbage, n > 0, certs' = Min({n, 4})
        PROVE  certs' > 0
    <3>1. n \in Nat
      BY QueryAssumption, SecurityAssumption
    <3> QED BY <2>4, <3>1, MinOfTwo
  <2> QED BY <2>1, <2>2, <2>3, <2>4
<1>6. ASSUME NEW chunks, NEW answer, CertificateDone(chunks, answer), Reading, UNCHANGED certs
      PROVE  AgendaInv' /\ Nearer
  <2>1. CASE todo # <<>> /\ todo' = Tail(todo)
    BY <1>2, <2>1
  <2>2. CASE UNCHANGED todo /\ index' = index + 1
    BY <1>1, <1>4, <1>6, <2>2, ItemNearer DEF Reading, CertificateDue
  <2> QED BY <1>6, <2>1, <2>2 DEF CertificateDone, NextItem, Leave, Due
<1>7. CASE CertificateCommandFails
  BY <1>6, <1>7 DEF CertificateCommandFails
<1>8. CASE CertificateSegment
  <2>1. UNCHANGED certs /\ Reading
    BY <1>8 DEF CertificateSegment
  <2>2. PICK r \in Segments(segment) :
          LET n == Min({r.len, BufSize - total})
              chunk == [segment |-> segment, len |-> n, got |-> r.got]
              chunks == IF n > 0 THEN Append(buf, chunk) ELSE buf
          IN IF n < LplMax \/ total + n >= BufSize
             THEN CertificateDone(chunks, 0)
             ELSE total' = total + n /\ UNCHANGED <<todo, index>>
    BY <1>8 DEF CertificateSegment
  <2> DEFINE n == Min({r.len, BufSize - total})
  <2>3. CASE ~(n < LplMax \/ total + n >= BufSize)
    <3>1. total' = total + n /\ UNCHANGED <<todo, index>>
      BY <2>2, <2>3
    <3>2. n \in Int /\ n >= 120
      <4>1. r.len \in Int /\ BufSize - total \in Int
        <5>1. certLen \in Nat /\ segment \in Nat
          BY <2>1 DEF QueriesInv, CertificateInv, CertificateDue, Reading
        <5>2. r \in Reply
          BY <5>1, SegmentsType
        <5> QED BY <1>4, <5>2, ReplyLen
      <4>2. n \in Int
        <5> DEFINE room == BufSize - total
        <5> HIDE DEF room
        <5>1. room \in Int
          BY <4>1 DEF room
        <5>2. Min({r.len, room}) \in Int
          BY <4>1, <5>1, MinOfTwo
        <5> QED BY <5>2 DEF room
      <4> HIDE DEF n
      <4> QED BY <2>3, <4>2 DEF LplMax
    <3> HIDE DEF n
    <3>3. total' > total
      BY <1>4, <3>1, <3>2
    <3> QED BY <1>1, <1>4, <2>1, <3>1, <3>3, ItemNearer DEF Reading, CertificateDue
  <2>4. CASE n < LplMax \/ total + n >= BufSize
    BY <1>6, <2>1, <2>2, <2>4
  <2> QED BY <2>3, <2>4
<1> QED BY <1>3, <1>5, <1>7, <1>8 DEF SecurityNext, cmis_cdb_get_certificate

\* The ends of the displays and of the program.
LEMMA EndNearer ==
  ASSUME QueriesInv, AgendaInv, CloseShow \/ Exit
  PROVE  AgendaInv' /\ Nearer
<1>1. walk' = NoWalk /\ UNCHANGED <<feat, mod>>
  BY OutsideWalks DEF CloseShow, Exit, QueriesInv, WalkInv, WalkShows, pm
<1>2. CASE CloseShow
  BY <1>1, <1>2, PlainNearer DEF CloseShow, Leave, Due
<1>3. CASE Exit
  <2>1. ShowsLeft = 1 /\ ShowsLeft' = 0
    BY <1>3 DEF Exit, ShowsLeft
  <2> QED BY <1>1, <1>3, <2>1 DEF Exit, AgendaInv, Nearer
<1> QED BY <1>2, <1>3

\* The heads of the options.
LEMMA AgendaInit == QueriesInv /\ Init => AgendaInv
<1> SUFFICES ASSUME QueriesInv, Init PROVE AgendaInv
  OBVIOUS
<1>1. mode # "exit"
  BY DEF Init, Modes
<1>2. /\ feat.host = 0 /\ mod.host \in HostBits \cup {0} /\ walk = NoWalk
  <2>1. mode = "pm" => mod.host \in HostBits
    BY DEF Init, PmInit
  <2>2. mode # "pm" => mod.host = 0
    BY DEF Init, PmInit
  <2> QED BY <2>1, <2>2 DEF Init, PmInit, NoFeatures
<1>3. \A i \in 2 .. Len(todo) : todo[i] \notin Commands
  <2>1. mode \in Modes /\ todo = First[mode]
    BY DEF Init
  <2>2. Len(todo) \in {1, 2} /\ (Len(todo) = 2 => todo[2] = "get_signature")
    BY <2>1 DEF First, Modes
  <2> QED BY <2>2 DEF Commands
<1> QED BY <1>1, <1>2, <1>3 DEF AgendaInv

\* Every step of the command line ends a show or lowers what the show in progress has
\* left to do: cmis_cdb_show_pm, cmis_cdb_show_certificates and the other displays come
\* to their end on every reply, read or not, as long as a host feature byte is zero or
\* names an observable.
THEOREM RunsBounded ==
  ASSUME HostObserved
  PROVE  Spec => [](ShowsLeft \in Nat /\ PassesLeft \in Nat) /\ [][Nearer]_vars
<1>1. QueriesInv /\ Init => AgendaInv
  BY AgendaInit
<1>2. QueriesInv /\ QueriesInv' /\ AgendaInv /\ Next => AgendaInv' /\ Nearer
  <2> SUFFICES ASSUME QueriesInv, QueriesInv', AgendaInv, Next PROVE AgendaInv' /\ Nearer
    OBVIOUS
  <2>1. CASE PmNext BY <2>1, PmNearer
  <2>2. CASE FeaturesNext /\ UNCHANGED pm BY <2>2, FeaturesNearer
  <2>3. CASE SecurityNext /\ UNCHANGED pm BY <2>3, SecurityNearer
  <2>4. CASE DisplayNext /\ UNCHANGED pm BY <2>4, DisplayNearer
  <2>5. CASE CloseShow \/ Exit BY <2>5, EndNearer
  <2> QED BY <2>1, <2>2, <2>3, <2>4, <2>5 DEF Next
<1>3. AgendaInv /\ UNCHANGED vars => AgendaInv'
  BY DEF vars, query, pm, AgendaInv, Due
<1>4. QueriesInv /\ QueriesInv' /\ AgendaInv /\ [Next]_vars => AgendaInv' /\ [Nearer]_vars
  BY <1>2, <1>3
<1>5. QueriesInv => ShowsLeft \in Nat /\ PassesLeft \in Nat
  BY LeftCounted
<1> QED BY <1>1, <1>4, <1>5, QueriesInvariant, PTL DEF Spec
=============================================================================
