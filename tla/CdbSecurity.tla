---------------------------- MODULE CdbSecurity -----------------------------
(***************************************************************************)
(* Certificates and signatures over CDB, cmis-cdb.c.  A certificate comes  *)
(* in segments of at most 120 bytes; the caller learns of its end by a     *)
(* short segment, an empty one, or a command that fails.                   *)
(*                                                                         *)
(* External: segment s of a certificate is its bytes from 120 * s on.      *)
(***************************************************************************)
EXTENDS CdbQuery

CONSTANTS
  CertCounts,   \* numbers of certificates modules report
  CertLens,     \* lengths of certificates
  BufSize       \* buf_size

\* The callers have buffers of 4096 bytes; beyond the bound the segment number,
\* a byte, would wrap.
ASSUME SecurityAssumption ==
  /\ CertCounts \subseteq Nat /\ CertLens \subseteq Nat /\ CertLens # {}
  /\ BufSize \in 1 .. 256 * LplMax

VARIABLES
  certs,   \* certificates reported, -1 before the module was asked
  index,   \* the certificate that is read
  buf,     \* cert_buf, by segments: their number, length, and whether reply[] was read
  segment, \* segment of the next command
  total,   \* bytes in the buffer, while a certificate is read
  certLen, \* external: the length of the certificates
  digest   \* external: the digest the module holds: "none", "set"

security == <<certs, index, buf, segment, total, certLen, digest>>

SecurityInit ==
  /\ certs = -1 /\ index = 0 /\ buf = <<>> /\ segment = 0 /\ total = 0
  /\ certLen \in CertLens /\ (mode \notin {"cert", "cert_file"} => certLen = Min(CertLens))
  /\ digest = "none"

\* External: the length of the reply to a command for a segment.
SegmentLen(s) == Max({0, Min({LplMax, certLen - LplMax * s})})

\* What the caller has of it, a length of which nothing is read included.
Segments(s) ==
  {NoReply} \cup [len : {SegmentLen(s)}, got : BOOLEAN] \cup {r \in Replies : r.len > LplMax}

\* The query that cmis_cdb_show_certificates starts with, up to the first item.
cmis_cdb_show_certificates ==
  /\ Due("certificates") /\ certs = -1
  /\ \/ /\ Leave({out}) /\ rpl' = NoReply /\ top' = -1 /\ certs' = certs
     \/ \E r \in Replies :
          /\ rpl' = r
          /\ top' = LastUsed(r, {Field(33, 32), Field(35, 34)})
          /\ \E n \in IF r.len < 33 THEN {0} ELSE CertCounts \cup (IF r.got THEN {} ELSE Garbage) :
               /\ certs' = Min({n, 4})
               /\ \/ n = 0 /\ Leave(Play(out, <<"object", "fields", "end">>))
                  \/ /\ n > 0 /\ UNCHANGED todo
                     /\ out' \in Play(out, <<"object", "fields", "array", "item", "fields">>)
  /\ UNCHANGED <<mode, json, ret, index, buf, segment, total, certLen, digest>>

\* cmis_cdb_get_certificate is called for the next certificate, or none is left.
NextItem(events) ==
  \/ /\ index + 1 < certs
     /\ out' \in Play(out, events \o <<"item", "fields">>)
     /\ index' = index + 1 /\ UNCHANGED todo
  \/ /\ index + 1 >= certs
     /\ Leave(Play(out, events \o <<"end_array", "end">>))
     /\ UNCHANGED index

\* What the callers do with an answer: the display shows it and goes on, the
\* command line saves the file and ends.
CertificateDone(chunks, answer) ==
  \/ /\ Due("certificates") /\ ret' = ret
     /\ NextItem(IF answer < 0 THEN <<"fields", "end">>
                 ELSE IF chunks = <<>> THEN <<"fields", "end">>
                 ELSE <<"fields", "array", "values", "end_array", "end">>)
     /\ buf' = <<>>
  \/ /\ Due("cert_file") /\ ret' = answer
     /\ buf' = IF answer < 0 THEN <<>> ELSE chunks
     /\ Leave({out}) /\ UNCHANGED index

Reading == Due("cert_file") \/ (Due("certificates") /\ certs > 0)

\* One pass of the loop of cmis_cdb_get_certificate.
CertificateCommandFails ==
  /\ Reading /\ total < BufSize
  /\ CertificateDone(buf, IF segment > 0 /\ total > 0 THEN 0 ELSE -1)
  /\ segment' = 0 /\ total' = 0 /\ rpl' = NoReply /\ top' = -1
  /\ UNCHANGED <<mode, json, certs, certLen, digest>>
\* Mutant: the segment number is not advanced.
CertificateSegmentAgain ==
  /\ Reading /\ total < BufSize
  /\ \E r \in Segments(segment) :
       LET n == Min({r.len, BufSize - total})
           chunk == [segment |-> segment, len |-> n, got |-> r.got]
           chunks == IF n > 0 THEN Append(buf, chunk) ELSE buf
       IN /\ rpl' = r /\ top' = n - 1
          /\ segment' = 0
          /\ IF n < LplMax \/ total + n >= BufSize
             THEN CertificateDone(chunks, 0) /\ total' = 0
             ELSE buf' = chunks /\ total' = total + n /\ UNCHANGED <<out, todo, ret, index>>
  /\ UNCHANGED <<mode, json, certs, certLen, digest>>

CertificateSegment ==
  /\ Reading /\ total < BufSize
  /\ \E r \in Segments(segment) :
       LET n == Min({r.len, BufSize - total})
           chunk == [segment |-> segment, len |-> n, got |-> r.got]
           chunks == IF n > 0 THEN Append(buf, chunk) ELSE buf
       IN /\ rpl' = r /\ top' = n - 1
          /\ IF n < LplMax \/ total + n >= BufSize
             THEN CertificateDone(chunks, 0) /\ segment' = 0 /\ total' = 0
             ELSE /\ buf' = chunks /\ segment' = (segment + 1) % 256 /\ total' = total + n
                  /\ UNCHANGED <<out, todo, ret, index>>
  /\ UNCHANGED <<mode, json, certs, certLen, digest>>

cmis_cdb_get_certificate == CertificateCommandFails \/ CertificateSegment

\* A command that fails may still have run.
cmis_cdb_set_digest ==
  /\ Due("set_digest")
  /\ \/ digest' = "set" /\ Leave({out}) /\ ret' = ret
     \/ digest' \in {digest, "set"} /\ ret' = -1 /\ todo' = <<>> /\ out' = out
  /\ UNCHANGED <<mode, json, rpl, top, certs, index, buf, segment, total, certLen>>

\* sig_buf of the command line.
SigBufSize == 120

cmis_cdb_get_signature ==
  /\ Due("get_signature")
  /\ \/ Leave({out}) /\ ret' = -1 /\ rpl' = NoReply /\ top' = -1 /\ UNCHANGED buf
     \/ \E r \in Replies :
          /\ rpl' = r /\ top' = Min({r.len, SigBufSize}) - 1
          /\ buf' = <<[segment |-> 0, len |-> Min({r.len, SigBufSize}), got |-> r.got]>>
          /\ Leave({out}) /\ ret' = 0
  /\ UNCHANGED <<mode, json, certs, index, segment, total, certLen, digest>>

SecurityNext ==
  \/ cmis_cdb_show_certificates \/ cmis_cdb_get_certificate
  \/ cmis_cdb_set_digest \/ cmis_cdb_get_signature
=============================================================================
