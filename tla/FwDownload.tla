----------------------------- MODULE FwDownload -----------------------------
(***************************************************************************)
(* Firmware management over CDB, cmis-cdb.c: cmis_cdb_fw_download and      *)
(* cmis_cdb_fw_abort, run one after the other by a user who may retry      *)
(* after any failure.                                                      *)
(*                                                                         *)
(* One action of the host is one CDB command, taken at the contract of     *)
(* module CdbRpc: the module runs it at most once; a status is its own; an *)
(* error (-1) leaves open whether it ran.  A command that still runs when  *)
(* its caller is told of an error ends before the next one starts and      *)
(* nothing else observes it, so its effect is taken at once.               *)
(*                                                                         *)
(* The module's firmware engine is external: one download session at a     *)
(* time, blocks stored where their address says, and a Complete that it    *)
(* may accept or refuse without looking at what was written.               *)
(***************************************************************************)
EXTENDS Integers

CONSTANTS
  FileSizes,      \* sizes in bytes of the files a user tries
  MaxFileSize,    \* 16 MB
  BlockSize,      \* 116 bytes, the data of one LPL block
  MaxDownloads,   \* bound on the downloads of a behaviour
  Erased          \* an image byte that was never written

ASSUME FwAssumption ==
  /\ FileSizes \subseteq Nat
  /\ MaxFileSize \in Nat /\ BlockSize \in Nat \ {0} /\ MaxDownloads \in Nat

Downloads == 1 .. MaxDownloads
Addresses == 0 .. MaxFileSize - 1

\* Byte a of the file of download d: no two downloads have a byte in common.
FileByte(d, a) == <<d, a>>

FileBytes == {FileByte(d, a) : d \in Downloads, a \in Addresses}

VARIABLES
  pc,        \* the next command of the host, "idle" outside a call
  dl,        \* number of the current or the last download
  size,      \* file_size
  offset,    \* offset of the next block
  op, ret,   \* the current or the last call, and what it returned
  lpl,       \* external: the module advertises the LPL write mechanism
  session,   \* external: the download in progress in the module, 0 for none
  imageSize, \* external: size announced by its Start command
  image      \* external: the bytes of the inactive image

host == <<pc, dl, size, offset, op, ret>>
module == <<session, imageSize, image>>
vars == <<host, lpl, module>>

Blank == [a \in Addresses |-> Erased]

Init ==
  /\ pc = "idle" /\ dl = 0 /\ size = 0 /\ offset = 0
  /\ op = "none" /\ ret = "none"
  /\ lpl \in BOOLEAN
  /\ session = 0 /\ imageSize = 0 /\ image = Blank

-----------------------------------------------------------------------------
(***************************************************************************)
(* The module's side of each command: whether it takes the command, and    *)
(* what the command then does.                                             *)
(***************************************************************************)

\* CMD 0x0101, refused while a session is open ("Previous CMD not aborted").
StartAccepted == session = 0
StartEffect == session' = dl /\ imageSize' = size /\ image' = Blank

\* CMD 0x0103, unknown to a module without the LPL write mechanism.
WriteAccepted == session # 0 /\ lpl
WriteEffect(a, n) ==
  /\ image' = [x \in Addresses |-> IF a <= x /\ x < a + n THEN FileByte(dl, x) ELSE image[x]]
  /\ UNCHANGED <<session, imageSize>>

\* CMD 0x0107 and CMD 0x0102.
CloseAccepted == session # 0
CompleteEffect == session' = 0 /\ UNCHANGED <<imageSize, image>>
AbortEffect == session' = 0 /\ imageSize' = 0 /\ image' = Blank

-----------------------------------------------------------------------------

Return(value) == pc' = "idle" /\ ret' = value

Goto(place) == pc' = place /\ ret' = ret

\* cmis_cdb_send_command_lpl with a status check: "status < 0 || status & FAIL".
Command(accepted, effect, next) ==
  \/ accepted /\ effect /\ next
  \/ accepted /\ effect /\ Return("failed")
  \/ UNCHANGED module /\ Return("failed")

\* Mutant: the size of the file is not checked.
DownloadUnchecked(n) ==
  /\ pc = "idle" /\ dl < MaxDownloads
  /\ dl' = dl + 1 /\ op' = "download" /\ size' = n /\ offset' = 0
  /\ \/ Return("failed")
     \/ pc' = "caps" /\ ret' = "none"
  /\ UNCHANGED <<lpl, module>>

\* cmis_cdb_fw_download up to the file checks; a file may also be unreadable.
Download(n) ==
  /\ pc = "idle" /\ dl < MaxDownloads
  /\ dl' = dl + 1 /\ op' = "download" /\ size' = n /\ offset' = 0
  /\ \/ Return("failed")
     \/ n > 0 /\ n <= MaxFileSize /\ pc' = "caps" /\ ret' = "none"
  /\ UNCHANGED <<lpl, module>>

\* cdb_fw_get_caps and the test of the write mechanism.  When the reply cannot
\* be read its status is still a success and reply[] holds what the stack held.
GetCaps ==
  /\ pc = "caps"
  /\ \/ Return("failed")
     \/ \E mechanism, garbage \in BOOLEAN :
          /\ mechanism = lpl \/ garbage
          /\ IF mechanism THEN Goto("start") ELSE Return("failed")
  /\ UNCHANGED <<dl, size, offset, op, lpl, module>>

\* Mutant: blocks are written whatever Start returned.
StartUnchecked ==
  /\ pc = "start"
  /\ \/ StartAccepted /\ StartEffect /\ Goto("blocks")
     \/ UNCHANGED module /\ Goto("blocks")
  /\ UNCHANGED <<dl, size, offset, op, lpl>>

\* cdb_fw_start.
Start ==
  /\ pc = "start"
  /\ Command(StartAccepted, StartEffect, Goto("blocks"))
  /\ UNCHANGED <<dl, size, offset, op, lpl>>

\* Mutant: the last block is one byte short.
BlockLenShort == IF size - offset > BlockSize THEN BlockSize ELSE size - offset - 1

BlockLen == IF size - offset > BlockSize THEN BlockSize ELSE size - offset

\* Mutant: a block that failed starts the download over.
WriteBlockRestarts ==
  /\ pc = "blocks" /\ offset < size
  /\ \/ Command(WriteAccepted, WriteEffect(offset, BlockLen), Goto("blocks"))
          /\ offset' = offset + BlockSize
     \/ UNCHANGED module /\ Goto("blocks") /\ offset' = 0
  /\ UNCHANGED <<dl, size, op, lpl>>

\* One pass of the loop over the blocks, cdb_fw_write_block.
WriteBlock ==
  /\ pc = "blocks" /\ offset < size
  /\ Command(WriteAccepted, WriteEffect(offset, BlockLen), Goto("blocks"))
  /\ offset' = offset + BlockSize
  /\ UNCHANGED <<dl, size, op, lpl>>

\* cdb_fw_complete.
CompleteDownload ==
  /\ pc = "blocks" /\ offset >= size
  /\ Command(CloseAccepted, CompleteEffect, Return("ok"))
  /\ UNCHANGED <<dl, size, offset, op, lpl>>

\* cmis_cdb_fw_abort, which no failure path of the download calls.
Abort ==
  /\ pc = "idle" /\ dl > 0
  /\ op' = "abort"
  /\ Command(CloseAccepted, AbortEffect, Return("ok"))
  /\ UNCHANGED <<dl, size, offset, lpl>>

Next ==
  \/ \E n \in FileSizes : Download(n)
  \/ GetCaps \/ Start \/ WriteBlock \/ CompleteDownload
  \/ Abort

Spec == Init /\ [][Next]_vars /\ WF_vars(GetCaps \/ Start \/ WriteBlock \/ CompleteDownload)

-----------------------------------------------------------------------------

\* Type correctness; a download that has passed the file checks has a legal size.
TypeOK ==
  /\ pc \in {"idle", "caps", "start", "blocks"}
  /\ dl \in 0 .. MaxDownloads
  /\ size \in Nat /\ offset \in 0 .. MaxFileSize + BlockSize
  /\ pc # "idle" => size \in 1 .. MaxFileSize /\ dl \in Downloads
  /\ op \in {"none", "download", "abort"} /\ ret \in {"none", "ok", "failed"}
  /\ lpl \in BOOLEAN
  /\ session \in 0 .. MaxDownloads /\ imageSize \in 0 .. MaxFileSize
  /\ image \in [Addresses -> FileBytes \cup {Erased}]

\* A download that reports success has closed its session and left exactly its
\* file in the module, last partial block included, whatever happened before.
DownloadedExact ==
  pc = "idle" /\ op = "download" /\ ret = "ok" =>
    /\ session = 0 /\ imageSize = size
    /\ \A a \in Addresses :
         image[a] = IF a < size THEN FileByte(dl, a) ELSE Erased

\* A download writes only into the session it opened itself, never into one that
\* an earlier failed download, which sends no abort, has left open.
WritesInOwnSession ==
  [][pc = "blocks" /\ image' # image => session = dl]_vars

\* Every download returns.
DownloadReturns == pc # "idle" ~> pc = "idle"
=============================================================================
