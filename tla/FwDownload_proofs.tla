------------------------- MODULE FwDownload_proofs -------------------------
(***************************************************************************)
(* Proofs about the firmware download: types, what a download that reports *)
(* success leaves in the module, and whose session its blocks go to.       *)
(*                                                                         *)
(* A session that an earlier download left open is older than the download *)
(* that finds it, and Start refuses it, so in the loop over the blocks the *)
(* session is this download's own and the image is the file up to the      *)
(* offset.  That is the inductive invariant, Progress.                     *)
(***************************************************************************)
EXTENDS FwDownload, TLAPS

\* The image while the first n bytes of a file of size s have been written.
Prefix(d, s, n) ==
  [a \in Addresses |-> IF a < n /\ a < s THEN FileByte(d, a) ELSE Erased]

\* The state of the loop over the blocks.
Loop == session = dl /\ imageSize = size /\ image = Prefix(dl, size, offset)

Progress ==
  /\ pc \in {"caps", "start"} => offset = 0
  /\ pc = "blocks" => Loop /\ offset < size + BlockSize
  /\ pc = "idle" /\ op = "download" /\ ret = "ok" =>
       session = 0 /\ imageSize = size /\ image = Prefix(dl, size, size)

FwInv == TypeOK /\ Progress

-----------------------------------------------------------------------------

\* Bytes of the image are bytes of files, so an image written in full or in
\* part is one.
LEMMA PrefixType ==
  ASSUME NEW d \in Downloads, NEW s, NEW n
  PROVE  Prefix(d, s, n) \in [Addresses -> FileBytes \cup {Erased}]
BY DEF Prefix, FileBytes

\* Writing the block at the offset moves the written prefix on by a block, and by
\* what is left of the file in the last one.
LEMMA BlockExtends ==
  ASSUME FwAssumption, NEW s \in Nat, NEW o \in Nat, o < s, NEW d,
         NEW len \in Nat, len = IF s - o > BlockSize THEN BlockSize ELSE s - o
  PROVE  [x \in Addresses |-> IF o <= x /\ x < o + len THEN FileByte(d, x)
                                                       ELSE Prefix(d, s, o)[x]]
           = Prefix(d, s, o + BlockSize)
<1>1. ASSUME NEW x \in Addresses
      PROVE  (IF o <= x /\ x < o + len THEN FileByte(d, x) ELSE Prefix(d, s, o)[x])
               = Prefix(d, s, o + BlockSize)[x]
  BY <1>1 DEF Prefix, Addresses, FwAssumption
<1> QED BY <1>1 DEF Prefix

\* The block is not empty and not longer than what is left.
LEMMA BlockLenType ==
  ASSUME FwAssumption, TypeOK, offset < size
  PROVE  BlockLen \in Nat
BY DEF BlockLen, TypeOK, FwAssumption

\* No step of the host or of the module leaves the loop's state half made.
LEMMA FwStep ==
  ASSUME FwInv, [Next]_vars
  PROVE  FwInv'
<1> USE FwAssumption DEF FwInv
<1>1. ASSUME NEW n \in FileSizes, Download(n) PROVE FwInv'
  <2>1. TypeOK'
    BY <1>1 DEF Download, TypeOK, Return, module, FwAssumption, Downloads
  <2>2. Progress'
    BY <1>1 DEF Download, Progress, Return, module, TypeOK
  <2> QED BY <2>1, <2>2
<1>2. CASE GetCaps
  <2>1. TypeOK'
    BY <1>2 DEF GetCaps, TypeOK, Return, Goto, module
  <2>2. Progress'
    BY <1>2 DEF GetCaps, Progress, Return, Goto, module, TypeOK
  <2> QED BY <2>1, <2>2
<1>3. CASE Start
  <2>1. CASE StartAccepted /\ StartEffect /\ (Goto("blocks") \/ Return("failed"))
    <3>1. Blank = Prefix(dl, size, 0)
      BY DEF Blank, Prefix, Addresses, FwAssumption
    <3>2. dl \in Downloads /\ size \in 1 .. MaxFileSize /\ offset = 0
      BY <1>3 DEF Start, TypeOK, Progress
    <3>3. TypeOK'
      BY <1>3, <2>1, <3>1, <3>2, PrefixType
      DEF Start, StartEffect, TypeOK, Return, Goto, Downloads
    <3>4. Progress'
      BY <1>3, <2>1, <3>1, <3>2 DEF Start, StartEffect, Progress, Loop, Return, Goto, TypeOK, FwAssumption
    <3> QED BY <3>3, <3>4
  <2>2. CASE UNCHANGED module /\ Return("failed")
    BY <1>3, <2>2 DEF Start, TypeOK, Progress, Return, module
  <2> QED BY <1>3, <2>1, <2>2 DEF Start, Command
<1>4. CASE WriteBlock
  <2>1. /\ dl \in Downloads /\ size \in 1 .. MaxFileSize
        /\ offset' = offset + BlockSize /\ offset' \in 0 .. MaxFileSize + BlockSize
        /\ offset' < size + BlockSize
        /\ UNCHANGED <<dl, size, op, lpl>>
    BY <1>4 DEF WriteBlock, TypeOK, FwAssumption
  <2>2. CASE WriteEffect(offset, BlockLen) /\ (Goto("blocks") \/ Return("failed"))
    <3>1. image' = Prefix(dl, size, offset')
      <4>1. Loop /\ offset \in Nat /\ offset < size /\ BlockLen \in Nat
        BY <1>4, BlockLenType DEF WriteBlock, Progress, TypeOK
      <4>2. image' = [x \in Addresses |-> IF offset <= x /\ x < offset + BlockLen
                                            THEN FileByte(dl, x)
                                            ELSE Prefix(dl, size, offset)[x]]
        BY <2>2, <4>1 DEF WriteEffect, Loop
      <4>3. size \in Nat /\ offset' = offset + BlockSize
        BY <2>1 DEF FwAssumption
      <4>4. [x \in Addresses |-> IF offset <= x /\ x < offset + BlockLen
                                   THEN FileByte(dl, x)
                                   ELSE Prefix(dl, size, offset)[x]]
              = Prefix(dl, size, offset + BlockSize)
        BY <4>1, <4>3, BlockExtends DEF BlockLen
      <4> QED BY <4>2, <4>3, <4>4
    <3>2. TypeOK'
      BY <2>1, <2>2, <3>1, PrefixType, <1>4 DEF TypeOK, WriteEffect, Return, Goto, WriteBlock
    <3>3. Progress'
      BY <1>4, <2>1, <2>2, <3>1 DEF WriteBlock, Progress, Loop, WriteEffect, Return, Goto
    <3> QED BY <3>2, <3>3
  <2>3. CASE UNCHANGED module /\ Return("failed")
    BY <2>1, <2>3 DEF TypeOK, Progress, Return, module
  <2> QED BY <1>4, <2>2, <2>3 DEF WriteBlock, Command
<1>5. CASE CompleteDownload
  <2>1. /\ Loop /\ UNCHANGED <<dl, size, offset, op, lpl, imageSize, image>>
        /\ pc' = "idle" /\ ret' \in {"ok", "failed"}
        /\ ret' = "ok" => session' = 0
        /\ session' \in {session, 0}
    BY <1>5 DEF CompleteDownload, Command, CompleteEffect, Return, Progress, module
  <2>2. image = Prefix(dl, size, size)
    BY <1>5, <2>1 DEF CompleteDownload, Loop, Prefix, TypeOK, Addresses, FwAssumption
  <2> QED BY <2>1, <2>2 DEF TypeOK, Progress, Loop
<1>6. CASE Abort
  <2>1. Blank \in [Addresses -> FileBytes \cup {Erased}]
    BY DEF Blank
  <2>2. /\ UNCHANGED <<dl, size, offset, lpl>> /\ op' = "abort"
        /\ pc' = "idle" /\ ret' \in {"ok", "failed"}
        /\ <<session', imageSize', image'>> \in
             {<<session, imageSize, image>>, <<0, 0, Blank>>}
    BY <1>6 DEF Abort, Command, AbortEffect, Return, module
  <2> QED BY <2>1, <2>2 DEF TypeOK, Progress, FwAssumption
<1>7. CASE UNCHANGED vars
  BY <1>7 DEF vars, host, module, TypeOK, Progress, Loop
<1> QED BY <1>1, <1>2, <1>3, <1>4, <1>5, <1>6, <1>7 DEF Next

\* The inductive invariant of the download.
THEOREM DownloadInvariant == Spec => []FwInv
<1>1. Init => FwInv
  BY FwAssumption DEF Init, FwInv, TypeOK, Progress, Blank, FwAssumption
<1>2. FwInv /\ [Next]_vars => FwInv'
  BY FwStep
<1> QED BY <1>1, <1>2, PTL DEF Spec

\* Types, for any sizes of file and block: offsets stay below the size of a file
\* and a block, and a command is only sent for a file of a legal size.
THEOREM FwTypeCorrect == Spec => []TypeOK
BY DownloadInvariant, PTL DEF FwInv

\* A download that reports success has left its own file in the module, the last
\* partial block included, whatever earlier downloads and aborts left there.
THEOREM DownloadExact == Spec => []DownloadedExact
<1>1. FwInv => DownloadedExact
  BY FwAssumption DEF FwInv, Progress, TypeOK, DownloadedExact, Prefix, Addresses, FwAssumption
<1> QED BY <1>1, DownloadInvariant, PTL

\* No block goes into a session that an earlier download left open.
THEOREM BlocksInOwnSession == Spec => WritesInOwnSession
<1>1. FwInv /\ [Next]_vars => [pc = "blocks" /\ image' # image => session = dl]_vars
  BY DEF FwInv, Progress, Loop
<1> QED BY <1>1, DownloadInvariant, PTL DEF Spec, WritesInOwnSession

-----------------------------------------------------------------------------
(* The length of a download. *)

\* The bytes of the file that no command has been sent for, and the commands around
\* the blocks.
StepsLeft ==
  CASE pc = "idle" -> 0
    [] pc = "blocks" -> IF offset < size THEN size - offset + 1 ELSE 1
    [] pc = "start" -> size + 2
    [] pc = "caps" -> size + 3

\* Every command of a download, failed or not, brings its return nearer: no command is
\* sent twice, and the loop over the blocks moves on by a block each time.
THEOREM DownloadsBounded ==
  Spec => /\ [](StepsLeft \in 0 .. size + 3)
          /\ [][pc # "idle" => StepsLeft' < StepsLeft]_vars
<1>1. FwInv => StepsLeft \in 0 .. size + 3
  BY DEF FwInv, TypeOK, StepsLeft
<1>2. FwInv /\ [Next]_vars => [pc # "idle" => StepsLeft' < StepsLeft]_vars
  <2> SUFFICES ASSUME FwInv, Next, pc # "idle" PROVE StepsLeft' < StepsLeft
    OBVIOUS
  <2>1. size \in Nat /\ offset \in Nat /\ BlockSize \in Nat \ {0} /\ MaxFileSize \in Nat
    BY FwAssumption DEF FwInv, TypeOK, FwAssumption
  <2>2. pc \in {"caps", "start"} => offset = 0
    BY DEF FwInv, Progress
  <2>3. CASE GetCaps
    BY <2>1, <2>3 DEF GetCaps, Return, Goto, StepsLeft
  <2>4. CASE Start
    BY <2>1, <2>2, <2>4 DEF Start, Command, Return, Goto, StepsLeft
  <2>5. CASE WriteBlock
    BY <2>1, <2>5 DEF WriteBlock, Command, Return, Goto, StepsLeft
  <2>6. CASE CompleteDownload
    BY <2>1, <2>6 DEF CompleteDownload, Command, Return, StepsLeft
  <2> QED BY <2>3, <2>4, <2>5, <2>6 DEF Next, Download, Abort
<1> QED BY <1>1, <1>2, DownloadInvariant, PTL DEF Spec
=============================================================================
