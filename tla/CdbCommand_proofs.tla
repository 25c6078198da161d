------------------------- MODULE CdbCommand_proofs -------------------------
(***************************************************************************)
(* Proofs about CDB messaging, for any number of calls, any payload area,  *)
(* any advertised times and any poll interval.                             *)
(*                                                                         *)
(* The argument: cmis_cdb_send_command_lpl writes to the mailbox only      *)
(* after it has seen the engine idle, and the engine starts only by its    *)
(* write of the CMDID (EngineFree).  So what the engine takes is what this *)
(* call wrote (MailboxWritten), and a status seen after the trigger, or a  *)
(* reply read then, is of this command (TakenIsOwn, ReplyWritten).         *)
(***************************************************************************)
EXTENDS CdbCommand, TLAPS

\* A wait that goes on has a poll left.
PollsLeft == pc \in {"drain", "wait"} => left > 0

\* A call that is open has a number.
Numbered == pc # "idle" => id \in Calls

\* The engine is idle while the host writes a command or reads a reply, and when
\* it has returned a status.
EngineFree ==
  /\ pc \in {"payload", "header", "trigger", "rplLen", "rplData"} => ~busy
  /\ pc = "idle" /\ ret \in {"success", "failed"} => ~busy

\* The engine has taken commands of this and of earlier calls only, and this one
\* not before its trigger.
TakenOnce ==
  /\ accepted \subseteq 1 .. id
  /\ pc \in {"check", "drain", "payload", "header", "trigger"} => id \notin accepted
  /\ busy => run.cmd \in Calls

\* After the trigger the engine has this command, and the status is of it.
TakenIsOwn ==
  /\ pc = "wait" => run.cmd = id /\ (~busy => outcome[id] = status)
  /\ pc \in {"rplLen", "rplData"} => status = "success" /\ outcome[id] = "success"

\* The parts of a command that have been written are in the mailbox.
MailboxWritten ==
  /\ pc \in {"check", "drain"} => block = 1
  /\ pc = "payload" => block <= kind.blocks
  /\ pc = "payload" => \A b \in Blocks : b < block => mailbox.lpl[b] = Payload(id)
  /\ pc \in {"header", "trigger"} =>
       \A b \in Blocks : b <= kind.blocks => mailbox.lpl[b] = Payload(id)
  /\ pc = "trigger" => mailbox.header = id /\ mailbox.len = kind.blocks

\* When a command has succeeded the reply area holds its reply.
ReplyWritten ==
  /\ (pc = "wait" /\ ~busy /\ status = "success") \/ pc \in {"rplLen", "rplData"} =>
       \A b \in Blocks : b <= mailbox.rpl => mailbox.lpl[b] = Reply(id)
  /\ pc = "rplData" => rplLen = mailbox.rpl

\* The caller's buffer is filled as the call returns.
FilledLast == reply # NoReply => pc = "idle" /\ ret = "success"

IInv ==
  /\ TypeOK /\ PollsLeft /\ Numbered
  /\ EngineFree /\ TakenOnce /\ TakenIsOwn
  /\ MailboxWritten /\ NeverMixed
  /\ ReplyWritten /\ FilledLast /\ ReplyIsOwn
  /\ StatusIsOwn

-----------------------------------------------------------------------------
(* Timeouts. *)

\* cdb_get_busy_timeout: whatever a module advertises in its two bytes, the wait
\* is of at least a millisecond and of at most five seconds.
THEOREM BusyTimeoutRange ==
  ASSUME NEW b165 \in 0 .. 255, NEW b166 \in 0 .. 255
  PROVE  BusyTimeout(b165, b166) \in 1 .. FallbackMs
<1> DEFINE ext == b165 % 32
           short == b166 % 128
<1>1. ext \in 0 .. 31 /\ short \in 0 .. 127
  OBVIOUS
<1> HIDE DEF ext, short
<1>2. BusyTimeout(b165, b166) =
        LET ms == IF b166 >= 128 THEN 160 * (IF ext < 1 THEN 1 ELSE ext)
                  ELSE 80 - (IF short > 80 THEN 80 ELSE short)
        IN IF ms > 0 THEN ms ELSE FallbackMs
  BY DEF BusyTimeout, ext, short
<1> QED
  BY <1>1, <1>2 DEF FallbackMs

\* A wait polls at least once.
LEMMA PollsPositive ==
  ASSUME NEW ms \in Nat \ {0}
  PROVE  Polls(ms) \in Nat \ {0}
<1>1. PollMs \in Nat \ {0}
  BY CdbAssumption
<1>2. ASSUME NEW x \in Nat, NEW n \in Nat \ {0}, x >= n
      PROVE  x \div n \in Nat \ {0}
  BY <1>2
<1>3. ms + PollMs - 1 \in Nat /\ ms + PollMs - 1 >= PollMs
  BY <1>1
<1> QED
  BY <1>1, <1>2, <1>3 DEF Polls

\* So does the wait of every call.
LEMMA LimitsPositive == Limits \subseteq Nat \ {0}
<1>1. FallbackMs \in Nat \ {0}
  BY DEF FallbackMs
<1>2. ASSUME NEW a \in Adverts PROVE Polls(BusyTimeout(a[1], a[2])) \in Nat \ {0}
  <2>1. a[1] \in 0 .. 255 /\ a[2] \in 0 .. 255
    BY CdbAssumption
  <2>2. BusyTimeout(a[1], a[2]) \in 1 .. FallbackMs
    BY <2>1, BusyTimeoutRange
  <2>3. BusyTimeout(a[1], a[2]) \in Nat \ {0}
    BY <1>1, <2>2
  <2> QED
    BY <2>3, PollsPositive
<1>3. Polls(FallbackMs) \in Nat \ {0}
  BY <1>1, PollsPositive
<1> QED
  BY <1>2, <1>3 DEF Limits

-----------------------------------------------------------------------------
(* The inductive invariant. *)

\* The state before the first call satisfies the inductive invariant.
LEMMA InitIInv == Init => IInv
<1> SUFFICES ASSUME Init PROVE IInv
  OBVIOUS
<1>1. Polls(FallbackMs) \in Nat \ {0}
  BY LimitsPositive DEF Limits
<1>2. TypeOK
  <2>1. 0 \in 0 .. MaxCalls /\ 0 \in 0 .. LplBlocks /\ 0 \in RplSizes
    BY CdbAssumption DEF RplSizes
  <2>2. [b \in Blocks |-> None] \in [Blocks -> Tags]
    BY DEF Tags
  <2>3. mailbox \in Mailboxes
    BY <2>1, <2>2 DEF Init, Mailboxes
  <2>4. run \in Runs
    BY <2>1, <2>2 DEF Init, Runs
  <2>5. reply \in [Blocks -> Tags \cup {Junk, Heap}]
    BY DEF Init, NoReply
  <2>6. outcome \in [Calls -> {"none", "success", "failed"}]
    BY DEF Init
  <2>7. limit \in Nat \ {0} /\ left \in Nat /\ block \in Nat \ {0}
    BY <1>1 DEF Init
  <2>8. accepted \subseteq Calls /\ busy \in BOOLEAN /\ status \in {"success", "failed"}
    BY DEF Init
  <2> QED
    BY <2>1, <2>3, <2>4, <2>5, <2>6, <2>7, <2>8 DEF Init, TypeOK
<1>3. /\ PollsLeft /\ Numbered /\ EngineFree /\ TakenOnce /\ TakenIsOwn
      /\ MailboxWritten /\ NeverMixed /\ ReplyWritten /\ FilledLast /\ StatusIsOwn
  BY DEF Init, PollsLeft, Numbered, EngineFree, TakenOnce, TakenIsOwn, MailboxWritten,
         NeverMixed, ReplyWritten, FilledLast, StatusIsOwn
<1>4. ReplyIsOwn
  <2>1. \A b \in Blocks : reply[b] \in {Junk, Heap}
    BY DEF Init, NoReply
  <2>2. ~ Replied
    BY DEF Init, Replied
  <2> QED
    BY <2>1, <2>2 DEF ReplyIsOwn
<1> QED
  BY <1>2, <1>3, <1>4 DEF IInv

\* The entry of a call.
LEMMA SendIInv == ASSUME IInv, NEW k \in Kinds, Send(k) PROVE IInv'
<1>1. limit' \in Nat \ {0}
  BY LimitsPositive DEF Send
<1>2. id \in 0 .. MaxCalls /\ id < MaxCalls /\ id' = id + 1 /\ id' \in Calls
  BY CdbAssumption DEF Send, IInv, TypeOK, Calls
<1>3. TypeOK'
  <2>1. 0 \in RplSizes
    BY CdbAssumption DEF RplSizes
  <2>2. reply' \in [Blocks -> Tags \cup {Junk, Heap}] /\ broken' \in BOOLEAN
    BY DEF Send, NoReply
  <2> QED
    BY <1>1, <1>2, <2>1, <2>2 DEF Send, IInv, TypeOK, Calls, engine
<1>4. TakenOnce'
  BY <1>2 DEF Send, IInv, TakenOnce, engine
<1>5. PollsLeft' /\ Numbered' /\ EngineFree' /\ TakenIsOwn' /\ MailboxWritten'
      /\ ReplyWritten' /\ FilledLast' /\ StatusIsOwn'
  BY <1>2 DEF Send, IInv, PollsLeft, Numbered, EngineFree, TakenIsOwn, MailboxWritten,
              ReplyWritten, FilledLast, StatusIsOwn, engine
<1>6. NeverMixed'
  BY DEF Send, IInv, NeverMixed, engine
<1>7. ReplyIsOwn'
  BY DEF Send, ReplyIsOwn, Replied, NoReply
<1> QED
  BY <1>3, <1>4, <1>5, <1>6, <1>7 DEF IInv

\* What a step that changes only the host's place has to establish.
LEMMA HostStepIInv ==
  ASSUME IInv, pc # "idle",
         UNCHANGED <<id, kind, limit, reply, rplLen, broken, mailbox, engine>>,
         pc' \in {"idle", "drain", "payload", "header", "wait", "rplLen"},
         ret' \in {"none", "error", "success", "failed"},
         left' \in Nat, block' = block,
         pc' = "drain" => pc \in {"check", "drain"} /\ left' > 0,
         pc' = "wait" => pc = "wait" /\ left' > 0,
         pc' = "rplLen" => pc = "wait" /\ ~busy /\ status = "success",
         pc' \in {"payload", "header"} => pc \in {"check", "drain"} /\ ~busy /\ pc' = FirstWrite,
         pc' = "idle" /\ ret' # "error" => ret' \in {"success", "failed"} /\ ~busy /\ outcome[id] = ret',
         pc' = "idle" /\ ret' = "success" => ~kind.reply
  PROVE  IInv'
<1>1. TypeOK'
  BY DEF IInv, TypeOK, engine
<1>2. PollsLeft' /\ Numbered' /\ EngineFree' /\ TakenOnce'
  BY DEF IInv, TypeOK, PollsLeft, Numbered, EngineFree, TakenOnce, engine
<1>3. TakenIsOwn'
  BY DEF IInv, TypeOK, TakenIsOwn, engine
<1>4. MailboxWritten'
  <2>1. kind.blocks \in Nat
    BY CdbAssumption DEF IInv, TypeOK
  <2>2. \A b \in Blocks : b \in Nat /\ b > 0
    BY CdbAssumption DEF Blocks
  <2> QED
    BY <2>1, <2>2 DEF IInv, TypeOK, MailboxWritten, FirstWrite, engine
<1>5. NeverMixed'
  BY DEF IInv, NeverMixed, engine
<1>6. ReplyWritten'
  BY DEF IInv, ReplyWritten, engine
<1>7. FilledLast'
  BY DEF IInv, FilledLast, NoReply
<1>8. ReplyIsOwn'
  BY DEF IInv, ReplyIsOwn, Replied, engine
<1>9. StatusIsOwn'
  BY DEF IInv, StatusIsOwn, engine
<1> QED
  BY <1>1, <1>2, <1>3, <1>4, <1>5, <1>6, <1>7, <1>8, <1>9 DEF IInv

\* The first read of the status, and the two waits.
LEMMA PollIInv == ASSUME IInv, CheckStatus \/ Drain \/ Wait PROVE IInv'
<1>1. /\ UNCHANGED <<id, kind, limit, block, reply, rplLen, broken, mailbox, engine>>
      /\ pc \in {"check", "drain", "wait"}
  BY DEF CheckStatus, Drain, Wait, Poll
<1>2. left \in Nat /\ limit \in Nat \ {0} /\ ret \in {"none", "error", "success", "failed"}
      /\ status \in {"success", "failed"}
  BY DEF IInv, TypeOK
<1>3. pc \in {"drain", "wait"} => left > 0
  BY DEF IInv, PollsLeft
<1>4. CASE CheckStatus
  BY <1>1, <1>2, <1>4, HostStepIInv DEF CheckStatus, Return, Goto, FirstWrite
<1>5. CASE Drain
  <2>1. left' \in Nat /\ (left > 1 => left' > 0)
    BY <1>2, <1>3, <1>5 DEF Drain, Poll
  <2> QED
    BY <1>1, <1>2, <1>5, <2>1, HostStepIInv DEF Drain, Poll, Return, Goto, FirstWrite
<1>6. CASE Wait
  <2>1. left' \in Nat /\ (left > 1 => left' > 0)
    BY <1>2, <1>3, <1>6 DEF Wait, Poll
  <2>2. ~busy => outcome[id] = status
    BY <1>6 DEF IInv, TakenIsOwn, Wait, Poll
  <2> QED
    BY <1>1, <1>2, <1>6, <2>1, <2>2, HostStepIInv DEF Wait, Poll, Return, Goto
<1> QED
  BY <1>4, <1>5, <1>6

\* The writes of the payload and of the header.
LEMMA WriteIInv == ASSUME IInv, WritePayload \/ WriteHeader PROVE IInv'
<1>1. /\ id \in Calls /\ id \in 0 .. MaxCalls
      /\ kind.blocks \in 0 .. LplBlocks /\ LplBlocks \in Nat
      /\ block \in Nat \ {0} /\ mailbox \in Mailboxes /\ ~busy /\ reply = NoReply
      /\ UNCHANGED <<id, kind, limit, left, reply, rplLen, broken, engine>>
      /\ pc \in {"payload", "header"}
  BY CdbAssumption
  DEF IInv, TypeOK, Numbered, EngineFree, FilledLast, WritePayload, WriteHeader, WriteMailbox
<1>2. block' \in Nat \ {0}
  BY <1>1 DEF WritePayload, WriteHeader
<1>3. pc' \in {"idle", "payload", "header", "trigger"}
      /\ (pc' = "idle" => ret' = "error") /\ (pc' # "idle" => ret' = ret)
  BY DEF WritePayload, WriteHeader, WriteMailbox, Return, Goto
<1>4. mailbox' \in Mailboxes
  <2>1. CASE WritePayload
    <3>1. Payload(id) \in Tags
      BY <1>1 DEF Tags
    <3>2. [mailbox EXCEPT !.lpl[block] = Payload(id)] \in Mailboxes
      BY <1>1, <3>1 DEF Mailboxes
    <3> QED
      BY <1>1, <2>1, <3>2 DEF WritePayload, WriteMailbox
  <2>2. CASE WriteHeader
    <3>1. 0 \in RplSizes
      BY <1>1 DEF RplSizes
    <3>2. [mailbox EXCEPT !.header = id, !.len = kind.blocks, !.rpl = 0] \in Mailboxes
      BY <1>1, <3>1 DEF Mailboxes
    <3> QED
      BY <1>1, <2>2, <3>2 DEF WriteHeader, WriteMailbox
  <2> QED
    BY <2>1, <2>2
<1>5. TypeOK'
  BY <1>1, <1>2, <1>3, <1>4 DEF IInv, TypeOK, engine
<1>6. MailboxWritten'
  <2>1. \A b \in Blocks : b \in Nat /\ b > 0
    BY <1>1 DEF Blocks
  <2>2. DOMAIN mailbox.lpl = Blocks /\ mailbox = [header |-> mailbox.header, len |-> mailbox.len,
                                            rpl |-> mailbox.rpl, lpl |-> mailbox.lpl]
    BY <1>1 DEF Mailboxes
  <2>3. CASE WritePayload /\ pc' # "idle"
    <3>1. /\ mailbox' = [mailbox EXCEPT !.lpl[block] = Payload(id)] /\ block' = block + 1
          /\ pc = "payload" /\ block <= kind.blocks
          /\ pc' = IF block < kind.blocks THEN "payload" ELSE "header"
      BY <2>3 DEF WritePayload, WriteMailbox, Return, Goto, IInv, MailboxWritten
    <3>2. block \in Blocks
      BY <1>1, <3>1 DEF Blocks
    <3>3. \A b \in Blocks : mailbox'.lpl[b] = IF b = block THEN Payload(id) ELSE mailbox.lpl[b]
      BY <1>1, <3>1, <3>2 DEF Mailboxes
    <3>4. \A b \in Blocks : b < block => mailbox.lpl[b] = Payload(id)
      BY <3>1 DEF IInv, MailboxWritten
    <3>5. \A b \in Blocks : b < block + 1 => mailbox'.lpl[b] = Payload(id)
      BY <1>1, <2>1, <3>3, <3>4
    <3> QED
      BY <1>1, <2>1, <3>1, <3>5 DEF MailboxWritten
  <2>4. CASE WriteHeader /\ pc' # "idle"
    <3>1. /\ mailbox' = [mailbox EXCEPT !.header = id, !.len = kind.blocks, !.rpl = 0]
          /\ pc = "header" /\ pc' = "trigger"
      BY <2>4 DEF WriteHeader, WriteMailbox, Return, Goto
    <3>2. mailbox'.header = id /\ mailbox'.len = kind.blocks /\ mailbox'.lpl = mailbox.lpl
      BY <1>1, <3>1 DEF Mailboxes
    <3> QED
      BY <1>1, <3>1, <3>2 DEF IInv, MailboxWritten
  <2>5. CASE pc' = "idle"
    BY <2>5 DEF MailboxWritten
  <2> QED
    BY <2>3, <2>4, <2>5
<1>7. PollsLeft' /\ Numbered' /\ EngineFree' /\ TakenOnce' /\ TakenIsOwn'
  BY <1>1, <1>3 DEF IInv, PollsLeft, Numbered, EngineFree, TakenOnce, TakenIsOwn, engine
<1>8. NeverMixed' /\ StatusIsOwn' /\ ReplyWritten'
  BY <1>1, <1>3 DEF IInv, NeverMixed, StatusIsOwn, ReplyWritten, engine
<1>9. FilledLast' /\ ReplyIsOwn'
  BY <1>1, <1>3 DEF FilledLast, ReplyIsOwn, Replied, NoReply
<1> QED
  BY <1>5, <1>6, <1>7, <1>8, <1>9 DEF IInv

\* The write of the CMDID.
LEMMA TriggerIInv == ASSUME IInv, WriteCmdId PROVE IInv'
<1>1. /\ id \in Calls /\ reply = NoReply /\ mailbox \in Mailboxes
      /\ ~busy /\ pc = "trigger"
      /\ mailbox.header = id /\ mailbox.len = kind.blocks
      /\ \A b \in Blocks : b <= kind.blocks => mailbox.lpl[b] = Payload(id)
      /\ UNCHANGED <<id, kind, limit, block, reply, rplLen, broken, mailbox>>
      /\ left' \in Nat /\ limit \in Nat \ {0} /\ kind.blocks \in 0 .. LplBlocks
      /\ LplBlocks \in Nat
  BY CdbAssumption
  DEF IInv, TypeOK, Numbered, EngineFree, MailboxWritten, FilledLast, WriteCmdId
<1>2. \/ pc' = "wait" /\ ret' = ret /\ left' = limit /\ Accept
      \/ pc' = "idle" /\ ret' = "error" /\ Accept
      \/ pc' = "idle" /\ ret' = "error" /\ UNCHANGED engine
  BY DEF WriteCmdId, Return, Goto
<1>3. CASE Accept
  <2>1. /\ busy' = TRUE /\ accepted' = accepted \cup {id}
        /\ status' = status /\ outcome' = outcome
        /\ run' = [cmd |-> id, header |-> mailbox.header, len |-> mailbox.len,
                   lpl |-> mailbox.lpl]
    BY <1>3 DEF Accept
  <2>2. run' \in Runs
    BY <1>1, <2>1 DEF Mailboxes, Runs, Calls
  <2>3. run'.cmd = id /\ run'.header = id /\ run'.len = kind.blocks /\ run'.lpl = mailbox.lpl
    BY <1>1, <2>1
  <2>4. TypeOK'
    BY <1>1, <1>2, <2>1, <2>2 DEF IInv, TypeOK
  <2>5. TakenOnce'
    <3>1. id \in 1 .. id
      BY <1>1, CdbAssumption DEF Calls
    <3>2. accepted' \subseteq 1 .. id' /\ run'.cmd \in Calls
      BY <1>1, <2>1, <2>3, <3>1 DEF IInv, TakenOnce
    <3> QED
      BY <1>2, <3>2 DEF TakenOnce
  <2>6. NeverMixed'
    <3>1. \A b \in 1 .. kind.blocks : b \in Blocks /\ b <= kind.blocks
      BY <1>1 DEF Blocks
    <3> QED
      BY <1>1, <2>3, <3>1 DEF NeverMixed
  <2>7. PollsLeft' /\ Numbered' /\ EngineFree' /\ TakenIsOwn' /\ MailboxWritten'
        /\ ReplyWritten' /\ StatusIsOwn'
    BY <1>1, <1>2, <2>1, <2>3
    DEF PollsLeft, Numbered, EngineFree, TakenIsOwn, MailboxWritten, ReplyWritten, StatusIsOwn
  <2>8. FilledLast' /\ ReplyIsOwn'
    BY <1>1, <1>2 DEF FilledLast, ReplyIsOwn, Replied, NoReply
  <2> QED
    BY <2>4, <2>5, <2>6, <2>7, <2>8 DEF IInv
<1>4. CASE pc' = "idle" /\ ret' = "error" /\ UNCHANGED engine
  <2>1. TypeOK'
    BY <1>1, <1>4 DEF IInv, TypeOK, engine
  <2>2. PollsLeft' /\ Numbered' /\ EngineFree' /\ TakenOnce' /\ TakenIsOwn' /\ MailboxWritten'
        /\ NeverMixed' /\ ReplyWritten' /\ StatusIsOwn'
    BY <1>1, <1>4 DEF IInv, PollsLeft, Numbered, EngineFree, TakenOnce, TakenIsOwn,
       MailboxWritten, NeverMixed, ReplyWritten, StatusIsOwn, engine
  <2>3. FilledLast' /\ ReplyIsOwn'
    BY <1>1, <1>4 DEF FilledLast, ReplyIsOwn, Replied, NoReply
  <2> QED
    BY <2>1, <2>2, <2>3 DEF IInv
<1> QED
  BY <1>2, <1>3, <1>4

\* The two reads of the reply.
LEMMA ReadIInv == ASSUME IInv, ReadReplyLength \/ ReadReply PROVE IInv'
<1>1. /\ id \in Calls /\ mailbox \in Mailboxes /\ ~busy
      /\ pc \in {"rplLen", "rplData"}
      /\ status = "success" /\ outcome[id] = "success"
      /\ \A b \in Blocks : b <= mailbox.rpl => mailbox.lpl[b] = Reply(id)
      /\ UNCHANGED <<id, kind, limit, left, block, mailbox, engine>>
      /\ reply = NoReply /\ rplLen \in RplSizes
  BY DEF IInv, TypeOK, Numbered, EngineFree, TakenIsOwn, ReplyWritten, FilledLast,
         ReadReplyLength, ReadReply
<1>2. /\ pc' \in {"idle", "rplData"} /\ (pc' = "idle" => ret' = "success")
      /\ (pc' = "rplData" => ret' = ret /\ rplLen' = mailbox.rpl)
      /\ rplLen' \in RplSizes
  BY <1>1 DEF ReadReplyLength, ReadReply, Return, Goto, Mailboxes
<1>3. /\ reply' \in [Blocks -> Tags \cup {Junk, Heap}] /\ broken' \in BOOLEAN
      /\ \A b \in Blocks : reply'[b] \notin {Junk, Heap} => reply'[b] = Reply(id)
      /\ pc' = "idle" /\ ~broken' /\ rplLen' \in Blocks =>
           \A b \in Blocks : b <= rplLen' => reply'[b] = Reply(id)
      /\ reply' # NoReply => pc' = "idle"
  <2>1. CASE ReadReplyLength
    BY <1>1, <2>1 DEF ReadReplyLength, NoReply, Return, Goto, IInv, TypeOK
  <2>2. CASE ReadReply
    <3>1. /\ rplLen = mailbox.rpl /\ rplLen' = rplLen /\ rplLen \in Nat /\ pc' = "idle"
          /\ \A b \in Blocks : b \in Nat
      BY <1>1, <2>2, CdbAssumption DEF ReadReply, IInv, ReplyWritten, Return, RplSizes, Blocks
    <3>2. CASE reply' = reply /\ broken' = TRUE
      BY <1>1, <3>1, <3>2 DEF NoReply
    <3>3. ASSUME NEW n \in 1 .. rplLen, reply' = Copied(n, rplLen), broken' = (n # rplLen)
          PROVE  /\ reply' \in [Blocks -> Tags \cup {Junk, Heap}] /\ broken' \in BOOLEAN
                 /\ \A b \in Blocks : reply'[b] \notin {Junk, Heap} => reply'[b] = Reply(id)
                 /\ ~broken' => \A b \in Blocks : b <= rplLen => reply'[b] = Reply(id)
      <4>1. \A b \in Blocks :
              /\ b <= n => reply'[b] = mailbox.lpl[b] /\ mailbox.lpl[b] = Reply(id)
              /\ b > n => reply'[b] \in {Junk, Heap}
        BY <1>1, <3>1, <3>3 DEF Copied, NoReply
      <4>2. reply' \in [Blocks -> Tags \cup {Junk, Heap}]
        BY <1>1, <3>1, <3>3 DEF Copied, NoReply, Mailboxes
      <4>3. broken' \in BOOLEAN /\ (~broken' => n = rplLen)
        BY <3>3, Zenon
      <4>4. ~broken' => \A b \in Blocks : b <= rplLen => b <= n
        BY <3>1, <4>3
      <4>5. \A b \in Blocks : reply'[b] \notin {Junk, Heap} => reply'[b] = Reply(id)
        BY <3>1, <4>1
      <4> QED
        BY <4>1, <4>2, <4>3, <4>4, <4>5, Zenon
    <3>4. reply' # NoReply => pc' = "idle"
      BY <3>1
    <3> QED
      BY <2>2, <3>1, <3>2, <3>3, <3>4, Zenon DEF ReadReply
  <2> QED
    BY <2>1, <2>2
<1>4. TypeOK'
  BY <1>1, <1>2, <1>3 DEF IInv, TypeOK, engine
<1>5. PollsLeft' /\ Numbered' /\ EngineFree' /\ TakenOnce' /\ TakenIsOwn' /\ MailboxWritten'
      /\ ReplyWritten'
  BY <1>1, <1>2 DEF IInv, PollsLeft, Numbered, EngineFree, TakenOnce, TakenIsOwn,
     MailboxWritten, ReplyWritten, engine
<1>6. NeverMixed' /\ StatusIsOwn'
  BY <1>1, <1>2 DEF IInv, NeverMixed, StatusIsOwn, engine
<1>7. FilledLast' /\ ReplyIsOwn'
  BY <1>1, <1>2, <1>3 DEF FilledLast, ReplyIsOwn, Replied, engine
<1> QED
  BY <1>4, <1>5, <1>6, <1>7 DEF IInv

\* The engine ends its command.
LEMMA CompleteIInv == ASSUME IInv, Complete PROVE IInv'
<1>1. /\ busy /\ busy' = FALSE /\ run.cmd \in Calls /\ reply = NoReply
      /\ pc \notin {"payload", "header", "trigger", "rplLen", "rplData"}
      /\ pc = "idle" => ret \notin {"success", "failed"}
      /\ outcome' = [outcome EXCEPT ![run.cmd] = status']
      /\ status' \in {"success", "failed"}
      /\ UNCHANGED <<host, run, accepted>>
      /\ mailbox \in Mailboxes
  BY DEF IInv, TypeOK, EngineFree, TakenOnce, FilledLast, Complete
<1>2. /\ pc' = pc /\ id' = id /\ kind' = kind /\ limit' = limit /\ left' = left
      /\ block' = block /\ ret' = ret /\ reply' = reply /\ rplLen' = rplLen /\ broken' = broken
  BY <1>1 DEF host
<1>3. /\ mailbox' \in Mailboxes
      /\ status' = "success" =>
           \A b \in Blocks : b <= mailbox'.rpl => mailbox'.lpl[b] = Reply(run.cmd)
  <2>1. CASE status' = "failed" /\ mailbox' = mailbox
    BY <1>1, <2>1
  <2>2. ASSUME NEW n \in RplSizes,
               mailbox' = [mailbox EXCEPT
                 !.rpl = n,
                 !.lpl = [b \in Blocks |-> IF b <= n THEN Reply(run.cmd) ELSE @[b]]]
        PROVE  /\ mailbox' \in Mailboxes
               /\ \A b \in Blocks : b <= mailbox'.rpl => mailbox'.lpl[b] = Reply(run.cmd)
    <3>1. Reply(run.cmd) \in Tags
      BY <1>1 DEF Tags
    <3>2. /\ mailbox'.rpl = n
          /\ mailbox'.lpl = [b \in Blocks |-> IF b <= n THEN Reply(run.cmd) ELSE mailbox.lpl[b]]
      BY <1>1, <2>2 DEF Mailboxes
    <3>3. mailbox'.lpl \in [Blocks -> Tags]
      BY <1>1, <3>1, <3>2 DEF Mailboxes
    <3>4. mailbox' \in Mailboxes
      BY <1>1, <2>2, <3>2, <3>3 DEF Mailboxes
    <3> QED
      BY <3>2, <3>4
  <2> QED
    BY <2>1, <2>2 DEF Complete
<1>4. outcome' \in [Calls -> {"none", "success", "failed"}]
      /\ outcome'[run.cmd] = status'
  BY <1>1 DEF IInv, TypeOK
<1>5. TypeOK'
  BY <1>1, <1>2, <1>3, <1>4 DEF IInv, TypeOK
<1>6. PollsLeft' /\ Numbered' /\ EngineFree' /\ TakenOnce' /\ MailboxWritten' /\ NeverMixed'
  BY <1>1, <1>2 DEF IInv, PollsLeft, Numbered, EngineFree, TakenOnce, MailboxWritten, NeverMixed
<1>7. TakenIsOwn' /\ ReplyWritten' /\ StatusIsOwn'
  BY <1>1, <1>2, <1>3, <1>4 DEF IInv, TakenIsOwn, ReplyWritten, StatusIsOwn
<1>8. FilledLast' /\ ReplyIsOwn'
  BY <1>1, <1>2 DEF FilledLast, ReplyIsOwn, Replied, NoReply
<1> QED
  BY <1>5, <1>6, <1>7, <1>8 DEF IInv

\* Every step preserves the inductive invariant.
LEMMA NextIInv == IInv /\ [Next]_vars => IInv'
<1> SUFFICES ASSUME IInv, [Next]_vars PROVE IInv'
  OBVIOUS
<1>1. CASE \E k \in Kinds : Send(k)
  BY <1>1, SendIInv
<1>2. CASE CheckStatus \/ Drain \/ Wait
  BY <1>2, PollIInv
<1>3. CASE WritePayload \/ WriteHeader
  BY <1>3, WriteIInv
<1>4. CASE WriteCmdId
  BY <1>4, TriggerIInv
<1>5. CASE ReadReplyLength \/ ReadReply
  BY <1>5, ReadIInv
<1>6. CASE Complete
  BY <1>6, CompleteIInv
<1>7. CASE UNCHANGED vars
  BY <1>7 DEF vars, host, engine, IInv, TypeOK, PollsLeft, Numbered, EngineFree, TakenOnce,
     TakenIsOwn, MailboxWritten, NeverMixed, ReplyWritten, FilledLast, ReplyIsOwn, Replied, StatusIsOwn
<1> QED
  BY <1>1, <1>2, <1>3, <1>4, <1>5, <1>6, <1>7 DEF Next, Host

\* The inductive invariant holds in every state of every behaviour.
THEOREM Invariant == Spec => []IInv
BY InitIInv, NextIInv, PTL DEF Spec

-----------------------------------------------------------------------------
(* The properties. *)

\* Type correctness: no poll count goes below zero, and mailbox, engine and reply
\* buffer keep their shapes.
THEOREM TypeCorrect == Spec => []TypeOK
<1>1. IInv => TypeOK
  BY DEF IInv
<1> QED
  BY <1>1, Invariant, PTL

\* cmis_cdb_send_command_lpl: a status is the one given to this call's command.
THEOREM StatusBelongsToCall == Spec => []StatusIsOwn
<1>1. IInv => StatusIsOwn
  BY DEF IInv
<1> QED
  BY <1>1, Invariant, PTL

\* The engine never runs a mixture of two calls.
THEOREM CommandsNeverMix == Spec => []NeverMixed
<1>1. IInv => NeverMixed
  BY DEF IInv
<1> QED
  BY <1>1, Invariant, PTL

\* What a caller is handed out of the module is of the reply to this call, and a success
\* of which every transfer was whole has all of that reply.  The premise on the transfers
\* is needed: ReplyComplete, without it, is violated.
THEOREM ReplyBelongsToCall == Spec => []ReplyIsOwn
<1>1. IInv => ReplyIsOwn
  BY DEF IInv
<1> QED
  BY <1>1, Invariant, PTL

\* While the module runs a command the host leaves its mailbox alone.
THEOREM MailboxLeftAlone == Spec => MailboxStable
<1> DEFINE A == busy /\ busy' => mailbox' = mailbox /\ run' = run
<1>1. ASSUME IInv, [Next]_vars PROVE A
  <2> SUFFICES ASSUME busy, busy' PROVE mailbox' = mailbox /\ run' = run
    OBVIOUS
  <2>1. pc \notin {"payload", "header", "trigger"}
    BY <1>1 DEF IInv, EngineFree
  <2>2. ~ (WritePayload \/ WriteHeader \/ WriteCmdId)
    BY <2>1 DEF WritePayload, WriteHeader, WriteMailbox, WriteCmdId
  <2> QED
    BY <1>1, <2>2
    DEF Next, Host, vars, host, engine, Send, CheckStatus, Drain, Wait, Poll,
        ReadReplyLength, ReadReply, Complete
<1>2. IInv /\ [Next]_vars => [A]_vars
  BY <1>1
<1>3. Spec => [][A]_vars
  <2> HIDE DEF A
  <2> QED
    BY <1>2, Invariant, PTL DEF Spec
<1> QED
  BY <1>3 DEF MailboxStable

\* A call that returns gives an error, or the status of its command.
LEMMA ReturnRefines ==
  ASSUME IInv, pc # "idle", pc' = "idle",
         UNCHANGED <<id, engine>>,
         ret' # "error" => ret' = outcome[id] /\ outcome[id] # "none"
  PROVE  Rpc!Answer
BY DEF Rpc!Answer, engine

\* The command protocol, its waits, its mailbox and its reply area, implements
\* the remote call that firmware management and the other users of CDB rely on.
THEOREM Refinement == Spec => ImplementsRpc
<1>1. Init => Rpc!Init
  BY DEF Init, Rpc!Init, Calls, Rpc!Calls
<1>2. ASSUME IInv, [Next]_vars
      PROVE  [Rpc!Next]_(Rpc!vars)
  <2>1. CASE \E k \in Kinds : Send(k)
    BY <2>1 DEF Send, engine, Rpc!Next, Rpc!Issue
  <2>2. CASE CheckStatus \/ Drain \/ Wait \/ WritePayload \/ WriteHeader
             \/ ReadReplyLength \/ ReadReply
    <3>1. /\ pc # "idle" /\ UNCHANGED <<id, engine>>
          /\ (pc' # "idle" => ret' = ret)
      BY <2>2 DEF CheckStatus, Drain, Wait, Poll, WritePayload, WriteHeader, WriteMailbox,
                  ReadReplyLength, ReadReply, FirstWrite, Return, Goto
    <3>2. CASE pc' # "idle"
      BY <3>1, <3>2 DEF Rpc!vars, engine
    <3>3. CASE pc' = "idle"
      <4>1. ret' # "error" => ret' = outcome[id] /\ outcome[id] # "none"
        BY <1>2, <2>2, <3>3
        DEF IInv, TypeOK, TakenIsOwn, CheckStatus, Drain, Wait, Poll, WritePayload,
            WriteHeader, WriteMailbox, ReadReplyLength, ReadReply, FirstWrite, Return, Goto
      <4>2. Rpc!Answer
        BY <1>2, <3>1, <3>3, <4>1, ReturnRefines
      <4> QED
        BY <4>2 DEF Rpc!Next
    <3> QED
      BY <3>2, <3>3
  <2>3. CASE WriteCmdId
    <3>1. /\ ~busy /\ pc = "trigger" /\ id \notin accepted /\ id' = id
      BY <1>2, <2>3 DEF IInv, EngineFree, TakenOnce, WriteCmdId
    <3>2. CASE pc' = "wait" /\ ret' = ret /\ Accept
      BY <3>1, <3>2 DEF Accept, Rpc!Next, Rpc!Accept, Rpc!Start
    <3>3. CASE pc' = "idle" /\ ret' = "error" /\ Accept
      BY <3>1, <3>3 DEF Accept, Rpc!Next, Rpc!AcceptUnseen, Rpc!Start
    <3>4. CASE pc' = "idle" /\ ret' = "error" /\ UNCHANGED engine
      BY <1>2, <3>1, <3>4, ReturnRefines DEF Rpc!Next
    <3> QED
      BY <2>3, <3>2, <3>3, <3>4 DEF WriteCmdId, Return, Goto
  <2>4. CASE Complete
    <3>1. run.cmd # 0
      <4>1. run.cmd \in Calls
        BY <1>2, <2>4 DEF IInv, TakenOnce, Complete
      <4> QED
        BY <4>1, CdbAssumption DEF Calls
    <3>2. status' \in {"success", "failed"}
          /\ outcome' = [outcome EXCEPT ![run.cmd] = status']
      BY <2>4 DEF Complete
    <3> QED
      BY <2>4, <3>1, <3>2 DEF Complete, host, Rpc!Next, Rpc!Complete
  <2>5. CASE UNCHANGED vars
    BY <2>5 DEF vars, host, engine, Rpc!vars
  <2> QED
    BY <1>2, <2>1, <2>2, <2>3, <2>4, <2>5 DEF Next, Host
<1>3. IInv /\ [Next]_vars => [Rpc!Next]_(Rpc!vars)
  BY <1>2
<1> QED
  BY <1>1, <1>3, Invariant, PTL DEF Spec, ImplementsRpc, Rpc!Spec

-----------------------------------------------------------------------------
(* The length of a call. *)

\* The transfers that the current call can still make: a wait for an earlier command,
\* the blocks of the payload, header and trigger, a wait, and the reply.
StepsLeft ==
  CASE pc = "idle" -> 0
    [] pc = "rplData" -> 1
    [] pc = "rplLen" -> 2
    [] pc = "wait" -> 2 + left
    [] pc = "trigger" -> 3 + limit
    [] pc = "header" -> 4 + limit
    [] pc = "payload" -> 5 + limit + (kind.blocks - block)
    [] pc = "drain" -> 5 + limit + kind.blocks + left
    [] pc = "check" -> 6 + 2 * limit + kind.blocks

\* No wait starts with more polls than the timeout allows.
PollsBounded == pc \in {"drain", "wait"} => left <= limit

\* Every transfer of a call, failed or not, brings its return nearer, by however much
\* a module is late: cmis_cdb_send_command_lpl makes no more transfers than two waits
\* and its own blocks ask for.  The module's own steps do not lengthen it.
THEOREM CallsBounded ==
  Spec => /\ [](StepsLeft \in 0 .. 2 * limit + kind.blocks + 6)
          /\ [][pc # "idle" => IF UNCHANGED host THEN StepsLeft' = StepsLeft
                               ELSE StepsLeft' < StepsLeft]_vars
<1> USE DEF Return, Goto, host, engine
<1>1. Init => PollsBounded
  BY DEF Init, PollsBounded
<1>2. IInv /\ PollsBounded /\ [Next]_vars => PollsBounded'
  <2> SUFFICES ASSUME IInv, PollsBounded, [Next]_vars PROVE PollsBounded'
    OBVIOUS
  <2>1. limit \in Nat /\ left \in Nat
    BY DEF IInv, TypeOK
  <2>2. CASE (\E k \in Kinds : Send(k)) \/ Complete \/ UNCHANGED vars
    BY <2>1, <2>2 DEF PollsBounded, vars, Send, Complete
  <2>3. CASE CheckStatus
    BY <2>1, <2>3 DEF PollsBounded, CheckStatus, FirstWrite
  <2>4. CASE Drain \/ Wait
    BY <2>1, <2>4 DEF PollsBounded, Drain, Wait, Poll, FirstWrite
  <2>5. CASE WritePayload \/ WriteHeader
    BY <2>5 DEF PollsBounded, WritePayload, WriteHeader, WriteMailbox
  <2>6. CASE WriteCmdId
    BY <2>1, <2>6 DEF PollsBounded, WriteCmdId
  <2>7. CASE ReadReplyLength \/ ReadReply
    BY <2>7 DEF PollsBounded, ReadReplyLength, ReadReply
  <2> QED
    BY <2>2, <2>3, <2>4, <2>5, <2>6, <2>7 DEF Next, Host
<1>3. IInv /\ PollsBounded => StepsLeft \in 0 .. 2 * limit + kind.blocks + 6
  <2> SUFFICES ASSUME IInv, PollsBounded PROVE StepsLeft \in 0 .. 2 * limit + kind.blocks + 6
    OBVIOUS
  <2>1. /\ limit \in Nat /\ left \in Nat /\ kind.blocks \in Nat /\ block \in Nat \ {0}
        /\ pc \in {"idle", "check", "drain", "payload", "header", "trigger", "wait", "rplLen", "rplData"}
    BY CdbAssumption DEF IInv, TypeOK
  <2>2. pc = "payload" => block <= kind.blocks
    BY DEF IInv, MailboxWritten
  <2> DEFINE B == kind.blocks
  <2>3. B \in Nat
    BY <2>1
  <2> HIDE DEF B
  <2>4. CASE pc \in {"idle", "rplData", "rplLen"}
    <3>1. StepsLeft \in {0, 1, 2}
      BY <2>4 DEF StepsLeft
    <3> QED
      BY <2>1, <2>3, <3>1 DEF B
  <2>5. CASE pc \in {"trigger", "header"}
    <3>1. StepsLeft \in {3 + limit, 4 + limit}
      BY <2>5 DEF StepsLeft
    <3> QED
      BY <2>1, <2>3, <3>1 DEF B
  <2>6. CASE pc = "payload"
    <3>1. B - block \in Nat /\ B - block <= B
      BY <2>1, <2>2, <2>3, <2>6 DEF B
    <3>2. StepsLeft = 5 + limit + (B - block)
      BY <2>6 DEF StepsLeft, B
    <3> QED
      BY <2>1, <2>3, <3>1, <3>2 DEF B
  <2>7. CASE pc = "check"
    <3>1. StepsLeft = 6 + 2 * limit + B
      BY <2>7 DEF StepsLeft, B
    <3> QED
      BY <2>1, <2>3, <3>1 DEF B
  <2>8. CASE pc \in {"wait", "drain"}
    <3>1. left <= limit
      BY <2>8 DEF PollsBounded
    <3>2. StepsLeft \in {2 + left, 5 + limit + B + left}
      BY <2>8 DEF StepsLeft, B
    <3> QED
      BY <2>1, <2>3, <3>1, <3>2 DEF B
  <2> QED BY <2>1, <2>4, <2>5, <2>6, <2>7, <2>8
<1>4. IInv /\ PollsBounded /\ [Next]_vars =>
        [pc # "idle" => IF UNCHANGED host THEN StepsLeft' = StepsLeft
                        ELSE StepsLeft' < StepsLeft]_vars
  <2> SUFFICES ASSUME IInv, PollsBounded, Next, pc # "idle"
               PROVE  IF UNCHANGED host THEN StepsLeft' = StepsLeft ELSE StepsLeft' < StepsLeft
    OBVIOUS
  <2>1. limit \in Nat \ {0} /\ left \in Nat /\ kind.blocks \in Nat /\ block \in Nat \ {0}
    BY CdbAssumption DEF IInv, TypeOK
  <2>2. /\ pc \in {"drain", "wait"} => left > 0
        /\ pc \in {"check", "drain"} => block = 1
        /\ pc = "payload" => block <= kind.blocks
    BY DEF IInv, PollsLeft, MailboxWritten
  <2>3. UNCHANGED host => StepsLeft' = StepsLeft
    BY DEF StepsLeft
  <2>4. ASSUME Host PROVE StepsLeft' < StepsLeft
    <3>1. CASE CheckStatus
      BY <2>1, <2>2, <3>1 DEF CheckStatus, FirstWrite, StepsLeft
    <3>2. CASE Drain
      BY <2>1, <2>2, <3>2 DEF Drain, Poll, FirstWrite, StepsLeft
    <3>3. CASE WritePayload
      BY <2>1, <2>2, <3>3 DEF WritePayload, WriteMailbox, StepsLeft
    <3>4. CASE WriteHeader
      BY <2>1, <3>4 DEF WriteHeader, WriteMailbox, StepsLeft
    <3>5. CASE WriteCmdId
      BY <2>1, <3>5 DEF WriteCmdId, StepsLeft
    <3>6. CASE Wait
      BY <2>1, <2>2, <3>6 DEF Wait, Poll, StepsLeft
    <3>7. CASE ReadReplyLength
      BY <3>7 DEF ReadReplyLength, StepsLeft
    <3>8. CASE ReadReply
      BY <3>8 DEF ReadReply, StepsLeft
    <3> QED BY <2>4, <3>1, <3>2, <3>3, <3>4, <3>5, <3>6, <3>7, <3>8 DEF Host
  <2>5. CASE Complete
    BY <2>3, <2>5 DEF Complete
  <2>6. ~ \E k \in Kinds : Send(k)
    BY DEF Send
  <2>7. StepsLeft' < StepsLeft => ~ UNCHANGED host
    <3>1. StepsLeft \in Int
      BY <1>3
    <3> QED BY <2>3, <3>1
  <2> QED BY <2>4, <2>5, <2>6, <2>7, <2>3 DEF Next
<1> QED BY <1>1, <1>2, <1>3, <1>4, Invariant, PTL DEF Spec
=============================================================================
