----------------------------- MODULE CdbCommand -----------------------------
(***************************************************************************)
(* CDB messaging, cmis-cdb.c: cmis_cdb_send_command_lpl against the        *)
(* module's CDB engine.  The host writes the command's payload, its header *)
(* and at last its CMDID to the mailbox on page 9Fh, polls CdbStatus1 and  *)
(* reads the reply from the area that held the payload.                    *)
(*                                                                         *)
(* One action of the host is one transfer of get_eeprom_page or            *)
(* set_eeprom_page (module EepromAccess), which may fail; a payload of     *)
(* several write blocks is one action per block.  The engine is external:  *)
(* it raises BUSY as it accepts a CMDID, and completes whenever it likes.  *)
(* Bytes are abstracted to the number of the call they belong to.          *)
(***************************************************************************)
EXTENDS Integers

CONSTANTS
  MaxCalls,    \* bound on the calls of a behaviour
  LplBlocks,   \* write blocks in the payload area, 15 blocks for 120 bytes
  Kinds,       \* calls: [blocks, reply], payload size and "reply # NULL"
  Adverts,     \* the module's bytes 165 and 166 of page 01h: pairs of bytes
  PollMs,      \* poll interval of cdb_wait_completion, 10 ms
  Junk,        \* what the caller's reply buffer held
  Heap         \* what a buffer from malloc held: anything, an earlier reply included

ASSUME CdbAssumption ==
  /\ MaxCalls \in Nat /\ LplBlocks \in Nat /\ PollMs \in Nat \ {0}
  /\ Kinds \subseteq [blocks : 0 .. LplBlocks, reply : BOOLEAN]
  /\ Adverts \subseteq (0 .. 255) \X (0 .. 255)

Calls == 1 .. MaxCalls
Blocks == 1 .. LplBlocks
RplSizes == 0 .. LplBlocks + 1    \* in blocks; the last one means more than 120 bytes

None == <<"none", 0>>
Payload(i) == <<"payload", i>>    \* a block of call i's LPL
Reply(i) == <<"reply", i>>        \* a block of the reply to call i
Tags == {None} \cup {Payload(i) : i \in Calls} \cup {Reply(i) : i \in Calls}

VARIABLES
  pc,       \* the host's place in cmis_cdb_send_command_lpl, "idle" outside
  id,       \* number of the current or the last call
  kind,     \* its arguments
  limit,    \* polls that its timeout allows
  left,     \* polls left in the current wait
  block,    \* next payload block to write
  ret,      \* what the last call returned
  reply,    \* the caller's reply buffer
  rplLen,   \* the caller's *rpl_len
  broken,   \* history: a transfer of this call's reply failed or broke off
  mailbox,  \* page 9Fh: [header, len, rpl, lpl], the header with its LPLLength
  busy,     \* CdbStatus1: BUSY
  status,   \* CdbStatus1: result of the last command
  run,      \* the command the engine took: [cmd, header, len, lpl]
  accepted, \* history: the commands the engine has started
  outcome   \* history: the status it gave to each command

host == <<pc, id, kind, limit, left, block, ret, reply, rplLen, broken>>
engine == <<busy, status, run, accepted, outcome>>
vars == <<host, mailbox, engine>>

NoReply == [b \in Blocks |-> Junk]

-----------------------------------------------------------------------------

\* The wait when the module advertises none, in ms.
FallbackMs == 5000

\* cdb_get_busy_timeout, in ms, from bytes 165 and 166.
BusyTimeout(b165, b166) ==
  LET ext == b165 % 32
      short == b166 % 128
      ms == IF b166 >= 128 THEN 160 * (IF ext < 1 THEN 1 ELSE ext)
            ELSE 80 - (IF short > 80 THEN 80 ELSE short)
  IN IF ms > 0 THEN ms ELSE FallbackMs

\* Passes of the loop of cdb_wait_completion, which sleeps before it polls.
Polls(ms) == (ms + PollMs - 1) \div PollMs

\* The wait of a call: the advertised one, or the fallback when the read failed.
Limits == {Polls(BusyTimeout(a[1], a[2])) : a \in Adverts} \cup {Polls(FallbackMs)}

-----------------------------------------------------------------------------

Init ==
  /\ pc = "idle" /\ id = 0 /\ kind \in Kinds
  /\ limit = Polls(FallbackMs) /\ left = 0 /\ block = 1
  /\ ret = "none" /\ reply = NoReply /\ rplLen = 0 /\ broken = FALSE
  /\ mailbox = [header |-> 0, len |-> 0, rpl |-> 0, lpl |-> [b \in Blocks |-> None]]
  /\ busy = FALSE /\ status = "success"
  /\ run = [cmd |-> 0, header |-> 0, len |-> 0, lpl |-> [b \in Blocks |-> None]]
  /\ accepted = {}
  /\ outcome = [i \in Calls |-> "none"]

Return(value) == pc' = "idle" /\ ret' = value

Goto(place) == pc' = place /\ ret' = ret

\* Entry, with the read of bytes 165 and 166.
Send(k) ==
  /\ pc = "idle" /\ id < MaxCalls
  /\ id' = id + 1 /\ kind' = k
  /\ limit' \in Limits
  /\ left' = 0 /\ block' = 1
  /\ reply' = NoReply /\ rplLen' = 0 /\ broken' = FALSE
  /\ pc' = "check" /\ ret' = "none"
  /\ UNCHANGED <<mailbox, engine>>

FirstWrite == IF kind.blocks > 0 THEN "payload" ELSE "header"

\* Mutant: the command is written although an earlier one still runs.
CheckStatusNoDrain ==
  /\ pc = "check"
  /\ \/ Return("error") /\ left' = left
     \/ Goto(FirstWrite) /\ left' = left
  /\ UNCHANGED <<id, kind, limit, block, reply, rplLen, broken, mailbox, engine>>

\* The first read of the status: a command may still be running.
CheckStatus ==
  /\ pc = "check"
  /\ \/ Return("error") /\ left' = left
     \/ busy /\ Goto("drain") /\ left' = limit
     \/ ~busy /\ Goto(FirstWrite) /\ left' = left
  /\ UNCHANGED <<id, kind, limit, block, reply, rplLen, broken, mailbox, engine>>

\* Mutant: the status is taken whether or not the module is busy.
PollIgnoresBusy(place, resolved) ==
  /\ pc = place /\ left' = left - 1
  /\ \/ resolved
     \/ left > 1 /\ Goto(place)
     \/ left <= 1 /\ Return("error")
  /\ UNCHANGED <<id, kind, limit, block, reply, rplLen, broken, mailbox, engine>>

\* Mutant: a failed read is retried before the elapsed time is counted.
PollUncounted(place, resolved) ==
  /\ pc = place
  /\ \/ ~busy /\ resolved /\ left' = left
     \/ left' = left /\ Goto(place)
     \/ left <= 1 /\ left' = 0 /\ Return("error")
  /\ UNCHANGED <<id, kind, limit, block, reply, rplLen, broken, mailbox, engine>>

\* Mutant: one poll more than the timeout allows.
PollOneMore(place, resolved) ==
  /\ pc = place /\ left' = left - 1
  /\ \/ ~busy /\ resolved
     \/ left >= 1 /\ Goto(place)
     \/ left < 1 /\ Return("error")
  /\ UNCHANGED <<id, kind, limit, block, reply, rplLen, broken, mailbox, engine>>

\* One pass of cdb_wait_completion; a failed read counts as a poll.
Poll(place, resolved) ==
  /\ pc = place /\ left' = left - 1
  /\ \/ ~busy /\ resolved
     \/ left > 1 /\ Goto(place)
     \/ left <= 1 /\ Return("error")
  /\ UNCHANGED <<id, kind, limit, block, reply, rplLen, broken, mailbox, engine>>

\* Waiting for an earlier command to end.
Drain == Poll("drain", Goto(FirstWrite))

\* Mutant: a failed write is not noticed.
WriteMailboxUnchecked(place, next, after) ==
  /\ pc = place
  /\ Goto(next) /\ mailbox' \in {mailbox, after}

\* A write on page 9Fh: done, or failed before or after it reached the module.
WriteMailbox(place, next, after) ==
  /\ pc = place
  /\ \/ Goto(next) /\ mailbox' = after
     \/ Return("error") /\ mailbox' \in {mailbox, after}

\* The LPL payload, one block at a time.
WritePayload ==
  /\ WriteMailbox("payload", IF block < kind.blocks THEN "payload" ELSE "header",
                  [mailbox EXCEPT !.lpl[block] = Payload(id)])
  /\ block' = block + 1
  /\ UNCHANGED <<id, kind, limit, left, reply, rplLen, broken, engine>>

\* The command body, bytes 0x82-0x87: lengths, check code, cleared RPLLength.
WriteHeader ==
  /\ WriteMailbox("header", "trigger", [mailbox EXCEPT !.header = id, !.len = kind.blocks, !.rpl = 0])
  /\ UNCHANGED <<id, kind, limit, left, block, reply, rplLen, broken, engine>>

\* The engine takes the command whose CMDID is written.
Accept ==
  /\ busy' = TRUE
  /\ run' = [cmd |-> id, header |-> mailbox.header, len |-> mailbox.len,
             lpl |-> mailbox.lpl]
  /\ accepted' = accepted \cup {id}
  /\ UNCHANGED <<status, outcome>>

\* Mutant: a trigger write that failed is sent again.
WriteCmdIdRetried ==
  /\ pc = "trigger"
  /\ \/ Goto("wait") /\ left' = limit /\ Accept
     \/ Goto("trigger") /\ left' = left /\ (Accept \/ UNCHANGED engine)
  /\ UNCHANGED <<id, kind, limit, block, reply, rplLen, broken, mailbox>>

\* CMDID, bytes 0x80-0x81: the write that starts the command.
WriteCmdId ==
  /\ pc = "trigger"
  /\ \/ Goto("wait") /\ left' = limit /\ Accept
     \/ Return("error") /\ left' = left /\ (Accept \/ UNCHANGED engine)
  /\ UNCHANGED <<id, kind, limit, block, reply, rplLen, broken, mailbox>>

\* Waiting for this command; the reply is read when it is wanted and the
\* command did not fail.
Wait ==
  Poll("wait", IF kind.reply /\ status = "success" THEN Goto("rplLen")
               ELSE Return(status))

\* Mutant: the whole area is read whatever the module says it replied.
ReadReplyLengthWhole ==
  /\ pc = "rplLen"
  /\ rplLen' = LplBlocks /\ broken' = broken /\ Goto("rplData")
  /\ UNCHANGED <<id, kind, limit, left, block, reply, mailbox, engine>>

\* RPLLength.  An error here returns the status all the same.
ReadReplyLength ==
  /\ pc = "rplLen"
  /\ \/ Return("success") /\ rplLen' = rplLen /\ broken' = TRUE
     \/ /\ rplLen' = mailbox.rpl /\ broken' = broken
        /\ IF mailbox.rpl \in Blocks THEN Goto("rplData") ELSE Return("success")
  /\ UNCHANGED <<id, kind, limit, left, block, reply, mailbox, engine>>

\* What the caller gets of a reply of len blocks of which n were read: get_eeprom_page
\* allocates the whole length, and all of it is copied.
Copied(n, len) ==
  [b \in Blocks |-> CASE b <= n -> mailbox.lpl[b]
                      [] b > n /\ b <= len -> Heap
                      [] OTHER -> reply[b]]

\* The reply.  An error returns the status all the same and copies nothing; a read
\* that breaks off after a chunk is no error, and what it has not read is copied too.
ReadReply ==
  /\ pc = "rplData"
  /\ Return("success")
  /\ \/ reply' = reply /\ broken' = TRUE
     \/ \E n \in 1 .. rplLen : reply' = Copied(n, rplLen) /\ broken' = (n # rplLen)
  /\ UNCHANGED <<id, kind, limit, left, block, rplLen, mailbox, engine>>

\* The engine ends its command.  A success has a reply of any length.
Complete ==
  /\ busy /\ busy' = FALSE
  /\ \/ /\ status' = "failed" /\ mailbox' = mailbox
     \/ /\ status' = "success"
        /\ \E n \in RplSizes :
             mailbox' = [mailbox EXCEPT
               !.rpl = n,
               !.lpl = [b \in Blocks |-> IF b <= n THEN Reply(run.cmd) ELSE @[b]]]
  /\ outcome' = [outcome EXCEPT ![run.cmd] = status']
  /\ UNCHANGED <<host, run, accepted>>

Host ==
  \/ CheckStatus \/ Drain
  \/ WritePayload \/ WriteHeader \/ WriteCmdId
  \/ Wait \/ ReadReplyLength \/ ReadReply

Next ==
  \/ \E k \in Kinds : Send(k)
  \/ Host
  \/ Complete

\* The host is a sequential program that goes on with a call it has entered.
\* Nothing is assumed of the module: it may never end a command.
Spec == Init /\ [][Next]_vars /\ WF_vars(Host)

-----------------------------------------------------------------------------

Mailboxes == [header : 0 .. MaxCalls, len : 0 .. LplBlocks, rpl : RplSizes,
              lpl : [Blocks -> Tags]]

Runs == [cmd : 0 .. MaxCalls, header : 0 .. MaxCalls, len : 0 .. LplBlocks,
         lpl : [Blocks -> Tags]]

\* Type correctness of the host, the mailbox and the engine.
TypeOK ==
  /\ pc \in {"idle", "check", "drain", "payload", "header", "trigger", "wait",
             "rplLen", "rplData"}
  /\ id \in 0 .. MaxCalls /\ kind \in Kinds
  /\ limit \in Nat \ {0} /\ left \in Nat /\ block \in Nat \ {0}
  /\ ret \in {"none", "error", "success", "failed"}
  /\ reply \in [Blocks -> Tags \cup {Junk, Heap}] /\ rplLen \in RplSizes /\ broken \in BOOLEAN
  /\ mailbox \in Mailboxes
  /\ busy \in BOOLEAN /\ status \in {"success", "failed"}
  /\ run \in Runs
  /\ accepted \subseteq Calls
  /\ outcome \in [Calls -> {"none", "success", "failed"}]

\* A call that was given a reply buffer has returned a success.
Replied == pc = "idle" /\ ret = "success" /\ kind.reply

\* A status that a call returns is the one the module gave to that command, never
\* one that an earlier command left behind, whatever calls timed out before it.
StatusIsOwn ==
  pc = "idle" /\ ret \in {"success", "failed"} => outcome[id] = ret

\* The engine never runs a mixture of two calls: header and payload are those of
\* the command whose CMDID it took, even after writes that broke off.
NeverMixed ==
  busy => /\ run.header = run.cmd
          /\ \A b \in 1 .. run.len : run.lpl[b] = Payload(run.cmd)

\* While the module runs a command nothing is written to its mailbox, and its
\* CMDID is not written again.
MailboxStable ==
  [][busy /\ busy' => mailbox' = mailbox /\ run' = run]_vars

\* What a call hands out of the module is of the reply to its own command, which
\* succeeded: never payload, and never the reply to an earlier command.  The other
\* bytes of the buffer, what the caller or the heap left there, are passed off as a
\* reply only by a call of which a transfer of the reply failed or broke off: any
\* other success has all of a reply that fits the buffer.
ReplyIsOwn ==
  \A b \in Blocks :
    /\ reply[b] \notin {Junk, Heap} => reply[b] = Reply(id) /\ outcome[id] = "success"
    /\ Replied /\ ~broken /\ rplLen \in Blocks /\ b <= rplLen => reply[b] = Reply(id)

\* cmis-cdb.h: "reply: output buffer for LPL reply data (120 bytes max)", "rpl_len:
\* output, number of reply bytes", "Returns the CDB status byte on success, or -1 on
\* error".  A success with a reply that fits the buffer has all the bytes it counts.
ReplyComplete ==
  Replied /\ rplLen \in Blocks => \A b \in Blocks : b <= rplLen => reply[b] = Reply(id)

\* Every call returns, also when the module never ends its command and when
\* every status read fails.
CallReturns == pc # "idle" ~> pc = "idle"

Rpc == INSTANCE CdbRpc WITH
  cur <- id, phase <- IF pc = "idle" THEN "idle" ELSE "open", answer <- ret,
  engine <- IF busy THEN run.cmd ELSE 0

\* The command protocol implements the remote call its callers rely on: at most
\* one execution per call, one at a time, and a status of the right command.
ImplementsRpc == Rpc!Spec
=============================================================================
