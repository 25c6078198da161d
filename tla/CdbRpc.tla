------------------------------- MODULE CdbRpc -------------------------------
(***************************************************************************)
(* What cmis_cdb_send_command_lpl promises its callers.  A call hands one  *)
(* command to the module, which runs it at most once and alone; a status   *)
(* that comes back is the one the module gave to this very command.  An    *)
(* error answer promises nothing: the command may not have started, may    *)
(* still be running, or may have run.                                      *)
(***************************************************************************)
EXTENDS Integers

CONSTANT MaxCalls   \* how many commands the caller sends

VARIABLES
  cur,       \* number of the current or the last call, 0 before the first
  phase,     \* "idle" or "open"
  answer,    \* what the last call returned
  accepted,  \* the commands the module has started
  engine,    \* the command it runs, 0 for none
  outcome    \* the status it gave to each command

vars == <<cur, phase, answer, accepted, engine, outcome>>

Calls == 1 .. MaxCalls

Init ==
  /\ cur = 0 /\ phase = "idle" /\ answer = "none"
  /\ accepted = {} /\ engine = 0
  /\ outcome = [i \in Calls |-> "none"]

Issue ==
  /\ phase = "idle" /\ cur < MaxCalls
  /\ cur' = cur + 1 /\ phase' = "open" /\ answer' = "none"
  /\ UNCHANGED <<accepted, engine, outcome>>

Start == engine = 0 /\ cur \notin accepted
           /\ engine' = cur /\ accepted' = accepted \cup {cur}

Accept ==
  /\ phase = "open" /\ Start
  /\ UNCHANGED <<cur, phase, answer, outcome>>

\* The module starts the command, and the caller is told of an error.
AcceptUnseen ==
  /\ phase = "open" /\ Start
  /\ phase' = "idle" /\ answer' = "error"
  /\ UNCHANGED <<cur, outcome>>

Complete ==
  /\ engine # 0
  /\ \E s \in {"success", "failed"} : outcome' = [outcome EXCEPT ![engine] = s]
  /\ engine' = 0
  /\ UNCHANGED <<cur, phase, answer, accepted>>

Answer ==
  /\ phase = "open" /\ phase' = "idle"
  /\ \/ answer' = "error"
     \/ outcome[cur] # "none" /\ answer' = outcome[cur]
  /\ UNCHANGED <<cur, accepted, engine, outcome>>

Next == Issue \/ Accept \/ AcceptUnseen \/ Complete \/ Answer

Spec == Init /\ [][Next]_vars
=============================================================================
