---------------------------- MODULE LaneSettings ----------------------------
(***************************************************************************)
(* What the calls that change one setting of a module promise.  A call     *)
(* asks for some settings, each with the values that would do; while it is *)
(* pending these settings, and no other, change to what was asked.  Some   *)
(* settings have two stages: what is asked is staged first and comes into  *)
(* force later, and then whatever was staged comes into force with it.     *)
(* A call that fails promises nothing of what it asked for, and leaves the *)
(* rest alone; a call that is refused changes nothing.                     *)
(***************************************************************************)
VARIABLES setting,   \* what a display of the module says, by setting
          staged,    \* what is staged, by setting
          request,   \* the settings asked for, each with the values that would do
          answer     \* "none" while a call is pending

vars == <<setting, staged, request, answer>>

Answers == {"ok", "failed", "invalid"}

Init == answer = "ok" /\ DOMAIN setting = DOMAIN staged

Ask == answer \in Answers /\ answer' = "none" /\ UNCHANGED <<setting, staged>>

Refuse == answer \in Answers /\ answer' = "invalid" /\ UNCHANGED <<setting, staged>>

\* The settings, from shown and put to shown2 and put2, in a step that ends with
\* the answer a while asked is pending.
Change(shown, put, shown2, put2, asked, a) ==
  \A k \in DOMAIN shown :
    \/ k \in DOMAIN asked /\ a = "failed"
    \/ /\ put2[k] = put[k] \/ (k \in DOMAIN asked /\ put2[k] \in asked[k])
       /\ shown2[k] \in {shown[k], put2[k]}
       /\ a = "ok" /\ k \in DOMAIN asked => shown2[k] \in asked[k]

Work ==
  /\ answer = "none" /\ answer' \in {"none", "ok", "failed"}
  /\ \E shown \in {setting}, put \in {staged}, shown2 \in {setting'}, put2 \in {staged'},
        asked \in {request} :
       /\ DOMAIN shown2 = DOMAIN shown
       /\ Change(shown, put, shown2, put2, asked, answer')
  /\ request' = request

Next == Ask \/ Refuse \/ Work

Spec == Init /\ [][Next]_vars
=============================================================================
