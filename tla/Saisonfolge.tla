------------------------------ MODULE Saisonfolge ------------------------------
(***************************************************************************)
(* What the league promises about its seasons (docs/backend/spec.md I18):  *)
(* a season is created as planned, and the only step that ever moves a     *)
(* status makes one planned season the running one and closes, in the same *)
(* step, whichever ran before.  Nothing returns to an earlier status, and  *)
(* a league that ever had a running season never stands without one.       *)
(***************************************************************************)
CONSTANT Saisons

VARIABLE status

Laufende == {s \in Saisons : status[s] = "active"}

Init == status = [s \in Saisons |-> "keine"]

Anlegen(s) ==
  /\ status[s] = "keine"
  /\ status' = [status EXCEPT ![s] = "future"]

\* The rollover is one step: no reader sees two running seasons or none.
Abloesen(s) ==
  /\ status[s] = "future"
  /\ status' = [t \in Saisons |-> IF t = s THEN "active"
                                  ELSE IF t \in Laufende THEN "past"
                                  ELSE status[t]]

Next == \E s \in Saisons : Anlegen(s) \/ Abloesen(s)

Spec == Init /\ [][Next]_status
=============================================================================
