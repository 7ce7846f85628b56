---------------------------- MODULE StrengthSearch ----------------------------
(***************************************************************************)
(* What the hash-strength search promises, without how it probes: while no *)
(* search is on, the strength may move freely; a search remembers every    *)
(* strength it has measured, and ends, always, on one it measured no worse *)
(* than the strength it began at.                                          *)
(***************************************************************************)
EXTENDS Integers

CONSTANTS Strengths, Benefits

VARIABLES
  strength,    \* the strength in force
  searching,   \* whether a search is on
  start,       \* the benefit measured where the search began
  measured     \* <<strength, benefit>> of every round of the search

vars == <<strength, searching, start, measured>>

Init ==
  /\ strength \in Strengths
  /\ searching = FALSE
  /\ start = 0
  /\ measured = {}

(* The strength follows the ratio, or stays. *)
Follow ==
  /\ ~searching
  /\ strength' \in Strengths
  /\ UNCHANGED <<searching, start, measured>>

Begin ==
  /\ ~searching
  /\ \E b \in Benefits : start' = b /\ measured' = {<<strength, b>>}
  /\ searching' = TRUE
  /\ strength' \in Strengths

Measure(b) == measured' = measured \cup {<<strength, b>>}

Probe ==
  /\ searching
  /\ \E b \in Benefits : Measure(b)
  /\ strength' \in Strengths
  /\ UNCHANGED <<searching, start>>

Settle ==
  /\ searching
  /\ \E b \in Benefits : Measure(b)
  /\ \E p \in measured' : p[2] >= start /\ strength' = p[1]
  /\ searching' = FALSE
  /\ UNCHANGED start

Next == Follow \/ Begin \/ Probe \/ Settle

Spec == Init /\ [][Next]_vars
FairSpec == Spec /\ WF_vars(Settle)
=============================================================================
