------------------------------ MODULE StageGate ------------------------------
(***************************************************************************)
(* What a specialist pipeline promises whoever hired it, and nothing about *)
(* how: no engines, no ledger, no reviews.                                 *)
(*                                                                         *)
(* The stages are passed in their order, one paid attempt for each pass.   *)
(* An attempt may instead send the work back, or come to nothing; and the  *)
(* right to move that an attempt earned may be lost, but not kept.         *)
(***************************************************************************)
EXTENDS Naturals

CONSTANTS Gate,                 \* the stages, numbered from one in their order
          MaxTries, MaxIdle     \* attempts, and attempts in a row that pass nothing

VARIABLES passed,   \* the stages that are complete
          tries,    \* attempts paid for
          idle,     \* attempts since the last one that earned a pass
          earned    \* what the last attempt may still do: "pass", "return" or "nothing"

gateVars == <<passed, tries, idle, earned>>

GateInit ==
  /\ passed = {}
  /\ tries = 0
  /\ idle = 0
  /\ earned = "nothing"

\* An attempt is paid for while there is something left to pay with, and one
\* that has not been used up is not followed by another.
Try(outcome) ==
  /\ earned = "nothing"
  /\ tries < MaxTries /\ idle < MaxIdle
  /\ tries' = tries + 1
  /\ idle' = IF outcome = "pass" THEN 0 ELSE idle + 1
  /\ earned' = outcome
  /\ UNCHANGED passed

Pass ==
  /\ earned = "pass"
  /\ \E s \in Gate \ passed :
       /\ \A t \in Gate : t < s => t \in passed
       /\ passed' = passed \cup {s}
  /\ earned' = "nothing"
  /\ UNCHANGED <<tries, idle>>

Return ==
  /\ earned = "return"
  /\ \E s \in Gate : passed' = {t \in passed : t < s}
  /\ earned' = "nothing"
  /\ UNCHANGED <<tries, idle>>

Lose ==
  /\ earned' = "nothing"
  /\ UNCHANGED <<passed, tries, idle>>

GateNext ==
  \/ \E outcome \in {"pass", "return", "nothing"} : Try(outcome)
  \/ Pass \/ Return \/ Lose

GateSpec == GateInit /\ [][GateNext]_gateVars

-----------------------------------------------------------------------------
\* What the owner of the budget may rely on: the stages were passed in order, so
\* many passed cost as many attempts, besides the one whose pass is not used yet;
\* and no more was paid than agreed.
Promise ==
  /\ \A s \in passed, t \in Gate : t < s => t \in passed
  /\ \A s \in passed : s <= tries
  /\ earned = "pass" => \A s \in passed \cup {0} : s < tries
  /\ tries <= MaxTries /\ idle <= MaxIdle
=============================================================================
