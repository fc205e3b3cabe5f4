---------------------------- MODULE ApprovedPlan ----------------------------
(***************************************************************************)
(* What an approved build plan promises, and nothing about how.            *)
(*                                                                         *)
(* An owner freezes the inputs of a project once under a plan.  The plan   *)
(* may be spent once; only a spent plan may build; and the one tree it     *)
(* builds is composed from exactly the inputs that were frozen.            *)
(***************************************************************************)
CONSTANTS Plan,      \* approvals an owner may give
          Inputs,    \* the input states a project can be in
          Slot,      \* workspaces a build can be written to
          NoInputs   \* the plan has not been approved

VARIABLES approved,  \* [Plan -> Inputs \cup {NoInputs}]
          spent,     \* the plans already claimed by an execution
          built      \* the trees built under a plan

vars == <<approved, spent, built>>

Build == [plan : Plan, slot : Slot, inputs : Inputs]

Init == /\ approved = [p \in Plan |-> NoInputs]
        /\ spent = {}
        /\ built = {}

Approve(p, i) == /\ approved[p] = NoInputs
                 /\ approved' = [approved EXCEPT ![p] = i]
                 /\ UNCHANGED <<spent, built>>

Spend(p) == /\ approved[p] # NoInputs
            /\ p \notin spent
            /\ spent' = spent \cup {p}
            /\ UNCHANGED <<approved, built>>

BuildUnder(p, s) == /\ p \in spent
                    /\ \A b \in built : b.plan # p /\ b.slot # s
                    /\ built' = built \cup
                                 {[plan |-> p, slot |-> s, inputs |-> approved[p]]}
                    /\ UNCHANGED <<approved, spent>>

Next == \E p \in Plan : \/ \E i \in Inputs : Approve(p, i)
                        \/ Spend(p)
                        \/ \E s \in Slot : BuildUnder(p, s)

Spec == Init /\ [][Next]_vars

-----------------------------------------------------------------------------
\* What an owner may rely on: a plan has at most one build, it was spent for
\* it, and the build is made of what the owner approved.
Promise == /\ \A b, c \in built : b.plan = c.plan => b = c
           /\ \A b \in built : b.plan \in spent /\ b.inputs = approved[b.plan]
=============================================================================
