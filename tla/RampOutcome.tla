----------------------------- MODULE RampOutcome -----------------------------
(***************************************************************************)
(* What the fiat ramp promises about an order, whatever requests, callbacks *)
(* and polls it takes to find out: the platform settles it once.  It either *)
(* refuses the order before it is linked to a provider, or ends with the    *)
(* outcome that the provider has reached.                                   *)
(***************************************************************************)
CONSTANT Orders

VARIABLES
    truth,    \* what has become of the order at the provider
    outcome   \* what the platform tells its user

Outcomes == {"open", "refused", "paid", "failed"}

Init == /\ truth = [o \in Orders |-> "open"]
        /\ outcome = [o \in Orders |-> "open"]

Decide(o, v) == /\ truth[o] = "open"
                /\ truth' = [truth EXCEPT ![o] = v]
                /\ UNCHANGED outcome

Settle(o, v) == /\ outcome[o] = "open" /\ v \in {truth[o], "refused"}
                /\ outcome' = [outcome EXCEPT ![o] = v]
                /\ UNCHANGED truth

\* One order changes, at the provider or for its user.
Next == \E o \in Orders :
          \/ truth[o] # truth'[o] /\ \E v \in {"paid", "failed"} : Decide(o, v)
          \/ outcome[o] # outcome'[o] /\ \E v \in Outcomes \ {"open"} : Settle(o, v)

Spec == Init /\ [][Next]_<<truth, outcome>>
=============================================================================
