------------------------ MODULE DeploymentAuthority ------------------------
(***************************************************************************)
(* What the admission ledger promises to the processes that trade: at most *)
(* one deployment holds the authority to trade the account, it is handed   *)
(* on from a canary to production but never shared, and a deployment whose *)
(* authority has ended never gets it back.                                 *)
(***************************************************************************)
CONSTANT Deployments

VARIABLE authority      \* "none", "held" or "ended", for each deployment

Init == authority = [d \in Deployments |-> "none"]

\* A deployment gets the authority; whoever held it loses it in the same step.
Grant(d) == /\ authority[d] = "none"
            /\ authority' = [e \in Deployments |->
                                IF e = d THEN "held"
                                ELSE IF authority[e] = "held" THEN "ended"
                                ELSE authority[e]]

\* It expires, is revoked or rolled back.
End(d) == /\ authority[d] = "held"
          /\ authority' = [authority EXCEPT ![d] = "ended"]

Next == \E d \in Deployments : Grant(d) \/ End(d)

Spec == Init /\ [][Next]_authority
=============================================================================
