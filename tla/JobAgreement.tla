----------------------------- MODULE JobAgreement ------------------------------
(***************************************************************************)
(* What the marketplace promises about a job, without rows, locks or       *)
(* handlers: a request collects offers from different providers, the       *)
(* customer agrees with one of them, and from then on the winner is fixed  *)
(* and the work advances one stage at a time.  A request that has no       *)
(* winner may be withdrawn instead.  MarketplaceJob implements this.       *)
(***************************************************************************)
EXTENDS Naturals, FiniteSets

CONSTANTS Jobs, Providers, None, MaxOffers

VARIABLES stage,   \* stage[j]: how far the job is
          offers,  \* offers[j]: the providers whose offer the customer may take
          winner   \* winner[j]: the provider agreed with, or None

agreementVars == <<stage, offers, winner>>

NextStage == [ACCEPTED |-> "SCHEDULED", SCHEDULED |-> "IN_PROGRESS",
              IN_PROGRESS |-> "COMPLETED", COMPLETED |-> "CLOSED"]

Init == /\ stage = [j \in Jobs |-> "ABSENT"]
        /\ offers = [j \in Jobs |-> {}]
        /\ winner = [j \in Jobs |-> None]

Post(j) == /\ stage[j] = "ABSENT"
           /\ stage' = [stage EXCEPT ![j] = "REQUESTED"]
           /\ UNCHANGED <<offers, winner>>

Offer(j, p) == /\ stage[j] \in {"REQUESTED", "QUOTED"}
               /\ p \notin offers[j]
               /\ Cardinality(offers[j]) < MaxOffers
               /\ offers' = [offers EXCEPT ![j] = @ \cup {p}]
               /\ stage' = [stage EXCEPT ![j] = "QUOTED"]
               /\ UNCHANGED winner

Agree(j, p) == /\ stage[j] = "QUOTED"
               /\ p \in offers[j]
               /\ winner' = [winner EXCEPT ![j] = p]
               /\ offers' = [offers EXCEPT ![j] = {}]
               /\ stage' = [stage EXCEPT ![j] = "ACCEPTED"]

Advance(j) == /\ stage[j] \in DOMAIN NextStage
              /\ stage' = [stage EXCEPT ![j] = NextStage[@]]
              /\ UNCHANGED <<offers, winner>>

Withdraw(j) == /\ stage[j] \in {"REQUESTED", "QUOTED"}
               /\ stage' = [stage EXCEPT ![j] = "CANCELLED"]
               /\ UNCHANGED <<offers, winner>>

Next == \E j \in Jobs : \/ Post(j) \/ Advance(j) \/ Withdraw(j)
                        \/ \E p \in Providers : Offer(j, p) \/ Agree(j, p)

Spec == Init /\ [][Next]_agreementVars
=============================================================================
