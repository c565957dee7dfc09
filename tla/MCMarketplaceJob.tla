---------------------------- MODULE MCMarketplaceJob --------------------------
(* Instances of MarketplaceJob for TLC. *)
EXTENDS MarketplaceJob, TLC

CONSTANTS pro, eve, biz,      \* profiles
          ann, bob, cat,      \* users
          near, far           \* locations

(* Three competing profiles, for a cap of two quotes. *)
TrioProviders == {pro, eve, biz}
TrioUsers == {ann, bob, cat}
TrioProfiles == ann :> <<pro>> @@ bob :> <<biz>> @@ cat :> <<eve>>

(* All of them serve near, and nobody serves far. *)
TrioServes == [p \in TrioProviders |-> {near}]

(* Profiles change places together with the users who have them. *)
Owner(p) == CHOOSE u \in TrioUsers : TrioProfiles[u] = <<p>>
WithOwners(f) == f @@ [u \in TrioUsers |-> Owner(f[TrioProfiles[u][1]])]
Symmetry == {WithOwners(f) : f \in Permutations(TrioProviders)}
              \cup Permutations(Requests)
=============================================================================
