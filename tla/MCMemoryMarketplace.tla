-------------------------- MODULE MCMemoryMarketplace --------------------------
(* Two competitors and one request.  Bob has two profiles: what one offers *)
(* and where the other goes match a request near, and neither alone does.  *)
(* Another customer, and an account that is neither customer nor provider. *)
EXTENDS RequestScreens, TLC

CONSTANTS pro, eve, fox, ann, bob, rival, tech, near, far

TheProviders == {pro, eve, fox}
TheUsers == {ann, bob}
TheProfiles == ann :> <<pro>> @@ bob :> <<eve, fox>>
TheOffering == {pro, eve}
TheCovers == pro :> Locations @@ eve :> {far} @@ fox :> {near}
TheServes == pro :> Locations @@ eve :> {far} @@ fox :> {}
TheCallers == TheUsers \cup {Customer, rival, tech}
TheRoles == ann :> {"PROFESSIONAL"} @@ bob :> {"BUSINESS_OWNER"} @@ Customer :> {"CUSTOMER"}
            @@ rival :> {"CUSTOMER"} @@ tech :> {"TECHNICIAN"}
=============================================================================
