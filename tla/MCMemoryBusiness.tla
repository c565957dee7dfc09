---------------------------- MODULE MCMemoryBusiness ----------------------------
(***************************************************************************)
(* m1 owns "here", where t1 and t2 work; t2 owns "there", where x works;   *)
(* out has left "here" and c is a customer.                                *)
(***************************************************************************)
EXTENDS JobScreens

CONSTANTS m1, t1, t2, r1, out, x, c, slot

MCCallers == {m1, t1, t2, out, x, c}
MCRoles == [u \in MCCallers |->
    CASE u = m1 -> {"BUSINESS_OWNER"}
      [] u = t2 -> {"BUSINESS_OWNER", "TECHNICIAN"}
      [] u = c -> {"CUSTOMER"}
      [] OTHER -> {"TECHNICIAN"}]
MCManages == [u \in MCCallers |-> CASE u = m1 -> "here" [] u = t2 -> "there" [] OTHER -> None]
MCWorksFor == [u \in MCCallers |->
    CASE u \in {t1, t2, out} -> "here" [] u = x -> "there" [] OTHER -> None]
=============================================================================
