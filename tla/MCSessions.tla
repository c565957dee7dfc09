------------------------------ MODULE MCSessions -------------------------------
(* An instance of Sessions for TLC: two tabs of one browser.                 *)
EXTENDS Sessions, TLC

CONSTANTS laptop, t1, t2

TwoTabs == {t1, t2}
TwoTabsOf == t1 :> laptop @@ t2 :> laptop

(* Calls are interchangeable, and so are the two tabs. *)
TabSymmetry == Permutations(Calls) \cup Permutations(TwoTabs)
=============================================================================
