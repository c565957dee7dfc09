------------------------------ MODULE MCMatching ------------------------------
EXTENDS Matching, TLC

CONSTANTS owner, manager, plumbing, painting, a1, a2, a3, w1, w2, n1, c1, c2

(* A professional who also owns a business, the manager of that business,  *)
(* and a newer business in the category that has named no area: it comes   *)
(* first in the scan and never matches.  The numbers of the two tables run *)
(* side by side.                                                           *)
ThreeProfiles == 1..3
OneProfessional == {1}
IdsByTable == (1 :> 2) @@ (2 :> 1) @@ (3 :> 2)
TwoUsers == {owner, manager}
OwnerHasTwo == (owner :> <<1, 2>>) @@ (manager :> <<2>>)
TwoCategories == {plumbing, painting}
BusinessesPlumb == (1 :> {}) @@ (2 :> {plumbing}) @@ (3 :> {plumbing})
OneName == {n1}
ThreeAreas == {a1, a2, a3}
NoWordsInThird == (a1 :> {w1}) @@ (a2 :> {w2}) @@ (a3 :> {})
TwoLists == {{a1}, {a2, a3}}
OneRequest == {[category |-> plumbing, place |-> {w1}]}
TwoCalls == {c1, c2}
=============================================================================
