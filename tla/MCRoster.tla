------------------------------- MODULE MCRoster -------------------------------
EXTENDS Roster, TLC

CONSTANTS boss, tech, ph1, j1, j2, c1, c2, c3

TwoEmails == {boss, tech}
OnePhone == {ph1}
TwoBusinesses == {1, 2}
OneOwner == (1 :> boss) @@ (2 :> boss)
OneJobEach == (1 :> {j1}) @@ (2 :> {j2})
ThreeCalls == {c1, c2, c3}
CallSymmetry == Permutations(ThreeCalls)
=============================================================================
