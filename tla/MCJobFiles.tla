------------------------------ MODULE MCJobFiles ------------------------------
EXTENDS JobFiles

CONSTANTS u1, u2
TwoUploads == {u1, u2}
=============================================================================
