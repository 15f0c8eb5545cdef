----------------------------- MODULE MCRevocation -----------------------------
EXTENDS Revocation

CONSTANTS k1, k2

\* Empty; one key; one appended or inserted before it; over the limit.
MCLists == {<< >>, <<k1>>, <<k1, k2>>, <<Comment, k1>>, <<Comment, k2, k1>>}
=============================================================================
