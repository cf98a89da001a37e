------------------------------ MODULE MCAccounts ------------------------------
\* Model values for the model checking of Accounts.
EXTENDS Accounts, TLC

CONSTANTS ann, ben, r1, r2, admin, viewer, curator

TwoUsers == {ann, ben}
OnlyBen == {ben}
TwoRequests == {r1, r2}
\* What an admin gives: the viewer role, with the admin role or without.
GivenRoles == {{viewer}, {admin, viewer}}
\* What the groups of the IdP give.
CuratorGroup == {{curator}}
Symmetry == Permutations(TwoRequests)
=============================================================================
