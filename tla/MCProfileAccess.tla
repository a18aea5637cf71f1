---------------------------- MODULE MCProfileAccess ----------------------------
EXTENDS ProfileAccess, TLC
Symmetry == Permutations(Profiles) \union Permutations(Browsers) \union Permutations(Keys)
===============================================================================
