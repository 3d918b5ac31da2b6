------------------------------ MODULE MCSignIn ------------------------------
EXTENDS SignIn, TLC

Symmetry == Permutations(Slots) \cup Permutations(Browsers) \cup Permutations(Users)
              \cup Permutations(Links)

=============================================================================
