---------------------------- MODULE MCCreateUser ----------------------------
(* Symmetry for the safety run of CreateUser.                                *)
EXTENDS CreateUser, TLC

ApiSymmetry ==
  Permutations(Request) \union Permutations(Email) \union Permutations(ApiConn)
=============================================================================
