---------------------------- MODULE MCMembership ----------------------------
(* Two products, because one sign-in may join several; the writes between  *)
(* them are bounded together.                                              *)
EXTENDS Membership

CONSTANT MaxWrites

UsersAlike == Permutations(Users)
ProductsAlike == Permutations(Products)
Alike == UsersAlike \cup ProductsAlike
FewWrites == FoldFunction(LAMBDA row, sum : row.version + sum, 0, rows) <= MaxWrites
=============================================================================
