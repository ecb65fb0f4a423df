------------------------------ MODULE MCUsers ------------------------------
(* Instances of UserService for TLC.                                        *)
EXTENDS UserService, TLC

SessionOps == {"login", "rotate", "logout", "revoke-all", "password"}
AccountOps == {"login", "register", "email", "name", "logout", "revoke"}

Symmetry == Permutations(Handlers) \cup Permutations(Jtis) \cup Permutations(Users)
=============================================================================
