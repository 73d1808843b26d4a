----------------------------- MODULE MCAuthService -----------------------------
(* Instances of AuthService for TLC.                                          *)
EXTENDS AuthService, TLC

MCSymmetry == Permutations(Handlers)
=============================================================================
