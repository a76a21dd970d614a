---------------------------- MODULE MCSmtpSession ----------------------------
(* SmtpSession for TLC: accounts are interchangeable.                       *)
EXTENDS SmtpSession, TLC

UserSymmetry == Permutations(Users)
=============================================================================
