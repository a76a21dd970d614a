----------------------------- MODULE MCMailStore -----------------------------
(* Instances of MailStore for TLC: argument sets and symmetry.              *)
EXTENDS MailStore, TLC

ClientSymmetry == Permutations(Clients)

MCTwoFolders == <<"INBOX", "Trash">>
MCOneFolder == <<"INBOX">>

Plus(flag) == [sign |-> "+", flag |-> flag]
Minus(flag) == [sign |-> "-", flag |-> flag]
Bare(flag) == [sign |-> "none", flag |-> flag]

(* +FLAGS, -FLAGS and FLAGS of the IMAP STORE command, and an empty list.   *)
MCFlagLists == { <<Plus("deleted")>>, <<Minus("deleted")>>, <<Bare("flagged")>>, <<>> }
MCDeletedLists == { <<Plus("deleted")>>, <<Minus("deleted")>> }
MCFlagSets == { {}, {"flagged"} }
=============================================================================
