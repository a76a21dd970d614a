--------------------------- MODULE MCMailDelivery ---------------------------
(* Instances of MailDelivery for TLC.                                       *)
EXTENDS MailDelivery, TLC

CONSTANTS s1, s2, u1, u2

(* A mail to two users, so that a race or a failure has a recipient before  *)
(* or after it, beside a mail to one of them.                               *)
MCEnvelopes == s1 :> <<u1, u2>> @@ s2 :> <<u1>>
=============================================================================
