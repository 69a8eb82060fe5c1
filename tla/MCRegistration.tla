--------------------------- MODULE MCRegistration ---------------------------
(* One user who registers with an e-mail and one whom Google vouches for; two  *)
(* requests may be under way, so that a late delete meets a new sign-in.       *)
EXTENDS Registration

CONSTANTS amir, gita

MCEmails == {amir}
MCThirdParties == {gita}
MCSlot == {1, 2}
=============================================================================
