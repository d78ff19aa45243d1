--------------------------- MODULE MCRateLimiter ----------------------------
(***************************************************************************)
(* Two requests at a time, two tiers: one whose ban outlasts the window    *)
(* and one whose window outlasts the ban.                                  *)
(***************************************************************************)
EXTENDS RateLimiter

BothTiers == {"unauth", "auth"}
Limits(unauth, auth) == [t \in BothTiers |-> IF t = "unauth" THEN unauth ELSE auth]
MCMaxReqs == Limits(1, 2)
MCWindow == Limits(1, 2)
MCMaxFails == Limits(2, 1)
MCBanDur == Limits(2, 1)
=============================================================================
