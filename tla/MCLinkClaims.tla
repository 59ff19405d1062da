----------------------------- MODULE MCLinkClaims -----------------------------
(* One transport whose broker stays away long enough for the count of failures
   to shift the backoff out of the width of a duration.                     *)
EXTENDS TransportLink

(* src/mesh-edge/internal/config/keys_help.go:37, of the base of the backoff:
   "Minimum delay between transport reconnect attempts."  The loop never waits
   for less, however many attempts have failed.                              *)
RetriesWithBackoff == pc = "sleeping" => wait >= Base
==============================================================================
