----------------------------- MODULE MCUrlService -----------------------------
(* Small instances of UrlService; the requests are all alike, so are codes. *)
EXTENDS UrlService, TLC

Alike == Permutations(Requests) \cup Permutations(Codes)
=============================================================================
