--------------------------- MODULE MCBrowserSession ---------------------------
(* Instances of BrowserSession for TLC. *)
EXTENDS BrowserSession, TLC
CONSTANTS t1, t2, c1, c2
Alike == Permutations({t1, t2}) \cup Permutations({c1, c2})
=============================================================================
