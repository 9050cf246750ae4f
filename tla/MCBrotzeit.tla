----------------------------- MODULE MCBrotzeit -----------------------------
(* Small instances of Brotzeit.                                            *)
EXTENDS Brotzeit

CONSTANTS r1, r2, h1, h2
MCRoutes == <<r1, r2>>
MCHandlers == {h1, h2}
=============================================================================
