--------------------------- MODULE MCRateLimiter ---------------------------
(* TLC instance of RateLimiter: two keys with different limits and windows, *)
(* two requests that may overtake each other, sweeps by age and by number.  *)
EXTENDS RateLimiter, TLC

CONSTANTS login, resend, q1, q2

MCRequests == {q1, q2}
MCSymmetry == Permutations(MCRequests)

MCKeys == {login, resend}
MCLimit == [k \in MCKeys |-> IF k = login THEN 2 ELSE 1]
MCWindow == [k \in MCKeys |-> IF k = login THEN 3 ELSE 2]
=============================================================================
