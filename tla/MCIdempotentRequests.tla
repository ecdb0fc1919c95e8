----------------------- MODULE MCIdempotentRequests -----------------------
(* Two or three requests that race on the same Idempotency-Key, with two   *)
(* payloads and two possible responses.                                    *)
EXTENDS IdempotentRequests

CONSTANTS w1, w2, w3, k1, h1, h2, r1, r2
=============================================================================
