--------------------------- MODULE MCHttpFetcher ---------------------------
(* Small instances of HttpFetcher: calls that share a fetcher, and calls   *)
(* that each have one.                                                     *)
EXTENDS HttpFetcher, TLC

CONSTANTS g1, g2, g3, g4, g5, shared, example

OneLimiter == [c \in Calls |-> shared]
LimiterEach == [c \in Calls |-> c]
OneHost == [c \in Calls |-> example]

(* One retry, except for g5, whose fetcher has max_retries = -1 .          *)
OneRetry == [c \in Calls |-> IF c = g5 THEN -1 ELSE 1]
=============================================================================
