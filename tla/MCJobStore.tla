----------------------------- MODULE MCJobStore -----------------------------
(* Small instances of JobStore: a shared posting and one of a single crawl. *)
EXTENDS JobStore, TLC

CONSTANTS c1, c2, w1, k1, k2, board, page

MCSource == (k1 :> board) @@ (k2 :> page)
MCKeysOf == [c \in Crawlers |-> IF c = c1 THEN {k1} ELSE {k1, k2}]
=============================================================================
