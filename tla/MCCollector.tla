---------------------------- MODULE MCCollector ----------------------------
(* Small instances of Collector: which targets there are, what a crawl can *)
(* select and what a fetch can return.                                     *)
EXTENDS Collector, TLC

CONSTANTS p1, p2, p3, board, page, a, b

(* Two sources of two adapters, and crawls of none, one or both.           *)
TwoAdapters == (board :> "greenhouse") @@ (page :> "custom_page")
TwoCursors == (board :> "instant") @@ (page :> "none")
NoneOneOrBoth == {<<>>, <<board>>, <<page, board>>}

(* Two careers pages of one adapter.                                       *)
OneAdapter == (board :> "custom_page") @@ (page :> "custom_page")
NoCursors == (board :> "none") @@ (page :> "none")
EitherPage == {<<board>>, <<page>>}

(* One source whose cursors are timestamps.                                *)
BoardAdapter == board :> "greenhouse"
BoardCursor == board :> "instant"
OnlyBoard == {<<board>>}

RepeatListings == {<<>>, <<a, b, a>>}

OneListing == {<<a>>}
EmptyListing == {<<>>}
=============================================================================
