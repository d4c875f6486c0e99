----------------------------- MODULE MC_LiveFeed -----------------------------
(* Small feeds for TLC: two rows, two write requests in flight.             *)
EXTENDS LiveFeed, TLC

CONSTANTS a, b, p, q

FeedSym == Permutations({a, b}) \cup Permutations({p, q})
=============================================================================
