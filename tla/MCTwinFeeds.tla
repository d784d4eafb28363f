----------------------------- MODULE MCTwinFeeds -----------------------------
EXTENDS TwinFeeds, TLC

Permuted == Permutations(Caller) \union Permutations(Request) \union Permutations(System)
=============================================================================
