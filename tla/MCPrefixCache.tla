--------------------------- MODULE MCPrefixCache ---------------------------
EXTENDS PrefixCache, TLC

CONSTANTS a, b

Hybrid == <<"rec", "kv">>
AttentionOnly == <<"kv">>

Symmetry == Permutations(Tokens)
=============================================================================
