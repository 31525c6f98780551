--------------------------- MODULE MCLootGenerator ---------------------------
\* Three dogs, a ticker that is up to one unit late, and a generator whose
\* single missing item needs two ticks.
EXTENDS LootGenerator
=============================================================================
