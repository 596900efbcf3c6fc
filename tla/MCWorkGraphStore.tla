------------------------- MODULE MCWorkGraphStore --------------------------
\* Two writers race for the lock; two milestone ids are enough for an
\* addition with a dependency, a status change and a removal to conflict.
EXTENDS WorkGraphStore
=============================================================================
