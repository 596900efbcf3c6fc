-------------------------- MODULE MCWorkGraphSpec --------------------------
\* Bounds for WorkGraphSpec.cfg: four milestone ids are enough for a chain,
\* a diamond, an id that is removed and reused, and a reopened dependency.
EXTENDS WorkGraphSpec
=============================================================================
