--------------------------- MODULE MCCoreLending ---------------------------
\* Two threads, one follower: enough to lend it, and to use it while lent.
EXTENDS CoreLending
=============================================================================
