--------------------------- MODULE MCSqliteStore ---------------------------
EXTENDS SqliteStore, TLC

CONSTANTS t1, t2, h1, h2

\* Two threads that share one handle.
OneHandle == (t1 :> h1) @@ (t2 :> h1)

\* Two threads with a handle each on the same file.
TwoHandles == (t1 :> h1) @@ (t2 :> h2)

Symmetry == Permutations(Keys)
=============================================================================
