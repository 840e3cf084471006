------------------------------ MODULE MCFileTree ------------------------------
EXTENDS FileTree, TLC

\* Ids, names and requests are interchangeable; the root is not.
Alike == Permutations(Dirs \ {Root}) \cup Permutations(Files)
           \cup Permutations(Names) \cup Permutations(Handlers)
=============================================================================
