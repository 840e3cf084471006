--------------------------- MODULE MCBlobReferences ---------------------------
EXTENDS BlobReferences, TLC

\* Ids, keys and editors are interchangeable.
Alike == Permutations(Files) \cup Permutations(Keys) \cup Permutations(Editors)
===============================================================================
