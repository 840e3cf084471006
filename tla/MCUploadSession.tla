--------------------------- MODULE MCUploadSession ---------------------------
EXTENDS UploadSession, TLC

\* Clients and payloads are interchangeable; the maintenance worker is not.
Symmetry == Permutations(Clients) \cup Permutations(Contents) \cup Permutations(Parts)
=============================================================================
