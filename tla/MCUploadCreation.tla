--------------------------- MODULE MCUploadCreation ---------------------------
EXTENDS UploadCreation
=============================================================================
