---- MODULE MCUploadLocks ----
EXTENDS UploadLocks
====
