----------------------------- MODULE MCBackupMode -----------------------------
(* A small instance of BackupMode by itself: two maintenance jobs at a time.  *)
EXTENDS BackupMode

CONSTANTS s1, s2
=============================================================================
