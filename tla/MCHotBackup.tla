---------------------------- MODULE MCHotBackup ----------------------------
EXTENDS HotBackup
=============================================================================
