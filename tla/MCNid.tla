------------------------------- MODULE MCNid -------------------------------
EXTENDS Nid
=============================================================================
