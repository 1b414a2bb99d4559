---------------------------- MODULE MCTmDownlink ----------------------------
EXTENDS TmDownlink
=============================================================================
