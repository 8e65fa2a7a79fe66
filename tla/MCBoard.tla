------------------------------ MODULE MCBoard -------------------------------
EXTENDS Board, TLC

=============================================================================
