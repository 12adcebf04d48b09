------------------------------ MODULE MCPrePass ------------------------------
EXTENDS PrePass, TLC

MCOrder == <<"m1", "m2", "m3">>

=============================================================================
