---------------------------- MODULE MCBuildGuests ----------------------------
EXTENDS BuildGuests, TLC

MCGuests == <<"g1", "g2">>

=============================================================================
