------------------------ MODULE MCAdaptationCommand -------------------------
EXTENDS AdaptationCommand, TLC

CONSTANTS P1, P2
=============================================================================
