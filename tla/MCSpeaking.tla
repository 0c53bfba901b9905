------------------------------ MODULE MCSpeaking ------------------------------
EXTENDS SpeakingState

CONSTANT p1
=============================================================================
