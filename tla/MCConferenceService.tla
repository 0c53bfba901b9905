------------------------ MODULE MCConferenceService ------------------------
EXTENDS ConferenceService, TLC
=============================================================================
