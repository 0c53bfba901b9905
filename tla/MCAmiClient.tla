----------------------------- MODULE MCAmiClient -----------------------------
EXTENDS AmiClient, TLC

CONSTANTS originate, list, hangup
=============================================================================
