---------------------------- MODULE MCStreamBridge ----------------------------
EXTENDS StreamBridge
=============================================================================
