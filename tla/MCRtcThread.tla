---------------------------- MODULE MCRtcThread ----------------------------
EXTENDS RtcThread

MCHome == [h \in Handler |-> IF h = "hs" THEN "signaling" ELSE "worker"]
=============================================================================
