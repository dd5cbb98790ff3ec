----------------------------- MODULE MCUdpEcho ------------------------------
EXTENDS UdpEcho, TLC
MCTerms == {-1, 1, 3, 4}
=============================================================================
