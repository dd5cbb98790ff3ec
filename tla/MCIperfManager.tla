-------------------------- MODULE MCIperfManager ---------------------------
EXTENDS IperfManager, TLC
=============================================================================
