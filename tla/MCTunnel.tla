------------------------------ MODULE MCTunnel ------------------------------
EXTENDS TunnelProperties
=============================================================================
