------------------------------ MODULE MCPiRpc ------------------------------
EXTENDS PiRpc

CONSTANTS r1, u1, n1, k1
============================================================================
