------------------------------ MODULE MCPaths ------------------------------
EXTENDS Paths
=============================================================================
