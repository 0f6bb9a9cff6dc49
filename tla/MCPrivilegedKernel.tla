--------------------------- MODULE MCPrivilegedKernel ---------------------------
EXTENDS PrivilegedKernel
=============================================================================
