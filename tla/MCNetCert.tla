----------------------------- MODULE MCNetCert -----------------------------
EXTENDS NetCert
=============================================================================
