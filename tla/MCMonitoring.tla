---------------------------- MODULE MCMonitoring ----------------------------
EXTENDS Monitoring
=============================================================================
