----------------------------- MODULE MCEtcdDriver ---------------------------
EXTENDS EtcdDriver
=============================================================================
