--------------------------- MODULE MCEtcdOperator ---------------------------
EXTENDS EtcdOperator
=============================================================================
