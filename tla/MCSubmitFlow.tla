---------------------------- MODULE MCSubmitFlow ----------------------------
EXTENDS SubmitFlow
=============================================================================
