-------------------------- MODULE MCServiceRegistry ---------------------------
EXTENDS ServiceRegistry
=============================================================================
