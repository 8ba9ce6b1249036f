---------------------------- MODULE MCAuthService -----------------------------
EXTENDS AuthService, TLC
=============================================================================
