------------------------------ MODULE MCLimiter ------------------------------
\* Limiter for TLC.
EXTENDS Limiter
=============================================================================
