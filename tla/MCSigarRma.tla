----------------------------- MODULE MCSigarRma -----------------------------
\* An instance of SigarRma for TLC.
EXTENDS SigarRma

MCStdRates == <<0, 2>>
=============================================================================
