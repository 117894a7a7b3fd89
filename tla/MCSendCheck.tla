----------------------------- MODULE MCSendCheck -----------------------------
EXTENDS SendCheck
=============================================================================
