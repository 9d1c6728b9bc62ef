----------------------------- MODULE MCByteRanges -----------------------------
EXTENDS ByteRanges
=============================================================================
