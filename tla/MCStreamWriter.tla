---------------------------- MODULE MCStreamWriter ----------------------------
(* Two concurrent Close callers; two Writes of up to two bytes are enough   *)
(* for a Write to be cut short between its bytes.                           *)
EXTENDS StreamWriter
CONSTANTS k1, k2
MCClosers == {k1, k2}
=============================================================================
