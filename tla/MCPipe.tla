------------------------------- MODULE MCPipe -------------------------------
(* One process has both ends of a four-byte pipe, one only reads and one   *)
(* only writes.                                                            *)
EXTENDS Pipe, TLC

CONSTANTS both, reader, writer

Inherit == (both :> {"r", "w"}) @@ (reader :> {"r"}) @@ (writer :> {"w"})
=============================================================================
