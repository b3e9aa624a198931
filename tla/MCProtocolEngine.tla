-------------------------- MODULE MCProtocolEngine --------------------------
(* A phone or an extension and its server, from the handshake to a probe,  *)
(* or to an RPC before it.                                                 *)
EXTENDS ProtocolEngine
=============================================================================
