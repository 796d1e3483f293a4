----------------------------- MODULE MCStartTLS -----------------------------
(* Every protocol, banners of up to Banner lines and streams without end.  *)
EXTENDS StartTLS

AllProtocols == StartTLSProtocols \cup Proxied
=============================================================================
