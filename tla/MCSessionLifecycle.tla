------------------------- MODULE MCSessionLifecycle -------------------------
(* Small instances of SessionLifecycle for TLC. *)
EXTENDS SessionLifecycle

AllMessages == Messages

\* The messages that lead to streaming, and the host's own stop.
StreamingMessages == {"ServerHandshake", "AuthOK", "NegotiationSetConfig", "StopRequest"}
=============================================================================
