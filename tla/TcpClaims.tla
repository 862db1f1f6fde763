----------------------------- MODULE TcpClaims ------------------------------
(***************************************************************************)
(* What a handout says of the TCP test server and the code does not keep:  *)
(* the property of a run that TLC refutes.                                 *)
(***************************************************************************)
EXTENDS TcpTransfer

\* "The server never terminates, as it may have to serve several clients": a
\* send to a client that has gone raises SIGPIPE, which ends the server.
NeverTerminates == server # "killed"

=============================================================================
