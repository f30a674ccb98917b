----------------------------- MODULE MCServers ------------------------------
(* Model-checking instances of Servers.                                    *)
EXTENDS Servers
=============================================================================
