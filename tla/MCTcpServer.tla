---------------------------- MODULE MCTcpServer ----------------------------
(* Instances of TcpServer for TLC.                                         *)
EXTENDS TcpServer, TLC

CONSTANTS s1, s2, l1, l2

\* One server with two io threads.
TwoThreads == s1 :> <<l1, l2>>

\* Two servers, one with an io thread.
TwoServers == s1 :> <<l1>> @@ s2 :> <<>>
=============================================================================
