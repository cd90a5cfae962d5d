--------------------------- MODULE MCTcpConnection ---------------------------
(***************************************************************************)
(* Small instances of TcpConnection for TLC.                               *)
(***************************************************************************)
EXTENDS TcpConnection

CONSTANT m1

\* A message longer than the kernel's buffer and one that fits.
Lengths == [m \in Messages |-> IF m = m1 THEN 2 ELSE 1]
=============================================================================
