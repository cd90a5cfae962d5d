--------------------------- MODULE ConnectionLife ---------------------------
(***************************************************************************)
(* What a TcpConnection promises to its user and to its server, whichever  *)
(* threads call its methods: it is established once, at most shut down,    *)
(* and closed once, on_connection_ is called at the first and at the last  *)
(* of these, and the server forgets it only when it is closed, or when the *)
(* server itself is being destroyed.                                       *)
(***************************************************************************)
EXTENDS Naturals

VARIABLES
  state,    \* state_
  calls,    \* how often on_connection_ was called
  entry,    \* the server's map has, or is to have, the connection
  serving   \* the server is not being destroyed

vars == <<state, calls, entry, serving>>

Init ==
  /\ state = "Connecting" /\ calls = 0
  /\ entry = TRUE /\ serving = TRUE

Establish ==
  /\ state = "Connecting" /\ state' = "Connected"
  /\ calls' = calls + 1
  /\ UNCHANGED <<entry, serving>>

Shutdown ==
  /\ state = "Connected" /\ state' = "Disconnecting"
  /\ UNCHANGED <<calls, entry, serving>>

\* The server may forget the connection in the same step.
Close ==
  /\ state \in {"Connected", "Disconnecting"} /\ state' = "Disconnected"
  /\ calls' = calls + 1
  /\ entry' \in {entry, FALSE}
  /\ UNCHANGED serving

Forget ==
  /\ entry /\ entry' = FALSE
  /\ serving => state = "Disconnected"
  /\ UNCHANGED <<state, calls, serving>>

EndServing ==
  /\ serving /\ serving' = FALSE
  /\ UNCHANGED <<state, calls, entry>>

Next == Establish \/ Shutdown \/ Close \/ Forget \/ EndServing

Spec == Init /\ [][Next]_vars
=============================================================================
