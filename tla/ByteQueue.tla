------------------------------ MODULE ByteQueue ------------------------------
(***************************************************************************)
(* What a Buffer promises: a sequence of bytes that grows at either end    *)
(* and is consumed at the front.                                           *)
(***************************************************************************)
EXTENDS IntCodec

CONSTANTS
  Data,      \* the byte strings its users write
  Widths,    \* sizes of the integers they read and write
  Numbers

VARIABLES
  content,   \* the readable bytes
  result     \* what the last call that returns content returned

vars == <<content, result>>

First(s, n)     == [i \in 1 .. n |-> s[i]]
DropFirst(s, n) == [i \in 1 .. Len(s) - n |-> s[n + i]]

Init == content = <<>> /\ result = <<>>

Write(d)   == content' = content \o d /\ UNCHANGED result
Prepend(d) == content' = d \o content /\ UNCHANGED result
Consume(n) ==
  /\ content' = DropFirst(content, n)
  /\ result' \in {result, First(content, n)}
ConsumeInt(n) ==
  /\ content' = DropFirst(content, n)
  /\ result' = <<Decode(First(content, n))>>

Next ==
  \/ \E d \in Data \cup {Encode(v, n) : v \in Numbers, n \in Widths} : Write(d) \/ Prepend(d)
  \/ \E n \in Widths : n <= Len(content) /\ ConsumeInt(n)
  \/ \E n \in 0 .. Len(content) : Consume(n)

Spec == Init /\ [][Next]_vars
=============================================================================
