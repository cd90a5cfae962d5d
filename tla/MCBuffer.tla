------------------------------ MODULE MCBuffer ------------------------------
(***************************************************************************)
(* A small instance of Buffer: a vector of at most 5 two-valued bytes,     *)
(* written with strings of up to 3 bytes and integers of 1 and 2, so that  *)
(* every branch of make_space and ReadFd is taken with content at either   *)
(* end of the vector.                                                      *)
(***************************************************************************)
EXTENDS Buffer

Strings == {<<1>>, <<1, 0, 1>>}
TwoWide == -2 .. 1
CRLF    == <<1, 0>>
=============================================================================
