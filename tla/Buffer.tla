------------------------------- MODULE Buffer -------------------------------
(***************************************************************************)
(* benet::Buffer: a vector of bytes with a reader and a writer index.      *)
(* Positions are the code's, counted from 0: the byte at position p is     *)
(* data[p + 1].                                                            *)
(***************************************************************************)
EXTENDS IntCodec

CONSTANTS
  Data,           \* byte strings written to the buffer
  Widths,         \* sizes of the integer types read and written
  Numbers,        \* integers written to the buffer
  kCRLF,          \* the two bytes CR and LF
  kCheapPrepend, kInitialSize, kExtraBufSize,
  SizeMax         \* bound: the vector does not grow beyond this size

ASSUME BufferAssumption ==
  /\ Radix \in Nat /\ Radix > 1
  /\ Widths \subseteq Nat \ {0} /\ Numbers \subseteq Int
  /\ kCRLF \in Seq(Byte) /\ Len(kCRLF) = 2
  /\ Data \subseteq Seq(Byte)
  /\ kCheapPrepend \in Nat /\ kInitialSize \in Nat /\ kExtraBufSize \in Nat
  /\ SizeMax \in Nat

VARIABLES
  buffer,   \* [data: buffer_, r: reader_index_, w: writer_index_]
  result    \* what the last RetrieveAsString or (one number) RetrieveAsInt returned

vars == <<buffer, result>>

-----------------------------------------------------------------------------
ReadableBytes(b)    == b.w - b.r
WritableBytes(b)    == Len(b.data) - b.w
PrependableBytes(b) == b.r

\* The readable bytes, from Peek() to begin_write().
Content(b) == [i \in 1 .. ReadableBytes(b) |-> b.data[b.r + i]]

\* std::copy(d.begin(), d.end(), data + at).
CopyTo(data, at, d) ==
  [i \in 1 .. Len(data) |-> IF at < i /\ i <= at + Len(d) THEN d[i - at] ELSE data[i]]

\* data.resize(n) for n at least its size.
Resize(data, n) == [i \in 1 .. n |-> IF i <= Len(data) THEN data[i] ELSE 0]

First(d, n)     == [i \in 1 .. n |-> d[i]]
DropFirst(d, n) == [i \in 1 .. Len(d) - n |-> d[n + i]]

\* Whether make_space finds the room by moving the content to the front.
RoomInside(b, len) == WritableBytes(b) + PrependableBytes(b) >= len + kCheapPrepend

make_space(b, len) ==
  IF ~RoomInside(b, len)
  THEN [b EXCEPT !.data = Resize(@, b.w + len)]
  ELSE [data |-> CopyTo(b.data, kCheapPrepend, Content(b)),
        r    |-> kCheapPrepend,
        w    |-> kCheapPrepend + ReadableBytes(b)]

\* Mutant: off by one.
EnsureWriteableBytesOff(b, len) ==
  IF len > WritableBytes(b) + 1 THEN make_space(b, len) ELSE b

EnsureWriteableBytes(b, len) ==
  IF len > WritableBytes(b) THEN make_space(b, len) ELSE b

\* Buffer::Append.
Appended(b, d) ==
  LET e == EnsureWriteableBytes(b, Len(d))
  IN  [e EXCEPT !.data = CopyTo(@, e.w, d), !.w = @ + Len(d)]

\* Mutant: extra_buf is taken to hold all the bytes that readv returned.
ReadFromAll(b, d) ==
  LET n == IF Len(d) <= WritableBytes(b) THEN Len(d) ELSE WritableBytes(b)
      in == [b EXCEPT !.data = CopyTo(@, b.w, First(d, n)), !.w = @ + n]
  IN  IF Len(d) <= WritableBytes(b) THEN in ELSE Appended(in, d)

\* ReadFd when readv returned the bytes d: it fills the writable part first and
\* puts the rest into extra_buf, which is then appended.
ReadFrom(b, d) ==
  LET n == IF Len(d) <= WritableBytes(b) THEN Len(d) ELSE WritableBytes(b)
      in == [b EXCEPT !.data = CopyTo(@, b.w, First(d, n)), !.w = @ + n]
  IN  IF Len(d) <= WritableBytes(b) THEN in ELSE Appended(in, DropFirst(d, n))

\* What one readv can return at most.
ReadMax(b) ==
  WritableBytes(b) + (IF WritableBytes(b) < kExtraBufSize THEN kExtraBufSize ELSE 0)

\* Buffer::Prepend: std::copy_backward ends at the read position.
Prepended(b, d) == [b EXCEPT !.data = CopyTo(@, b.r - Len(d), d), !.r = @ - Len(d)]

PeekInt(b, n) == Decode(First(Content(b), n))

\* Mutant: searches the whole vector behind start.
FindStale(b, start, pattern) ==
  LET At(p) == \A i \in 1 .. Len(pattern) : b.data[p + i] = pattern[i]
      hits  == {p \in start .. Len(b.data) - Len(pattern) : At(p)}
  IN  {p \in hits : \A q \in hits : p <= q}

\* memmem and memchr from start to begin_write(): the set of the first position
\* where pattern begins, empty for the null pointer.
Find(b, start, pattern) ==
  LET At(p) == \A i \in 1 .. Len(pattern) : b.data[p + i] = pattern[i]
      hits  == {p \in start .. b.w - Len(pattern) : At(p)}
  IN  {p \in hits : \A q \in hits : p <= q}

FindCRLF(b, start) == Find(b, start, kCRLF)
FindEOL(b, start)  == Find(b, start, <<kCRLF[2]>>)

-----------------------------------------------------------------------------
Init ==
  /\ buffer = [data |-> [i \in 1 .. kCheapPrepend + kInitialSize |-> 0],
               r |-> kCheapPrepend, w |-> kCheapPrepend]
  /\ result = <<>>

Fits(b) == Len(b.data) <= SizeMax

Append_(d) ==
  /\ buffer' = Appended(buffer, d) /\ Fits(buffer')
  /\ UNCHANGED result

ReadFd(d) ==
  /\ Len(d) <= ReadMax(buffer)
  /\ buffer' = ReadFrom(buffer, d) /\ Fits(buffer')
  /\ UNCHANGED result

\* Its assert is the caller's obligation.
Prepend(d) ==
  /\ Len(d) <= PrependableBytes(buffer)
  /\ buffer' = Prepended(buffer, d)
  /\ UNCHANGED result

\* The assert is the caller's obligation, here and in the ones below.
Retrieve(n) ==
  /\ n <= ReadableBytes(buffer)
  /\ buffer' = [buffer EXCEPT !.r = @ + n]
  /\ UNCHANGED result

\* A pointer that FindCRLF or FindEOL returned is passed to RetrieveUntil.
RetrieveUntil(end) ==
  /\ buffer.r <= end /\ end <= buffer.w
  /\ Retrieve(end - buffer.r)

RetrieveAsString(n) ==
  /\ n <= ReadableBytes(buffer)
  /\ result' = First(Content(buffer), n)
  /\ buffer' = [buffer EXCEPT !.r = @ + n]

RetrieveAsInt(n) ==
  /\ n <= ReadableBytes(buffer)
  /\ result' = <<PeekInt(buffer, n)>>
  /\ buffer' = [buffer EXCEPT !.r = @ + n]

AppendInt(v, n)  == v \in Ints(n) /\ Append_(Encode(v, n))
PrependInt(v, n) == v \in Ints(n) /\ Prepend(Encode(v, n))

RetrieveAll ==
  /\ buffer' = [buffer EXCEPT !.r = kCheapPrepend, !.w = kCheapPrepend]
  /\ UNCHANGED result

Next ==
  \/ \E d \in Data : Append_(d) \/ ReadFd(d) \/ Prepend(d)
  \/ \E n \in Widths : \/ RetrieveAsInt(n)
                      \/ \E v \in Numbers : AppendInt(v, n) \/ PrependInt(v, n)
  \/ \E n \in 0 .. ReadableBytes(buffer) : Retrieve(n) \/ RetrieveAsString(n)
  \/ \E start \in buffer.r .. buffer.w :
       \E end \in FindCRLF(buffer, start) \cup FindEOL(buffer, start) : RetrieveUntil(end)
  \/ RetrieveAll

Spec == Init /\ [][Next]_vars

-----------------------------------------------------------------------------
(* Properties.                                                             *)

TypeOK ==
  /\ buffer \in [data : Seq(Byte), r : Nat, w : Nat]
  /\ result \in Seq(Int)

\* The class diagram: 0 <= reader_index_ <= writer_index_ <= buffer_.size().
\* Beyond it, the gap of kCheapPrepend bytes RetrieveAll returns to exists.
IndexOrder ==
  /\ 0 <= buffer.r /\ buffer.r <= buffer.w /\ buffer.w <= Len(buffer.data)
  /\ kCheapPrepend <= Len(buffer.data)

\* Whenever make_space moves the content inside the vector it moves it towards
\* the front: std::copy must not start writing inside the range it reads.
MovesForward ==
  \A d \in Data :
    Len(d) > WritableBytes(buffer) /\ RoomInside(buffer, Len(d)) => kCheapPrepend < buffer.r

\* RetrieveUntil with the pointer FindCRLF(start) returned keeps its asserts and
\* takes whole lines: a CRLF is at the front of what it leaves, and none lies in
\* what it takes from start on.
LinesWhole ==
  LET c == Content(buffer) IN
    \A start \in buffer.r .. buffer.w : \A end \in FindCRLF(buffer, start) :
      LET n == end - buffer.r IN
        /\ start <= end /\ end + 2 <= buffer.w
        /\ First(DropFirst(c, n), 2) = kCRLF
        /\ \A i \in 1 + start - buffer.r .. n : <<c[i], c[i + 1]>> # kCRLF

\* An integer written in front of the content, or into an empty buffer, is the
\* one PeekInt reads back, negative ones and the ends of the range included.
IntRoundTrip ==
  \A n \in Widths : \A v \in Numbers \cap Ints(n) :
    /\ n <= PrependableBytes(buffer) => PeekInt(Prepended(buffer, Encode(v, n)), n) = v
    /\ ReadableBytes(buffer) = 0 => PeekInt(Appended(buffer, Encode(v, n)), n) = v

\* The Buffer implements the byte queue, wherever the content lies in the vector
\* and however Append, Prepend, ReadFd and Retrieve move and reallocate it.
Queue == INSTANCE ByteQueue WITH content <- Content(buffer), result <- result
ImplementsQueue == Queue!Spec
=============================================================================
