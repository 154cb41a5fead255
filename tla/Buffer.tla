------------------------------- MODULE Buffer -------------------------------
(***************************************************************************)
(* netier's Buffer: bytes between the socket and the application.  Callers *)
(* grow it with getWriter, let the kernel or fread store what there is     *)
(* behind the old contents, and give the rest back with shrink.            *)
(***************************************************************************)
EXTENDS Integers, Sequences

getWriter(b, size) == b \o [i \in 1 .. size |-> 0]

\* What the buffer holds after data was stored where getWriter(size) pointed.
Stored(b, size, data) ==
  LET start == Len(b) - size
  IN  [i \in 1 .. Len(b) |->
         IF i > start /\ i <= start + Len(data) THEN data[i - start] ELSE b[i]]

\* Mutant of shrink: one byte too many is kept.
shrink_KeepsOne(b, size) == SubSeq(b, 1, Len(b) - (IF size > 1 THEN size - 1 ELSE size))

shrink(b, size) == SubSeq(b, 1, Len(b) - size)

put(b, data) == b \o data

\* Mutant of moveReadCursor: what was not written is dropped as well.
moveReadCursor_Clears(b, size) == <<>>

moveReadCursor(b, size) == SubSeq(b, size + 1, Len(b))

\* getWriter, a read of data and shrink, as the readers use them.
Received(b, size, data) ==
  shrink(Stored(getWriter(b, size), size, data), size - Len(data))
=============================================================================
