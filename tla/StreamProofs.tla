---------------------------- MODULE StreamProofs ----------------------------
(***************************************************************************)
(* Proofs about Stream, for any size of the reader's buffer, any room in   *)
(* the kernel, any calls the application makes and any amount of bytes.    *)
(***************************************************************************)
EXTENDS Stream, SequenceTheorems, TLAPS

USE StreamAssumption

------------------------------------------------------------------------------
\* What Buffer's operations make of the bytes.

\* Neighbouring runs of bytes join.
LEMMA BytesJoin ==
  ASSUME NEW from \in Nat \ {0}, NEW mid \in Nat, NEW to \in Nat,
         from <= mid + 1, mid <= to
  PROVE  Bytes(from, mid) \o Bytes(mid + 1, to) = Bytes(from, to)
  <1> DEFINE a == Bytes(from, mid)  b == Bytes(mid + 1, to)  c == Bytes(from, to)
  <1>1. a \in Seq(Nat) /\ Len(a) = mid - from + 1
        /\ \A i \in 1 .. Len(a) : a[i] = from + i - 1
    BY DEF Bytes
  <1>2. b \in Seq(Nat) /\ Len(b) = to - mid
        /\ \A i \in 1 .. Len(b) : b[i] = mid + i
    BY DEF Bytes
  <1>3. c \in Seq(Nat) /\ Len(c) = to - from + 1
        /\ \A i \in 1 .. Len(c) : c[i] = from + i - 1
    BY DEF Bytes
  <1> HIDE DEF a, b, c
  <1>4. a \o b \in Seq(Nat) /\ Len(a \o b) = Len(c)
    BY <1>1, <1>2, <1>3, ConcatProperties
  <1>5. ASSUME NEW i \in 1 .. Len(c) PROVE (a \o b)[i] = c[i]
    <2>1. i \in 1 .. Len(a) + Len(b) /\ i \in Nat
      BY <1>1, <1>2, <1>3
    <2>2. (a \o b)[i] = IF i <= Len(a) THEN a[i] ELSE b[i - Len(a)]
      BY <1>1, <1>2, <2>1, ConcatProperties
    <2>3. CASE i <= Len(a)
      BY <1>1, <1>3, <2>1, <2>2, <2>3
    <2>4. CASE i > Len(a)
      <3>1. i - Len(a) \in 1 .. Len(b)
        BY <1>1, <1>2, <2>1, <2>4
      <3> QED
        BY <1>1, <1>2, <1>3, <2>2, <2>4, <3>1
    <2> QED
      BY <1>1, <2>1, <2>3, <2>4
  <1>6. a \o b = c
    BY <1>3, <1>4, <1>5, SeqEqual
  <1> QED
    BY <1>6 DEF a, b, c

\* A part of a run of bytes is a run of bytes.
LEMMA BytesPart ==
  ASSUME NEW from \in Nat \ {0}, NEW to \in Nat, from <= to + 1,
         NEW m \in Nat \ {0}, NEW k \in Nat, m <= k + 1, k <= to - from + 1
  PROVE  SubSeq(Bytes(from, to), m, k) = Bytes(from + m - 1, from + k - 1)
  <1> DEFINE a == Bytes(from, to)  b == SubSeq(a, m, k)  c == Bytes(from + m - 1, from + k - 1)
             n == k - m + 1
  <1>1. a \in Seq(Nat) /\ Len(a) = to - from + 1
        /\ \A i \in 1 .. Len(a) : a[i] = from + i - 1
    BY DEF Bytes
  <1>2. c \in Seq(Nat) /\ Len(c) = n /\ \A i \in 1 .. n : c[i] = from + m + i - 2
    BY DEF Bytes
  <1> HIDE DEF a, c
  <1>3. b \in Seq(Nat) /\ Len(b) = n /\ \A i \in 1 .. n : b[i] = a[m + i - 1]
    BY <1>1, SubSeqProperties
  <1> HIDE DEF b
  <1>4. ASSUME NEW i \in 1 .. n PROVE b[i] = c[i]
    <2>1. m + i - 1 \in 1 .. Len(a)
      BY <1>1
    <2>2. b[i] = a[m + i - 1] /\ a[m + i - 1] = from + (m + i - 1) - 1
      BY <1>1, <1>3, <2>1
    <2> QED
      BY <1>2, <2>2
  <1>5. b = c
    BY <1>2, <1>3, <1>4, SeqEqual
  <1> QED
    BY <1>5 DEF a, b, c

\* getWriter, the store behind the old contents and shrink append the data, as
\* long as no more was stored than asked for.
LEMMA ReceivedAppends ==
  ASSUME NEW b \in Seq(Nat), NEW size \in Nat, NEW data \in Seq(Nat), Len(data) <= size
  PROVE  Received(b, size, data) = b \o data
  <1> DEFINE room == [i \in 1 .. size |-> 0]  g == b \o room
             start == Len(b)
             st == Stored(g, size, data)
             n == Len(b) + Len(data)
  <1>1. room \in Seq(Nat) /\ Len(room) = size
    OBVIOUS
  <1>2. g \in Seq(Nat) /\ Len(g) = Len(b) + size
        /\ \A i \in 1 .. Len(b) : g[i] = b[i]
    BY <1>1, ConcatProperties
  <1>3. Len(b) \in Nat /\ Len(data) \in Nat
    OBVIOUS
  <1> HIDE DEF room, g
  <1>0. Len(g) - size = start
    BY <1>2, <1>3
  <1>4. st = [i \in 1 .. Len(g) |->
               IF i > start /\ i <= start + Len(data) THEN data[i - start] ELSE g[i]]
    BY <1>0 DEF Stored
  <1>5. Len(g) \in Nat
    BY <1>2, <1>3
  <1>6. \A i \in 1 .. Len(g) :
          (IF i > start /\ i <= start + Len(data) THEN data[i - start] ELSE g[i]) \in Nat
    BY <1>2, <1>3
  <1>7. st \in Seq(Nat) /\ Len(st) = Len(g)
    BY <1>4, <1>5, <1>6
  <1>8. \A i \in 1 .. n : st[i] = IF i <= Len(b) THEN b[i] ELSE data[i - Len(b)]
    BY <1>2, <1>3, <1>4
  <1> HIDE DEF st
  <1>9. shrink(st, size - Len(data)) = SubSeq(st, 1, n)
    BY <1>2, <1>3, <1>7 DEF shrink
  <1>10. /\ SubSeq(st, 1, n) \in Seq(Nat) /\ Len(SubSeq(st, 1, n)) = n
         /\ \A i \in 1 .. n : SubSeq(st, 1, n)[i] = st[i]
    <2>1. n \in Nat /\ n <= Len(st) /\ \A i \in 1 .. n : st[i] \in Nat
      BY <1>2, <1>3, <1>7
    <2> HIDE DEF n
    <2> QED
      BY <1>7, <2>1
  <1>11. /\ b \o data \in Seq(Nat) /\ Len(b \o data) = n
         /\ \A i \in 1 .. n : (b \o data)[i] = IF i <= Len(b) THEN b[i] ELSE data[i - Len(b)]
    BY <1>3, ConcatProperties
  <1>12. SubSeq(st, 1, n) = b \o data
    <2> HIDE DEF n
    <2>1. \A i \in 1 .. n : SubSeq(st, 1, n)[i] = (b \o data)[i]
      BY <1>8, <1>10, <1>11
    <2> QED
      BY <1>10, <1>11, <2>1, SeqEqual
  <1> QED
    BY <1>9, <1>12 DEF Received, getWriter, st, g, room

\* What is taken from the front and what the cursor leaves are the whole.
LEMMA TakeRest ==
  ASSUME NEW s \in Seq(Nat), NEW n \in 0 .. Len(s)
  PROVE  /\ Take(n, s) \in Seq(Nat) /\ Len(Take(n, s)) = n
         /\ moveReadCursor(s, n) \in Seq(Nat) /\ Len(moveReadCursor(s, n)) = Len(s) - n
         /\ Take(n, s) \o moveReadCursor(s, n) = s
  <1>1. Len(s) \in Nat /\ n \in Nat /\ \A i \in 1 .. Len(s) : s[i] \in Nat
    OBVIOUS
  <1>2. Take(n, s) \in Seq(Nat) /\ Len(Take(n, s)) = n
    BY <1>1, SubSeqProperties DEF Take
  <1>3. moveReadCursor(s, n) \in Seq(Nat) /\ Len(moveReadCursor(s, n)) = Len(s) - n
    BY <1>1, SubSeqProperties DEF moveReadCursor
  <1>4. SubSeq(s, 1, n) \o SubSeq(s, n + 1, Len(s)) = SubSeq(s, 1, Len(s))
    <2>1. /\ 1 \in 1 .. Len(s) + 1 /\ n \in 1 - 1 .. Len(s)
          /\ Len(s) \in n .. Len(s)
      BY <1>1
    <2> QED
      BY <2>1, ConcatAdjacentSubSeq
  <1>5. SubSeq(s, 1, Len(s)) = s
    BY SubSeqFull
  <1> QED
    BY <1>2, <1>3, <1>4, <1>5 DEF Take, moveReadCursor

------------------------------------------------------------------------------
\* The kernel takes a first part of the data, and never more than it has room
\* for.
LEMMA WritesFirst ==
  ASSUME TypeOK, NEW data \in Seq(Nat), NEW n \in 1 .. Len(data), Writes(data, n)
  PROVE  /\ snd' = snd \o Take(n, data)
         /\ snd' \in Seq(Nat)
         /\ Len(snd') <= SndCap
  <1>1. n <= SndCap - Len(snd) /\ n \in 0 .. Len(data)
    BY DEF Writes, Smaller, TypeOK
  <1>2. Take(n, data) \in Seq(Nat) /\ Len(Take(n, data)) = n
    BY <1>1, TakeRest
  <1>3. snd' = snd \o Take(n, data)
    BY DEF Writes
  <1> QED
    BY <1>1, <1>2, <1>3, ConcatProperties DEF TypeOK

\* What a turn of handleReadableEvent takes off the queue.
LEMMA ReadFirst ==
  ASSUME NEW s \in Seq(Nat)
  PROVE  LET n == Smaller(read_buf_size, Len(s)) IN
         /\ n \in 0 .. Len(s) /\ n <= read_buf_size
         /\ Take(n, s) \in Seq(Nat) /\ Len(Take(n, s)) = n
         /\ Take(n, s) = <<>> => s = <<>>
  <1> DEFINE n == Smaller(read_buf_size, Len(s))
  <1>1. n \in 0 .. Len(s) /\ n <= read_buf_size /\ (n = 0 => Len(s) = 0)
    BY DEF Smaller
  <1>2. Take(n, s) \in Seq(Nat) /\ Len(Take(n, s)) = n
    BY <1>1, TakeRest
  <1>3. ASSUME Take(n, s) = <<>> PROVE s = <<>>
    BY <1>1, <1>2, <1>3
  <1> QED
    BY <1>1, <1>2, <1>3

\* The turn of handleReadableEvent as a whole.
LEMMA ReadTurn ==
  ASSUME TypeOK, handleReadableEvent
  PROVE  \E data \in Seq(Nat) :
           /\ rx \in Seq(Nat) /\ rx' \in Seq(Nat) /\ data \o rx' = rx
           /\ buffer' = buffer \o data
           /\ \/ data # <<>> /\ UNCHANGED <<pc, state>>
              \/ /\ rx = <<>> /\ pc' = "check"
                 /\ state' = CASE peer = "open" -> state
                               [] peer = "fin" -> "CLOSED"
                               [] peer = "rst" -> "INVALID"
  <1> DEFINE n == Smaller(read_buf_size, Len(rx))
             data == Take(n, rx)
  <1>1. rx \in Seq(Nat) /\ buffer \in Seq(Nat) /\ read_buf_size \in Nat
    BY DEF TypeOK
  <1>2. /\ n \in 0 .. Len(rx) /\ n <= read_buf_size
        /\ data \in Seq(Nat) /\ Len(data) = n /\ (data = <<>> => rx = <<>>)
    BY <1>1, ReadFirst
  <1>3. /\ buffer' = Received(buffer, read_buf_size, data)
        /\ rx' = moveReadCursor(rx, Len(data))
        /\ IF data # <<>> THEN UNCHANGED <<pc, state>>
           ELSE /\ pc' = "check"
                /\ state' = CASE peer = "open" -> state
                              [] peer = "fin" -> "CLOSED"
                              [] peer = "rst" -> "INVALID"
    BY DEF handleReadableEvent
  <1>4. data \o rx' = rx /\ rx' \in Seq(Nat)
    BY <1>1, <1>2, <1>3, TakeRest
  <1> HIDE DEF data, n
  <1>5. buffer' = buffer \o data
    BY <1>1, <1>2, <1>3, ReceivedAppends
  <1> QED
    BY <1>1, <1>2, <1>3, <1>4, <1>5

\* The turn of writeFile as a whole: it moves a part of what remains of src.
LEMMA FileTurn ==
  ASSUME TypeOK, fread
  PROVE  \E n \in 0 .. todo, data \in Seq(Nat) :
           /\ data = SubSeq(src, Len(src) - todo + 1, Len(src) - todo + n)
           /\ wbuffer' = wbuffer \o data
           /\ todo' = todo - n
           /\ n = 0 => todo = 0
           /\ pc' = IF n = 0 THEN "flush" ELSE "fread"
  <1> DEFINE n == Smaller(read_buf_size, todo)
             at == Len(src) - todo
             data == SubSeq(src, at + 1, at + n)
  <1>1. /\ n \in 0 .. todo /\ n <= read_buf_size /\ (n = 0 => todo = 0)
        /\ at \in Nat /\ at + n <= Len(src)
    BY DEF Smaller, TypeOK
  <1>2. \A i \in at + 1 .. at + n : src[i] \in Nat
    <2> HIDE DEF n, at
    <2>1. src \in Seq(Nat) /\ Len(src) \in Nat /\ n \in Nat
      BY <1>1 DEF TypeOK
    <2>2. \A i \in at + 1 .. at + n : i \in 1 .. Len(src)
      BY <1>1, <2>1
    <2> QED
      BY <2>1, <2>2
  <1>3. /\ wbuffer' = Received(wbuffer, read_buf_size, data)
        /\ todo' = todo - n /\ pc' = IF n = 0 THEN "flush" ELSE "fread"
    BY DEF fread
  <1>4. data \in Seq(Nat) /\ Len(data) = n
    <2> HIDE DEF n, at
    <2>1. at + 1 \in Int /\ at + n \in Int /\ n \in Nat
      BY <1>1 DEF TypeOK
    <2>2. /\ SubSeq(src, at + 1, at + n) \in Seq(Nat)
          /\ Len(SubSeq(src, at + 1, at + n))
               = IF at + 1 <= at + n THEN (at + n) - (at + 1) + 1 ELSE 0
      BY <1>2, <2>1, SubSeqProperties
    <2> QED
      BY <1>1, <2>1, <2>2
  <1> HIDE DEF data
  <1>5. wbuffer' = wbuffer \o data
    BY <1>1, <1>3, <1>4, ReceivedAppends DEF TypeOK
  <1> QED
    BY <1>1, <1>3, <1>4, <1>5 DEF data

------------------------------------------------------------------------------
\* Types.

\* What a call the application begins does.
LEMMA BeginCall ==
  ASSUME TypeOK, NEW call, NEW n \in Nat, Begin(call, n)
  PROVE  /\ n \in 1 .. MaxWritten /\ written' = written + n /\ written' \in 0 .. MaxWritten
         /\ synced' \in BOOLEAN /\ (synced' <=> synced \/ call = "sync")
         /\ back' = "app"
         /\ Bytes(written + 1, written + n) \in Seq(Nat)
         /\ Len(Bytes(written + 1, written + n)) = n
         /\ pc = "app" /\ state = "VALID"
  <1>1. n \in 1 .. MaxWritten /\ written + n \in 0 .. MaxWritten
    BY DEF Begin, TypeOK
  <1>2. Bytes(written + 1, written + n) \in Seq(Nat)
        /\ Len(Bytes(written + 1, written + n)) = n
    BY <1>1 DEF TypeOK, Bytes
  <1> QED
    BY <1>1, <1>2 DEF Begin, TypeOK

LEMMA TypeInductive == TypeOK /\ [Next]_vars => TypeOK'
  <1> SUFFICES ASSUME TypeOK, [Next]_vars PROVE TypeOK'
    OBVIOUS
  <1> USE DEF kernel, context, app, thread
  <1>1. CASE ClientSends
    <2>1. Append(rx, sent + 1) \in Seq(Nat)
      BY DEF TypeOK
    <2> QED
      BY <1>1, <2>1 DEF ClientSends, TypeOK
  <1>2. CASE ClientReads
    <2>1. /\ Head(snd) \in Nat /\ Tail(snd) \in Seq(Nat) /\ Len(Tail(snd)) <= SndCap
          /\ Append(wire, Head(snd)) \in Seq(Nat)
      BY <1>2 DEF ClientReads, TypeOK
    <2> QED
      BY <1>2, <2>1 DEF ClientReads, TypeOK
  <1>3. CASE ClientCloses
    BY <1>3 DEF ClientCloses, TypeOK
  <1>4. CASE poll
    BY <1>4 DEF poll, Pending, TypeOK
  <1>5. CASE isReadable \/ isWritable
    BY <1>5 DEF isReadable, isWritable, stateCleanup, TypeOK
  <1>6. CASE handleReadableEvent
    <2>1. PICK data \in Seq(Nat) :
            /\ rx' \in Seq(Nat) /\ buffer' = buffer \o data
            /\ \/ UNCHANGED <<pc, state>>
               \/ /\ pc' = "check"
                  /\ state' = CASE peer = "open" -> state
                                [] peer = "fin" -> "CLOSED"
                                [] peer = "rst" -> "INVALID"
      BY <1>6, ReadTurn
    <2>2. buffer' \in Seq(Nat) /\ state' \in {"VALID", "CLOSED", "INVALID"}
      BY <2>1 DEF TypeOK
    <2> QED
      BY <1>6, <2>1, <2>2 DEF handleReadableEvent, TypeOK
  <1>7. CASE callOnRecv \/ onRecvReturns \/ handleWritableEvent
    BY <1>7 DEF callOnRecv, onRecvReturns, handleWritableEvent, stateCleanup, TypeOK
  <1>8. CASE read
    <2>1. received \o buffer \in Seq(Nat)
      BY ConcatProperties DEF TypeOK
    <2> QED
      BY <1>8, <2>1 DEF read, TypeOK
  <1>9. ASSUME NEW n \in 1 .. MaxWritten, asyncWrite(n) PROVE TypeOK'
    <2>1. /\ Bytes(written + 1, written + n) \in Seq(Nat) /\ written' \in 0 .. MaxWritten
          /\ synced' \in BOOLEAN /\ back' = "app"
      BY <1>9, BeginCall DEF asyncWrite
    <2>2. wbuffer' \in Seq(Nat)
      BY <1>9, <2>1, ConcatProperties DEF asyncWrite, put, TypeOK
    <2> QED
      BY <1>9, <2>1, <2>2 DEF asyncWrite, TypeOK
  <1>10. ASSUME NEW n \in 1 .. MaxWritten, syncWrite(n) \/ writeFile(n) PROVE TypeOK'
    <2>1. /\ Bytes(written + 1, written + n) \in Seq(Nat) /\ written' \in 0 .. MaxWritten
          /\ Len(Bytes(written + 1, written + n)) = n
          /\ synced' \in BOOLEAN /\ back' = "app"
      BY <1>10, BeginCall DEF syncWrite, writeFile
    <2>2. src' \in Seq(Nat) /\ todo' \in 0 .. Len(src')
      BY <1>10, <2>1 DEF syncWrite, writeFile
    <2>3. pc' \in {"sync", "fread"} /\ UNCHANGED <<kernel, context, received>>
      BY <1>10 DEF syncWrite, writeFile
    <2> QED
      BY <2>1, <2>2, <2>3 DEF TypeOK
  <1>11. CASE fread
    <2>1. PICK n \in 0 .. todo, data \in Seq(Nat) :
            wbuffer' = wbuffer \o data /\ todo' = todo - n /\ pc' \in {"flush", "fread"}
      BY <1>11, FileTurn
    <2>2. wbuffer' \in Seq(Nat) /\ todo' \in 0 .. Len(src)
      BY <2>1, ConcatProperties DEF TypeOK
    <2> QED
      BY <1>11, <2>1, <2>2 DEF fread, TypeOK
  <1>12. CASE syncWriteLoop
    <2>1. CASE todo = 0 /\ pc' = "app" /\ UNCHANGED <<kernel, context, todo>>
      BY <1>12, <2>1 DEF syncWriteLoop, TypeOK
    <2>2. ASSUME NEW n \in 1 .. todo, Writes(Take(todo, src), n), todo' = todo - n,
                 UNCHANGED <<sent, peer, rx, wire, nospace, ready, context, pc>>
          PROVE  TypeOK'
      <3>1. Take(todo, src) \in Seq(Nat) /\ Len(Take(todo, src)) = todo
        BY TakeRest DEF TypeOK
      <3>2. snd' \in Seq(Nat) /\ Len(snd') <= SndCap
        BY <2>2, <3>1, WritesFirst
      <3>3. todo' \in 0 .. Len(src)
        BY <2>2 DEF TypeOK
      <3> QED
        BY <1>12, <2>2, <3>2, <3>3 DEF syncWriteLoop, TypeOK
    <2>3. CASE /\ nospace' = TRUE
               /\ wbuffer' = put(wbuffer, moveReadCursor(src, Len(src) - todo))
               /\ pc' = "flush"
               /\ UNCHANGED <<sent, peer, rx, snd, wire, ready, state, buffer, revents, todo>>
      <3>1. Len(src) - todo \in 0 .. Len(src)
        BY DEF TypeOK
      <3>2. moveReadCursor(src, Len(src) - todo) \in Seq(Nat)
        BY <3>1, TakeRest DEF TypeOK
      <3>3. wbuffer' \in Seq(Nat)
        BY <2>3, <3>2, ConcatProperties DEF put, TypeOK
      <3> QED
        BY <1>12, <2>3, <3>3 DEF syncWriteLoop, TypeOK
    <2>4. CASE WriteFails("app") /\ UNCHANGED <<kernel, buffer, wbuffer, revents, todo>>
      BY <1>12, <2>4 DEF syncWriteLoop, WriteFails, TypeOK
    <2> QED
      BY <1>12, <2>1, <2>2, <2>3, <2>4 DEF syncWriteLoop
  <1>13. CASE flushWriteBuffer
    <2>1. CASE pc' = back /\ UNCHANGED <<kernel, context>>
      BY <1>13, <2>1 DEF flushWriteBuffer, TypeOK
    <2>2. ASSUME NEW n \in 1 .. Len(wbuffer), Writes(wbuffer, n),
                 wbuffer' = moveReadCursor(wbuffer, n),
                 UNCHANGED <<sent, peer, rx, wire, nospace, ready, state, buffer, revents, pc>>
          PROVE  TypeOK'
      <3>1. snd' \in Seq(Nat) /\ Len(snd') <= SndCap
        BY <2>2, WritesFirst DEF TypeOK
      <3>2. wbuffer' \in Seq(Nat)
        BY <2>2, TakeRest DEF TypeOK
      <3> QED
        BY <1>13, <2>2, <3>1, <3>2 DEF flushWriteBuffer, TypeOK
    <2>3. CASE nospace' = TRUE /\ pc' = back
               /\ UNCHANGED <<sent, peer, rx, snd, wire, ready, context>>
      BY <1>13, <2>3 DEF flushWriteBuffer, TypeOK
    <2>4. CASE WriteFails(back) /\ UNCHANGED <<kernel, buffer, wbuffer, revents>>
      BY <1>13, <2>4 DEF flushWriteBuffer, WriteFails, TypeOK
    <2> QED
      BY <1>13, <2>1, <2>2, <2>3, <2>4 DEF flushWriteBuffer
  <1>14. CASE UNCHANGED vars
    BY <1>14 DEF vars, TypeOK
  <1> QED
    BY <1>1, <1>2, <1>3, <1>4, <1>5, <1>6, <1>7, <1>8, <1>9, <1>10, <1>11, <1>12, <1>13, <1>14
       DEF Next, ReactorStep, AppStep

------------------------------------------------------------------------------
\* Conservation of the bytes.

\* Sequences may be cut at any of their joints.  The provers see Cat, which is
\* not expanded, and look no further than these facts.
Cat(s, t) == s \o t

LEMMA CatType == \A s, t \in Seq(Nat) : Cat(s, t) \in Seq(Nat)
  BY ConcatProperties DEF Cat

LEMMA CatAssoc == \A s, t, u \in Seq(Nat) : Cat(Cat(s, t), u) = Cat(s, Cat(t, u))
  BY ConcatAssociative DEF Cat

LEMMA Regroup ==
  \A a, b, c, d \in Seq(Nat) : Cat(Cat(a, Cat(b, c)), d) = Cat(Cat(a, b), Cat(c, d))
  BY CatType, CatAssoc

LEMMA Extends ==
  \A a, b, c, d \in Seq(Nat) : Cat(Cat(a, b), Cat(c, d)) = Cat(Cat(Cat(a, b), c), d)
  BY CatType, CatAssoc

\* What a reader takes off the front is the rest's predecessor.
LEMMA HeadRest ==
  ASSUME NEW s \in Seq(Nat), s # <<>>
  PROVE  s = <<Head(s)>> \o Tail(s)
  <1>1. Len(s) \in Nat /\ 1 \in 1 .. Len(s) /\ Len(s) \in 1 .. Len(s)
    OBVIOUS
  <1>2. SubSeq(s, 1, Len(s)) = <<s[1]>> \o SubSeq(s, 2, Len(s))
    BY <1>1, SubSeqRecursiveFirst
  <1>3. SubSeq(s, 1, Len(s)) = s /\ Tail(s) = SubSeq(s, 2, Len(s)) /\ Head(s) = s[1]
    BY SubSeqFull, TailIsSubSeq
  <1> QED
    BY <1>2, <1>3

LEMMA HeadMoves ==
  ASSUME NEW w \in Seq(Nat), NEW s \in Seq(Nat), s # <<>>
  PROVE  Append(w, Head(s)) \o Tail(s) = w \o s
  <1> DEFINE h == <<Head(s)>>
  <1>1. Head(s) \in Nat /\ Tail(s) \in Seq(Nat) /\ h \in Seq(Nat)
    BY HeadTailProperties
  <1>2. Append(w, Head(s)) = Cat(w, h) /\ s = Cat(h, Tail(s))
    BY <1>1, AppendIsConcat, HeadRest DEF Cat
  <1> HIDE DEF h
  <1>3. Cat(Cat(w, h), Tail(s)) = Cat(w, Cat(h, Tail(s)))
    BY <1>1, CatAssoc
  <1> QED
    BY <1>2, <1>3, Zenon DEF Cat

\* The bytes the client sent are with the application, in the buffer or queued.
LEMMA ReadInductive == TypeOK /\ ReadConserved /\ [Next]_vars => ReadConserved'
  <1> SUFFICES ASSUME TypeOK, ReadConserved, [Next]_vars, Live' PROVE
               received' \o buffer' \o rx' = Bytes(1, sent')
    BY DEF ReadConserved
  <1> USE DEF kernel, context, app, thread
  <1>t. /\ received \in Seq(Nat) /\ buffer \in Seq(Nat) /\ rx \in Seq(Nat) /\ sent \in Nat
    BY DEF TypeOK
  <1>1. CASE ClientSends
    <2>1. received \o buffer \o rx = Bytes(1, sent)
      BY <1>1 DEF ClientSends, ReadConserved
    <2>2. rx' = rx \o <<sent + 1>> /\ sent' = sent + 1 /\ UNCHANGED <<received, buffer>>
      BY <1>1, <1>t, AppendIsConcat DEF ClientSends
    <2>3. <<sent + 1>> = Bytes(sent + 1, sent + 1)
      BY <1>t DEF Bytes
    <2>4. (received \o buffer) \o (rx \o <<sent + 1>>)
            = ((received \o buffer) \o rx) \o <<sent + 1>>
      <3>1. received \o buffer \in Seq(Nat) /\ <<sent + 1>> \in Seq(Nat)
        BY <1>t, ConcatProperties
      <3> QED
        BY <1>t, <3>1, ConcatAssociative
    <2>5. Bytes(1, sent) \o Bytes(sent + 1, sent + 1) = Bytes(1, sent + 1)
      <3>1. 1 \in Nat \ {0} /\ sent + 1 \in Nat /\ 1 <= sent + 1 /\ sent <= sent + 1
        BY <1>t
      <3> QED
        BY <1>t, <3>1, BytesJoin
    <2> QED
      BY <2>1, <2>2, <2>3, <2>4, <2>5
  <1>2. CASE handleReadableEvent
    <2>1. PICK data \in Seq(Nat) :
            rx' \in Seq(Nat) /\ data \o rx' = rx /\ buffer' = buffer \o data
      BY <1>2, ReadTurn
    <2>2. (received \o (buffer \o data)) \o rx' = (received \o buffer) \o (data \o rx')
      <3>1. Cat(Cat(received, Cat(buffer, data)), rx')
              = Cat(Cat(received, buffer), Cat(data, rx'))
        BY <1>t, <2>1, Regroup
      <3> QED
        BY <3>1, Zenon DEF Cat
    <2>3. UNCHANGED <<received, sent>> /\ Live
      BY <1>2 DEF handleReadableEvent, Live
    <2> QED
      BY <2>1, <2>2, <2>3 DEF ReadConserved
  <1>3. CASE read
    <2>1. UNCHANGED <<rx, sent, pc>> /\ received' = received \o buffer /\ buffer' = <<>>
      BY <1>3 DEF read
    <2>2. (received \o buffer) \o <<>> = received \o buffer
      BY <1>t, ConcatProperties, ConcatEmptySeq
    <2> QED
      BY <2>1, <2>2 DEF ReadConserved, Live
  <1>4. ASSUME UNCHANGED <<received, buffer, rx, sent>>, Live
        PROVE  received' \o buffer' \o rx' = Bytes(1, sent')
    BY <1>4 DEF ReadConserved
  <1>5. CASE ClientReads \/ ClientCloses
    BY <1>4, <1>5 DEF ClientReads, ClientCloses
  <1>6. CASE poll \/ isReadable \/ isWritable \/ callOnRecv \/ onRecvReturns \/ handleWritableEvent
    BY <1>4, <1>6 DEF poll, isReadable, isWritable, callOnRecv, onRecvReturns,
                      handleWritableEvent, Live
  <1>7. CASE fread \/ syncWriteLoop \/ flushWriteBuffer
    BY <1>4, <1>7 DEF fread, syncWriteLoop, flushWriteBuffer, Live
  <1>8. CASE \E n \in 1 .. MaxWritten : asyncWrite(n) \/ syncWrite(n) \/ writeFile(n)
    BY <1>4, <1>8 DEF asyncWrite, syncWrite, writeFile, Begin, Live
  <1>9. CASE UNCHANGED vars
    BY <1>4, <1>9 DEF vars, Live
  <1> QED
    BY <1>1, <1>2, <1>3, <1>5, <1>6, <1>7, <1>8, <1>9 DEF Next, ReactorStep, AppStep

\* What the application wrote is with the client, the kernel or in wbuffer.
LEMMA WriteInductive ==
  TypeOK /\ Outgoing /\ CallData /\ [Next]_vars => Outgoing' /\ CallData'
  <1> SUFFICES ASSUME TypeOK, Outgoing, CallData, [Next]_vars
               PROVE  Outgoing' /\ CallData'
    OBVIOUS
  <1> USE DEF kernel, context, app, thread
  <1> DEFINE out == wire \o snd \o wbuffer
  <1>t. /\ wire \in Seq(Nat) /\ snd \in Seq(Nat) /\ wbuffer \in Seq(Nat) /\ written \in Nat
        /\ src \in Seq(Nat) /\ Len(src) \in Nat /\ todo \in 0 .. Len(src)
    BY DEF TypeOK
  <1>1. CASE ClientReads
    <2>1. /\ wire' = Append(wire, Head(snd)) /\ snd' = Tail(snd) /\ snd # <<>> /\ Live
          /\ UNCHANGED <<wbuffer, written, synced, pc, src, todo>>
      BY <1>1 DEF ClientReads
    <2>2. wire' \o snd' = wire \o snd
      BY <1>t, <2>1, HeadMoves
    <2> QED
      BY <2>1, <2>2 DEF Outgoing, CallData, Live
  <1>2. ASSUME NEW n \in 1 .. MaxWritten, asyncWrite(n) PROVE Outgoing' /\ CallData'
    <2>1. /\ wbuffer' = wbuffer \o Bytes(written + 1, written + n)
          /\ written' = written + n /\ pc = "app" /\ pc' = "flush"
          /\ UNCHANGED <<wire, snd>> /\ (synced => synced')
      BY <1>2 DEF asyncWrite, put, Begin
    <2>2. ASSUME ~synced' PROVE wire' \o snd' \o wbuffer' = Bytes(1, written')
      <3>1. out = Bytes(1, written)
        BY <2>1, <2>2 DEF Outgoing, Live
      <3>2. Bytes(written + 1, written + n) \in Seq(Nat)
        BY <1>t DEF Bytes
      <3>3. wire' \o snd' \o wbuffer' = out \o Bytes(written + 1, written + n)
        <4> DEFINE new == Bytes(written + 1, written + n)
        <4>1. (wire \o snd) \o (wbuffer \o new) = out \o new
          <5>1. Cat(Cat(wire, snd), Cat(wbuffer, new)) = Cat(Cat(Cat(wire, snd), wbuffer), new)
            BY <1>t, <3>2, Extends
          <5> HIDE DEF new
          <5> QED
            BY <5>1, Zenon DEF Cat
        <4> QED
          BY <2>1, <4>1, Zenon
      <3>4. Bytes(1, written) \o Bytes(written + 1, written + n) = Bytes(1, written + n)
        <4>1. /\ 1 \in Nat \ {0} /\ written + n \in Nat
              /\ 1 <= written + 1 /\ written <= written + n
          BY <1>t
        <4> QED
          BY <1>t, <4>1, BytesJoin
      <3> QED
        BY <2>1, <3>1, <3>3, <3>4
    <2> QED
      BY <2>1, <2>2 DEF Outgoing, CallData
  <1>3. ASSUME NEW n \in 1 .. MaxWritten, syncWrite(n) PROVE Outgoing' /\ CallData'
    BY <1>3 DEF syncWrite, Begin, Outgoing, CallData
  <1>4. ASSUME NEW n \in 1 .. MaxWritten, writeFile(n) PROVE Outgoing' /\ CallData'
    <2>1. written' = written + n /\ todo' = n /\ n \in Nat
      BY <1>4 DEF writeFile, Begin
    <2>2. src' = Bytes(written + 1, written + n) /\ pc = "app" /\ pc' = "fread"
          /\ UNCHANGED <<wire, snd, wbuffer>>
      BY <1>4 DEF writeFile, Begin
    <2>3. ~synced' => ~synced
      BY <1>4 DEF writeFile, Begin
    <2>4. Len(src') = n
      BY <1>t, <2>1, <2>2 DEF Bytes
    <2>5. written' - todo' = written /\ written' - Len(src') + 1 = written + 1
          /\ Len(src') <= written'
      BY <1>t, <2>1, <2>4
    <2> QED
      BY <2>1, <2>2, <2>3, <2>5 DEF Outgoing, CallData, Live
  <1>5. CASE fread
    <2>1. /\ UNCHANGED <<wire, snd, written, synced, src>> /\ pc = "fread" /\ Live
          /\ Len(src) <= written /\ src = Bytes(written - Len(src) + 1, written)
      BY <1>5 DEF fread, CallData, Live
    <2>2. PICK n \in 0 .. todo, data \in Seq(Nat) :
            /\ data = SubSeq(src, Len(src) - todo + 1, Len(src) - todo + n)
            /\ wbuffer' = wbuffer \o data /\ todo' = todo - n /\ (n = 0 => todo = 0)
            /\ pc' = IF n = 0 THEN "flush" ELSE "fread"
      BY <1>5, FileTurn
    <2>3. data = Bytes(written - todo + 1, written - todo + n)
      <3> DEFINE from == written - Len(src) + 1
                 m == Len(src) - todo + 1
                 k == Len(src) - todo + n
      <3>1. /\ from \in Nat \ {0} /\ from <= written + 1
            /\ m \in Nat \ {0} /\ k \in Nat /\ m <= k + 1 /\ k <= written - from + 1
            /\ from + m - 1 = written - todo + 1 /\ from + k - 1 = written - todo + n
        BY <1>t, <2>1
      <3>2. data = SubSeq(Bytes(from, written), m, k)
        BY <2>1, <2>2
      <3> HIDE DEF from, m, k
      <3>3. SubSeq(Bytes(from, written), m, k) = Bytes(from + m - 1, from + k - 1)
        <4>1. written \in Nat /\ from \in Nat \ {0} /\ from <= written + 1
              /\ m \in Nat \ {0} /\ k \in Nat /\ m <= k + 1 /\ k <= written - from + 1
          BY <1>t, <3>1
        <4> QED
          BY ONLY <4>1, BytesPart
      <3> QED
        BY <3>1, <3>2, <3>3
    <2>4. ASSUME ~synced PROVE wire \o snd \o wbuffer' = Bytes(1, written - todo')
      <3>1. out = Bytes(1, written - todo)
        BY <2>1, <2>4 DEF Outgoing
      <3>2. wire \o snd \o wbuffer' = out \o data
        <4>1. (wire \o snd) \o (wbuffer \o data) = out \o data
          <5>1. Cat(Cat(wire, snd), Cat(wbuffer, data)) = Cat(Cat(Cat(wire, snd), wbuffer), data)
            BY <1>t, Extends
          <5> QED
            BY <5>1, Zenon DEF Cat
        <4> QED
          BY <2>2, <4>1, Zenon
      <3>3. Bytes(1, written - todo) \o Bytes(written - todo + 1, written - todo + n)
              = Bytes(1, written - todo + n)
        <4>1. /\ 1 \in Nat \ {0} /\ written - todo \in Nat /\ written - todo + n \in Nat
              /\ 1 <= (written - todo) + 1 /\ written - todo <= written - todo + n
          BY <1>t, <2>1
        <4> QED
          BY <4>1, BytesJoin
      <3>4. written - todo' = written - todo + n
        BY <1>t, <2>2
      <3> QED
        BY <2>3, <3>1, <3>2, <3>3, <3>4
    <2>5. n = 0 => written - todo' = written
      BY <1>t, <2>2
    <2> QED
      BY <2>1, <2>2, <2>4, <2>5 DEF Outgoing, CallData
  <1>6. CASE syncWriteLoop
    <2>1. pc = "sync" /\ synced /\ synced' = synced /\ pc' # "fread"
      BY <1>6 DEF syncWriteLoop, CallData, WriteFails
    <2> QED
      BY <2>1 DEF Outgoing, CallData
  <1>7. CASE flushWriteBuffer
    <2>1. UNCHANGED <<wire, written, synced, src, todo>> /\ pc = "flush" /\ Live
          /\ pc' \notin {"fread", "sync"}
      BY <1>7 DEF flushWriteBuffer, WriteFails, TypeOK, Live
    <2>2. wire' \o snd' \o wbuffer' = out
      <3>1. CASE UNCHANGED <<snd, wbuffer>>
        BY <2>1, <3>1
      <3>2. ASSUME NEW n \in 1 .. Len(wbuffer), Writes(wbuffer, n),
                   wbuffer' = moveReadCursor(wbuffer, n)
            PROVE  wire' \o snd' \o wbuffer' = out
        <4>1. snd' = snd \o Take(n, wbuffer)
          BY <1>t, <3>2, WritesFirst
        <4>2. /\ Take(n, wbuffer) \in Seq(Nat) /\ wbuffer' \in Seq(Nat)
              /\ Take(n, wbuffer) \o wbuffer' = wbuffer
          <5>1. n \in 0 .. Len(wbuffer)
            BY <1>t, <3>2
          <5> QED
            BY <1>t, <3>2, <5>1, TakeRest
        <4>3. (wire \o (snd \o Take(n, wbuffer))) \o wbuffer'
                = (wire \o snd) \o (Take(n, wbuffer) \o wbuffer')
          <5>1. Cat(Cat(wire, Cat(snd, Take(n, wbuffer))), wbuffer')
                  = Cat(Cat(wire, snd), Cat(Take(n, wbuffer), wbuffer'))
            BY <1>t, <4>2, Regroup
          <5> QED
            BY <5>1, Zenon DEF Cat
        <4> QED
          BY <2>1, <4>1, <4>2, <4>3
      <3> QED
        BY <1>7, <3>1, <3>2 DEF flushWriteBuffer
    <2> QED
      BY <2>1, <2>2 DEF Outgoing, CallData
  <1>8. ASSUME UNCHANGED <<wire, snd, wbuffer, written, synced, src, todo>>, Live,
               pc' = "fread" <=> pc = "fread", pc' = "sync" => pc = "sync"
        PROVE  Outgoing' /\ CallData'
    BY <1>8 DEF Outgoing, CallData
  <1>9. CASE ClientSends \/ ClientCloses
    BY <1>8, <1>9 DEF ClientSends, ClientCloses
  <1>10. CASE poll \/ isReadable \/ isWritable \/ callOnRecv \/ onRecvReturns
              \/ handleWritableEvent \/ handleReadableEvent \/ read
    <2>1. pc' \notin {"fread", "sync"} /\ pc \notin {"fread", "sync"} /\ Live
      BY <1>10 DEF poll, isReadable, isWritable, callOnRecv, onRecvReturns, stateCleanup,
                   handleWritableEvent, handleReadableEvent, read, Live
    <2> QED
      BY <1>8, <1>10, <2>1 DEF poll, isReadable, isWritable, callOnRecv, onRecvReturns,
                               handleWritableEvent, handleReadableEvent, read
  <1>11. CASE UNCHANGED vars
    BY <1>11 DEF vars, Outgoing, CallData, Live
  <1> QED
    BY <1>1, <1>2, <1>3, <1>4, <1>5, <1>6, <1>7, <1>9, <1>10, <1>11
       DEF Next, ReactorStep, AppStep

------------------------------------------------------------------------------
\* The edges.

\* A change is on the ready list, or is looked after before the next epoll_wait.
LEMMA EdgeInductive ==
  TypeOK /\ GoodState /\ EdgeKept /\ [Next]_vars => GoodState' /\ EdgeKept'
  <1> SUFFICES ASSUME TypeOK, GoodState, EdgeKept, [Next]_vars
               PROVE  GoodState' /\ EdgeKept'
    OBVIOUS
  <1> USE DEF kernel, context, app, thread, GoodState, EdgeKept, ReadArmed, WriteArmed, Live
  <1>1. CASE ClientSends \/ ClientCloses
    BY <1>1 DEF ClientSends, ClientCloses
  <1>2. CASE ClientReads
    BY <1>2 DEF ClientReads
  \* epoll_wait takes the connection off the list: what it does not report is
  \* that there is nothing to read, and that a full socket owes an EPOLLOUT.
  <1>3. CASE poll
    <2>1. pc = "poll" /\ state = "VALID" /\ state' = "VALID"
      BY <1>3 DEF poll
    <2>2. "IN" \notin Pending => rx = <<>> /\ peer = "open"
      BY DEF Pending
    <2>3. nospace' \/ "OUT" \in Pending
      BY <1>3 DEF poll
    <2> QED
      BY <1>3, <2>1, <2>2, <2>3 DEF poll
  <1>4. CASE isReadable
    BY <1>4 DEF isReadable, stateCleanup
  <1>5. CASE isWritable
    BY <1>5 DEF isWritable, stateCleanup
  \* The loop ends with an empty queue, and goes on with an open connection only.
  <1>6. CASE handleReadableEvent
    <2>1. /\ pc = "reading" /\ UNCHANGED <<peer, nospace, ready, wbuffer, revents>>
          /\ \/ UNCHANGED <<pc, state>>
             \/ rx' = <<>> /\ pc' = "check" /\ (state' = "VALID" => peer = "open")
      <3>1. pc = "reading" /\ UNCHANGED <<peer, nospace, ready, wbuffer, revents>>
        BY <1>6 DEF handleReadableEvent
      <3>2. PICK data \in Seq(Nat) :
              /\ rx' \in Seq(Nat) /\ data \o rx' = rx
              /\ \/ data # <<>> /\ UNCHANGED <<pc, state>>
                 \/ /\ rx = <<>> /\ pc' = "check"
                    /\ state' = CASE peer = "open" -> state
                                  [] peer = "fin" -> "CLOSED"
                                  [] peer = "rst" -> "INVALID"
        BY <1>6, ReadTurn
      <3>3. rx = <<>> => rx' = <<>>
        BY <3>2, ConcatEqualIffEmpty
      <3>4. peer \in {"open", "fin", "rst"}
        BY DEF TypeOK
      <3> QED
        BY <3>1, <3>2, <3>3, <3>4
    <2> QED
      BY <2>1
  <1>7. CASE callOnRecv \/ onRecvReturns \/ handleWritableEvent
    BY <1>7 DEF callOnRecv, onRecvReturns, handleWritableEvent, stateCleanup
  <1>8. CASE read
    BY <1>8 DEF read
  <1>9. CASE \E n \in 1 .. MaxWritten : asyncWrite(n) \/ syncWrite(n) \/ writeFile(n)
    <2>1. PICK n \in 1 .. MaxWritten : asyncWrite(n) \/ syncWrite(n) \/ writeFile(n)
      BY <1>9
    <2>2. /\ pc = "app" /\ pc' \in {"flush", "sync", "fread"}
          /\ UNCHANGED <<kernel, state, revents>>
          /\ pc' = "sync" => wbuffer' = wbuffer
      BY <2>1 DEF asyncWrite, syncWrite, writeFile, Begin
    <2> QED
      BY <2>2
  <1>10. CASE fread
    <2>1. pc = "fread" /\ pc' \in {"flush", "fread"} /\ UNCHANGED <<kernel, state, revents>>
      BY <1>10 DEF fread
    <2> QED
      BY <2>1
  <1>11. CASE syncWriteLoop
    <2>1. /\ pc = "sync" /\ pc' \in {"sync", "app", "flush", "dead"}
          /\ UNCHANGED <<peer, rx, ready, revents>> /\ (nospace => nospace')
          /\ state' = "VALID" => state = "VALID"
          /\ pc' # "flush" => wbuffer' = wbuffer
      BY <1>11 DEF syncWriteLoop, WriteFails
    <2> QED
      BY <2>1
  \* The loop ends with an empty buffer, with an EPOLLOUT owed or in bad state.
  <1>12. CASE flushWriteBuffer
    <2>1. back \in {"app", "flushed"}
      BY DEF TypeOK
    <2>2. /\ pc = "flush" /\ UNCHANGED <<peer, rx, ready, revents>>
          /\ (state' = "VALID" => state = "VALID")
          /\ \/ pc' \in {"flush", "dead"}
             \/ pc' = back /\ (state' = "VALID" => wbuffer' = <<>> \/ nospace')
      BY <1>12 DEF flushWriteBuffer, WriteFails
    <2> QED
      BY <2>1, <2>2
  <1>13. CASE UNCHANGED vars
    BY <1>13 DEF vars
  <1> QED
    BY <1>1, <1>2, <1>3, <1>4, <1>5, <1>6, <1>7, <1>8, <1>9, <1>10, <1>11, <1>12, <1>13
       DEF Next, ReactorStep, AppStep

------------------------------------------------------------------------------
\* The theorems.

LEMMA InitStreamInv == Init => StreamInv
  <1> SUFFICES ASSUME Init PROVE StreamInv
    OBVIOUS
  <1>1. TypeOK
    <2>1. <<>> \in Seq(Nat) /\ Len(<<>>) = 0
      BY EmptySeq
    <2>2. /\ rx \in Seq(Nat) /\ snd \in Seq(Nat) /\ wire \in Seq(Nat) /\ Len(snd) <= SndCap
          /\ buffer \in Seq(Nat) /\ wbuffer \in Seq(Nat) /\ received \in Seq(Nat)
          /\ src \in Seq(Nat) /\ todo \in 0 .. Len(src)
      BY <2>1 DEF Init
    <2>3. sent \in 0 .. MaxSent /\ written \in 0 .. MaxWritten
      BY DEF Init
    <2>4. nospace \in BOOLEAN /\ ready \in BOOLEAN /\ synced \in BOOLEAN
      BY DEF Init
    <2>5. /\ peer = "open" /\ state = "VALID" /\ pc = "poll" /\ back = "app" /\ revents = {}
      BY DEF Init
    <2> QED
      BY <2>2, <2>3, <2>4, <2>5 DEF TypeOK
  <1>2. <<>> \o <<>> \o <<>> = Bytes(1, 0)
    <2>1. Bytes(1, 0) \in Seq(Nat) /\ Len(Bytes(1, 0)) = 0
      BY DEF Bytes
    <2>2. <<>> \o <<>> \o <<>> = <<>>
      BY ConcatEmptySeq, EmptySeq
    <2> QED
      BY <2>1, <2>2, EmptySeq
  <1>3. ReadConserved /\ Outgoing
    BY <1>2 DEF Init, ReadConserved, Outgoing
  <1>4. CallData /\ GoodState /\ EdgeKept
    BY DEF Init, CallData, GoodState, EdgeKept, ReadArmed, WriteArmed
  <1> QED
    BY <1>1, <1>3, <1>4 DEF StreamInv

\* Whatever the client does and whatever calls the application makes, the types
\* are kept, bytes are conserved in both directions and no edge is lost.
THEOREM StreamInvariance == Spec => []StreamInv
<1>1. Init => StreamInv
  BY InitStreamInv
<1>2. StreamInv /\ [Next]_vars => StreamInv'
  BY TypeInductive, ReadInductive, WriteInductive, EdgeInductive DEF StreamInv
<1> QED
  BY <1>1, <1>2, PTL DEF Spec

\* What the client sends arrives in onRecv's buffer whole and in order, however
\* it is cut by the kernel, by read_buf_size and by the calls of read.
THEOREM ReadingConserves == Spec => []ReadConserved
<1>1. StreamInv => ReadConserved
  BY DEF StreamInv
<1> QED
  BY <1>1, StreamInvariance, PTL

\* What asyncWrite and writeFile were given leaves whole and in order, however
\* the kernel takes it.
THEOREM WritingConserves == Spec => []WriteConserved
<1>1. StreamInv => WriteConserved
  BY DEF StreamInv, Outgoing, WriteConserved
<1> QED
  BY <1>1, StreamInvariance, PTL

\* With edge-triggered epoll, the reactor never goes to sleep on a connection
\* that has something to read, or to write into a kernel that has room.
THEOREM NoEdgeLost == Spec => []EdgesArmed
<1>1. StreamInv => EdgesArmed
  BY DEF StreamInv, EdgesArmed, EdgeKept, GoodState, ReadArmed, WriteArmed, Live
<1> QED
  BY <1>1, StreamInvariance, PTL
==============================================================================
