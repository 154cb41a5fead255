------------------------------- MODULE Stream -------------------------------
(***************************************************************************)
(* The bytes of one connection of netier: Context's handlers and the read  *)
(* and write calls an application makes from onRecv, on the thread of the  *)
(* reactor, against a client that sends, reads and closes at any time.     *)
(* The Context is registered, edge-triggered, and has its callbacks; how   *)
(* it gets there is in module Connections.                                 *)
(*                                                                         *)
(* The i-th byte the client sends, and the i-th byte the application       *)
(* writes, is the number i.                                                *)
(***************************************************************************)
EXTENDS Buffer, FiniteSets

CONSTANTS
  read_buf_size,  \* Context::read_buf_size
  SndCap,         \* what the kernel takes from the server before the client reads
  Calls,          \* the calls the application makes, of "async", "sync", "file"
  MaxSent,        \* bound: bytes the client sends
  MaxWritten      \* bound: bytes the application writes

ASSUME StreamAssumption ==
  /\ read_buf_size \in Nat \ {0} /\ SndCap \in Nat \ {0}
  /\ Calls \subseteq {"async", "sync", "file"}
  /\ MaxSent \in Nat /\ MaxWritten \in Nat

VARIABLES
  \* the client and the kernel
  sent,      \* how many bytes the client sent
  peer,      \* "open", "fin" (sends no more), "rst" (reset the connection)
  rx,        \* the socket's receive queue
  snd,       \* bytes the kernel took and the client has not read
  wire,      \* bytes the client read
  nospace,   \* a write or epoll found snd full: the kernel owes an EPOLLOUT
  ready,     \* on the ready list of epoll
  \* Context and IOContext
  state,     \* __state
  buffer,    \* __buffer
  wbuffer,   \* __wbuffer
  revents,   \* IOContext::__revents
  \* the application
  received,  \* the bytes it took with read or readString
  written,   \* how many bytes it wrote
  synced,    \* history: some of them with syncWrite
  \* the reactor's thread
  pc, back,  \* where it is, and where flushWriteBuffer returns to
  src, todo  \* buf of the call, and what remains to be done of it

kernel  == <<sent, peer, rx, snd, wire, nospace, ready>>
context == <<state, buffer, wbuffer, revents>>
app     == <<received, written, synced>>
thread  == <<pc, back, src, todo>>
vars == <<kernel, context, app, thread>>

Bytes(from, to) == [i \in 1 .. (to - from + 1) |-> from + i - 1]

TypeOK ==
  /\ sent \in 0 .. MaxSent
  /\ peer \in {"open", "fin", "rst"}
  /\ rx \in Seq(Nat) /\ snd \in Seq(Nat) /\ wire \in Seq(Nat)
  /\ Len(snd) <= SndCap
  /\ nospace \in BOOLEAN /\ ready \in BOOLEAN
  /\ state \in {"VALID", "CLOSED", "INVALID"}
  /\ buffer \in Seq(Nat) /\ wbuffer \in Seq(Nat)
  /\ revents \subseteq {"IN", "OUT"}
  /\ received \in Seq(Nat)
  /\ written \in 0 .. MaxWritten
  /\ synced \in BOOLEAN
  /\ pc \in {"poll", "readable", "reading", "check", "app", "sync", "fread", "flush",
             "writable", "flushed", "destroyed", "dead"}
  /\ back \in {"app", "flushed"}
  /\ src \in Seq(Nat)
  /\ todo \in 0 .. Len(src)

Init ==
  /\ sent = 0 /\ peer = "open" /\ rx = <<>> /\ snd = <<>> /\ wire = <<>>
  /\ nospace = FALSE /\ ready = TRUE
  /\ state = "VALID" /\ buffer = <<>> /\ wbuffer = <<>> /\ revents = {}
  /\ received = <<>> /\ written = 0 /\ synced = FALSE
  /\ pc = "poll" /\ back = "app" /\ src = <<>> /\ todo = 0

Live == pc \notin {"destroyed", "dead"}
Smaller(m, n) == IF m < n THEN m ELSE n
Take(n, s) == SubSeq(s, 1, n)

------------------------------------------------------------------------------
\* The client.  Data and a FIN or RST put the connection on the ready list.

ClientSends ==
  /\ Live /\ peer = "open" /\ sent < MaxSent
  /\ sent' = sent + 1
  /\ rx' = Append(rx, sent + 1)
  /\ ready' = TRUE
  /\ UNCHANGED <<peer, snd, wire, nospace, context, app, thread>>

\* A reader that makes room ends the shortage of space, at the latest when it
\* has read everything.
ClientReads ==
  /\ Live /\ peer # "rst" /\ snd # <<>>
  /\ wire' = Append(wire, Head(snd))
  /\ snd' = Tail(snd)
  /\ \/ nospace /\ nospace' = FALSE /\ ready' = TRUE
     \/ (nospace => Tail(snd) # <<>>) /\ UNCHANGED <<nospace, ready>>
  /\ UNCHANGED <<sent, peer, rx, context, app, thread>>

ClientCloses ==
  /\ Live
  /\ \/ peer = "open" /\ peer' = "fin"
     \/ peer # "rst" /\ peer' = "rst"
  /\ ready' = TRUE
  /\ UNCHANGED <<sent, rx, snd, wire, nospace, context, app, thread>>

------------------------------------------------------------------------------
\* The kernel's side of the server's calls.

Pending ==
  {e \in {"IN", "OUT"} : \/ e = "IN" /\ (rx # <<>> \/ peer # "open")
                         \/ e = "OUT" /\ (Len(snd) < SndCap \/ peer = "rst")}

\* ::write of data: it takes what fits, ...
Writes(data, n) ==
  /\ peer # "rst"
  /\ n = Smaller(Len(data), SndCap - Len(snd))
  /\ n > 0
  /\ snd' = snd \o Take(n, data)

\* ... or fails with EAGAIN, ...
WouldBlock == peer # "rst" /\ Len(snd) = SndCap

\* ... or, after a reset, fails or raises SIGPIPE, which nobody handles.
WriteFails(next) ==
  /\ peer = "rst"
  /\ \/ state' = "INVALID" /\ pc' = next
     \/ pc' = "dead" /\ UNCHANGED state

------------------------------------------------------------------------------
\* Epoll::poll and IOContext::handleGeneral.

\* What epoll_wait finds pending is asked of the socket, and a socket that is
\* asked while it is full owes an EPOLLOUT as if a write had found it so.
poll ==
  /\ pc = "poll" /\ ready
  /\ ready' = FALSE
  /\ nospace' = (nospace \/ "OUT" \notin Pending)
  /\ IF Pending = {} THEN UNCHANGED <<revents, pc>>
     ELSE revents' = Pending /\ pc' = "readable"
  /\ UNCHANGED <<sent, peer, rx, snd, wire, state, buffer, wbuffer, app,
                 back, src, todo>>

\* __stateCleanup: go on at next, or destroy the Context with all its buffers.
stateCleanup(next) == pc' = IF state = "VALID" THEN next ELSE "destroyed"

isReadable ==
  /\ pc = "readable"
  /\ IF "IN" \in revents THEN stateCleanup("reading") ELSE pc' = "writable"
  /\ UNCHANGED <<kernel, context, app, back, src, todo>>

isWritable ==
  /\ pc = "writable"
  /\ back' = "flushed"
  /\ IF "OUT" \in revents THEN stateCleanup("flush") ELSE pc' = "poll"
  /\ UNCHANGED <<kernel, context, app, src, todo>>

------------------------------------------------------------------------------
\* Mutant of handleReadableEvent: it reads once.
handleReadableEvent_Once ==
  /\ pc = "reading"
  /\ LET data == Take(Smaller(read_buf_size, Len(rx)), rx) IN
       /\ buffer' = Received(buffer, read_buf_size, data)
       /\ rx' = moveReadCursor(rx, Len(data))
       /\ state' = IF data # <<>> \/ peer = "open" THEN state ELSE "CLOSED"
  /\ pc' = "check"
  /\ UNCHANGED <<sent, peer, snd, wire, nospace, ready, wbuffer, revents, app, back, src, todo>>

\* One turn of the loop of handleReadableEvent: it reads until the queue is
\* empty, and then finds EAGAIN, the end of file or an error.
handleReadableEvent ==
  /\ pc = "reading"
  /\ LET data == Take(Smaller(read_buf_size, Len(rx)), rx) IN
       /\ buffer' = Received(buffer, read_buf_size, data)
       /\ rx' = moveReadCursor(rx, Len(data))
       /\ IF data # <<>> THEN UNCHANGED <<pc, state>>
          ELSE /\ pc' = "check"
               /\ state' = CASE peer = "open" -> state
                             [] peer = "fin" -> "CLOSED"
                             [] peer = "rst" -> "INVALID"
  /\ UNCHANGED <<sent, peer, snd, wire, nospace, ready, wbuffer, revents, app, back, src, todo>>

\* The rest of it: __onRecv is called unless the connection ended.
callOnRecv ==
  /\ pc = "check"
  /\ stateCleanup("app")
  /\ UNCHANGED <<kernel, context, app, back, src, todo>>

\* __onRecv returns, and the handler cleans up.
onRecvReturns ==
  /\ pc = "app"
  /\ stateCleanup("writable")
  /\ UNCHANGED <<kernel, context, app, back, src, todo>>

------------------------------------------------------------------------------
\* What the application does in onRecv.

\* Context::read takes everything; readString too, unless the state is bad.
read ==
  /\ pc = "app" /\ buffer # <<>>
  /\ received' = received \o buffer
  /\ buffer' = <<>>
  /\ UNCHANGED <<kernel, state, wbuffer, revents, written, synced, thread>>

\* asyncWrite, syncWrite and writeFile return at once when the state is bad.
Begin(call, n) ==
  /\ pc = "app" /\ state = "VALID"
  /\ call \in Calls
  /\ n \in 1 .. (MaxWritten - written)
  /\ written' = written + n
  /\ synced' = (synced \/ call = "sync")
  /\ back' = "app"

asyncWrite(n) ==
  /\ Begin("async", n)
  /\ wbuffer' = put(wbuffer, Bytes(written + 1, written + n))
  /\ pc' = "flush"
  /\ UNCHANGED <<kernel, state, buffer, revents, received, src, todo>>

\* Mutant of syncWrite: the size counts a byte that is not there.
syncWrite_PastEnd(n) ==
  /\ Begin("sync", n)
  /\ src' = Bytes(written + 1, written + n)
  /\ todo' = n + 1
  /\ pc' = "sync"
  /\ UNCHANGED <<kernel, context, received>>

syncWrite(n) ==
  /\ Begin("sync", n)
  /\ src' = Bytes(written + 1, written + n)
  /\ todo' = n
  /\ pc' = "sync"
  /\ UNCHANGED <<kernel, context, received>>

writeFile(n) ==
  /\ Begin("file", n)
  /\ src' = Bytes(written + 1, written + n)
  /\ todo' = n
  /\ pc' = "fread"
  /\ UNCHANGED <<kernel, context, received>>

\* One turn of the loop of writeFile; the file ends when fread returns 0.
fread ==
  /\ pc = "fread"
  /\ LET n == Smaller(read_buf_size, todo)
         at == Len(src) - todo
     IN  /\ wbuffer' = Received(wbuffer, read_buf_size, SubSeq(src, at + 1, at + n))
         /\ todo' = todo - n
         /\ pc' = IF n = 0 THEN "flush" ELSE "fread"
  /\ UNCHANGED <<kernel, state, buffer, revents, app, back, src>>

\* One turn of the loop of syncWrite: every ::write starts at buf again; what
\* would block goes to asyncWrite.
syncWriteLoop ==
  /\ pc = "sync"
  /\ \/ /\ todo = 0
        /\ pc' = "app"
        /\ UNCHANGED <<kernel, context, todo>>
     \/ /\ todo > 0
        /\ \E n \in 1 .. todo :
             /\ Writes(Take(todo, src), n)
             /\ todo' = todo - n
        /\ UNCHANGED <<sent, peer, rx, wire, nospace, ready, context, pc>>
     \/ /\ todo > 0 /\ WouldBlock
        /\ nospace' = TRUE
        /\ wbuffer' = put(wbuffer, moveReadCursor(src, Len(src) - todo))
        /\ pc' = "flush"
        /\ UNCHANGED <<sent, peer, rx, snd, wire, ready, state, buffer, revents, todo>>
     \/ /\ todo > 0
        /\ WriteFails("app")
        /\ UNCHANGED <<kernel, buffer, wbuffer, revents, todo>>
  /\ UNCHANGED <<app, back, src>>

------------------------------------------------------------------------------
\* Mutant of flushWriteBuffer: a short write ends the loop.
flushWriteBuffer_Once ==
  /\ pc = "flush"
  /\ \/ /\ state # "VALID" \/ wbuffer = <<>>
        /\ pc' = back
        /\ UNCHANGED <<kernel, context>>
     \/ /\ state = "VALID" /\ wbuffer # <<>>
        /\ \E n \in 1 .. Len(wbuffer) :
             /\ Writes(wbuffer, n)
             /\ wbuffer' = moveReadCursor(wbuffer, n)
        /\ pc' = back
        /\ UNCHANGED <<sent, peer, rx, wire, nospace, ready, state, buffer, revents>>
     \/ /\ state = "VALID" /\ wbuffer # <<>> /\ WouldBlock
        /\ nospace' = TRUE
        /\ pc' = back
        /\ UNCHANGED <<sent, peer, rx, snd, wire, ready, context>>
  /\ UNCHANGED <<app, back, src, todo>>

\* One turn of the loop of flushWriteBuffer.
flushWriteBuffer ==
  /\ pc = "flush"
  /\ \/ /\ state # "VALID" \/ wbuffer = <<>>
        /\ pc' = back
        /\ UNCHANGED <<kernel, context>>
     \/ /\ state = "VALID" /\ wbuffer # <<>>
        /\ \E n \in 1 .. Len(wbuffer) :
             /\ Writes(wbuffer, n)
             /\ wbuffer' = moveReadCursor(wbuffer, n)
        /\ UNCHANGED <<sent, peer, rx, wire, nospace, ready, state, buffer, revents, pc>>
     \/ /\ state = "VALID" /\ wbuffer # <<>> /\ WouldBlock
        /\ nospace' = TRUE
        /\ pc' = back
        /\ UNCHANGED <<sent, peer, rx, snd, wire, ready, context>>
     \/ /\ state = "VALID" /\ wbuffer # <<>>
        /\ WriteFails(back)
        /\ UNCHANGED <<kernel, buffer, wbuffer, revents>>
  /\ UNCHANGED <<app, back, src, todo>>

\* The end of handleWritableEvent.
handleWritableEvent ==
  /\ pc = "flushed"
  /\ stateCleanup("poll")
  /\ UNCHANGED <<kernel, context, app, back, src, todo>>

------------------------------------------------------------------------------
ReactorStep ==
  \/ poll \/ isReadable \/ isWritable
  \/ handleReadableEvent \/ callOnRecv \/ onRecvReturns
  \/ fread \/ syncWriteLoop \/ flushWriteBuffer \/ handleWritableEvent

AppStep ==
  \/ read
  \/ \E n \in 1 .. MaxWritten : asyncWrite(n) \/ syncWrite(n) \/ writeFile(n)

Next == ClientSends \/ ClientReads \/ ClientCloses \/ ReactorStep \/ AppStep

Spec == Init /\ [][Next]_vars

\* The reactor's thread runs and onRecv returns; the client reads what comes.
Fairness == WF_vars(ReactorStep) /\ WF_vars(ClientReads)
FairSpec == Spec /\ Fairness

------------------------------------------------------------------------------
\* Properties.

\* Nothing the application writes is lost, doubled or reordered on the way
\* through __wbuffer and the kernel while the connection lives, however the
\* client's reads split the writes.  (syncWrite goes past __wbuffer: WireInOrder.)
WriteConserved ==
  Live /\ ~synced =>
    \/ wire \o snd \o wbuffer = Bytes(1, written)
    \/ pc = "fread" /\ wire \o snd \o wbuffer = Bytes(1, written - todo)

\* Nothing the client sends is lost, doubled or reordered on the way through
\* the kernel and __buffer to the application, while the connection lives.
ReadConserved == Live => received \o buffer \o rx = Bytes(1, sent)

\* Edge-triggered epoll reports a change once: whenever the thread goes back
\* to epoll_wait, what is left to read or to write will be reported again.
EdgesArmed ==
  pc = "poll" => /\ rx # <<>> \/ peer # "open" => ready
                 /\ wbuffer # <<>> => nospace \/ ready

\* The inductive invariant.  Between the calls of one turn of the loop, what
\* was taken from the file, what the events of this turn will still look after
\* and what the states of the Context allow is part of the argument.

\* What is on its way to the client, to the byte, in the middle of writeFile too.
Outgoing ==
  Live /\ ~synced =>
    wire \o snd \o wbuffer = Bytes(1, IF pc = "fread" THEN written - todo ELSE written)

\* src is the data of the last call that was begun, and ends with the last byte.
CallData ==
  /\ pc = "sync" => synced
  /\ pc = "fread" => Len(src) <= written /\ src = Bytes(written - Len(src) + 1, written)

\* A handler is entered, and epoll_wait called, with a Context in good state.
GoodState == pc \in {"poll", "readable", "reading", "writable"} => state = "VALID"

ReadArmed == rx # <<>> \/ peer # "open" => ready
WriteArmed == wbuffer # <<>> => nospace \/ ready

\* Outside of the loops that drain the queue and the buffer, a change is on the
\* ready list, or this turn's events have it, or the Context is about to end.
EdgeKept ==
  Live /\ state = "VALID" =>
    /\ \/ ReadArmed
       \/ pc = "readable" /\ "IN" \in revents
       \/ pc = "reading"
    /\ \/ WriteArmed
       \/ pc \in {"fread", "flush"}
       \/ pc \notin {"poll", "flushed"} /\ "OUT" \in revents

\* The inductive invariant: at every step of a call or an event, the bytes are
\* where the conservations count them and the edges are kept.
StreamInv ==
  /\ TypeOK
  /\ ReadConserved /\ Outgoing /\ CallData
  /\ GoodState /\ EdgeKept

\* What waits in __wbuffer goes out to a client that reads.
Flushed == (wbuffer # <<>>) ~> (wbuffer = <<>> \/ ~Live)

\* What the client sends gets to onRecv, if the client stays.
HandedOver == (rx # <<>>) ~> (pc = "app" \/ ~Live \/ peer # "open")

\* What the documentation says, and the code does not keep.

\* context.cpp:159, asyncWrite((const char *)buf + (size - remaining), ...):
\* what was written is the beginning of buf, and writing goes on behind it.
WireInOrder == \A i \in DOMAIN wire : wire[i] = i

\* README.md:18-22: onRecv runs for every message received, one that is
\* followed by the end of the client's stream included.
LastMessageNotifies == (rx # <<>>) ~> (pc \in {"app", "dead"} \/ peer = "rst")
==============================================================================
