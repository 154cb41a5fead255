----------------------------- MODULE Connections -----------------------------
(***************************************************************************)
(* The life of TCP connections in netier: the acceptor thread builds a     *)
(* Context for every accepted socket and registers it in Server's map      *)
(* __contextes, the reactor threads poll their epoll instance, run the     *)
(* Context's handlers and destroy it.  The two sides share the Context,    *)
(* its IOContext and the map without any lock, so every shared access is a *)
(* step of its own.  What is written and read is abstracted to counts of   *)
(* chunks.                                                                 *)
(*                                                                         *)
(* A member of Conns stands for one client connection and for the Context, *)
(* Socket and IOContext objects made for it: objects are never reused, so  *)
(* a use of a destroyed one is visible.  Descriptors are reused.           *)
(***************************************************************************)
EXTENDS Integers, FiniteSets

CONSTANTS
  Conns,        \* client connections
  Fds,          \* descriptors the process may use for clients
  NumReactors,  \* Server::__reactors.size()
  MaxEvents,    \* MAX_EVENTS, the most events of one epoll_wait
  MaxRx,        \* bound: chunks of a connection not yet handed to onRecv
  Absent,       \* no entry in __contextes
  Null          \* a null pointer

ASSUME ConstantsAssumption ==
  /\ Fds \subseteq Nat \ {0}
  /\ NumReactors \in Nat \ {0}
  /\ MaxEvents \in Nat \ {0}
  /\ MaxRx \in Nat
  /\ Absent \notin Conns /\ Null \notin Conns /\ Absent # Null

Reactors == 0 .. (NumReactors - 1)

\* Context::State; nothing but messages tells CLOSED and INVALID apart, and
\* "DONE" stands for both.
States == {"VALID", "DONE", "MOVED"}
Interests == {"IN", "OUT", "ET"}
Callbacks == {"read", "write", "recv"}
AcceptorPCs ==
  {"idle", "enableRead", "enableWrite", "setET", "read", "write", "valid",
   "onConn", "recv", "insert", "inserting", "lookup"}
ReactorPCs ==
  {"poll", "next", "readable", "reading", "check", "app", "exit", "writable",
   "flushed", "erase", "erasing"}

VARIABLES
  proc,       \* the process: "up", "dead", or "corrupt" by a raced map update;
              \* of a corrupt process the model says nothing more
  \* kernel
  sock,       \* server side of the connection: "none", "queued", "open", "closed"
  fdOf,       \* its descriptor
  peer,       \* what the client did to its side: "open", "fin", "rst"
  rx,         \* chunks in the socket's receive queue
  interest,   \* events registered with epoll; {} when not registered
  ready,      \* whether the connection is on its epoll's ready list
  \* Context and IOContext objects
  ctx,        \* "none", "alive", "freed"
  state,      \* Context::__state
  installed,  \* which of __readableCb, __writableCb, __onRecv are assigned;
              \* the application gave Server both onConn and onRecv
  buf,        \* chunks in Context::__buffer
  revents,    \* IOContext::__revents
  \* Server::__contextes
  contextes,  \* descriptor -> Context, Null or Absent
  \* threads
  apc, acur,  \* acceptor: where it is, and the Context it builds
  rpc, cur,   \* reactors: where each is, and the IOContext it handles
  batch       \* reactors: the rest of the vector poll() returned

kernel    == <<sock, fdOf, peer, rx, interest, ready>>
objects   == <<ctx, state, installed, buf, revents>>
acceptor  == <<apc, acur>>
reactor   == <<rpc, cur, batch>>
vars == <<proc, kernel, objects, contextes, acceptor, reactor>>

TypeOK ==
  /\ proc \in {"up", "corrupt", "dead"}
  /\ sock \in [Conns -> {"none", "queued", "open", "closed"}]
  /\ fdOf \in [Conns -> Fds \cup {0}]
  /\ peer \in [Conns -> {"open", "fin", "rst"}]
  /\ rx \in [Conns -> Nat]
  /\ interest \in [Conns -> SUBSET Interests]
  /\ ready \in [Conns -> BOOLEAN]
  /\ ctx \in [Conns -> {"none", "alive", "freed"}]
  /\ state \in [Conns -> States]
  /\ installed \in [Conns -> SUBSET Callbacks]
  /\ buf \in [Conns -> Nat]
  /\ revents \in [Conns -> SUBSET Interests]
  /\ contextes \in [Fds -> Conns \cup {Absent, Null}]
  /\ apc \in AcceptorPCs
  /\ acur \in Conns \cup {Null}
  /\ rpc \in [Reactors -> ReactorPCs]
  /\ cur \in [Reactors -> Conns \cup {Null}]
  /\ batch \in [Reactors -> SUBSET Conns]

Init ==
  /\ proc = "up"
  /\ sock = [c \in Conns |-> "none"]
  /\ fdOf = [c \in Conns |-> 0]
  /\ peer = [c \in Conns |-> "open"]
  /\ rx = [c \in Conns |-> 0]
  /\ interest = [c \in Conns |-> {}]
  /\ ready = [c \in Conns |-> FALSE]
  /\ ctx = [c \in Conns |-> "none"]
  /\ state = [c \in Conns |-> "DONE"]  \* of no Context yet
  /\ installed = [c \in Conns |-> {}]
  /\ buf = [c \in Conns |-> 0]
  /\ revents = [c \in Conns |-> {}]
  /\ contextes = [f \in Fds |-> Absent]
  /\ apc = "idle"
  /\ acur = Null
  /\ rpc = [r \in Reactors |-> "poll"]
  /\ cur = [r \in Reactors |-> Null]
  /\ batch = [r \in Reactors |-> {}]

------------------------------------------------------------------------------
\* Helpers.

\* A signal, a failed assert or errif's exit() ends the process.
Dies == proc' = "dead" /\ UNCHANGED <<kernel, objects, contextes, acceptor, reactor>>

\* __contextes has no lock.  An operation that overlaps another one is a data
\* race: the build may serialise them or corrupt the map.
UsingMap == apc = "inserting" \/ \E r \in Reactors : rpc[r] = "erasing"
MapRace ==
  /\ UsingMap
  /\ proc' = "corrupt"
  /\ UNCHANGED <<kernel, objects, contextes, acceptor, reactor>>

FreeFds == Fds \ {fdOf[c] : c \in {d \in Conns : sock[d] = "open"}}

\* Server::schedule
schedule(f) == f % NumReactors

\* What the kernel would report for c now: a socket of this model is always
\* writable, and readable when data, a FIN or a RST is waiting.
Reports(c, events) ==
  events \cap ({"OUT"} \cup IF rx[c] > 0 \/ peer[c] # "open" THEN {"IN"} ELSE {})
Pending(c) == Reports(c, interest[c])

\* ~Context for every member of D: ~IOContext takes the descriptor out of
\* epoll, then ~Socket closes it.  What the freed memory holds is set to what
\* tells the fewest states apart.
DestroyContexts(D) ==
  /\ ctx' = [c \in Conns |-> IF c \in D THEN "freed" ELSE ctx[c]]
  /\ sock' = [c \in Conns |-> IF c \in D THEN "closed" ELSE sock[c]]
  /\ interest' = [c \in Conns |-> IF c \in D THEN {} ELSE interest[c]]
  /\ ready' = [c \in Conns |-> ready[c] /\ c \notin D]
  /\ rx' = [c \in Conns |-> IF c \in D THEN 0 ELSE rx[c]]
  /\ buf' = [c \in Conns |-> IF c \in D THEN 0 ELSE buf[c]]
  /\ revents' = [c \in Conns |-> IF c \in D THEN {} ELSE revents[c]]

\* What a write can leave in __state: after the client reset the connection it
\* fails (ECONNRESET), unless it raises SIGPIPE, which nobody handles.
AfterWrite(c) ==
  {state[c]} \cup IF peer[c] = "rst" /\ state[c] = "VALID" THEN {"DONE"} ELSE {}
SigPipe(c) == peer[c] = "rst" /\ Dies

\* Mutant of AfterRead: a ::read that returns 0 is taken for EAGAIN.
AfterRead_IgnoresEof(c) == state[c]

\* What the ::read that finds no data leaves there: EAGAIN, or end of file or
\* an error.
AfterRead(c) == IF peer[c] = "open" THEN state[c] ELSE "DONE"

\* How a reactor sees a callback: the acceptor may be assigning it right now.
Assigning(c, cb) == acur = c /\ apc = cb
SeesSet(c, cb) == cb \in installed[c] \/ Assigning(c, cb)

------------------------------------------------------------------------------
\* Clients.

Connect(c) ==
  /\ sock[c] = "none"
  /\ sock' = [sock EXCEPT ![c] = "queued"]
  /\ UNCHANGED <<proc, fdOf, peer, rx, interest, ready, objects, contextes, acceptor, reactor>>

Arrives(c) == ready' = [ready EXCEPT ![c] = @ \/ "IN" \in interest[c]]

Send(c) ==
  /\ sock[c] \in {"queued", "open"}
  /\ peer[c] = "open"
  /\ rx[c] + buf[c] < MaxRx
  /\ rx' = [rx EXCEPT ![c] = @ + 1]
  /\ Arrives(c)
  /\ UNCHANGED <<proc, sock, fdOf, peer, interest, objects, contextes, acceptor, reactor>>

Hangup(c) ==
  /\ sock[c] \in {"queued", "open"}
  /\ \/ peer[c] = "open" /\ peer' = [peer EXCEPT ![c] = "fin"]
     \/ peer[c] # "rst" /\ peer' = [peer EXCEPT ![c] = "rst"]
  /\ Arrives(c)
  /\ UNCHANGED <<proc, sock, fdOf, rx, interest, objects, contextes, acceptor, reactor>>

------------------------------------------------------------------------------
\* The acceptor thread: Acceptor::AcceptConnection, Server::contextCreator and
\* the constructor of Context.

\* accept() and the part of the constructor nobody else can see.  __state is
\* not initialised: it holds whatever the heap held.
AcceptConnection(c) ==
  /\ apc = "idle"
  /\ sock[c] = "queued"
  /\ \/ FreeFds = {} /\ Dies
     \/ \E f \in FreeFds, garbage \in States :
          /\ sock' = [sock EXCEPT ![c] = "open"]
          /\ fdOf' = [fdOf EXCEPT ![c] = f]
          /\ ctx' = [ctx EXCEPT ![c] = "alive"]
          /\ state' = [state EXCEPT ![c] = garbage]
          /\ apc' = "enableRead"
          /\ acur' = c
          /\ UNCHANGED <<proc, peer, rx, interest, ready, installed, buf, revents, contextes, reactor>>

\* IOContext::setEvents: EPOLL_CTL_ADD the first time, EPOLL_CTL_MOD after.
\* Both put a connection that has something to report on the ready list.
SetEvents(here, flag, next) ==
  /\ apc = here
  /\ interest' = [interest EXCEPT ![acur] = @ \cup {flag}]
  /\ ready' = [ready EXCEPT ![acur] = @ \/ Reports(acur, interest[acur] \cup {flag}) # {}]
  /\ apc' = next
  /\ UNCHANGED <<proc, sock, fdOf, peer, rx, objects, contextes, acur, reactor>>

enableRead == SetEvents("enableRead", "IN", "enableWrite")
enableWrite == SetEvents("enableWrite", "OUT", "setET")
setET == SetEvents("setET", "ET", "read")

\* The assignment of a std::function; apc = cb until it is complete.
SetCallback(cb, next) ==
  /\ apc = cb
  /\ installed' = [installed EXCEPT ![acur] = @ \cup {cb}]
  /\ apc' = next
  /\ UNCHANGED <<proc, kernel, ctx, state, buf, revents, contextes, acur, reactor>>

setReadCallback == SetCallback("read", "write")
setWriteCallback == SetCallback("write", "valid")
setOnRecv == SetCallback("recv", "insert")

\* Mutants of SetValid: __state is never assigned; the constructor also sets __onRecv, before onConn.
SetValid_Forgets ==
  /\ apc = "valid"
  /\ apc' = "onConn"
  /\ UNCHANGED <<proc, kernel, objects, contextes, acur, reactor>>

SetValid_SetsOnRecv ==
  /\ apc = "valid"
  /\ state' = [state EXCEPT ![acur] = "VALID"]
  /\ installed' = [installed EXCEPT ![acur] = @ \cup {"recv"}]
  /\ apc' = "onConn"
  /\ UNCHANGED <<proc, kernel, ctx, buf, revents, contextes, acur, reactor>>

SetValid ==
  /\ apc = "valid"
  /\ state' = [state EXCEPT ![acur] = "VALID"]
  /\ apc' = "onConn"
  /\ UNCHANGED <<proc, kernel, ctx, installed, buf, revents, contextes, acur, reactor>>

\* The application's onConn returns; it may have written to the client, and a
\* write to a client that is gone fails or raises SIGPIPE.
OnConnReturns ==
  /\ apc = "onConn"
  /\ \/ \E s \in AfterWrite(acur) :
          /\ state' = [state EXCEPT ![acur] = s]
          /\ apc' = "recv"
          /\ UNCHANGED <<proc, kernel, ctx, installed, buf, revents, contextes, acur, reactor>>
     \/ SigPipe(acur)

\* __contextes[fd] = std::move(newContext)
InsertBegins ==
  /\ apc = "insert"
  /\ \/ /\ apc' = "inserting"
        /\ UNCHANGED <<proc, kernel, objects, contextes, acur, reactor>>
     \/ MapRace

InsertEnds ==
  /\ apc = "inserting"
  /\ DestroyContexts({contextes[fdOf[acur]]})
  /\ contextes' = [contextes EXCEPT ![fdOf[acur]] = acur]
  /\ apc' = "lookup"
  /\ UNCHANGED <<proc, fdOf, peer, state, installed, acur, reactor>>

\* return *__contextes[fd].get(): operator[] makes a null entry if a reactor
\* erased the new one already.
Lookup ==
  /\ apc = "lookup"
  /\ \/ /\ contextes' = [contextes EXCEPT ![fdOf[acur]] = IF @ = Absent THEN Null ELSE @]
        /\ apc' = "idle"
        /\ acur' = Null
        /\ UNCHANGED <<proc, kernel, objects, reactor>>
     \/ MapRace

------------------------------------------------------------------------------
\* A reactor thread: Reactor::loop, Epoll::poll, IOContext::handleGeneral and
\* the handlers of Context.

Goto(r, pc) == rpc' = [rpc EXCEPT ![r] = pc]

\* Mutant of ReadyOn: the reactors share one epoll instance.
ReadyOn_SharedEpoll(r) == {c \in Conns : ready[c] /\ Pending(c) # {}}

ReadyOn(r) ==
  {c \in Conns : ready[c] /\ Pending(c) # {} /\ schedule(fdOf[c]) = r}

\* epoll_wait and setRevents; level-triggered connections stay on the list.
poll(r) ==
  /\ rpc[r] = "poll"
  /\ \E S \in SUBSET ReadyOn(r) :
       /\ S # {}
       /\ Cardinality(S) <= MaxEvents
       /\ S # ReadyOn(r) => Cardinality(S) = MaxEvents
       /\ batch' = [batch EXCEPT ![r] = S]
       /\ revents' = [c \in Conns |-> IF c \in S THEN Pending(c) ELSE revents[c]]
       /\ ready' = [c \in Conns |-> ready[c] /\ (c \in S => "ET" \notin interest[c])]
  /\ Goto(r, "next")
  /\ UNCHANGED <<proc, sock, fdOf, peer, rx, interest, ctx, state, installed, buf, contextes, acceptor, cur>>

\* Mutant of NextIOContext: handleGeneral tests EPOLLOUT first and EPOLLIN in
\* an else branch.
NextIOContext_WritableFirst(r) ==
  /\ rpc[r] = "next"
  /\ \/ /\ batch[r] = {}
        /\ Goto(r, "poll")
        /\ cur' = [cur EXCEPT ![r] = Null]
        /\ UNCHANGED batch
     \/ \E c \in batch[r] :
          /\ cur' = [cur EXCEPT ![r] = c]
          /\ batch' = [batch EXCEPT ![r] = @ \ {c}]
          /\ Goto(r, IF "OUT" \in revents[c] THEN "writable" ELSE "readable")
  /\ UNCHANGED <<proc, kernel, objects, contextes, acceptor>>

\* The loop over the vector poll() returned.
NextIOContext(r) ==
  /\ rpc[r] = "next"
  /\ \/ /\ batch[r] = {}
        /\ Goto(r, "poll")
        /\ cur' = [cur EXCEPT ![r] = Null]
        /\ UNCHANGED batch
     \/ \E c \in batch[r] :
          /\ cur' = [cur EXCEPT ![r] = c]
          /\ batch' = [batch EXCEPT ![r] = @ \ {c}]
          /\ Goto(r, "readable")
  /\ UNCHANGED <<proc, kernel, objects, contextes, acceptor>>

\* Context::__stateCleanup: the handler goes on at pc, or destroys the Context.
stateCleanup(r, pc) ==
  Goto(r, IF state[cur[r]] = "DONE" THEN "erase" ELSE pc)

\* IOContext::handleReadable or handleWritable, the first half of the handler
\* included: without the event or the callback nothing happens and control
\* goes to skip; a half assigned std::function or a MOVED state is fatal.
Dispatch(r, here, event, cb, enter, skip) ==
  LET c == cur[r] IN
  /\ rpc[r] = here
  /\ \/ /\ event \notin revents[c] \/ cb \notin installed[c]
        /\ Goto(r, skip)
        /\ UNCHANGED <<proc, kernel, objects, contextes, acceptor, cur, batch>>
     \/ /\ event \in revents[c] /\ SeesSet(c, cb) /\ state[c] # "MOVED"
        /\ stateCleanup(r, enter)
        /\ UNCHANGED <<proc, kernel, objects, contextes, acceptor, cur, batch>>
     \/ /\ event \in revents[c]
        /\ Assigning(c, cb) \/ (cb \in installed[c] /\ state[c] = "MOVED")
        /\ Dies

handleReadable(r) == Dispatch(r, "readable", "IN", "read", "reading", "writable")
handleWritable(r) == Dispatch(r, "writable", "OUT", "write", "flushed", "next")

\* Mutant of ReadSocket: a ::read of an empty queue counts as a chunk.
ReadSocket_OffByOne(r) ==
  /\ rpc[r] = "reading"
  /\ rx[cur[r]] >= 0
  /\ rx' = [rx EXCEPT ![cur[r]] = @ - 1]
  /\ Goto(r, "check")
  /\ UNCHANGED <<proc, sock, fdOf, peer, interest, ready, objects, contextes, acceptor, cur, batch>>

\* One ::read of the loop in handleReadableEvent.
ReadSocket(r) ==
  LET c == cur[r] IN
  /\ rpc[r] = "reading"
  /\ \/ /\ rx[c] > 0
        /\ rx' = [rx EXCEPT ![c] = @ - 1]
        /\ buf' = [buf EXCEPT ![c] = @ + 1]
        /\ UNCHANGED <<rpc, state>>
     \/ /\ rx[c] = 0
        /\ state' = [state EXCEPT ![c] = AfterRead(c)]
        /\ Goto(r, "check")
        /\ UNCHANGED <<rx, buf>>
  /\ UNCHANGED <<proc, sock, fdOf, peer, interest, ready, ctx, installed, revents, contextes,
                 acceptor, cur, batch>>

\* The rest of handleReadableEvent up to the call of __onRecv.
CheckAndNotify(r) ==
  LET c == cur[r] IN
  /\ rpc[r] = "check"
  /\ \/ /\ state[c] = "DONE" \/ "recv" \notin installed[c]
        /\ stateCleanup(r, "exit")
        /\ UNCHANGED <<proc, kernel, objects, contextes, acceptor, cur, batch>>
     \/ /\ state[c] # "DONE" /\ SeesSet(c, "recv")
        /\ Goto(r, "app")
        /\ UNCHANGED <<proc, kernel, objects, contextes, acceptor, cur, batch>>
     \/ /\ state[c] # "DONE" /\ Assigning(c, "recv")
        /\ Dies

\* The application's onRecv took what was buffered (readString, read), maybe
\* wrote an answer, and returns.
OnRecvReturns(r) ==
  LET c == cur[r] IN
  /\ rpc[r] = "app"
  /\ \/ \E s \in AfterWrite(c) :
          /\ state' = [state EXCEPT ![c] = s]
          /\ buf' = [buf EXCEPT ![c] = 0]
          /\ Goto(r, "exit")
          /\ UNCHANGED <<proc, kernel, ctx, installed, revents, contextes, acceptor, cur, batch>>
     \/ SigPipe(c)

\* The last __stateCleanup of handleReadableEvent.
ReadableExit(r) ==
  /\ rpc[r] = "exit"
  /\ stateCleanup(r, "writable")
  /\ UNCHANGED <<proc, kernel, objects, contextes, acceptor, cur, batch>>

\* handleWritableEvent: flushWriteBuffer, which may find bytes to write and the
\* client gone, then the last __stateCleanup.
FlushAndExit(r) ==
  LET c == cur[r] IN
  /\ rpc[r] = "flushed"
  /\ \/ \E s \in AfterWrite(c) :
          /\ state' = [state EXCEPT ![c] = s]
          /\ Goto(r, IF s = "DONE" THEN "erase" ELSE "next")
          /\ UNCHANGED <<proc, kernel, ctx, installed, buf, revents, contextes, acceptor, cur, batch>>
     \/ SigPipe(c)

\* Mutant of EraseBegins: Context::destroy closes the socket, then erases.
EraseBegins_ClosesFirst(r) ==
  /\ rpc[r] = "erase"
  /\ sock' = [sock EXCEPT ![cur[r]] = "closed"]
  /\ Goto(r, "erasing")
  /\ UNCHANGED <<proc, fdOf, peer, rx, interest, ready, objects, contextes, acceptor, cur, batch>>

\* Context::destroy and Server::contextDestroyer: __contextes.erase(fd), which
\* destroys whatever Context the map holds for that descriptor.  The handler
\* then returns -1, and handleGeneral returns at once.
EraseBegins(r) ==
  /\ rpc[r] = "erase"
  /\ \/ /\ Goto(r, "erasing")
        /\ UNCHANGED <<proc, kernel, objects, contextes, acceptor, cur, batch>>
     \/ MapRace

\* Mutants of EraseEnds: handleGeneral ignores the -1 of handleReadable and
\* calls the next handler; the map holds plain pointers and erase frees nothing.
EraseEnds_GoesOn(r) ==
  /\ rpc[r] = "erasing"
  /\ DestroyContexts({contextes[fdOf[cur[r]]]})
  /\ contextes' = [contextes EXCEPT ![fdOf[cur[r]]] = Absent]
  /\ Goto(r, "writable")
  /\ UNCHANGED <<proc, fdOf, peer, state, installed, acceptor, cur, batch>>

EraseEnds_FreesNothing(r) ==
  /\ rpc[r] = "erasing"
  /\ contextes' = [contextes EXCEPT ![fdOf[cur[r]]] = Absent]
  /\ Goto(r, "next")
  /\ cur' = [cur EXCEPT ![r] = Null]
  /\ UNCHANGED <<proc, kernel, objects, acceptor, batch>>

EraseEnds(r) ==
  /\ rpc[r] = "erasing"
  /\ DestroyContexts({contextes[fdOf[cur[r]]]})
  /\ contextes' = [contextes EXCEPT ![fdOf[cur[r]]] = Absent]
  /\ Goto(r, "next")
  /\ cur' = [cur EXCEPT ![r] = Null]
  /\ UNCHANGED <<proc, fdOf, peer, state, installed, acceptor, batch>>

------------------------------------------------------------------------------
Client == \E c \in Conns : Connect(c) \/ Send(c) \/ Hangup(c)

AcceptorStep ==
  \/ \E c \in Conns : AcceptConnection(c)
  \/ enableRead \/ enableWrite \/ setET
  \/ setReadCallback \/ setWriteCallback \/ SetValid \/ OnConnReturns \/ setOnRecv
  \/ InsertBegins \/ InsertEnds \/ Lookup

ReactorStep(r) ==
  \/ poll(r) \/ NextIOContext(r)
  \/ handleReadable(r) \/ ReadSocket(r) \/ CheckAndNotify(r) \/ OnRecvReturns(r) \/ ReadableExit(r)
  \/ handleWritable(r) \/ FlushAndExit(r)
  \/ EraseBegins(r) \/ EraseEnds(r)

Next ==
  /\ proc = "up"
  /\ Client \/ AcceptorStep \/ \E r \in Reactors : ReactorStep(r)

Spec == Init /\ [][Next]_vars

\* Every thread keeps running and the application's callbacks return; clients
\* owe nothing.
Fairness ==
  /\ WF_vars(proc = "up" /\ AcceptorStep)
  /\ \A r \in Reactors : WF_vars(proc = "up" /\ ReactorStep(r))

FairSpec == Spec /\ Fairness

------------------------------------------------------------------------------
\* Properties.

Alive(c) == ctx[c] = "alive"
Held(r) == batch[r] \cup ({cur[r]} \ {Null})

\* Raw pointers are only used while the Context they point into lives
\* (README.md:7): those epoll keeps, those poll() returned, the one a reactor
\* is handling and the one the acceptor is building.
RawPointersLive ==
  /\ \A r \in Reactors : \A c \in Held(r) : Alive(c)
  /\ \A c \in Conns : interest[c] # {} => Alive(c)
  /\ apc \notin {"idle", "lookup"} => Alive(acur)

\* The map never holds a destroyed Context or one of another descriptor, no
\* two open connections share a descriptor, and contextCreator's assignment
\* never meets a Context it would destroy.
RegistrySound ==
  /\ \A f \in Fds : contextes[f] \in Conns => Alive(contextes[f]) /\ fdOf[contextes[f]] = f
  /\ \A c, d \in Conns : Alive(c) /\ Alive(d) /\ fdOf[c] = fdOf[d] => c = d
  /\ apc \in {"insert", "inserting"} => contextes[fdOf[acur]] \notin Conns

\* Unless a race lost an update of the map, the map owns every Context that
\* the acceptor is not building any more: there is no other leak (README.md:7).
EveryContextOwned ==
  proc = "up" =>
    \A c \in Conns : Alive(c) => c = acur \/ contextes[fdOf[c]] = c

\* A Context is handled by the thread of one reactor only (server.hpp:43),
\* whatever its descriptor was used for before.
OneReactorPerContext ==
  \A r, s \in Reactors : r # s => Held(r) \cap Held(s) = {}

\* A Context is destroyed by the end of its own handler and by nothing else:
\* not by another connection's erase nor by an assignment in the map.
DestroyedByOwnHandler ==
  [][\A c \in Conns : Alive(c) /\ ctx'[c] = "freed" =>
       \E r \in Reactors : rpc[r] = "erasing" /\ cur[r] = c]_vars

\* Whatever __state held before the constructor assigned it (context.cpp:29), a
\* reactor decides afterwards to destroy a Context only when its client went.
Unassigned(c) ==
  acur = c /\ apc \in {"enableRead", "enableWrite", "setET", "read", "write", "valid"}
HealthyKept ==
  [][\A r \in Reactors : rpc[r] # "erase" /\ rpc'[r] = "erase" =>
       peer[cur[r]] # "open" \/ Unassigned(cur[r])]_vars

\* The parts of the inductive invariant the four state predicates above rest
\* on: what ties the objects to the kernel, what a reactor may hold, and what
\* the acceptor may be building.
KernelSound ==
  \A c \in Conns :
    /\ Alive(c) <=> sock[c] = "open"
    /\ Alive(c) => fdOf[c] \in Fds
    /\ interest[c] # {} => Alive(c)
    /\ ready[c] => interest[c] # {}

HeldSound ==
  \A r \in Reactors :
    /\ \A c \in Held(r) : Alive(c) /\ schedule(fdOf[c]) = r
    /\ cur[r] \notin batch[r]
    /\ rpc[r] = "poll" => Held(r) = {}
    /\ rpc[r] \notin {"poll", "next"} => cur[r] # Null

BuildingSound ==
  /\ apc = "idle" <=> acur = Null
  /\ apc \notin {"idle", "lookup"} => Alive(acur) /\ contextes[fdOf[acur]] \notin Conns
  /\ proc = "up" /\ apc = "lookup" /\ Alive(acur) => contextes[fdOf[acur]] = acur

\* The inductive invariant: kernel, reactors, acceptor and map agree on which
\* Contexts live, whoever erases what.
IInv ==
  /\ KernelSound /\ HeldSound /\ BuildingSound
  /\ RegistrySound /\ EveryContextOwned

Notified(c) == \E r \in Reactors : rpc[r] = "app" /\ cur[r] = c
Gone(c) == ctx[c] = "freed" \/ proc # "up"
Registered(c) == Alive(c) /\ contextes[fdOf[c]] = c

\* Data that comes when the Context is in the map reaches onRecv, unless the
\* client goes first.
EdgeNotifies ==
  \A c \in Conns : (Registered(c) /\ ready[c] /\ rx[c] > 0) ~> (Notified(c) \/ Gone(c))

\* A client that goes when its Context is in the map has its Context destroyed.
HangupReclaims ==
  \A c \in Conns : (Registered(c) /\ ready[c] /\ peer[c] # "open") ~> Gone(c)

\* The callbacks of the application keep the order AppCallbacks promises, and
\* no two threads are in the callbacks of one connection at the same time.
Life ==
  [c \in Conns |->
     IF ctx[c] = "freed" THEN "gone"
     ELSE IF Notified(c) THEN "receiving"
     ELSE IF acur = c /\ apc = "onConn" THEN "greeting"
     ELSE IF Alive(c) /\ (acur = c => apc \in {"recv", "insert", "inserting", "lookup"})
          THEN "greeted"
     ELSE "unseen"]
App == INSTANCE AppCallbacks WITH life <- Life
ImplementsAppCallbacks == App!Spec

\* What the documentation says, and the code does not keep.

\* README.md:7 "to avoid memory leak (slightly similar to some kind of GC)":
\* the Context of a client that went is destroyed.
ClosedReclaimed ==
  \A c \in Conns : (Alive(c) /\ peer[c] # "open") ~> Gone(c)

\* README.md:18-22: onRecv runs when a message was received from a client that
\* stays connected.
DataNotifies ==
  \A c \in Conns :
    (Alive(c) /\ rx[c] > 0) ~> (Notified(c) \/ Gone(c) \/ peer[c] # "open")
=============================================================================
