-------------------------- MODULE ConnectionsProofs --------------------------
(***************************************************************************)
(* Connections keeps its safety properties for any number of connections,  *)
(* descriptors and reactors.                                               *)
(***************************************************************************)
EXTENDS Connections, TLAPS

------------------------------------------------------------------------------
\* Type correctness.

\* What the kernel reports is among the events asked for.
LEMMA ReportsType ==
  ASSUME NEW c \in Conns, NEW events \in SUBSET Interests
  PROVE  Reports(c, events) \in SUBSET events
BY DEF Reports

\* Destroying Contexts keeps the types, whatever the set names.
LEMMA DestroyType ==
  ASSUME TypeOK, NEW D, DestroyContexts(D)
  PROVE  /\ ctx' \in [Conns -> {"none", "alive", "freed"}]
         /\ sock' \in [Conns -> {"none", "queued", "open", "closed"}]
         /\ interest' \in [Conns -> SUBSET Interests]
         /\ ready' \in [Conns -> BOOLEAN]
         /\ rx' \in [Conns -> Nat]
         /\ buf' \in [Conns -> Nat]
         /\ revents' \in [Conns -> SUBSET Interests]
<1>1. ready' \in [Conns -> BOOLEAN]
  BY DEF DestroyContexts, TypeOK
<1>2. QED
  BY <1>1 DEF DestroyContexts, TypeOK

\* Every variable keeps its type (the declarations of context.hpp, server.hpp).
LEMMA TypeInductive == TypeOK /\ [Next]_vars => TypeOK'
<1> SUFFICES ASSUME TypeOK, [Next]_vars
             PROVE  TypeOK'
  OBVIOUS
<1> USE DEF kernel, objects, acceptor, reactor
<1>1. CASE UNCHANGED vars
  BY <1>1 DEF TypeOK, vars
<1>2. CASE Dies
  BY <1>2 DEF TypeOK, Dies
<1>3. CASE MapRace
  BY <1>3 DEF TypeOK, MapRace
<1>4. ASSUME NEW c \in Conns, Connect(c) \/ Send(c) \/ Hangup(c)
      PROVE  TypeOK'
  <2>1. CASE Connect(c)
    BY <2>1 DEF TypeOK, Connect
  <2>2. CASE Send(c)
    BY <2>2 DEF TypeOK, Send, Arrives
  <2>3. CASE Hangup(c)
    BY <2>3 DEF TypeOK, Hangup, Arrives
  <2>4. QED
    BY <1>4, <2>1, <2>2, <2>3
<1>5. ASSUME NEW c \in Conns, AcceptConnection(c)
      PROVE  TypeOK'
  BY <1>2, <1>5 DEF TypeOK, AcceptConnection, FreeFds, AcceptorPCs
<1>6. CASE enableRead \/ enableWrite \/ setET
  <2>1. ASSUME NEW here, NEW flag \in Interests, NEW next \in AcceptorPCs,
               SetEvents(here, flag, next)
        PROVE  TypeOK'
    BY <2>1 DEF TypeOK, SetEvents
  <2>2. QED
    BY <1>6, <2>1 DEF enableRead, enableWrite, setET, Interests, AcceptorPCs
<1>7. CASE setReadCallback \/ setWriteCallback \/ setOnRecv
  <2>1. ASSUME NEW cb \in Callbacks, NEW next \in AcceptorPCs, SetCallback(cb, next)
        PROVE  TypeOK'
    BY <2>1 DEF TypeOK, SetCallback
  <2>2. QED
    BY <1>7, <2>1 DEF setReadCallback, setWriteCallback, setOnRecv, Callbacks, AcceptorPCs
<1>8. CASE SetValid
  BY <1>8 DEF TypeOK, SetValid, States, AcceptorPCs
<1>9. CASE OnConnReturns
  BY <1>2, <1>9 DEF TypeOK, OnConnReturns, AfterWrite, SigPipe, States, AcceptorPCs
<1>10. CASE InsertBegins
  BY <1>3, <1>10 DEF TypeOK, InsertBegins, AcceptorPCs
<1>11. CASE InsertEnds
  <2>1. acur \in Conns \cup {Absent, Null}
    BY DEF TypeOK
  <2>2. QED
    BY <1>11, <2>1, DestroyType DEF TypeOK, InsertEnds, AcceptorPCs
<1>12. CASE Lookup
  BY <1>3, <1>12 DEF TypeOK, Lookup, AcceptorPCs
<1>13. ASSUME NEW r \in Reactors, ReactorStep(r)
       PROVE  TypeOK'
  <2>1. CASE poll(r)
    BY <2>1, ReportsType DEF TypeOK, poll, Goto, ReadyOn, Pending, ReactorPCs
  <2>2. CASE NextIOContext(r)
    BY <2>2 DEF TypeOK, NextIOContext, Goto, ReactorPCs
  <2>3. CASE handleReadable(r)
    BY <1>2, <2>3 DEF TypeOK, handleReadable, Dispatch, Goto, stateCleanup, ReactorPCs
  <2>4. CASE handleWritable(r)
    BY <1>2, <2>4 DEF TypeOK, handleWritable, Dispatch, Goto, stateCleanup, ReactorPCs
  <2>5. CASE ReadSocket(r)
    BY <2>5 DEF TypeOK, ReadSocket, AfterRead, Goto, States, ReactorPCs
  <2>6. CASE CheckAndNotify(r)
    BY <1>2, <2>6 DEF TypeOK, CheckAndNotify, Goto, stateCleanup, ReactorPCs
  <2>7. CASE OnRecvReturns(r)
    BY <1>2, <2>7 DEF TypeOK, OnRecvReturns, AfterWrite, SigPipe, Goto, States, ReactorPCs
  <2>8. CASE ReadableExit(r)
    BY <2>8 DEF TypeOK, ReadableExit, Goto, stateCleanup, ReactorPCs
  <2>9. CASE FlushAndExit(r)
    BY <1>2, <2>9 DEF TypeOK, FlushAndExit, AfterWrite, SigPipe, Goto, States, ReactorPCs
  <2>10. CASE EraseBegins(r)
    BY <1>3, <2>10 DEF TypeOK, EraseBegins, Goto, ReactorPCs
  <2>11. CASE EraseEnds(r)
    BY <2>11, DestroyType DEF TypeOK, EraseEnds, Goto, ReactorPCs
  <2>12. QED
    BY <1>13, <2>1, <2>2, <2>3, <2>4, <2>5, <2>6, <2>7, <2>8, <2>9, <2>10, <2>11
    DEF ReactorStep
<1>14. QED
  BY <1>1, <1>4, <1>5, <1>6, <1>7, <1>8, <1>9, <1>10, <1>11, <1>12, <1>13
  DEF Next, Client, AcceptorStep

\* Type correctness, for every instance.
THEOREM TypeCorrect == Spec => []TypeOK
<1>1. Init => TypeOK
  BY DEF Init, TypeOK, States, Interests, Callbacks, AcceptorPCs, ReactorPCs
<1>2. QED
  BY <1>1, TypeInductive, PTL DEF Spec

------------------------------------------------------------------------------
\* The inductive invariant.

\* A step that leaves the objects, the kernel's tables, the map and what the
\* threads hold alone keeps the invariant, wherever reactor r goes in the
\* handlers.
LEMMA HandlerStep ==
  ASSUME TypeOK, IInv,
         UNCHANGED <<sock, fdOf, interest, ready, ctx, contextes, acceptor, cur, batch>>,
         proc' = "up" => proc = "up",
         NEW r \in Reactors, NEW pc \in ReactorPCs \ {"poll"},
         rpc[r] \notin {"poll", "next"},
         rpc' = [rpc EXCEPT ![r] = pc] \/ rpc' = rpc
  PROVE  IInv'
<1> USE DEF acceptor, Alive, Held
<1>1. HeldSound'
  BY DEF TypeOK, IInv, HeldSound
<1>2. KernelSound' /\ BuildingSound'
  BY DEF IInv, KernelSound, BuildingSound
<1>3. RegistrySound' /\ EveryContextOwned'
  BY DEF IInv, RegistrySound, EveryContextOwned
<1>4. QED
  BY <1>1, <1>2, <1>3 DEF IInv

\* A step of the acceptor between accept() and the assignment in the map, or
\* of a client: nothing is created, destroyed or registered in the map.
LEMMA BuildingStep ==
  ASSUME TypeOK, IInv,
         UNCHANGED <<fdOf, ctx, contextes, acur, reactor>>,
         \A c \in Conns : sock'[c] = "open" <=> sock[c] = "open",
         \A c \in Conns : interest'[c] # {} => interest[c] # {} \/ Alive(c),
         \A c \in Conns : ready'[c] => interest'[c] # {},
         proc' = "up" => proc = "up",
         \/ apc' = apc
         \/ apc' \in AcceptorPCs \ {"idle", "lookup"} /\ apc \notin {"idle", "lookup"}
  PROVE  IInv'
<1> USE DEF reactor, Alive, Held
<1>1. KernelSound'
  BY DEF TypeOK, IInv, KernelSound
<1>2. HeldSound'
  BY DEF TypeOK, IInv, HeldSound
<1>3. BuildingSound'
  BY DEF IInv, BuildingSound
<1>4. RegistrySound' /\ EveryContextOwned'
  BY DEF IInv, RegistrySound, EveryContextOwned, BuildingSound
<1>5. QED
  BY <1>1, <1>2, <1>3, <1>4 DEF IInv

\* accept() hands out a descriptor no open connection has, so no entry of the
\* map is for it and no reactor holds the new Context.
LEMMA AcceptStep ==
  ASSUME TypeOK, IInv, NEW c \in Conns, AcceptConnection(c), ~Dies
  PROVE  IInv'
<1> USE DEF reactor, Alive, Held
<1> PICK f \in FreeFds, garbage \in States :
      /\ sock' = [sock EXCEPT ![c] = "open"]
      /\ fdOf' = [fdOf EXCEPT ![c] = f]
      /\ ctx' = [ctx EXCEPT ![c] = "alive"]
      /\ state' = [state EXCEPT ![c] = garbage]
      /\ apc' = "enableRead"
      /\ acur' = c
      /\ UNCHANGED <<proc, peer, rx, interest, ready, installed, buf, revents, contextes, reactor>>
  BY DEF AcceptConnection
<1>1. apc = "idle" /\ sock[c] = "queued" /\ ~Alive(c)
  BY DEF AcceptConnection, IInv, KernelSound
<1>2. f \in Fds /\ \A d \in Conns : Alive(d) => fdOf[d] # f
  BY DEF FreeFds, IInv, KernelSound
<1>3. KernelSound'
  BY <1>2 DEF TypeOK, IInv, KernelSound
<1>4. HeldSound'
  BY <1>1 DEF TypeOK, IInv, HeldSound
<1>5. BuildingSound'
  <2>1. contextes[f] \notin Conns
    BY <1>2 DEF IInv, RegistrySound
  <2>2. acur' # Null
    BY ConstantsAssumption
  <2>3. QED
    BY <2>1, <2>2 DEF TypeOK, BuildingSound
<1>6. RegistrySound'
  BY <1>1, <1>2 DEF TypeOK, IInv, RegistrySound
<1>7. EveryContextOwned'
  <2>1. acur \notin Conns
    BY <1>1, ConstantsAssumption DEF IInv, BuildingSound
  <2>2. QED
    BY <1>1, <2>1 DEF TypeOK, IInv, EveryContextOwned
<1>8. QED
  BY <1>3, <1>4, <1>5, <1>6, <1>7 DEF IInv

\* The assignment in the map destroys nothing, and the map owns the Context.
LEMMA InsertStep ==
  ASSUME TypeOK, IInv, InsertEnds
  PROVE  IInv'
<1> USE DEF reactor, Alive, Held
<1>1. /\ acur \in Conns /\ Alive(acur) /\ fdOf[acur] \in Fds
      /\ contextes[fdOf[acur]] \notin Conns
  BY DEF TypeOK, IInv, InsertEnds, BuildingSound, KernelSound
<1>2. UNCHANGED <<proc, sock, fdOf, interest, ready, ctx, acur, reactor>>
  <2>1. \A c \in Conns : c \notin {contextes[fdOf[acur]]}
    BY <1>1
  <2>2. ready' = [c \in Conns |-> ready[c]]
    BY <2>1, ZenonT(30) DEF InsertEnds, DestroyContexts, TypeOK
  <2>3. ready' = ready
    BY <2>2 DEF TypeOK
  <2>4. QED
    BY <2>1, <2>3 DEF TypeOK, InsertEnds, DestroyContexts
<1>3. /\ contextes' = [contextes EXCEPT ![fdOf[acur]] = acur]
      /\ apc = "inserting" /\ apc' = "lookup"
  BY DEF InsertEnds
<1>4. KernelSound' /\ HeldSound'
  BY <1>2 DEF IInv, KernelSound, HeldSound
<1>5. BuildingSound'
  BY <1>1, <1>2, <1>3 DEF TypeOK, IInv, BuildingSound
<1>6. RegistrySound'
  BY <1>1, <1>2, <1>3 DEF TypeOK, IInv, RegistrySound
<1>7. EveryContextOwned'
  BY <1>1, <1>2, <1>3 DEF TypeOK, IInv, EveryContextOwned, RegistrySound
<1>8. QED
  BY <1>4, <1>5, <1>6, <1>7 DEF IInv

\* What reactor r destroys is the Context it handles, if the map has it, and
\* nothing if the acceptor has not put it there yet.
LEMMA EraseTarget ==
  ASSUME TypeOK, IInv, NEW r \in Reactors, EraseEnds(r)
  PROVE  /\ cur[r] \in Conns /\ Alive(cur[r]) /\ fdOf[cur[r]] \in Fds
         /\ schedule(fdOf[cur[r]]) = r
         /\ contextes[fdOf[cur[r]]] \in Conns => contextes[fdOf[cur[r]]] = cur[r]
<1>1. cur[r] \in Conns /\ cur[r] \in Held(r)
  BY DEF TypeOK, IInv, HeldSound, EraseEnds, Held
<1>2. Alive(cur[r]) /\ schedule(fdOf[cur[r]]) = r
  BY <1>1 DEF IInv, HeldSound
<1>3. fdOf[cur[r]] \in Fds
  BY <1>1, <1>2 DEF IInv, KernelSound
<1>4. ASSUME contextes[fdOf[cur[r]]] \in Conns
      PROVE  contextes[fdOf[cur[r]]] = cur[r]
  BY <1>1, <1>2, <1>3, <1>4 DEF IInv, RegistrySound
<1>5. QED
  BY <1>1, <1>2, <1>3, <1>4

\* The end of a handler that destroys: no thread holds the Context any more.
LEMMA EraseStep ==
  ASSUME TypeOK, IInv, NEW r \in Reactors, EraseEnds(r)
  PROVE  IInv'
<1> USE DEF acceptor, Alive
<1> DEFINE D == {contextes[fdOf[cur[r]]]}
           f == fdOf[cur[r]]
<1>1. /\ cur[r] \in Conns /\ Alive(cur[r]) /\ f \in Fds /\ schedule(f) = r
      /\ \A c \in Conns : c \in D => c = cur[r]
  BY EraseTarget
<1>2. /\ UNCHANGED <<proc, fdOf, acceptor, batch>>
      /\ contextes' = [contextes EXCEPT ![f] = Absent]
      /\ cur' = [cur EXCEPT ![r] = Null]
      /\ rpc[r] = "erasing" /\ rpc' = [rpc EXCEPT ![r] = "next"]
  BY DEF EraseEnds, Goto
<1>3. \A c \in Conns :
        /\ c \in D => ctx'[c] = "freed" /\ sock'[c] = "closed"
                      /\ interest'[c] = {} /\ ~ready'[c]
        /\ c \notin D => ctx'[c] = ctx[c] /\ sock'[c] = sock[c]
                      /\ interest'[c] = interest[c] /\ (ready'[c] => ready[c])
  BY DEF EraseEnds, DestroyContexts
<1> HIDE DEF D
<1>4. KernelSound'
  BY <1>2, <1>3 DEF TypeOK, IInv, KernelSound
<1>5. HeldSound'
  <2>1. ASSUME NEW s \in Reactors, NEW c \in Held(s)'
        PROVE  Alive(c)' /\ schedule(fdOf'[c]) = s
    <3>1. c \in Held(s) /\ c \in Conns
      BY <1>2 DEF TypeOK, Held
    <3>2. Alive(c) /\ schedule(fdOf[c]) = s
      BY <3>1 DEF IInv, HeldSound
    <3>3. c # cur[r]
      <4>1. CASE s = r
        BY <1>2, <4>1 DEF TypeOK, Held, IInv, HeldSound
      <4>2. CASE s # r
        BY <1>1, <3>2, <4>2
      <4>3. QED
        BY <4>1, <4>2
    <3>4. QED
      BY <1>1, <1>2, <1>3, <3>1, <3>2, <3>3
  <2>2. \A s \in Reactors :
          /\ cur'[s] \notin batch'[s]
          /\ rpc'[s] = "poll" => Held(s)' = {}
          /\ rpc'[s] \notin {"poll", "next"} => cur'[s] # Null
    BY <1>2, ConstantsAssumption DEF TypeOK, IInv, HeldSound, Held
  <2>3. QED
    BY <2>1, <2>2 DEF HeldSound
<1>6. BuildingSound'
  <2>1. apc = "idle" <=> acur = Null
    BY DEF IInv, BuildingSound
  <2>2. ASSUME apc \notin {"idle", "lookup"}
        PROVE  Alive(acur)' /\ contextes'[fdOf'[acur']] \notin Conns
    <3>1. acur \in Conns /\ Alive(acur) /\ fdOf[acur] \in Fds /\ contextes[fdOf[acur]] \notin Conns
      BY <2>2 DEF TypeOK, IInv, BuildingSound, KernelSound
    <3>2. acur \notin D
      BY <1>1, <3>1 DEF D
    <3>3. QED
      BY <1>2, <1>3, <3>1, <3>2, ConstantsAssumption DEF TypeOK
  <2>3. ASSUME proc = "up", apc = "lookup", Alive(acur)'
        PROVE  contextes'[fdOf'[acur']] = acur'
    <3>1. acur \in Conns
      BY <2>1, <2>3 DEF TypeOK
    <3>2. Alive(acur) /\ acur \notin D
      BY <1>2, <1>3, <2>3, <3>1
    <3>3. contextes[fdOf[acur]] = acur
      BY <2>3, <3>2 DEF IInv, BuildingSound
    <3>4. fdOf[acur] # f
      BY <3>1, <3>2, <3>3 DEF D
    <3>5. QED
      BY <1>2, <3>3, <3>4 DEF TypeOK
  <2>4. QED
    BY <1>2, <2>1, <2>2, <2>3 DEF BuildingSound
<1>7. RegistrySound'
  <2>1. ASSUME NEW g \in Fds, contextes'[g] \in Conns
        PROVE  Alive(contextes[g])' /\ fdOf'[contextes'[g]] = g
    <3>1. g # f /\ contextes'[g] = contextes[g]
      BY <1>2, <2>1, ConstantsAssumption DEF TypeOK
    <3>2. Alive(contextes[g]) /\ fdOf[contextes[g]] = g
      BY <2>1, <3>1 DEF IInv, RegistrySound
    <3>3. contextes[g] \notin D
      BY <1>1, <2>1, <3>1, <3>2
    <3>4. QED
      BY <1>2, <1>3, <2>1, <3>1, <3>2, <3>3
  <2>2. \A c, d \in Conns : Alive(c)' /\ Alive(d)' /\ fdOf'[c] = fdOf'[d] => c = d
    BY <1>2, <1>3 DEF IInv, RegistrySound
  <2>3. apc' \in {"insert", "inserting"} => contextes'[fdOf'[acur']] \notin Conns
    BY <1>6 DEF BuildingSound
  <2>4. QED
    BY <2>1, <2>2, <2>3 DEF RegistrySound
<1>8. EveryContextOwned'
  <2>1. SUFFICES ASSUME proc = "up", NEW c \in Conns, Alive(c)', c # acur
                 PROVE  contextes'[fdOf'[c]] = c
    BY <1>2 DEF EveryContextOwned
  <2>2. Alive(c) /\ c \notin D
    BY <1>3, <2>1
  <2>3. contextes[fdOf[c]] = c
    BY <2>1, <2>2 DEF IInv, EveryContextOwned
  <2>4. fdOf[c] # f
    BY <2>2, <2>3 DEF D
  <2>5. QED
    BY <1>2, <2>3, <2>4 DEF TypeOK
<1>9. QED
  BY <1>4, <1>5, <1>6, <1>7, <1>8 DEF IInv

\* The invariant is inductive: one step per action of connections' life.
LEMMA InvInductive == TypeOK /\ IInv /\ [Next]_vars => IInv'
<1> SUFFICES ASSUME TypeOK, IInv, [Next]_vars
             PROVE  IInv'
  OBVIOUS
<1> USE DEF kernel, objects
<1>0. ASSUME UNCHANGED <<kernel, objects, contextes, acceptor, reactor>>,
             proc' = "up" => proc = "up"
      PROVE  IInv'
  BY <1>0 DEF acceptor, reactor, IInv, KernelSound, HeldSound, BuildingSound, RegistrySound,
              EveryContextOwned, Alive, Held
<1>1. CASE UNCHANGED vars
  BY <1>0, <1>1 DEF vars
<1>2. CASE Dies
  BY <1>0, <1>2 DEF Dies
<1>3. CASE MapRace
  BY <1>0, <1>3 DEF MapRace
<1>4. ASSUME NEW c \in Conns, Connect(c) \/ Send(c) \/ Hangup(c)
      PROVE  IInv'
  <2>1. /\ UNCHANGED <<proc, fdOf, interest, ctx, contextes, acceptor, reactor>>
        /\ \A d \in Conns : sock'[d] = "open" <=> sock[d] = "open"
    BY <1>4 DEF TypeOK, Connect, Send, Hangup
  <2>2. \A d \in Conns : ready'[d] => interest'[d] # {}
    BY <1>4 DEF TypeOK, IInv, KernelSound, Connect, Send, Hangup, Arrives
  <2>3. QED
    BY <2>1, <2>2, BuildingStep DEF acceptor
<1>5. ASSUME NEW c \in Conns, AcceptConnection(c)
      PROVE  IInv'
  BY <1>2, <1>5, AcceptStep
<1>6. CASE enableRead \/ enableWrite \/ setET
  <2>1. ASSUME NEW here \in AcceptorPCs \ {"idle", "lookup"}, NEW flag,
               NEW next \in AcceptorPCs \ {"idle", "lookup"},
               SetEvents(here, flag, next)
        PROVE  IInv'
    <3>1. Alive(acur) /\ acur \in Conns
      BY <2>1, ConstantsAssumption DEF TypeOK, IInv, BuildingSound, SetEvents
    <3>2. \A d \in Conns : /\ interest'[d] # {} => interest[d] # {} \/ Alive(d)
                           /\ ready'[d] => interest'[d] # {}
      BY <2>1, <3>1 DEF TypeOK, IInv, KernelSound, SetEvents
    <3>3. QED
      BY <2>1, <3>2, BuildingStep DEF SetEvents
  <2>2. QED
    BY <1>6, <2>1 DEF enableRead, enableWrite, setET, AcceptorPCs
<1>7. CASE setReadCallback \/ setWriteCallback \/ setOnRecv \/ SetValid
  <2>1. /\ UNCHANGED <<proc, kernel, ctx, contextes, acur, reactor>>
        /\ apc \in AcceptorPCs \ {"idle", "lookup"} /\ apc' \in AcceptorPCs \ {"idle", "lookup"}
    BY <1>7 DEF setReadCallback, setWriteCallback, setOnRecv, SetValid, SetCallback, AcceptorPCs
  <2>2. \A d \in Conns : ready'[d] => interest'[d] # {}
    BY <2>1 DEF IInv, KernelSound
  <2>3. QED
    BY <2>1, <2>2, BuildingStep
<1>8. CASE OnConnReturns \/ InsertBegins
  <2>1. CASE SigPipe(acur) \/ MapRace
    BY <1>2, <1>3, <2>1 DEF SigPipe
  <2>2. CASE /\ UNCHANGED <<proc, kernel, ctx, contextes, acur, reactor>>
             /\ apc \in AcceptorPCs \ {"idle", "lookup"} /\ apc' \in AcceptorPCs \ {"idle", "lookup"}
    <3>1. \A d \in Conns : ready'[d] => interest'[d] # {}
      BY <2>2 DEF IInv, KernelSound
    <3>2. QED
      BY <2>2, <3>1, BuildingStep
  <2>3. QED
    BY <1>8, <2>1, <2>2 DEF OnConnReturns, InsertBegins, AcceptorPCs
<1>9. CASE InsertEnds
  BY <1>9, InsertStep
<1>10. CASE Lookup
  <2>1. CASE MapRace
    BY <1>3, <2>1
  <2>2. CASE /\ contextes' = [contextes EXCEPT ![fdOf[acur]] = IF @ = Absent THEN Null ELSE @]
             /\ apc = "lookup" /\ apc' = "idle" /\ acur' = Null
             /\ UNCHANGED <<proc, kernel, objects, reactor>>
    <3>1. \A g \in Fds : IF contextes'[g] \in Conns THEN contextes[g] = contextes'[g]
                                                    ELSE contextes[g] \notin Conns
      BY <2>2, ConstantsAssumption DEF TypeOK
    <3>2. KernelSound' /\ HeldSound'
      BY <2>2 DEF reactor, IInv, KernelSound, HeldSound, Alive, Held
    <3>3. BuildingSound'
      BY <2>2 DEF BuildingSound
    <3>4. RegistrySound'
      BY <2>2, <3>1 DEF IInv, RegistrySound, Alive
    <3>5. EveryContextOwned'
      <4>1. SUFFICES ASSUME proc = "up", NEW c \in Conns, Alive(c)
                     PROVE  contextes'[fdOf[c]] = c
        BY <2>2 DEF EveryContextOwned, Alive
      <4>2. contextes[fdOf[c]] = c /\ fdOf[c] \in Fds
        BY <2>2, <4>1 DEF IInv, EveryContextOwned, BuildingSound, KernelSound
      <4>3. QED
        BY <2>2, <4>2, ConstantsAssumption DEF TypeOK
    <3>6. QED
      BY <3>2, <3>3, <3>4, <3>5 DEF IInv
  <2>3. QED
    BY <1>10, <2>1, <2>2 DEF Lookup
<1>11. ASSUME NEW r \in Reactors, ReactorStep(r)
       PROVE  IInv'
  <2>1. CASE poll(r)
    <3>1. PICK S \in SUBSET ReadyOn(r) :
            /\ batch' = [batch EXCEPT ![r] = S]
            /\ ready' = [c \in Conns |-> ready[c] /\ (c \in S => "ET" \notin interest[c])]
      BY <2>1 DEF poll
    <3>2. /\ UNCHANGED <<proc, sock, fdOf, interest, ctx, contextes, acceptor, cur>>
          /\ rpc[r] = "poll" /\ rpc' = [rpc EXCEPT ![r] = "next"]
      BY <2>1 DEF poll, Goto
    <3>3. \A c \in S : c \in Conns /\ Alive(c) /\ schedule(fdOf[c]) = r
      BY DEF ReadyOn, IInv, KernelSound
    <3>4. cur[r] = Null /\ Null \notin Conns
      BY <3>2, ConstantsAssumption DEF IInv, HeldSound, Held, TypeOK
    <3>5. HeldSound'
      BY <3>1, <3>2, <3>3, <3>4 DEF TypeOK, IInv, HeldSound, Held, Alive
    <3>6. KernelSound'
      BY <3>1, <3>2 DEF IInv, KernelSound, Alive
    <3>7. BuildingSound' /\ RegistrySound' /\ EveryContextOwned'
      BY <3>2 DEF acceptor, IInv, BuildingSound, RegistrySound, EveryContextOwned, Alive
    <3>8. QED
      BY <3>5, <3>6, <3>7 DEF IInv
  <2>2. CASE NextIOContext(r)
    <3>1. UNCHANGED <<proc, kernel, objects, contextes, acceptor>>
      BY <2>2 DEF NextIOContext
    <3>2. HeldSound'
      <4>1. CASE /\ batch[r] = {} /\ UNCHANGED batch
                 /\ rpc' = [rpc EXCEPT ![r] = "poll"] /\ cur' = [cur EXCEPT ![r] = Null]
        BY <3>1, <4>1, ConstantsAssumption DEF TypeOK, IInv, HeldSound, Held, Alive
      <4>2. ASSUME NEW c \in batch[r],
                   rpc' = [rpc EXCEPT ![r] = "readable"], cur' = [cur EXCEPT ![r] = c],
                   batch' = [batch EXCEPT ![r] = @ \ {c}]
            PROVE  HeldSound'
        <5>1. c \in Conns /\ c # Null
          BY ConstantsAssumption DEF TypeOK
        <5>2. QED
          BY <3>1, <4>2, <5>1 DEF TypeOK, IInv, HeldSound, Held, Alive
      <4>3. QED
        BY <2>2, <4>1, <4>2 DEF NextIOContext, Goto
    <3>3. KernelSound' /\ BuildingSound' /\ RegistrySound' /\ EveryContextOwned'
      BY <3>1 DEF acceptor, IInv, KernelSound, BuildingSound, RegistrySound, EveryContextOwned, Alive
    <3>4. QED
      BY <3>2, <3>3 DEF IInv
  <2>3. CASE handleReadable(r) \/ handleWritable(r)
    <3>1. ASSUME NEW here \in {"readable", "writable"}, NEW event, NEW cb,
                 NEW enter \in {"reading", "flushed"}, NEW skip \in {"writable", "next"},
                 Dispatch(r, here, event, cb, enter, skip)
          PROVE  IInv'
      <4>1. CASE Dies
        BY <1>2, <4>1
      <4>2. CASE ~Dies
        <5>1. PICK pc \in ReactorPCs \ {"poll"} : rpc' = [rpc EXCEPT ![r] = pc]
          BY <3>1, <4>2 DEF Dispatch, stateCleanup, Goto, ReactorPCs
        <5>2. /\ UNCHANGED <<proc, kernel, objects, contextes, acceptor, cur, batch>>
              /\ rpc[r] \notin {"poll", "next"}
          BY <3>1, <4>2 DEF Dispatch
        <5>3. QED
          BY <5>1, <5>2, HandlerStep
      <4>3. QED
        BY <4>1, <4>2
    <3>2. QED
      BY <2>3, <3>1 DEF handleReadable, handleWritable
  <2>4. CASE ReadSocket(r)
    <3>1. /\ UNCHANGED <<proc, sock, fdOf, interest, ready, ctx, contextes, acceptor, cur, batch>>
          /\ rpc[r] \notin {"poll", "next"}
          /\ rpc' = rpc \/ rpc' = [rpc EXCEPT ![r] = "check"]
      BY <2>4 DEF ReadSocket, Goto
    <3>2. "check" \in ReactorPCs \ {"poll"}
      BY DEF ReactorPCs
    <3>3. QED
      BY <3>1, <3>2, HandlerStep
  <2>5. CASE CheckAndNotify(r) \/ OnRecvReturns(r) \/ ReadableExit(r) \/ FlushAndExit(r) \/ EraseBegins(r)
    <3>1. CASE Dies \/ MapRace
      BY <1>2, <1>3, <3>1
    <3>2. CASE ~Dies /\ ~MapRace
      <4>1. PICK pc \in ReactorPCs \ {"poll"} : rpc' = [rpc EXCEPT ![r] = pc]
        BY <2>5, <3>2 DEF CheckAndNotify, OnRecvReturns, ReadableExit, FlushAndExit, EraseBegins,
                          stateCleanup, SigPipe, Goto, ReactorPCs
      <4>2. /\ UNCHANGED <<proc, kernel, ctx, contextes, acceptor, cur, batch>>
            /\ rpc[r] \notin {"poll", "next"}
        BY <2>5, <3>2 DEF CheckAndNotify, OnRecvReturns, ReadableExit, FlushAndExit, EraseBegins,
                          SigPipe
      <4>3. QED
        BY <4>1, <4>2, HandlerStep
    <3>3. QED
      BY <3>1, <3>2
  <2>6. CASE EraseEnds(r)
    BY <2>6, EraseStep
  <2>7. QED
    BY <1>11, <2>1, <2>2, <2>3, <2>4, <2>5, <2>6 DEF ReactorStep
<1>12. QED
  BY <1>1, <1>4, <1>5, <1>6, <1>7, <1>8, <1>9, <1>10, <1>11 DEF Next, Client, AcceptorStep

\* The inductive invariant, for every instance.
THEOREM Invariance == Spec => [](TypeOK /\ IInv)
<1>1. Init => TypeOK
  BY DEF Init, TypeOK, States, Interests, Callbacks, AcceptorPCs, ReactorPCs
<1>2. Init => IInv
  BY ConstantsAssumption
  DEF Init, IInv, KernelSound, HeldSound, BuildingSound, RegistrySound, EveryContextOwned, Alive, Held
<1>3. QED
  BY <1>1, <1>2, TypeInductive, InvInductive, PTL DEF Spec

------------------------------------------------------------------------------
\* The safety properties.

\* No raw pointer outlives its Context (README.md:7): epoll's data.ptr, the
\* vector poll() returns, the IOContext being handled, the one being built.
THEOREM PointersLive == Spec => []RawPointersLive
<1>1. TypeOK /\ IInv => RawPointersLive
  BY DEF IInv, HeldSound, KernelSound, BuildingSound, RawPointersLive
<1>2. QED
  BY <1>1, Invariance, PTL

\* __contextes and the descriptors agree, and contextCreator never overwrites
\* a Context.
THEOREM RegistryCorrect == Spec => []RegistrySound
<1>1. TypeOK /\ IInv => RegistrySound
  BY DEF IInv
<1>2. QED
  BY <1>1, Invariance, PTL

\* While the map was not corrupted, every finished Context is in it.
THEOREM OwnedByMap == Spec => []EveryContextOwned
<1>1. TypeOK /\ IInv => EveryContextOwned
  BY DEF IInv
<1>2. QED
  BY <1>1, Invariance, PTL

\* schedule(fd) binds a Context to one reactor (server.hpp:43).
THEOREM BoundToOneReactor == Spec => []OneReactorPerContext
<1>1. TypeOK /\ IInv => OneReactorPerContext
  BY DEF IInv, HeldSound, OneReactorPerContext
<1>2. QED
  BY <1>1, Invariance, PTL

\* The assignment __contextes[fd] = newContext destroys no Context.
LEMMA InsertDestroysNothing ==
  ASSUME TypeOK, IInv, InsertEnds
  PROVE  \A c \in Conns : ctx'[c] = ctx[c]
<1>1. contextes[fdOf[acur]] \notin Conns
  BY DEF IInv, InsertEnds, BuildingSound
<1>2. QED
  BY <1>1 DEF InsertEnds, DestroyContexts

\* Only EraseEnds, on behalf of the Context's own handler, destroys one.
THEOREM OwnHandlerDestroys == Spec => DestroyedByOwnHandler
<1> DEFINE OwnHandler ==
      \A c \in Conns : Alive(c) /\ ctx'[c] = "freed" =>
        \E r \in Reactors : rpc[r] = "erasing" /\ cur[r] = c
<1>1. TypeOK /\ IInv /\ [Next]_vars => [OwnHandler]_vars
  <2> SUFFICES ASSUME TypeOK, IInv, Next, NEW c \in Conns, Alive(c), ctx'[c] = "freed"
               PROVE  \E r \in Reactors : rpc[r] = "erasing" /\ cur[r] = c
    OBVIOUS
  <2> USE DEF objects, Alive
  <2>1. ~Dies /\ ~MapRace
    BY DEF Dies, MapRace
  <2>2. ~ \E d \in Conns : Connect(d) \/ Send(d) \/ Hangup(d)
    BY DEF Connect, Send, Hangup
  <2>3. ~ \E d \in Conns : AcceptConnection(d)
    BY <2>1 DEF AcceptConnection, TypeOK
  <2>4. /\ ~enableRead /\ ~enableWrite /\ ~setET
        /\ ~setReadCallback /\ ~setWriteCallback /\ ~setOnRecv
    BY DEF enableRead, enableWrite, setET, setReadCallback, setWriteCallback, setOnRecv,
           SetEvents, SetCallback
  <2>5. ~SetValid /\ ~OnConnReturns /\ ~InsertBegins /\ ~Lookup
    BY <2>1 DEF SetValid, OnConnReturns, SigPipe, InsertBegins, Lookup
  <2>6. ~InsertEnds
    BY InsertDestroysNothing
  <2>7. PICK r \in Reactors : ReactorStep(r)
    BY <2>2, <2>3, <2>4, <2>5, <2>6 DEF Next, Client, AcceptorStep
  <2>8. ~poll(r) /\ ~NextIOContext(r) /\ ~ReadSocket(r) /\ ~ReadableExit(r)
    BY DEF poll, NextIOContext, ReadSocket, ReadableExit
  <2>9. ~handleReadable(r) /\ ~handleWritable(r) /\ ~CheckAndNotify(r)
    BY <2>1 DEF handleReadable, handleWritable, Dispatch, CheckAndNotify
  <2>10. ~OnRecvReturns(r) /\ ~FlushAndExit(r) /\ ~EraseBegins(r)
    BY <2>1 DEF OnRecvReturns, FlushAndExit, SigPipe, EraseBegins
  <2>11. EraseEnds(r)
    BY <2>7, <2>8, <2>9, <2>10 DEF ReactorStep
  <2>12. contextes[fdOf[cur[r]]] = c
    BY <2>11 DEF EraseEnds, DestroyContexts
  <2>13. cur[r] = c
    BY <2>11, <2>12, EraseTarget
  <2>14. QED
    BY <2>11, <2>13 DEF EraseEnds
<1>2. QED
  BY <1>1, Invariance, PTL DEF Spec, DestroyedByOwnHandler

------------------------------------------------------------------------------
\* What a Context's state tells of its client.

\* Outside of its constructor a Context is CLOSED or INVALID only when its
\* client went: nothing but a read or a write that failed makes it so.
StateSound ==
  \A c \in Conns :
    Alive(c) /\ state[c] = "DONE" => peer[c] # "open" \/ Unassigned(c)

\* A reactor that handles a Context and leaves the acceptor alone keeps
\* StateSound, if it changes the state of its Context only, and that to DONE
\* only when the client went.
LEMMA StateStep ==
  ASSUME TypeOK, StateSound, NEW d, NEW s,
         state' = [state EXCEPT ![d] = s] \/ state' = state,
         d \in Conns /\ s = "DONE" => peer[d] # "open" \/ state[d] = "DONE",
         \A c \in Conns : ctx'[c] = "alive" => ctx[c] = "alive",
         UNCHANGED <<peer, acceptor>>
  PROVE  StateSound'
<1> SUFFICES ASSUME NEW c \in Conns, Alive(c)', state'[c] = "DONE"
             PROVE  peer'[c] # "open" \/ Unassigned(c)'
  BY DEF StateSound
<1>1. Alive(c)
  BY DEF Alive
<1>2. state[c] = "DONE" \/ peer[c] # "open"
  BY DEF TypeOK
<1>3. QED
  BY <1>1, <1>2 DEF StateSound, Unassigned, acceptor

LEMMA StateInductive == TypeOK /\ IInv /\ StateSound /\ [Next]_vars => StateSound'
<1> SUFFICES ASSUME TypeOK, IInv, StateSound, [Next]_vars
             PROVE  StateSound'
  OBVIOUS
<1> USE DEF kernel, objects, acceptor, reactor
<1>1. CASE UNCHANGED <<peer, ctx, state, acur, apc>>
  BY <1>1 DEF StateSound, Alive, Unassigned
<1>2. Dies \/ MapRace => StateSound'
  BY <1>1 DEF Dies, MapRace
<1>3. ASSUME NEW c \in Conns, Connect(c) \/ Send(c) \/ Hangup(c)
      PROVE  StateSound'
  <2>1. CASE Connect(c) \/ Send(c)
    BY <1>1, <2>1 DEF Connect, Send
  <2>2. CASE Hangup(c)
    BY <2>2 DEF TypeOK, Hangup, StateSound, Alive, Unassigned
  <2>3. QED
    BY <1>3, <2>1, <2>2
<1>4. ASSUME NEW c \in Conns, AcceptConnection(c)
      PROVE  StateSound'
  <2>1. CASE Dies
    BY <1>2, <2>1
  <2>2. CASE ~Dies
    <3>1. acur = Null
      BY <1>4 DEF AcceptConnection, IInv, BuildingSound
    <3>2. Unassigned(c)'
      BY <1>4, <2>2 DEF AcceptConnection, Unassigned
    <3>3. ASSUME NEW d \in Conns, d # c, Alive(d)', state'[d] = "DONE"
          PROVE  peer'[d] # "open"
      <4>1. Alive(d) /\ state[d] = "DONE" /\ peer' = peer
        BY <1>4, <2>2, <3>3 DEF TypeOK, AcceptConnection, Alive
      <4>2. QED
        BY <3>1, <4>1, ConstantsAssumption DEF StateSound, Unassigned
    <3>4. QED
      BY <3>2, <3>3 DEF StateSound
  <2>3. QED
    BY <2>1, <2>2
<1>5. ASSUME enableRead \/ enableWrite \/ setET \/ setReadCallback \/ setWriteCallback
      PROVE  StateSound'
  BY <1>5 DEF enableRead, enableWrite, setET, setReadCallback, setWriteCallback, SetEvents,
              SetCallback, StateSound, Alive, Unassigned
<1>6. CASE SetValid
  <2>1. ASSUME NEW c \in Conns, Alive(c)', state'[c] = "DONE"
        PROVE  c # acur /\ Alive(c) /\ state[c] = "DONE" /\ peer'[c] = peer[c]
    BY <1>6, <2>1 DEF TypeOK, SetValid, Alive
  <2>2. QED
    BY <2>1 DEF StateSound, Unassigned
<1>7. CASE OnConnReturns
  <2>1. CASE SigPipe(acur)
    BY <1>2, <2>1 DEF SigPipe
  <2>2. CASE ~SigPipe(acur)
    <3>1. PICK s \in AfterWrite(acur) :
            state' = [state EXCEPT ![acur] = s] /\ UNCHANGED <<peer, ctx, acur>>
      BY <1>7, <2>2 DEF OnConnReturns
    <3>2. apc = "onConn"
      BY <1>7 DEF OnConnReturns
    <3>3. ASSUME NEW c \in Conns, Alive(c)', state'[c] = "DONE"
          PROVE  peer'[c] # "open"
      <4>1. Alive(c)
        BY <3>1, <3>3 DEF Alive
      <4>2. state[c] = "DONE" \/ peer[c] # "open"
        BY <3>1, <3>3 DEF TypeOK, AfterWrite
      <4>3. QED
        BY <3>1, <3>2, <4>1, <4>2 DEF StateSound, Unassigned
    <3>4. QED
      BY <3>3 DEF StateSound
  <2>3. QED
    BY <2>1, <2>2
<1>8. ASSUME setOnRecv \/ InsertBegins \/ InsertEnds \/ Lookup
      PROVE  StateSound'
  <2>1. CASE MapRace
    BY <1>2, <2>1
  <2>2. CASE ~MapRace
    <3>1. ~Unassigned(acur) /\ UNCHANGED <<peer, state>>
      BY <1>8, <2>2 DEF setOnRecv, SetCallback, InsertBegins, InsertEnds, Lookup, Unassigned
    <3>2. \A c \in Conns : Alive(c)' => Alive(c)
      BY <1>8, <2>2 DEF setOnRecv, SetCallback, InsertBegins, InsertEnds, Lookup,
                        DestroyContexts, Alive
    <3>3. QED
      BY <3>1, <3>2 DEF StateSound, Unassigned
  <2>3. QED
    BY <2>1, <2>2
<1>9. ASSUME NEW r \in Reactors, ReactorStep(r)
      PROVE  StateSound'
  <2>1. CASE Dies \/ MapRace
    BY <1>2, <2>1
  <2>2. CASE ~Dies /\ ~MapRace
    <3>1. CASE \/ poll(r) \/ NextIOContext(r) \/ handleReadable(r) \/ handleWritable(r)
               \/ CheckAndNotify(r) \/ ReadableExit(r) \/ EraseBegins(r)
      BY <1>1, <2>2, <3>1
      DEF poll, NextIOContext, handleReadable, handleWritable, Dispatch, CheckAndNotify,
          ReadableExit, EraseBegins
    <3>2. CASE ReadSocket(r)
      <4>1. /\ state' = [state EXCEPT ![cur[r]] = AfterRead(cur[r])] \/ state' = state
            /\ UNCHANGED <<peer, ctx, acceptor>>
        BY <3>2 DEF ReadSocket
      <4>2. AfterRead(cur[r]) = "DONE" => peer[cur[r]] # "open" \/ state[cur[r]] = "DONE"
        BY DEF AfterRead
      <4>3. QED
        BY <4>1, <4>2, StateStep
    <3>3. CASE OnRecvReturns(r) \/ FlushAndExit(r)
      <4>1. PICK s \in AfterWrite(cur[r]) :
              state' = [state EXCEPT ![cur[r]] = s] /\ UNCHANGED <<peer, ctx, acceptor>>
        BY <2>2, <3>3 DEF OnRecvReturns, FlushAndExit, SigPipe
      <4>2. s = "DONE" => peer[cur[r]] # "open" \/ state[cur[r]] = "DONE"
        BY DEF AfterWrite
      <4>3. QED
        BY <4>1, <4>2, StateStep
    <3>4. CASE EraseEnds(r)
      <4>1. UNCHANGED <<peer, state, acceptor>> /\ \A c \in Conns : ctx'[c] = "alive" => ctx[c] = "alive"
        BY <3>4 DEF EraseEnds, DestroyContexts
      <4>2. QED
        BY <4>1 DEF StateSound, Alive, Unassigned
    <3>5. QED
      BY <1>9, <3>1, <3>2, <3>3, <3>4 DEF ReactorStep
  <2>3. QED
    BY <2>1, <2>2
<1>10. QED
  BY <1>1, <1>3, <1>4, <1>5, <1>6, <1>7, <1>8, <1>9 DEF Next, Client, AcceptorStep, vars

LEMMA StateInvariance == Spec => [](TypeOK /\ IInv /\ StateSound)
<1>1. Init => StateSound
  BY DEF Init, StateSound, Alive
<1>2. QED
  BY <1>1, Invariance, StateInductive, PTL DEF Spec

\* Once its constructor assigned __state, only a Context whose client went is
\* given up (Context::__stateCleanup).
THEOREM HealthyStay == Spec => HealthyKept
<1> DEFINE Justified ==
      \A r \in Reactors : rpc[r] # "erase" /\ rpc'[r] = "erase" =>
        peer[cur[r]] # "open" \/ Unassigned(cur[r])
<1>1. TypeOK /\ IInv /\ StateSound /\ [Next]_vars => [Justified]_vars
  <2> SUFFICES ASSUME TypeOK, IInv, StateSound, Next,
                      NEW r \in Reactors, rpc[r] # "erase", rpc'[r] = "erase"
               PROVE  peer[cur[r]] # "open" \/ Unassigned(cur[r])
    OBVIOUS
  <2> USE DEF kernel, objects, acceptor, reactor
  <2>1. ~Dies /\ ~MapRace
    BY DEF Dies, MapRace
  <2>2. ~ \E d \in Conns : Connect(d) \/ Send(d) \/ Hangup(d)
    BY DEF Connect, Send, Hangup
  <2>3. ~ \E d \in Conns : AcceptConnection(d)
    BY <2>1 DEF AcceptConnection
  <2>4. /\ ~enableRead /\ ~enableWrite /\ ~setET
        /\ ~setReadCallback /\ ~setWriteCallback /\ ~setOnRecv
    BY DEF enableRead, enableWrite, setET, setReadCallback, setWriteCallback, setOnRecv,
           SetEvents, SetCallback
  <2>5. ~SetValid /\ ~OnConnReturns /\ ~InsertBegins /\ ~InsertEnds /\ ~Lookup
    BY <2>1 DEF SetValid, OnConnReturns, SigPipe, InsertBegins, InsertEnds, Lookup
  <2>6. PICK s \in Reactors : ReactorStep(s)
    BY <2>2, <2>3, <2>4, <2>5 DEF Next, Client, AcceptorStep
  <2>7. s = r
    <3>1. \E pc : rpc' = [rpc EXCEPT ![s] = pc] \/ rpc' = rpc
      BY <2>1, <2>6
      DEF ReactorStep, poll, NextIOContext, handleReadable, handleWritable, Dispatch, ReadSocket,
          CheckAndNotify, OnRecvReturns, ReadableExit, FlushAndExit, SigPipe, EraseBegins,
          EraseEnds, stateCleanup, Goto
    <3>2. QED
      BY <3>1 DEF TypeOK
  <2>8. ~poll(r) /\ ~NextIOContext(r) /\ ~ReadSocket(r) /\ ~OnRecvReturns(r)
        /\ ~EraseBegins(r) /\ ~EraseEnds(r)
    BY <2>1 DEF TypeOK, poll, NextIOContext, ReadSocket, OnRecvReturns, SigPipe, EraseBegins,
                EraseEnds, Goto
  <2>9. CASE handleReadable(r) \/ handleWritable(r) \/ CheckAndNotify(r) \/ ReadableExit(r)
    <3>1. state[cur[r]] = "DONE" /\ rpc[r] \notin {"poll", "next"}
      BY <2>1, <2>9 DEF TypeOK, handleReadable, handleWritable, Dispatch, CheckAndNotify,
                        ReadableExit, stateCleanup, Goto
    <3>2. cur[r] \in Conns /\ Alive(cur[r])
      BY <3>1, ConstantsAssumption DEF TypeOK, IInv, HeldSound, Held
    <3>3. QED
      BY <3>1, <3>2 DEF StateSound
  <2>10. CASE FlushAndExit(r)
    <3>1. PICK t \in AfterWrite(cur[r]) : Goto(r, IF t = "DONE" THEN "erase" ELSE "next")
      BY <2>1, <2>10 DEF FlushAndExit, SigPipe
    <3>2. t = "DONE"
      BY <3>1 DEF Goto, TypeOK
    <3>3. state[cur[r]] = "DONE" \/ peer[cur[r]] # "open"
      BY <3>2 DEF AfterWrite
    <3>4. cur[r] \in Conns /\ Alive(cur[r])
      BY <2>10, ConstantsAssumption DEF FlushAndExit, TypeOK, IInv, HeldSound, Held
    <3>5. QED
      BY <3>3, <3>4 DEF StateSound
  <2>11. QED
    BY <2>6, <2>7, <2>8, <2>9, <2>10 DEF ReactorStep
<1>2. QED
  BY <1>1, StateInvariance, PTL DEF Spec, HealthyKept

------------------------------------------------------------------------------
\* Connections implements AppCallbacks.

\* What the mapping needs beside IInv: a Context exists once its socket was
\* accepted, __onRecv is set after onConn returned, and onRecv runs only then.
CallbackSound ==
  \A c \in Conns :
    /\ sock[c] \in {"none", "queued"} <=> ctx[c] = "none"
    /\ "recv" \in installed[c] =>
         ctx[c] # "none" /\ (acur = c => apc \in {"insert", "inserting", "lookup"})
    /\ Notified(c) /\ acur = c => apc \in {"recv", "insert", "inserting", "lookup"}

\* One Context is handled by one reactor at a time.
LEMMA OneHandler ==
  ASSUME TypeOK, IInv, NEW r \in Reactors, NEW s \in Reactors,
         cur[r] = cur[s], cur[r] \in Conns
  PROVE  r = s
<1>1. cur[r] \in Held(r) /\ cur[s] \in Held(s)
  BY ConstantsAssumption DEF Held
<1>2. QED
  BY <1>1 DEF IInv, HeldSound

\* A Context that is handled lives.
LEMMA HandledAlive ==
  ASSUME TypeOK, IInv, NEW r \in Reactors, rpc[r] \notin {"poll", "next"}
  PROVE  cur[r] \in Conns /\ Alive(cur[r])
<1>1. cur[r] \in Conns /\ cur[r] \in Held(r)
  BY DEF TypeOK, IInv, HeldSound, Held
<1>2. QED
  BY <1>1 DEF IInv, HeldSound

\* __onRecv is called by CheckAndNotify, which finds it set or being set.
LEMMA CallbackInductive == TypeOK /\ IInv /\ CallbackSound /\ [Next]_vars => CallbackSound'
<1> SUFFICES ASSUME TypeOK, IInv, CallbackSound, [Next]_vars
             PROVE  CallbackSound'
  OBVIOUS
<1> USE DEF kernel, objects, acceptor
<1>0. ASSUME UNCHANGED <<sock, ctx, installed, acceptor>>,
             \A c \in Conns : Notified(c)' => Notified(c)
      PROVE  CallbackSound'
  BY <1>0 DEF CallbackSound
<1>1. CASE UNCHANGED vars
  BY <1>0, <1>1 DEF vars, reactor, Notified
<1>2. CASE Dies \/ MapRace
  BY <1>0, <1>2 DEF Dies, MapRace, reactor, Notified
<1>3. ASSUME NEW c \in Conns, Connect(c) \/ Send(c) \/ Hangup(c)
      PROVE  CallbackSound'
  <2>1. \A d \in Conns : Notified(d)' <=> Notified(d)
    BY <1>3 DEF Connect, Send, Hangup, Notified, reactor
  <2>2. QED
    BY <1>3, <2>1 DEF TypeOK, Connect, Send, Hangup, CallbackSound
<1>4. ASSUME NEW c \in Conns, AcceptConnection(c), ~Dies
      PROVE  CallbackSound'
  <2>1. /\ sock[c] = "queued" /\ sock' = [sock EXCEPT ![c] = "open"]
        /\ ctx' = [ctx EXCEPT ![c] = "alive"] /\ acur' = c
        /\ UNCHANGED <<installed, reactor>>
        /\ apc = "idle"
    BY <1>4 DEF AcceptConnection
  <2>2. ctx[c] = "none" /\ acur \notin Conns
    BY <2>1, ConstantsAssumption DEF CallbackSound, IInv, BuildingSound
  <2>3. ~Notified(c)
    BY <2>2, HandledAlive DEF Notified, Alive
  <2>4. \A d \in Conns : Notified(d)' <=> Notified(d)
    BY <2>1 DEF Notified, reactor
  <2>5. QED
    BY <2>1, <2>2, <2>3, <2>4 DEF TypeOK, CallbackSound
<1>5. CASE \/ enableRead \/ enableWrite \/ setET \/ setReadCallback \/ setWriteCallback \/ SetValid
           \/ setOnRecv \/ (OnConnReturns /\ ~Dies) \/ (InsertBegins /\ ~MapRace)
  <2>1. \A d \in Conns : Notified(d)' <=> Notified(d)
    BY <1>5 DEF enableRead, enableWrite, setET, SetEvents, setReadCallback, setWriteCallback,
                setOnRecv, SetCallback, SetValid, OnConnReturns, SigPipe, InsertBegins,
                Notified, reactor
  <2>2. UNCHANGED <<sock, ctx, acur>>
    BY <1>5 DEF enableRead, enableWrite, setET, SetEvents, setReadCallback, setWriteCallback,
                setOnRecv, SetCallback, SetValid, OnConnReturns, SigPipe, InsertBegins
  <2>3. \/ /\ installed' = installed
           /\ \/ apc \in {"enableRead", "enableWrite", "setET", "valid"}
              \/ apc = "onConn" /\ apc' = "recv"
              \/ apc = "insert" /\ apc' = "inserting"
        \/ /\ installed' = [installed EXCEPT ![acur] = @ \cup {apc}]
           /\ apc \in {"read", "write"} \/ (apc = "recv" /\ apc' = "insert")
    BY <1>5 DEF enableRead, enableWrite, setET, SetEvents, setReadCallback, setWriteCallback,
                setOnRecv, SetCallback, SetValid, OnConnReturns, SigPipe, InsertBegins
  <2>4. Alive(acur) /\ acur \in Conns
    BY <2>3 DEF TypeOK, IInv, BuildingSound
  <2>5. QED
    BY <2>1, <2>2, <2>3, <2>4 DEF TypeOK, CallbackSound, Alive
<1>6. CASE InsertEnds
  <2>1. \A d \in Conns : sock'[d] = sock[d] /\ ctx'[d] = ctx[d]
    BY <1>6 DEF IInv, BuildingSound, InsertEnds, DestroyContexts
  <2>2. \A d \in Conns : Notified(d)' <=> Notified(d)
    BY <1>6 DEF InsertEnds, Notified, reactor
  <2>3. QED
    BY <1>6, <2>1, <2>2 DEF InsertEnds, CallbackSound
<1>7. CASE Lookup /\ ~MapRace
  <2>1. acur' \notin Conns /\ UNCHANGED <<sock, ctx, installed>>
    BY <1>7, ConstantsAssumption DEF Lookup
  <2>2. QED
    BY <2>1 DEF CallbackSound
<1>8. ASSUME NEW r \in Reactors, ReactorStep(r), ~Dies, ~MapRace
      PROVE  CallbackSound'
  <2>1. CASE poll(r) \/ NextIOContext(r) \/ ReadSocket(r) \/ ReadableExit(r)
             \/ handleReadable(r) \/ handleWritable(r) \/ EraseBegins(r)
             \/ FlushAndExit(r) \/ OnRecvReturns(r)
    <3>1. UNCHANGED <<sock, ctx, installed, acceptor>>
      BY <1>8, <2>1 DEF poll, NextIOContext, ReadSocket, ReadableExit, handleReadable,
         handleWritable, Dispatch, EraseBegins, FlushAndExit, OnRecvReturns, SigPipe
    <3>2. ASSUME NEW s \in Reactors, rpc'[s] = "app"
          PROVE  rpc[s] = "app" /\ cur'[s] = cur[s]
      BY <1>8, <2>1, <3>2 DEF TypeOK, poll, NextIOContext, ReadSocket, ReadableExit, handleReadable,
         handleWritable, Dispatch, EraseBegins, FlushAndExit, OnRecvReturns, SigPipe,
         Goto, stateCleanup
    <3>3. QED
      BY <1>0, <3>1, <3>2 DEF Notified
  <2>2. CASE CheckAndNotify(r)
    <3>1. UNCHANGED <<sock, ctx, installed, acceptor, cur>> /\ rpc[r] = "check"
      BY <1>8, <2>2 DEF CheckAndNotify
    <3>2. CASE rpc' = [rpc EXCEPT ![r] = "app"] /\ SeesSet(cur[r], "recv")
      <4>1. cur[r] \in Conns
        BY <3>1, HandledAlive
      <4>2. acur = cur[r] => apc \in {"recv", "insert", "inserting", "lookup"}
        BY <3>2, <4>1 DEF SeesSet, Assigning, CallbackSound
      <4>3. \A c \in Conns : Notified(c)' => Notified(c) \/ c = cur[r]
        BY <3>1, <3>2 DEF TypeOK, Notified
      <4>4. QED
        BY <3>1, <4>2, <4>3 DEF CallbackSound
    <3>3. CASE \E pc : rpc' = [rpc EXCEPT ![r] = pc] /\ pc # "app"
      BY <1>0, <3>1, <3>3 DEF TypeOK, Notified
    <3>4. QED
      BY <1>8, <2>2, <3>2, <3>3 DEF CheckAndNotify, Goto, stateCleanup
  <2>3. CASE EraseEnds(r)
    <3>1. cur[r] \in Conns /\ Alive(cur[r])
      BY <2>3, EraseTarget
    <3>2. \A c \in Conns :
            \/ sock'[c] = sock[c] /\ ctx'[c] = ctx[c]
            \/ sock'[c] = "closed" /\ ctx'[c] = "freed"
      BY <2>3 DEF EraseEnds, DestroyContexts
    <3>3. \A c \in Conns : ctx[c] = "none" => ctx'[c] = "none" /\ sock'[c] = sock[c]
      <4>1. ASSUME NEW c \in Conns, ctx[c] = "none"
            PROVE  c # contextes[fdOf[cur[r]]]
        BY <2>3, <4>1, EraseTarget DEF Alive
      <4>2. QED
        BY <2>3, <4>1 DEF EraseEnds, DestroyContexts
    <3>4. \A c \in Conns : Notified(c)' => Notified(c)
      BY <2>3 DEF TypeOK, EraseEnds, Goto, Notified
    <3>5. UNCHANGED <<installed, acceptor>>
      BY <2>3 DEF EraseEnds
    <3>6. QED
      BY <3>2, <3>3, <3>4, <3>5 DEF CallbackSound
  <2>4. QED
    BY <1>8, <2>1, <2>2, <2>3 DEF ReactorStep
<1>9. QED
  BY <1>1, <1>2, <1>3, <1>4, <1>5, <1>6, <1>7, <1>8 DEF Next, Client, AcceptorStep

LEMMA CallbackInvariance == Spec => [](TypeOK /\ IInv /\ CallbackSound)
<1>1. Init => CallbackSound
  BY DEF Init, CallbackSound, Notified
<1>2. QED
  BY <1>1, CallbackInductive, Invariance, PTL DEF Spec

\* A step that moves one connection along an edge of AppCallbacks.
LEMMA LifeMoves ==
  ASSUME NEW c \in Conns,
         <<Life[c], Life'[c]>> \in {<<"unseen", "greeting">>, <<"greeting", "greeted">>,
                                    <<"greeted", "receiving">>, <<"receiving", "greeted">>,
                                    <<"greeted", "gone">>},
         \A d \in Conns \ {c} : Life'[d] = Life[d]
  PROVE  App!Next
<1>1. Life' = [Life EXCEPT ![c] = Life'[c]]
  BY DEF Life
<1>2. \/ App!OnConnCalled(c) \/ App!OnConnReturned(c)
      \/ App!OnRecvCalled(c) \/ App!OnRecvReturned(c) \/ App!Destroyed(c)
  BY <1>1 DEF App!OnConnCalled, App!OnConnReturned, App!OnRecvCalled, App!OnRecvReturned,
              App!Destroyed, App!Moves
<1>3. QED
  BY <1>2 DEF App!Next

\* A step that moves none.
LEMMA LifeStays ==
  ASSUME \A c \in Conns : Life'[c] = Life[c]
  PROVE  UNCHANGED Life
BY DEF Life

\* Every step of Next is a step of AppCallbacks or leaves Life alone.
LEMMA AppStep ==
  ASSUME TypeOK, IInv, CallbackSound, [Next]_vars
  PROVE  [App!Next]_Life
<1> USE DEF kernel, objects, acceptor
<1>0. ASSUME UNCHANGED <<ctx, acceptor>>,
             \A c \in Conns : Notified(c)' <=> Notified(c)
      PROVE  UNCHANGED Life
  BY <1>0, LifeStays DEF Life, Alive
<1>1. CASE UNCHANGED vars \/ Dies \/ MapRace
  BY <1>0, <1>1 DEF vars, Dies, MapRace, reactor, Notified
<1>2. ASSUME NEW c \in Conns, Connect(c) \/ Send(c) \/ Hangup(c)
      PROVE  UNCHANGED Life
  BY <1>0, <1>2 DEF Connect, Send, Hangup, Notified, reactor
<1>3. ASSUME NEW c \in Conns, AcceptConnection(c), ~Dies
      PROVE  UNCHANGED Life
  <2>1. /\ sock[c] = "queued" /\ ctx' = [ctx EXCEPT ![c] = "alive"]
        /\ acur' = c /\ apc' = "enableRead" /\ apc = "idle" /\ UNCHANGED reactor
    BY <1>3 DEF AcceptConnection
  <2>2. ctx[c] = "none" /\ acur \notin Conns
    BY <2>1, ConstantsAssumption DEF CallbackSound, IInv, BuildingSound
  <2>3. ~Notified(c)
    BY <2>2, HandledAlive DEF Notified, Alive
  <2>4. \A d \in Conns : Notified(d)' <=> Notified(d)
    BY <2>1 DEF Notified, reactor
  <2>5. \A d \in Conns : Life'[d] = Life[d]
    BY <2>1, <2>2, <2>3, <2>4 DEF TypeOK, Life, Alive
  <2>6. QED
    BY <2>5, LifeStays
<1>4. CASE enableRead \/ enableWrite \/ setET \/ setReadCallback \/ setWriteCallback \/ SetValid
  <2>1. /\ UNCHANGED <<ctx, acur>>
        /\ apc \in {"enableRead", "enableWrite", "setET", "read", "write", "valid"}
        /\ apc' \in {"enableWrite", "setET", "read", "write", "valid", "onConn"}
        /\ \A d \in Conns : Notified(d)' <=> Notified(d)
    BY <1>4 DEF enableRead, enableWrite, setET, SetEvents, setReadCallback, setWriteCallback,
                SetCallback, SetValid, Notified, reactor
  <2>2. acur \in Conns /\ Alive(acur) /\ ~Notified(acur)
    BY <2>1 DEF TypeOK, IInv, BuildingSound, CallbackSound
  <2>3. \A d \in Conns \ {acur} : Life'[d] = Life[d]
    BY <2>1 DEF Life, Alive
  <2>4. Life[acur] = "unseen"
    BY <2>1, <2>2 DEF Life, Alive
  <2>5. Life'[acur] = IF apc' = "onConn" THEN "greeting" ELSE "unseen"
    BY <2>1, <2>2 DEF Life, Alive
  <2>6. CASE apc' = "onConn"
    BY <2>2, <2>3, <2>4, <2>5, <2>6, LifeMoves
  <2>7. CASE apc' # "onConn"
    BY <2>3, <2>4, <2>5, <2>7, LifeStays
  <2>8. QED
    BY <2>6, <2>7
<1>5. CASE OnConnReturns /\ ~Dies
  <2>1. /\ UNCHANGED <<ctx, acur>> /\ apc = "onConn" /\ apc' = "recv"
        /\ \A d \in Conns : Notified(d)' <=> Notified(d)
    BY <1>5 DEF OnConnReturns, SigPipe, Notified, reactor
  <2>2. acur \in Conns /\ Alive(acur) /\ ~Notified(acur)
    BY <2>1 DEF TypeOK, IInv, BuildingSound, CallbackSound
  <2>3. \A d \in Conns \ {acur} : Life'[d] = Life[d]
    BY <2>1 DEF Life, Alive
  <2>4. Life[acur] = "greeting" /\ Life'[acur] = "greeted"
    BY <2>1, <2>2 DEF Life, Alive
  <2>5. QED
    BY <2>2, <2>3, <2>4, LifeMoves
<1>6. CASE setOnRecv \/ (InsertBegins /\ ~MapRace) \/ InsertEnds \/ (Lookup /\ ~MapRace)
  <2>1. apc \in {"recv", "insert", "inserting", "lookup"}
    BY <1>6 DEF setOnRecv, SetCallback, InsertBegins, InsertEnds, Lookup
  <2>2. \/ acur' = acur /\ apc' \in {"insert", "inserting", "lookup"}
        \/ acur' \notin Conns
    BY <1>6, ConstantsAssumption DEF setOnRecv, SetCallback, InsertBegins, InsertEnds, Lookup
  <2>3. \A d \in Conns : ctx'[d] = ctx[d]
    BY <1>6, InsertDestroysNothing DEF setOnRecv, SetCallback, InsertBegins, Lookup
  <2>4. \A d \in Conns : Notified(d)' <=> Notified(d)
    BY <1>6 DEF setOnRecv, SetCallback, InsertBegins, InsertEnds, Lookup, Notified, reactor
  <2>5. \A d \in Conns : Life'[d] = Life[d]
    BY <2>1, <2>2, <2>3, <2>4 DEF Life, Alive
  <2>6. QED
    BY <2>5, LifeStays
<1>7. ASSUME NEW r \in Reactors, ReactorStep(r), ~Dies, ~MapRace
      PROVE  [App!Next]_Life
  <2>1. CASE poll(r) \/ NextIOContext(r) \/ ReadSocket(r) \/ ReadableExit(r)
             \/ handleReadable(r) \/ handleWritable(r) \/ EraseBegins(r) \/ FlushAndExit(r)
    <3>1. UNCHANGED <<ctx, acceptor>>
      BY <1>7, <2>1 DEF poll, NextIOContext, ReadSocket, ReadableExit, handleReadable,
         handleWritable, Dispatch, EraseBegins, FlushAndExit, SigPipe
    <3>2. ASSUME NEW s \in Reactors
          PROVE  rpc'[s] = "app" <=> rpc[s] = "app"
      BY <1>7, <2>1, <3>2 DEF TypeOK, poll, NextIOContext, ReadSocket, ReadableExit,
         handleReadable, handleWritable, Dispatch, EraseBegins, FlushAndExit, SigPipe,
         Goto, stateCleanup
    <3>3. ASSUME NEW s \in Reactors, rpc[s] = "app"
          PROVE  cur'[s] = cur[s]
      BY <1>7, <2>1, <3>3 DEF TypeOK, poll, NextIOContext, ReadSocket, ReadableExit,
         handleReadable, handleWritable, Dispatch, EraseBegins, FlushAndExit, SigPipe
    <3>4. QED
      BY <1>0, <3>1, <3>2, <3>3 DEF Notified
  <2>2. CASE CheckAndNotify(r)
    <3>1. UNCHANGED <<ctx, acceptor, cur>> /\ rpc[r] = "check"
      BY <1>7, <2>2 DEF CheckAndNotify
    <3>2. cur[r] \in Conns /\ Alive(cur[r]) /\ ~Notified(cur[r])
      BY <3>1, HandledAlive, OneHandler DEF Notified
    <3>3. CASE rpc' = [rpc EXCEPT ![r] = "app"] /\ SeesSet(cur[r], "recv")
      <4>1. acur = cur[r] => apc \in {"recv", "insert", "inserting", "lookup"}
        BY <3>2, <3>3 DEF SeesSet, Assigning, CallbackSound
      <4>2. Life[cur[r]] = "greeted"
        BY <3>2, <4>1 DEF Life, Alive
      <4>3. Notified(cur[r])'
        BY <3>1, <3>3 DEF TypeOK, Notified
      <4>4. Life'[cur[r]] = "receiving"
        BY <3>1, <3>2, <4>3 DEF Life, Alive
      <4>5. \A d \in Conns \ {cur[r]} : Notified(d)' <=> Notified(d)
        BY <3>1, <3>3 DEF TypeOK, Notified
      <4>6. \A d \in Conns \ {cur[r]} : Life'[d] = Life[d]
        BY <3>1, <4>5 DEF Life, Alive
      <4>7. QED
        BY <3>2, <4>2, <4>4, <4>6, LifeMoves
    <3>4. CASE \E pc : rpc' = [rpc EXCEPT ![r] = pc] /\ pc # "app"
      BY <1>0, <3>1, <3>4 DEF TypeOK, Notified
    <3>5. QED
      BY <1>7, <2>2, <3>3, <3>4 DEF CheckAndNotify, Goto, stateCleanup
  <2>3. CASE OnRecvReturns(r)
    <3>1. /\ UNCHANGED <<ctx, acceptor, cur>>
          /\ rpc[r] = "app" /\ rpc' = [rpc EXCEPT ![r] = "exit"]
      BY <1>7, <2>3 DEF OnRecvReturns, SigPipe, Goto
    <3>2. cur[r] \in Conns /\ Alive(cur[r]) /\ Notified(cur[r])
      BY <3>1, HandledAlive DEF Notified
    <3>3. ~Notified(cur[r])'
      BY <3>1, <3>2, OneHandler DEF TypeOK, Notified
    <3>4. acur = cur[r] => apc \in {"recv", "insert", "inserting", "lookup"}
      BY <3>2 DEF CallbackSound
    <3>5. Life[cur[r]] = "receiving" /\ Life'[cur[r]] = "greeted"
      BY <3>1, <3>2, <3>3, <3>4 DEF Life, Alive
    <3>6. \A d \in Conns \ {cur[r]} : Notified(d)' <=> Notified(d)
      BY <3>1 DEF TypeOK, Notified
    <3>7. \A d \in Conns \ {cur[r]} : Life'[d] = Life[d]
      BY <3>1, <3>6 DEF Life, Alive
    <3>8. QED
      BY <3>2, <3>5, <3>7, LifeMoves
  <2>4. CASE EraseEnds(r)
    <3>1. cur[r] \in Conns /\ Alive(cur[r]) /\ rpc[r] = "erasing" /\ UNCHANGED acceptor
      BY <2>4, EraseTarget DEF EraseEnds
    <3>2. \A d \in Conns : Notified(d)' <=> Notified(d)
      BY <2>4 DEF TypeOK, EraseEnds, Goto, Notified
    <3>3. \A d \in Conns \ {cur[r]} : ctx'[d] = ctx[d]
      BY <2>4, EraseTarget DEF EraseEnds, DestroyContexts
    <3>4. \A d \in Conns \ {cur[r]} : Life'[d] = Life[d]
      BY <3>1, <3>2, <3>3 DEF Life, Alive
    <3>5. CASE contextes[fdOf[cur[r]]] = cur[r]
      <4>1. ctx'[cur[r]] = "freed"
        BY <2>4, <3>1, <3>5 DEF EraseEnds, DestroyContexts
      <4>2. Life'[cur[r]] = "gone"
        BY <3>1, <4>1 DEF Life
      <4>3. ~Notified(cur[r])
        BY <3>1, OneHandler DEF Notified
      <4>4. acur = cur[r] => apc = "lookup"
        BY <3>1, <3>5, ConstantsAssumption DEF IInv, BuildingSound
      <4>5. Life[cur[r]] = "greeted"
        BY <3>1, <4>3, <4>4 DEF Life, Alive
      <4>6. QED
        BY <3>1, <3>4, <4>2, <4>5, LifeMoves
    <3>6. CASE contextes[fdOf[cur[r]]] # cur[r]
      <4>1. ctx'[cur[r]] = ctx[cur[r]]
        BY <2>4, <3>1, <3>6 DEF EraseEnds, DestroyContexts
      <4>2. Life'[cur[r]] = Life[cur[r]]
        BY <3>1, <3>2, <4>1 DEF Life, Alive
      <4>3. QED
        BY <3>4, <4>2, LifeStays
    <3>7. QED
      BY <3>5, <3>6
  <2>5. QED
    BY <1>7, <2>1, <2>2, <2>3, <2>4 DEF ReactorStep
<1>8. QED
  BY <1>1, <1>2, <1>3, <1>4, <1>5, <1>6, <1>7 DEF Next, Client, AcceptorStep

\* The application sees onConn once and before every onRecv, never two calls
\* at a time for one connection, and none after the Context is destroyed,
\* whatever the threads do.
THEOREM AppCallbacksImplemented == Spec => ImplementsAppCallbacks
<1>1. Init => App!Init
  BY DEF Init, App!Init, Life, Notified, Alive
<1>2. QED
  BY <1>1, AppStep, CallbackInvariance, PTL DEF Spec, App!Spec, ImplementsAppCallbacks
==============================================================================
