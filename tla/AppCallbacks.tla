---------------------------- MODULE AppCallbacks ----------------------------
(***************************************************************************)
(* What an application of netier may rely on, connection by connection     *)
(* (Server::setOnConn, Server::setOnRecv): onConn is called once and       *)
(* returns before onRecv is called, calls of onRecv do not overlap, and    *)
(* after the Context is destroyed there are none.                          *)
(***************************************************************************)
CONSTANT Conns
VARIABLE life  \* what the application saw of each connection

Stages == {"unseen", "greeting", "greeted", "receiving", "gone"}

TypeOK == life \in [Conns -> Stages]

Init == life = [c \in Conns |-> "unseen"]

Moves(c, from, to) == life[c] = from /\ life' = [life EXCEPT ![c] = to]

OnConnCalled(c)   == Moves(c, "unseen", "greeting")
OnConnReturned(c) == Moves(c, "greeting", "greeted")
OnRecvCalled(c)   == Moves(c, "greeted", "receiving")
OnRecvReturned(c) == Moves(c, "receiving", "greeted")
Destroyed(c)      == Moves(c, "greeted", "gone")

Next ==
  \E c \in Conns :
    \/ OnConnCalled(c) \/ OnConnReturned(c)
    \/ OnRecvCalled(c) \/ OnRecvReturned(c)
    \/ Destroyed(c)

Spec == Init /\ [][Next]_life
=============================================================================
