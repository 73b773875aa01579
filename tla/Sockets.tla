------------------------------- MODULE Sockets -------------------------------
(* AF_UNIX stream sockets (kernel.js: _sockRpc, the socket branches of        *)
(* _ofdUnref and _cancelWaiter, _streamRead, _streamWrite and _pipeNotify on  *)
(* a socket's directions): one path at which servers listen, clients that     *)
(* connect, and processes that inherit sockets and die with them.             *)
(*                                                                            *)
(* A connection is a crossed pair of directions.  It exists before anybody    *)
(* has accepted it, so four places must agree on who is at its far end: the   *)
(* path's registration, the listener's queue of connections, its queue of     *)
(* parked accepts, and the descriptors.                                       *)
(*                                                                            *)
(* A read or a write moves one unit.  The order of the units is PipeRing's    *)
(* business; here they are counted.                                           *)
EXTENDS Naturals, Sequences, Functions

CONSTANTS
    Procs,     \* processes
    Born,      \* those alive at the start; the others are spawned by them
    Servers,   \* bound: processes that bind a socket
    Clients,   \* bound: processes that connect one
    MaxSocks,  \* bound: socket descriptions that can be open at once
    Cap,       \* a direction's capacity
    Backlog,   \* the listeners' backlog
    MaxConns,  \* bound: connections ever made
    MaxBinds   \* bound: binds of the path

VARIABLES
    socks,     \* description -> [st, holders, rx, tx, pending, accepts]
    dirs,      \* direction -> [buf, rOpen, wOpen, readers, writers]
    waiter,    \* process -> its parked call, [op, on]
    alive,     \* live processes
    unborn,    \* processes still to be spawned; a pid is not used twice
    bound,     \* _sockBinds at the path: a description or 0
    node,      \* the path names a socket node
    conns,     \* connections made so far
    binds      \* binds so far

vars == <<socks, dirs, waiter, alive, unborn, bound, node, conns, binds>>

Socks == 1..MaxSocks
Dirs == 1..2 * MaxConns
Conns == 1..MaxConns
Up(c) == 2 * c - 1     \* client to server
DownOf(c) == 2 * c     \* server to client

NoSock == [st |-> "free", holders |-> {}, rx |-> 0, tx |-> 0, pending |-> <<>>, accepts |-> <<>>]
NewDir == [buf |-> 0, rOpen |-> TRUE, wOpen |-> TRUE, readers |-> <<>>, writers |-> <<>>]
Idle == [op |-> "none", on |-> 0]

Init ==
    /\ socks = [s \in Socks |-> NoSock]
    /\ dirs = [d \in Dirs |-> NewDir]
    /\ waiter = [p \in Procs |-> Idle]
    /\ alive = Born /\ unborn = Procs \ Born
    /\ bound = 0 /\ node = FALSE /\ conns = 0 /\ binds = 0

----------------------------------------------------------------------------
(* What the handlers change: x is [socks, dirs, waiter, bound].              *)

Now == [socks |-> socks, dirs |-> dirs, waiter |-> waiter, bound |-> bound]

Become(x) ==
    socks' = x.socks /\ dirs' = x.dirs /\ waiter' = x.waiter /\ bound' = x.bound

FreeSocks == {s \in Socks : socks[s].st = "free"}
Fresh == CHOOSE s \in FreeSocks : \A t \in FreeSocks : s <= t

\* A queue of processes without some of them.
Without(q, gone) ==
    LET kept[n \in 0..Len(q)] ==
            IF n = 0 THEN <<>>
            ELSE IF q[n] \in gone THEN kept[n - 1] ELSE Append(kept[n - 1], q[n])
    IN  kept[Len(q)]

\* _cancelWaiter: the registration leaves the queue it is in.
Cancel(x, p) ==
    LET w == x.waiter[p]
        y == [x EXCEPT !.waiter[p] = Idle]
    IN  CASE w.op = "accept" -> [y EXCEPT !.socks[w.on].accepts = Without(@, {p})]
          [] w.op = "read" -> [y EXCEPT !.dirs[w.on].readers = Without(@, {p})]
          [] w.op = "write" -> [y EXCEPT !.dirs[w.on].writers = Without(@, {p})]
          [] OTHER -> x

\* Direction d with b units in it; without its reading, its writing side.
Filled(x, d, b) == [x EXCEPT !.dirs[d].buf = b]
ShutR(x, d) == [x EXCEPT !.dirs[d].rOpen = FALSE]
ShutW(x, d) == [x EXCEPT !.dirs[d].wOpen = FALSE]

\* One service of _pipeNotify on direction d: a reader, else a writer.
ServeOne(x, d) ==
    LET r == x.dirs[d].readers
        w == x.dirs[d].writers
        b == x.dirs[d].buf
        open == x.dirs[d].rOpen /\ x.dirs[d].wOpen
    IN  CASE r # <<>> /\ b > 0 -> Filled(Cancel(x, Head(r)), d, b - 1)
          [] r # <<>> /\ b = 0 /\ ~x.dirs[d].wOpen -> Cancel(x, Head(r))
          [] OTHER ->
               IF w = <<>> \/ (open /\ b >= Cap) THEN x
               ELSE Filled(Cancel(x, Head(w)), d, IF open THEN b + 1 ELSE b)

\* _pipeNotify: services until nothing moves.
Notify(x, d) ==
    LET most == Len(x.dirs[d].readers) + Len(x.dirs[d].writers)
        after[n \in 0..most] == IF n = 0 THEN x ELSE ServeOne(after[n - 1], d)
    IN  after[most]

\* Both directions lose the side that reads r and writes w.
HangUp(x, r, w) ==
    Notify(Notify(ShutW(ShutR(x, r), w), r), w)

\* Fault: the connections nobody accepted are forgotten with their listener.
ReleasedQuietly(x, s) ==
    LET k == x.socks[s]
        y == [x EXCEPT !.socks[s] = NoSock, !.bound = IF @ = s THEN 0 ELSE @]
    IN  IF k.st = "conn" THEN HangUp(y, k.rx, k.tx) ELSE y

\* _ofdUnref at the last reference.
Released(x, s) ==
    LET k == x.socks[s]
        y == [x EXCEPT !.socks[s] = NoSock, !.bound = IF @ = s THEN 0 ELSE @]
        refused[n \in 0..Len(k.pending)] ==
            IF n = 0 THEN y
            ELSE HangUp(refused[n - 1], Up(k.pending[n]), DownOf(k.pending[n]))
    IN  IF k.st = "conn" THEN HangUp(y, k.rx, k.tx) ELSE refused[Len(k.pending)]

Unref(x, s, p) ==
    LET y == [x EXCEPT !.socks[s].holders = @ \ {p}]
    IN  IF y.socks[s].holders = {} THEN Released(y, s) ELSE y

----------------------------------------------------------------------------
(* The handlers                                                              *)

Free(p) == p \in alive /\ waiter[p] = Idle
Has(p, s, st) == Free(p) /\ p \in socks[s].holders /\ socks[s].st = st

\* Bound: a program uses the socket it made before it makes another, and makes
\* none it could not use within the other bounds.
Socket(p) ==
    /\ Free(p) /\ FreeSocks # {}
    /\ (p \in Servers /\ binds < MaxBinds) \/ (p \in Clients /\ conns < MaxConns)
    /\ \A s \in Socks : socks[s].st \in {"fresh", "bound"} => p \notin socks[s].holders
    /\ socks' = [socks EXCEPT ![Fresh].st = "fresh", ![Fresh].holders = {p}]
    /\ UNCHANGED <<dirs, waiter, alive, unborn, bound, node, conns, binds>>

\* A second bind of the path is EADDRINUSE.
Bind(p, s) ==
    /\ Has(p, s, "fresh") /\ p \in Servers /\ ~node /\ binds < MaxBinds
    /\ binds' = binds + 1
    /\ node' = TRUE /\ bound' = s
    /\ socks' = [socks EXCEPT ![s].st = "bound"]
    /\ UNCHANGED <<dirs, waiter, alive, unborn, conns>>

Listen(p, s) ==
    /\ Has(p, s, "bound")
    /\ socks' = [socks EXCEPT ![s].st = "listening"]
    /\ UNCHANGED <<dirs, waiter, alive, unborn, bound, node, conns, binds>>

\* The path may be unlinked under its listener, and bound again.
Unlink ==
    /\ node /\ node' = FALSE
    /\ UNCHANGED <<socks, dirs, waiter, alive, unborn, bound, conns, binds>>

Joined(x, s, p, r, w) ==
    [x EXCEPT !.socks[s] = [NoSock EXCEPT !.st = "conn", !.holders = {p}, !.rx = r, !.tx = w]]

\* Fault: a connection is queued although an accept is parked.
ConnectBlind(p, s) ==
    LET l == bound
        c == conns + 1
        x == [Now EXCEPT !.socks[s].st = "conn", !.socks[s].rx = DownOf(c), !.socks[s].tx = Up(c)]
    IN  /\ Has(p, s, "fresh") /\ p \in Clients /\ conns < MaxConns
        /\ node /\ l # 0 /\ socks[l].st = "listening"
        /\ conns' = c
        /\ Len(socks[l].pending) < Backlog
        /\ Become([x EXCEPT !.socks[l].pending = Append(@, c)])
        /\ UNCHANGED <<alive, unborn, node, binds>>

\* SOCK_CONNECT to a listener: serve a parked accept, else queue within the
\* backlog.
Connect(p, s) ==
    LET l == bound
        c == conns + 1
        x == [Now EXCEPT !.socks[s].st = "conn", !.socks[s].rx = DownOf(c), !.socks[s].tx = Up(c)]
    IN  /\ Has(p, s, "fresh") /\ p \in Clients /\ conns < MaxConns
        /\ node /\ l # 0 /\ socks[l].st = "listening"
        /\ conns' = c
        /\ IF socks[l].accepts # <<>>
           THEN LET a == Head(socks[l].accepts)
                IN  FreeSocks # {} /\ Become(Joined(Cancel(x, a), Fresh, a, Up(c), DownOf(c)))
           ELSE /\ Len(socks[l].pending) < Backlog
                /\ Become([x EXCEPT !.socks[l].pending = Append(@, c)])
        /\ UNCHANGED <<alive, unborn, node, binds>>

Accept(p, s) ==
    /\ Has(p, s, "listening")
    /\ IF socks[s].pending # <<>>
       THEN LET c == Head(socks[s].pending)
            IN  /\ FreeSocks # {}
                /\ Become(Joined([Now EXCEPT !.socks[s].pending = Tail(@)],
                                 Fresh, p, Up(c), DownOf(c)))
       ELSE Become([Now EXCEPT !.waiter[p] = [op |-> "accept", on |-> s],
                               !.socks[s].accepts = Append(@, p)])
    /\ UNCHANGED <<alive, unborn, node, conns, binds>>

\* FS_READ: a unit, the end, or a park.
Read(p, s) ==
    LET d == socks[s].rx
    IN  /\ Has(p, s, "conn")
        /\ CASE dirs[d].buf > 0 -> Become(Notify(Filled(Now, d, dirs[d].buf - 1), d))
             [] dirs[d].buf = 0 /\ ~dirs[d].wOpen -> UNCHANGED <<socks, dirs, waiter, bound>>
             [] OTHER -> Become([Now EXCEPT !.waiter[p] = [op |-> "read", on |-> d],
                                            !.dirs[d].readers = Append(@, p)])
        /\ UNCHANGED <<alive, unborn, node, conns, binds>>

\* FS_WRITE: EPIPE (the signal may end the process, which is Die), a unit, or
\* a park.
Write(p, s) ==
    LET d == socks[s].tx
    IN  /\ Has(p, s, "conn")
        /\ CASE ~dirs[d].rOpen \/ ~dirs[d].wOpen -> UNCHANGED <<socks, dirs, waiter, bound>>
             [] dirs[d].rOpen /\ dirs[d].wOpen /\ dirs[d].buf < Cap ->
                  Become(Notify(Filled(Now, d, dirs[d].buf + 1), d))
             [] OTHER -> Become([Now EXCEPT !.waiter[p] = [op |-> "write", on |-> d],
                                            !.dirs[d].writers = Append(@, p)])
        /\ UNCHANGED <<alive, unborn, node, conns, binds>>

\* SOCK_SHUTDOWN is the connection's, not the descriptor's.
Shutdown(p, s, how) ==
    LET r == IF how # "WR" THEN Notify(ShutR(Now, socks[s].rx), socks[s].rx) ELSE Now
    IN  /\ Has(p, s, "conn")
        /\ Become(IF how # "RD" THEN Notify(ShutW(r, socks[s].tx), socks[s].tx) ELSE r)
        /\ UNCHANGED <<alive, unborn, node, conns, binds>>

Close(p, s) ==
    /\ Free(p) /\ p \in socks[s].holders
    /\ Become(Unref(Now, s, p))
    /\ UNCHANGED <<alive, unborn, node, conns, binds>>

\* A signal interrupts a parked call.
Interrupt(p) ==
    /\ p \in alive /\ waiter[p] # Idle
    /\ Become(Cancel(Now, p))
    /\ UNCHANGED <<alive, unborn, node, conns, binds>>

\* A spawned process inherits every socket of its parent.
Spawn(p, q) ==
    /\ Free(p) /\ q \in unborn
    /\ alive' = alive \cup {q} /\ unborn' = unborn \ {q}
    /\ socks' = [s \in Socks |-> IF p \in socks[s].holders
                                 THEN [socks[s] EXCEPT !.holders = @ \cup {q}] ELSE socks[s]]
    /\ UNCHANGED <<dirs, waiter, bound, node, conns, binds>>

Die(p) ==
    LET closed[s \in 0..MaxSocks] ==
            IF s = 0 THEN Cancel(Now, p)
            ELSE IF p \in socks[s].holders THEN Unref(closed[s - 1], s, p) ELSE closed[s - 1]
    IN  /\ p \in alive /\ alive' = alive \ {p}
        /\ Become(closed[MaxSocks])
        /\ UNCHANGED <<unborn, node, conns, binds>>

Next ==
    \/ Unlink
    \/ \E p \in Procs : \/ Socket(p) \/ Interrupt(p) \/ Die(p) \/ \E q \in Procs : Spawn(p, q)
                        \/ \E s \in Socks :
                            \/ Bind(p, s) \/ Listen(p, s) \/ Connect(p, s) \/ Accept(p, s)
                            \/ Read(p, s) \/ Write(p, s) \/ Close(p, s)
                            \/ \E how \in {"RD", "WR", "RDWR"} : Shutdown(p, s, how)

Spec == Init /\ [][Next]_vars

----------------------------------------------------------------------------
(* Properties                                                                *)

\* Types; every parked call is registered exactly once, where it waits.
TypeOK ==
    /\ \A s \in Socks :
        /\ socks[s].st \in {"free", "fresh", "bound", "listening", "conn"}
        /\ socks[s].holders \subseteq alive
        /\ socks[s].st = "free" <=> socks[s].holders = {}
        /\ Len(socks[s].pending) <= Backlog /\ IsInjective(socks[s].accepts)
    /\ \A d \in Dirs :
        dirs[d].buf \in 0..Cap /\ IsInjective(dirs[d].readers) /\ IsInjective(dirs[d].writers)
    /\ alive \subseteq Procs \ unborn /\ bound \in Socks \cup {0} /\ node \in BOOLEAN
    /\ \A p \in Procs :
        /\ waiter[p] # Idle => p \in alive
        /\ \A s \in Socks :
            p \in Range(socks[s].accepts) <=> waiter[p] = [op |-> "accept", on |-> s]
        /\ \A d \in Dirs :
            /\ p \in Range(dirs[d].readers) <=> waiter[p] = [op |-> "read", on |-> d]
            /\ p \in Range(dirs[d].writers) <=> waiter[p] = [op |-> "write", on |-> d]

\* No accept sleeps beside a queued connection, and whoever sleeps in one
\* sits at a listener that somebody holds: clients that come while servers
\* park, are interrupted, die or share a listener are never left waiting.
AcceptorServed == \A p \in Procs : waiter[p].op = "accept" =>
    socks[waiter[p].on].st = "listening" /\ socks[waiter[p].on].pending = <<>>

Queued(c) == \E s \in Socks : socks[s].st = "listening" /\ c \in Range(socks[s].pending)
AtServer(c) == \E s \in Socks : socks[s].rx = Up(c) /\ socks[s].tx = DownOf(c)
AtClient(c) == \E s \in Socks : socks[s].rx = DownOf(c) /\ socks[s].tx = Up(c)

\* A parked read or write has somebody who can answer it: the far end of the
\* connection is held by a process, or waits in the queue of a listener that
\* is held; through shutdowns, listeners that close with connections queued,
\* a path that is bound again, and deaths.  For a read parked on a side
\* shut down for reading that is the far end's close or shutdown only: what
\* the far end writes fails.
PeerCanAnswer == \A p \in Procs, c \in Conns :
    LET far == Queued(c) \/ AtServer(c)
    IN  /\ waiter[p] = [op |-> "read", on |-> DownOf(c)] =>
               far /\ dirs[DownOf(c)].buf = 0 /\ dirs[DownOf(c)].wOpen
        /\ waiter[p] = [op |-> "write", on |-> Up(c)] =>
               far /\ dirs[Up(c)].buf = Cap /\ dirs[Up(c)].rOpen
        /\ waiter[p] = [op |-> "read", on |-> Up(c)] =>
               AtClient(c) /\ dirs[Up(c)].buf = 0 /\ dirs[Up(c)].wOpen
        /\ waiter[p] = [op |-> "write", on |-> DownOf(c)] =>
               AtClient(c) /\ dirs[DownOf(c)].buf = Cap /\ dirs[DownOf(c)].rOpen
==============================================================================
