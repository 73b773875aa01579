------------------------------- MODULE Objects -------------------------------
(* Five kernel objects that share no state, explored side by side in one     *)
(* run: the published facts of a process (Vdso), file watches, a terminal, a *)
(* window's close watchdog and Unix sockets.  The object is chosen at the    *)
(* start; the others stay at their initial states.                           *)
EXTENDS MCVdso, Sequences

CONSTANTS
    InDir, Outside, Target, DirWriters, FileWriters, QueueCap, Batch,   \* of Watch
    MaxFile, MaxVersion, MaxOps,
    TtyProcs, TtyLeaders, TtyHandling, TtyIgnoring, ReadCount,          \* of Terminal
    MaxTyped, MaxEofs, MaxMoves,
    Windows, InputCap, CloseGrace, MaxEvents,                           \* of CloseWatchdog
    SockServers, SockClients, SockWorkers, MaxSocks, SockCap,           \* of Sockets
    SockBacklog, ShareConns, ShareBinds, QueueConns, QueueBinds

ASSUME ObjectsAssumption ==
    /\ QueueCap \in Nat /\ Batch \in Nat \ {0} /\ MaxFile \in Nat \ {0} /\ MaxVersion \in Nat
    /\ MaxOps \in Nat
    /\ Target \in InDir /\ Outside \notin InDir
    /\ ReadCount \in Nat \ {0} /\ MaxTyped \in Nat /\ MaxMoves \in Nat
    /\ InputCap \in Nat \ {0} /\ CloseGrace \in Nat
    /\ MaxSocks \in Nat /\ SockCap \in Nat \ {0} /\ SockBacklog \in Nat
    /\ ShareConns \in Nat /\ QueueConns \in Nat

VARIABLES
    object,                                                     \* the object that moves
    entry, version, made, hand, queue, over, mode, known, ops, astray,  \* Watch
    state, calling, waiters, pending, fg, canon, noflsh, line, cooked, eof, hup, typed, read,
    dropped, eofs, zeros, resumed, moves,                       \* Terminal
    wpos, rpos, proc, open, wd, at, quit, saw, lapped, wrong,   \* CloseWatchdog
    socks, dirs, waiter, alive, unborn, bound, node, conns, binds \* Sockets

watchVars == <<entry, version, made, hand, queue, over, mode, known, ops, astray>>
ttyVars == <<state, calling, waiters, pending, fg, canon, noflsh, line, cooked, eof, hup, typed,
             read, dropped, eofs, zeros, resumed, moves>>
closeVars == <<wpos, rpos, proc, open, wd, at, quit, saw, lapped, wrong>>
sockVars == <<socks, dirs, waiter, alive, unborn, bound, node, conns, binds>>

\* File watches: a file watched by a process, or a directory watched by a
\* process and a name in it by the embedder.
WatchesOn(o) == IF o = "file" THEN {"file"} ELSE {"dir", "embedder"}
WritersOn(o) == IF o = "file" THEN FileWriters ELSE DirWriters
W(o) == INSTANCE Watch WITH
       Watches <- WatchesOn(o), Writers <- WritersOn(o), Cap <- QueueCap

\* A shell and a job on one terminal.
TtyGroup == [p \in TtyProcs |-> IF p \in TtyLeaders THEN 1 ELSE 2]
TtyDisp == [p \in TtyProcs |-> IF p \in TtyHandling THEN "handler"
                               ELSE IF p \in TtyIgnoring THEN "ignore" ELSE "default"]
T == INSTANCE Terminal WITH Procs <- TtyProcs, Group <- TtyGroup, Disp <- TtyDisp

\* The windows of one process.
C == INSTANCE CloseWatchdog WITH
       state <- proc, Sids <- Windows, Cap <- InputCap, Grace <- CloseGrace

\* A server, a worker it may spawn to share its sockets, and a client; or
\* servers alone with a client that connects more often and a path that is
\* bound again.
SockProcs(o) == SockServers \cup SockClients \cup IF o = "share" THEN SockWorkers ELSE {}
ConnsOn(o) == IF o = "share" THEN ShareConns ELSE QueueConns
BindsOn(o) == IF o = "share" THEN ShareBinds ELSE QueueBinds
S(o) == INSTANCE Sockets WITH
       Procs <- SockProcs(o), Born <- SockServers \cup SockClients, Servers <- SockServers,
       Clients <- SockClients, Cap <- SockCap, Backlog <- SockBacklog,
       MaxConns <- ConnsOn(o), MaxBinds <- BindsOn(o)

Still(o) ==
    /\ o # "vdso" => UNCHANGED vars
    /\ o \notin {"dir", "file"} => UNCHANGED watchVars
    /\ o # "terminal" => UNCHANGED ttyVars
    /\ o # "close" => UNCHANGED closeVars
    /\ o \notin {"share", "queue"} => UNCHANGED sockVars

ObjectsInit ==
    /\ object \in {"vdso", "dir", "file", "terminal", "close", "share", "queue"}
    /\ Init /\ (IF object = "file" THEN W("file")!Init ELSE W("dir")!Init) /\ T!Init /\ C!Init
    /\ (IF object = "queue" THEN S("queue")!Init ELSE S("share")!Init)
    /\ object # "terminal" => fg = 1 /\ canon /\ noflsh

ObjectsNext ==
    /\ UNCHANGED object /\ Still(object)
    /\ \/ object = "vdso" /\ Next
       \/ object = "dir" /\ W("dir")!Next
       \/ object = "file" /\ W("file")!Next
       \/ object = "terminal" /\ T!Next
       \/ object = "close" /\ C!Next
       \/ object = "share" /\ S("share")!Next
       \/ object = "queue" /\ S("queue")!Next

ObjectsSpec == ObjectsInit /\ [][ObjectsNext]_<<vars, object, watchVars, ttyVars, closeVars, sockVars>>

----------------------------------------------------------------------------
(* Properties: those of the objects' modules, where they are explained.      *)

\* The types of watches, terminals, watchdogs and sockets, with what the types
\* of the code hide: a latched queue is empty, a process waits on a terminal
\* once, a watchdog has a surface, a description's holders are alive.
ObjectsTypeOK ==
    CASE object = "dir" -> W("dir")!TypeOK
      [] object = "file" -> W("file")!TypeOK
      [] object = "terminal" -> T!TypeOK
      [] object = "close" -> C!TypeOK
      [] object = "share" -> S("share")!TypeOK
      [] object = "queue" -> S("queue")!TypeOK
      [] object = "vdso" -> TypeOK

\* A consumer asleep on a watch has seen every settled content it watches.
SleeperIsCurrent == IF object = "file" THEN W("file")!SleeperIsCurrent ELSE W("dir")!SleeperIsCurrent

\* Keystrokes are consumed once and in order.
InputOnceInOrder == T!InputOnceInOrder

\* No foreground reader sleeps beside input or an end of file.
ReaderServed == T!ReaderServed

\* A VEOF ends one read at most.
EofEndsOneRead == T!EofEndsOneRead

\* A window is force-quit only if the look found its QUIT unread, unless the
\* reader lapped the positions unseen, and let off only if it was read.
VerdictIsRight == C!VerdictIsRight

\* No accept sleeps beside a connection that waits for it.
AcceptorServed ==
    IF object = "queue" THEN S("queue")!AcceptorServed ELSE S("share")!AcceptorServed

\* A connected socket's reader or writer sleeps only while the peer that
\* could wake it is there.
PeerCanAnswer ==
    IF object = "queue" THEN S("queue")!PeerCanAnswer ELSE S("share")!PeerCanAnswer
==============================================================================
