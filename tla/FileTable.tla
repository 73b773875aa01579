---------------------------- MODULE FileTable ----------------------------
(* Open file descriptions and the descriptor tables that share them        *)
(* (kernel.js: _makeOfd, _ofdRef, _ofdUnref, _stdOfds, _spawnImage, the    *)
(* FS_OPEN / FS_CLOSE / FS_DUP* / PIPE_CREATE handlers, _exitProcess).     *)
(*                                                                         *)
(* A description lives as long as its reference count says.  The count is  *)
(* kept by hand, one call at a time, while the references it counts are    *)
(* the entries of every process's table and the strace references the      *)
(* kernel holds for traced processes.  A count that drifts either closes a *)
(* file under a process that still has it or never lets a pipe reach EOF.  *)
(*                                                                         *)
(* The kernel runs one handler at a time.  The spawn handler loops over    *)
(* the file actions of its request: each iteration is a step here, and     *)
(* while a child is being made nothing else is enabled.                    *)
EXTENDS Integers, FiniteSets

CONSTANTS
    Procs,         \* process ids, 1..n; 1 is init
    MaxFd,         \* bound: descriptors are 0..MaxFd
    MaxStd,        \* a process without parent is given descriptors 0..MaxStd
    MaxOfd,        \* bound: descriptions are 1..MaxOfd
    MaxActions,    \* bound: file actions in one spawn request
    MaxServices    \* bound: processes spawned without a parent

Fds == 0..MaxFd
StdFds == 0..MaxStd
Ofds == 1..MaxOfd
None == 0

\* The strace reference of a process sits beside its descriptors: both are
\* references the kernel must give back when the process ends.
Trace == -1
Slots == Fds \cup {Trace}
Kernel == 0
Holders == Procs \cup {Kernel}

ASSUME FileTableAssumption ==
    /\ Procs \subseteq Nat \ {Kernel} /\ IsFiniteSet(Procs)
    /\ MaxFd \in Nat /\ MaxOfd \in Nat /\ MaxActions \in Nat /\ MaxServices \in Nat
    /\ MaxStd \in Nat /\ MaxStd <= MaxFd

VARIABLES
    state,    \* pid -> "none", "live", "dead", or "lost": it has no worker
    fds,      \* pid -> slot -> description or None
    follow,   \* traced pids whose children are traced too
    ofd,      \* the _ofds map: description -> kind, refs, holders, open
    next,     \* the next description id (_nextOfd)
    std,      \* the cached _std descriptions: StdFds -> description or None
    services, \* the pids that were spawned without a parent
    making,   \* the pid of the child being made, or None
    acts      \* file actions done for that child

vars == <<state, fds, follow, ofd, next, std, services, making, acts>>

----------------------------------------------------------------------------
(* Descriptions                                                            *)

PipeEnds == {"read", "write"}
Kinds == {"unmade", "file", "std"} \cup PipeEnds

Unmade == [kind |-> "unmade", refs |-> 0, by |-> [q \in Holders |-> 0],
           open |-> FALSE, closes |-> 0]
Made(k) == [Unmade EXCEPT !.kind = k, !.open = TRUE]

\* The pid _ofdRef is told for a slot of p: strace references are the kernel's.
HolderOf(p, s) == IF s = Trace THEN Kernel ELSE p

Held(d, q, n) == IF d.kind \in PipeEnds THEN [d.by EXCEPT ![q] = @ + n] ELSE d.by
Dropped(d, q, n) ==
    IF d.kind \in PipeEnds THEN [d.by EXCEPT ![q] = IF @ > n THEN @ - n ELSE 0] ELSE d.by

More(d, q, n) == [d EXCEPT !.refs = @ + n, !.by = Held(d, q, n)]

Ref(d, o, q) == [d EXCEPT ![o] = More(@, q, 1)]

Less(d, q, n) == [d EXCEPT !.refs = @ - n, !.by = Dropped(d, q, n)]

Settled(d) == IF d.refs > 0 THEN d ELSE [d EXCEPT !.open = FALSE, !.closes = @ + 1]

Unref(d, o, q) ==
    IF o = None \/ ~d[o].open THEN d
    ELSE [d EXCEPT ![o] = Settled(Less(@, q, 1))]

\* How many of a table's descriptors name o.
Uses(tab, o) == Cardinality({s \in Fds : tab[s] = o})

\* A forEach over a table that references, or releases, every descriptor.
RefAll(d, tab, q) ==
    [o \in Ofds |-> LET n == Uses(tab, o) IN
        IF n = 0 \/ ~d[o].open THEN d[o] ELSE More(d[o], q, n)]

UnrefAll(d, tab, q) ==
    [o \in Ofds |-> LET n == Uses(tab, o) IN
        IF n = 0 \/ ~d[o].open THEN d[o] ELSE Settled(Less(d[o], q, n))]

Empty == [s \in Slots |-> None]

Init ==
    /\ state = [p \in Procs |-> "none"]
    /\ fds = [p \in Procs |-> Empty]
    /\ follow = {}
    /\ ofd = [o \in Ofds |-> Unmade]
    /\ next = 1
    /\ std = [s \in StdFds |-> None]
    /\ services = {} /\ making = None /\ acts = 0

Free(tab, fd) == fd \in Fds /\ tab[fd] = None /\ \A g \in Fds : g < fd => tab[g] # None

\* allocFd(min): the least free descriptor from min up.
FreeFrom(tab, min, fd) ==
    fd \in Fds /\ fd >= min /\ tab[fd] = None /\ \A g \in min..(fd - 1) : tab[g] # None

Idle == making = None
Running(p) == Idle /\ state[p] = "live"

----------------------------------------------------------------------------
(* Descriptor calls of a running process                                   *)

\* FS_OPEN: a new description at the least free descriptor.
Open(p) == \E fd \in Fds :
    /\ Running(p) /\ next \in Ofds
    /\ Free(fds[p], fd)
    /\ ofd' = Ref([ofd EXCEPT ![next] = Made("file")], next, p)
    /\ fds' = [fds EXCEPT ![p][fd] = next]
    /\ next' = next + 1
    /\ UNCHANGED <<state, follow, std, services, making, acts>>

\* PIPE_CREATE: two descriptions over one buffer.
Pipe(p) == \E r \in Fds, w \in Fds :
    /\ Running(p) /\ next \in Ofds /\ next + 1 \in Ofds
    /\ Free(fds[p], r)
    /\ Free([fds[p] EXCEPT ![r] = next], w)
    /\ ofd' = Ref(Ref([ofd EXCEPT ![next] = Made("read"), ![next + 1] = Made("write")],
                      next, p), next + 1, p)
    /\ fds' = [fds EXCEPT ![p] = [@ EXCEPT ![r] = next, ![w] = next + 1]]
    /\ next' = next + 2
    /\ UNCHANGED <<state, follow, std, services, making, acts>>

\* FS_CLOSE.
Close(p) == \E fd \in Fds :
    /\ Running(p)
    /\ fds[p][fd] # None
    /\ ofd' = Unref(ofd, fds[p][fd], p)
    /\ fds' = [fds EXCEPT ![p][fd] = None]
    /\ UNCHANGED <<state, follow, next, std, services, making, acts>>

\* A descriptor that names a live description (ofdOf).
Names(p, fd) == fds[p][fd] # None /\ ofd[fds[p][fd]].open

\* FS_DUP (min 0) and F_DUPFD.
Dup(p) == \E fd \in Fds, min \in Fds, to \in Fds :
    /\ Running(p) /\ Names(p, fd)
    /\ FreeFrom(fds[p], min, to)
    /\ ofd' = Ref(ofd, fds[p][fd], p)
    /\ fds' = [fds EXCEPT ![p][to] = fds[p][fd]]
    /\ UNCHANGED <<state, follow, next, std, services, making, acts>>

\* Fault: the replaced description keeps the reference it had.
Dup2Leaky(p) == \E fd \in Fds, to \in Fds :
    /\ Running(p) /\ Names(p, fd) /\ fd # to
    /\ ofd' = Ref(ofd, fds[p][fd], p)
    /\ fds' = [fds EXCEPT ![p][to] = fds[p][fd]]
    /\ UNCHANGED <<state, follow, next, std, services, making, acts>>

\* FS_DUP2: the new reference is taken before the replaced one is dropped,
\* and a descriptor duplicated onto itself changes nothing.
Dup2(p) == \E fd \in Fds, to \in Fds :
    /\ Running(p) /\ Names(p, fd) /\ fd # to
    /\ ofd' = Unref(Ref(ofd, fds[p][fd], p), fds[p][to], p)
    /\ fds' = [fds EXCEPT ![p][to] = fds[p][fd]]
    /\ UNCHANGED <<state, follow, next, std, services, making, acts>>

\* _exitProcess: the strace reference first (_traceExit), then every descriptor.
Exit(p) ==
    /\ Running(p)
    /\ ofd' = UnrefAll(Unref(ofd, fds[p][Trace], Kernel), fds[p], p)
    /\ fds' = [fds EXCEPT ![p] = Empty]
    /\ state' = [state EXCEPT ![p] = "dead"]
    /\ follow' = follow \ {p}
    /\ UNCHANGED <<next, std, services, making, acts>>

----------------------------------------------------------------------------
(* Spawning (_spawnImage)                                                  *)

\* pids are handed out in order.  Once init is gone the kernel has halted.
Fresh(c) ==
    /\ Idle /\ state[c] = "none" /\ \A q \in Procs : q < c => state[q] # "none"
    /\ \A q \in Procs : state[q] = "dead" => q # 1

Begin(c) ==
    /\ making' = c /\ acts' = 0

\* A process without a parent (boot, service) gets the standard descriptions,
\* made at the first such spawn and cached from then on.  A later spawn is
\* handed the cached ones whatever became of them: one that was released is
\* counted again, but the map of descriptions has forgotten its id.
StdOf(s) == IF std[s] = None THEN next + s ELSE std[s]
StdReady == \A s \in StdFds : std[s] # None
WithStd ==
    [o \in Ofds |-> IF \E s \in StdFds : StdOf(s) = o
                    THEN LET d == IF StdReady THEN ofd[o] ELSE Made("std")
                         IN  [d EXCEPT !.refs = @ + 1]
                    ELSE ofd[o]]

SpawnFirst(c) ==
    /\ Fresh(c) /\ Cardinality(services) < MaxServices
    /\ StdReady \/ next + MaxStd \in Ofds
    /\ services' = services \cup {c}
    /\ std' = [s \in StdFds |-> StdOf(s)]
    /\ ofd' = WithStd
    /\ next' = IF StdReady THEN next ELSE next + MaxStd + 1
    /\ fds' = [fds EXCEPT ![c] = [s \in Slots |-> IF s \in StdFds THEN StdOf(s) ELSE None]]
    /\ Begin(c)
    /\ UNCHANGED <<state, follow>>

\* The descriptors a child starts with: every one of the parent's that still
\* names a description.  A parent that died while the image loaded has none.
Inherited(p) ==
    [s \in Slots |-> IF s \in Fds /\ Names(p, s) THEN fds[p][s] ELSE None]

\* The description the child is traced into: the pipe end the request names
\* in the parent's table, else the parent's own one when it follows.
Asked(p, fd) == fd \in Fds /\ Names(p, fd) /\ ofd[fds[p][fd]].kind = "write"

\* Fault: the child's strace reference is filed under the child.
ChildOwnsTrace(p, c, tr) ==
    LET tab == Inherited(p)
        d == RefAll(ofd, tab, c)
    IN  /\ fds' = [fds EXCEPT ![c] = [tab EXCEPT ![Trace] = tr]]
        /\ ofd' = IF tr = None THEN d ELSE Ref(d, tr, c)

Child(p, c, tr) ==
    LET tab == Inherited(p)
        d == RefAll(ofd, tab, c)
    IN  /\ fds' = [fds EXCEPT ![c] = [tab EXCEPT ![Trace] = tr]]
        /\ ofd' = IF tr = None THEN d ELSE Ref(d, tr, Kernel)

Spawn(p, c) ==
    /\ Fresh(c) /\ state[p] \in {"live", "dead"}
    /\ \/ \E fd \in Fds, f \in BOOLEAN :
            /\ Asked(p, fd)
            /\ Child(p, c, fds[p][fd])
            /\ follow' = IF f THEN follow \cup {c} ELSE follow
       \/ /\ p \in follow
          /\ Child(p, c, fds[p][Trace])
          /\ follow' = follow \cup {c}
       \/ /\ p \notin follow
          /\ Child(p, c, None)
          /\ UNCHANGED follow
    /\ Begin(c)
    /\ UNCHANGED <<state, next, std, services>>

\* A request to trace into something that is no pipe's write end: EBADF, the
\* inherited references are given back at once and only the pid is spent.
SpawnRefused(p, c) ==
    /\ Fresh(c) /\ state[p] \in {"live", "dead"}
    /\ \E fd \in Fds : ~Asked(p, fd)
    /\ state' = [state EXCEPT ![c] = "dead"]
    /\ UNCHANGED <<fds, follow, ofd, next, std, services, making, acts>>

\* boot and service pass no file actions.
Acting == making # None /\ making \notin services /\ acts < MaxActions

ActDup2 == \E fd \in Fds, to \in Fds :
    LET src == fds[making][fd] IN
    /\ Acting /\ src # None
    /\ ofd' = Unref(Ref(ofd, src, making), fds[making][to], making)
    /\ fds' = [fds EXCEPT ![making][to] = src]
    /\ acts' = acts + 1
    /\ UNCHANGED <<state, follow, next, std, services, making>>

ActOpen == \E fd \in Fds :
    /\ Acting /\ next \in Ofds
    /\ ofd' = Unref(Ref([ofd EXCEPT ![next] = Made("file")], next, making),
                    fds[making][fd], making)
    /\ fds' = [fds EXCEPT ![making][fd] = next]
    /\ next' = next + 1
    /\ acts' = acts + 1
    /\ UNCHANGED <<state, follow, std, services, making>>

ActClose == \E fd \in Fds :
    /\ Acting /\ fds[making][fd] # None
    /\ ofd' = Unref(ofd, fds[making][fd], making)
    /\ fds' = [fds EXCEPT ![making][fd] = None]
    /\ acts' = acts + 1
    /\ UNCHANGED <<state, follow, next, std, services, making>>

\* CLOSEFROM: enumerate the descriptors from fd up, then drop them.
ActCloseFrom == \E fd \in Fds :
    LET dropped == [s \in Slots |-> IF s >= fd THEN fds[making][s] ELSE None] IN
    /\ Acting
    /\ ofd' = UnrefAll(ofd, dropped, making)
    /\ fds' = [fds EXCEPT ![making] = [s \in Slots |-> IF s >= fd THEN None ELSE @[s]]]
    /\ acts' = acts + 1
    /\ UNCHANGED <<state, follow, next, std, services, making>>

\* Fault: the failing request forgets the strace reference (it is not in fds).
ActFailUntraced ==
    /\ Acting
    /\ ofd' = UnrefAll(ofd, fds[making], making)
    /\ fds' = [fds EXCEPT ![making] = Empty]
    /\ state' = [state EXCEPT ![making] = "dead"]
    /\ follow' = follow \ {making}
    /\ making' = None
    /\ UNCHANGED <<next, std, services, acts>>

\* A file action fails (a DUP2 of a closed descriptor, an OPEN the file
\* system refuses): the descriptors are released, then the strace reference.
ActFail ==
    /\ Acting
    /\ ofd' = Unref(UnrefAll(ofd, fds[making], making), fds[making][Trace], Kernel)
    /\ fds' = [fds EXCEPT ![making] = Empty]
    /\ state' = [state EXCEPT ![making] = "dead"]
    /\ follow' = follow \ {making}
    /\ making' = None
    /\ UNCHANGED <<next, std, services, acts>>

Start ==
    /\ making # None
    /\ state' = [state EXCEPT ![making] = "live"]
    /\ making' = None
    /\ UNCHANGED <<fds, follow, ofd, next, std, services, acts>>

\* createWorker throws: the process leaves the table, and the references it
\* was given stay counted with nobody to give them back.
WorkerThrew ==
    /\ making # None
    /\ state' = [state EXCEPT ![making] = "lost"]
    /\ follow' = follow \ {making}
    /\ making' = None
    /\ UNCHANGED <<fds, ofd, next, std, services, acts>>

Call(p) == Open(p) \/ Pipe(p) \/ Close(p) \/ Dup(p) \/ Dup2(p) \/ Exit(p)
Making(c) == SpawnFirst(c) \/ \E p \in Procs : Spawn(p, c) \/ SpawnRefused(p, c)
Loop == ActDup2 \/ ActOpen \/ ActClose \/ ActCloseFrom \/ ActFail \/ Start \/ WorkerThrew

Next == (\E p \in Procs : Call(p) \/ Making(p)) \/ Loop

Spec == Init /\ [][Next]_vars

----------------------------------------------------------------------------
(* Properties                                                              *)

\* Tables, descriptions and the spawn loop hold what the code can hold; in
\* particular no count goes below zero.
TypeOK ==
    /\ state \in [Procs -> {"none", "live", "dead", "lost"}]
    /\ fds \in [Procs -> [Slots -> Ofds \cup {None}]]
    /\ follow \subseteq Procs
    /\ ofd \in [Ofds -> [kind : Kinds, refs : Nat, by : [Holders -> Nat],
                         open : BOOLEAN, closes : Nat]]
    /\ next \in 1..(MaxOfd + 1)
    /\ std \in [StdFds -> Ofds \cup {None}]
    /\ services \subseteq Procs
    /\ making \in Procs \cup {None}
    /\ acts \in 0..MaxActions

\* Everything that names o: descriptors of every table, and strace references.
References(o) == {u \in Procs \X Slots : fds[u[1]][u[2]] = o}

\* The count of every open description is the number of references to it,
\* whatever sequence of opens, duplications, spawns, failed spawns and deaths
\* led here: _ofdRef and _ofdUnref are called by hand at a dozen places.  What
\* a process lost to a throwing createWorker was given stays counted.
RefsExact == \A o \in Ofds : ofd[o].open => ofd[o].refs = Cardinality(References(o))

\* A reference of a process spawned without a parent to a cached standard
\* description, at the descriptor the spawn gave it.
StdSlot(p, s) == p \in services /\ s \in StdFds /\ fds[p][s] = std[s]

\* A description is open only while something names it, and it is released
\* once, when nothing does: no pipe waits for an EOF that cannot come, and no
\* descriptor names a description that is gone (the "last reference ...
\* anywhere in the system").  The one exception is what the code makes of a
\* standard description: released by every process, it is handed out again to
\* a later one without a parent, and that process's own standard descriptors
\* alone may name what is gone; no dup, child or strace reference ever does.
ReleasedAtLastUse == \A o \in Ofds :
    LET d == ofd[o] IN
    /\ d.open => References(o) # {}
    /\ ~d.open => \A u \in References(o) : StdSlot(u[1], u[2])
    /\ d.closes = IF d.kind # "unmade" /\ ~d.open THEN 1 ELSE 0

\* The holder map of a pipe end counts each process's descriptors of it, and
\* the strace references under pid 0: the promotion of a pipe to lock-free
\* use reads these counts (one holder per end, none of them the kernel).
HoldersExact == \A o \in Ofds : ofd[o].open /\ ofd[o].kind \in PipeEnds =>
    \A q \in Holders :
        ofd[o].by[q] = Cardinality({u \in References(o) : HolderOf(u[1], u[2]) = q})
============================================================================
