------------------------------ MODULE PipeRing ------------------------------
(***************************************************************************)
(* One pipe with a shared single-producer/single-consumer ring             *)
(* (kernel.js 367-444, 2290-2336, 7419-7592, 8513-8611).  The bytes live   *)
(* in the ring in every mode.  While the mode word says FAST the holders   *)
(* of the two ends move bytes themselves; in LATENT and DEMOTED they ask   *)
(* the kernel, which serves them from the same ring.  The kernel is one    *)
(* thread; the holders run beside it, so every load and store of a ring    *)
(* word that another thread can race with is a step of its own.            *)
(*                                                                         *)
(* A byte is its position in the stream (1, 2, 3, ...).  A kernel handler  *)
(* is split where it stores a ring word and then looks again; the rest of  *)
(* it touches only the kernel's own books.                                 *)
(***************************************************************************)
EXTENDS Integers, Sequences, FiniteSets, SequencesExt

CONSTANTS
  Procs,        \* processes that can ever hold the pipe
  Creator,      \* the one that creates it
  Cap,          \* ring capacity
  Wrap,         \* the free-running indices count modulo Wrap (2^32 in the code)
  Atomic,       \* PIPE_ATOMIC: a write this small lands whole or not at all
  WriteSizes,   \* sizes a program writes
  ReadCount,    \* the count a program reads
  MaxBytes,     \* bound: bytes written over the life of the pipe
  Selects       \* FS_SELECTs a program issues: "poll" (timeout 0), "park"

ASSUME RingAssumption ==
  /\ IsFiniteSet(Procs) /\ Creator \in Procs
  /\ {Cap, Wrap, ReadCount} \subseteq Nat \ {0} /\ Atomic \in Nat /\ MaxBytes \in Nat
  /\ WriteSizes \subseteq Nat \ {0}
  /\ Wrap % Cap = 0 /\ Wrap > Cap
  /\ Selects \subseteq {"poll", "park"}

VARIABLES
  mode, head, tail, gone, flag, data,  \* the ring's header words and its data
  holders, queue, waiter,              \* the kernel's books
  kpc, job,                            \* the handler the kernel is in
  pc, loc, rpc,                        \* each process; the request it is parked in
  sent, rcvd                           \* history: bytes committed by writers, by readers

ring   == <<mode, head, tail, gone, flag, data>>
books  == <<holders, queue, waiter>>
kernel == <<kpc, job>>
procs  == <<pc, loc, rpc>>
vars   == <<ring, books, kernel, procs, sent, rcvd>>

Ends == {"r", "w"}

\* A request; fields it does not use keep the values they have in None.  A
\* parked wait is the request it parked.
Requests ==
  [op : {"none", "read", "write", "wait", "kick", "close", "spawn"}, n : Nat,
   ends : SUBSET Ends, park : BOOLEAN, child : Procs, then : {"idle", "rdMode", "wrMode"}]
None == [op |-> "none", n |-> 0, ends |-> {}, park |-> FALSE, child |-> Creator, then |-> "idle"]
Request(op, ends) == [None EXCEPT !.op = op, !.ends = ends]

Avail == (tail - head) % Wrap
\* Fault: one cell too many is reported free.
FreeOneMore == Cap + 1 - Avail
Free  == Cap - Avail
Open(e) == holders[e] # {}
Held(p) == {e \in Ends : p \in holders[e]}
Blocked(n, free) == free = 0 \/ (n <= Atomic /\ n > free)
Least(a, b) == IF a < b THEN a ELSE b

\* _selectScan for a set of ends of this pipe
Ready(ends) ==
  \/ "r" \in ends /\ (Avail > 0 \/ ~Open("w"))
  \/ "w" \in ends /\ (Free > 0 \/ ~Open("r"))

(* ------------------------------ ring storage ---------------------------- *)

Stored(at, n) == [i \in 1..n |-> data[(at + i - 1) % Cap]]
InOrder(bytes) == \A i \in 1..Len(bytes) : bytes[i] = rcvd + i
Written(at, n) ==
  [c \in 0..Cap-1 |->
     LET i == (c - at) % Cap IN IF i < n THEN sent + i + 1 ELSE data[c]]

Take(n) == head' = (head + n) % Wrap /\ rcvd' = rcvd + n
Put(n)  == /\ data' = Written(tail, n)
           /\ tail' = (tail + n) % Wrap
           /\ sent' = sent + n

(* --------------------------- programs: fast path ------------------------ *)

Goto(p, where) == pc' = [pc EXCEPT ![p] = where]
\* post a request and park in it; the call returns to its `then`
Ask(p, request) ==
  /\ rpc' = [rpc EXCEPT ![p] = request]
  /\ Goto(p, "blocked")
NoLocals == [n |-> 0, at |-> 0, buf |-> <<>>]
Forget(p) == loc' = [loc EXCEPT ![p] = NoLocals]

Program == UNCHANGED <<books, kernel>>

StartRead(p) ==
  /\ pc[p] = "idle" /\ "r" \in Held(p)
  /\ Goto(p, "rdMode")
  /\ Program /\ UNCHANGED <<ring, loc, rpc, sent, rcvd>>

RdMode(p) ==
  /\ pc[p] = "rdMode"
  /\ \/ mode = "FAST" /\ Goto(p, "rdTake") /\ UNCHANGED rpc
     \/ mode # "FAST" /\ Ask(p, [Request("read", {"r"}) EXCEPT !.n = ReadCount])
  /\ Program /\ UNCHANGED <<ring, loc, sent, rcvd>>

\* loads TAIL, then copies out: until HEAD moves the producer leaves those cells alone
RdTake(p) ==
  /\ pc[p] = "rdTake"
  /\ IF Avail > 0
     THEN LET n == Least(ReadCount, Avail) IN
          loc' = [loc EXCEPT ![p].at = head, ![p].buf = Stored(head, n)] /\ Goto(p, "rdCommit")
     ELSE Goto(p, "rdGone") /\ UNCHANGED loc
  /\ Program /\ UNCHANGED <<ring, rpc, sent, rcvd>>

RdCommit(p) ==
  /\ pc[p] = "rdCommit"
  /\ head' = (loc[p].at + Len(loc[p].buf)) % Wrap
  /\ rcvd' = rcvd + Len(loc[p].buf)
  /\ Forget(p) /\ Goto(p, "rdKick")
  /\ Program /\ UNCHANGED <<mode, tail, gone, flag, data, rpc, sent>>

RdKick(p) ==
  /\ pc[p] = "rdKick"
  /\ IF flag["w"] THEN Ask(p, Request("kick", {})) ELSE Goto(p, "idle") /\ UNCHANGED rpc
  /\ Program /\ UNCHANGED <<ring, loc, sent, rcvd>>

RdGone(p) ==
  /\ pc[p] = "rdGone"
  /\ IF "w" \in gone THEN Goto(p, "eof") /\ UNCHANGED rpc
     ELSE Ask(p, [Request("wait", {"r"}) EXCEPT !.park = TRUE, !.then = "rdMode"])
  /\ Program /\ UNCHANGED <<ring, loc, sent, rcvd>>

StartWrite(p) ==
  /\ pc[p] = "idle" /\ "w" \in Held(p)
  /\ \E n \in WriteSizes :
       sent + n <= MaxBytes /\ loc' = [loc EXCEPT ![p].n = n]
  /\ Goto(p, "wrMode")
  /\ Program /\ UNCHANGED <<ring, rpc, sent, rcvd>>

WrMode(p) ==
  /\ pc[p] = "wrMode"
  /\ \/ mode = "FAST" /\ Goto(p, "wrGone") /\ UNCHANGED <<loc, rpc>>
     \/ mode # "FAST" /\ Ask(p, [Request("write", {"w"}) EXCEPT !.n = loc[p].n]) /\ Forget(p)
  /\ Program /\ UNCHANGED <<ring, sent, rcvd>>

WrGone(p) ==
  /\ pc[p] = "wrGone"
  /\ IF "r" \in gone THEN Ask(p, Request("kick", {})) /\ Forget(p)  \* {epipe:1}, then EPIPE
     ELSE Goto(p, "wrPut") /\ UNCHANGED <<loc, rpc>>
  /\ Program /\ UNCHANGED <<ring, sent, rcvd>>

\* loads HEAD, then copies in behind TAIL, where the consumer does not look yet
WrPut(p) ==
  /\ pc[p] = "wrPut"
  /\ IF Blocked(loc[p].n, Free)
     THEN /\ Ask(p, [Request("wait", {"w"}) EXCEPT !.park = TRUE, !.then = "wrMode"])
          /\ UNCHANGED <<data, loc>>
     ELSE LET n == Least(loc[p].n, Free) IN
          /\ data' = Written(tail, n)
          /\ loc' = [loc EXCEPT ![p].at = tail, ![p].n = n]
          /\ Goto(p, "wrCommit") /\ UNCHANGED rpc
  /\ Program /\ UNCHANGED <<mode, head, tail, gone, flag, sent, rcvd>>

WrCommit(p) ==
  /\ pc[p] = "wrCommit"
  /\ tail' = (loc[p].at + loc[p].n) % Wrap
  /\ sent' = sent + loc[p].n
  /\ Forget(p) /\ Goto(p, "wrKick")
  /\ Program /\ UNCHANGED <<mode, head, gone, flag, data, rpc, rcvd>>

WrKick(p) ==
  /\ pc[p] = "wrKick"
  /\ IF flag["r"] THEN Ask(p, Request("kick", {})) ELSE Goto(p, "idle") /\ UNCHANGED rpc
  /\ Program /\ UNCHANGED <<ring, loc, sent, rcvd>>

(* ------------------- programs: operations always brokered --------------- *)

StartSelect(p) ==
  /\ pc[p] = "idle"
  /\ \E ends \in SUBSET Held(p) \ {{}}, how \in Selects :
       Ask(p, [Request("wait", ends) EXCEPT !.park = (how = "park")])
  /\ Program /\ UNCHANGED <<ring, loc, sent, rcvd>>

StartClose(p) ==
  /\ pc[p] \in {"idle", "eof"}
  /\ \E e \in Held(p) : Ask(p, Request("close", {e}))
  /\ Program /\ UNCHANGED <<ring, loc, sent, rcvd>>

StartSpawn(p) ==
  /\ pc[p] = "idle"
  /\ \E c \in Procs, keep \in SUBSET Held(p) :
       pc[c] = "unborn" /\ Ask(p, [Request("spawn", keep) EXCEPT !.child = c])
  /\ Program /\ UNCHANGED <<ring, loc, sent, rcvd>>

(* -------------------------- the kernel: serving ------------------------- *)

\* _respond: the call of each of these processes returns
Respond(ps, result) ==
  /\ rpc' = [p \in Procs |-> IF p \in ps THEN None ELSE rpc[p]]
  /\ pc'  = [p \in Procs |-> IF p \in ps THEN result[p] ELSE pc[p]]
Then(p) == [q \in {p} |-> rpc[q].then]
Returns(p, where) == [q \in {p} |-> where]

\* _clearFlags: every word the wait raised goes down
Lowered(ends) == [e \in Ends |-> flag[e] /\ e \notin ends]
\* indexOf, splice: a process is in a queue at most once
Without(q, p) ==
  IF \E i \in 1..Len(q) : q[i] = p THEN RemoveAt(q, CHOOSE i \in 1..Len(q) : q[i] = p) ELSE q
\* _cancelWaiter
Cancel(p) ==
  /\ waiter' = [waiter EXCEPT ![p] = None]
  /\ queue' = [e \in Ends |-> Without(queue[e], p)]
  /\ flag' = Lowered(waiter[p].ends)

NoJob == [p |-> Creator, todo |-> {}, reply |-> FALSE, free |-> 0, progress |-> FALSE]
Job(p) == [NoJob EXCEPT !.p = p]
Idle == kpc' = "idle" /\ job' = NoJob
Resume == IF job.todo = {} /\ ~job.reply THEN Idle ELSE kpc' = "unref" /\ UNCHANGED job

\* _streamRead
ReadRpc(p) ==
  /\ kpc = "idle" /\ rpc[p].op = "read" /\ waiter[p] = None
  /\ \/ /\ Avail > 0 /\ Take(Least(ReadCount, Avail))
        /\ Respond({p}, Then(p)) /\ kpc' = "nread" /\ UNCHANGED job
     \/ /\ Avail = 0 /\ ~Open("w")
        /\ Respond({p}, Returns(p, "eof")) /\ UNCHANGED <<head, rcvd, kernel>>
     \/ /\ Avail = 0 /\ Open("w")
        /\ kpc' = "park" /\ job' = Job(p) /\ UNCHANGED <<head, rcvd, rpc, pc>>
  /\ UNCHANGED <<mode, tail, gone, flag, data, books, loc, sent>>

\* _streamWrite (EPIPE's signal is the Kill that may follow)
WriteRpc(p) ==
  /\ kpc = "idle" /\ rpc[p].op = "write" /\ waiter[p] = None
  /\ \/ /\ ~Open("r")
        /\ Respond({p}, Then(p)) /\ UNCHANGED <<data, tail, sent, kernel>>
     \/ /\ Open("r") /\ ~Blocked(rpc[p].n, Free) /\ Put(Least(rpc[p].n, Free))
        /\ Respond({p}, Then(p)) /\ kpc' = "nread" /\ UNCHANGED job
     \/ /\ Open("r") /\ Blocked(rpc[p].n, Free)
        /\ kpc' = "park" /\ job' = [Job(p) EXCEPT !.free = Free]
        /\ UNCHANGED <<data, tail, sent, rpc, pc>>
  /\ UNCHANGED <<mode, head, gone, flag, books, loc, rcvd>>

\* the park of both: waiter, flag, queue; the look again is Rescan
Park ==
  /\ kpc = "park"
  /\ LET p == job.p
         e == IF rpc[job.p].op = "read" THEN "r" ELSE "w" IN
     /\ waiter' = [waiter EXCEPT ![p] = rpc[p]]
     /\ flag' = [flag EXCEPT ![e] = TRUE]
     /\ queue' = [queue EXCEPT ![e] = Append(@, p)]
  /\ kpc' = "rescan"
  /\ UNCHANGED <<mode, head, tail, gone, data, holders, job, procs, sent, rcvd>>

Rescan ==
  /\ kpc = "rescan"
  /\ kpc' = IF \/ rpc[job.p].op = "read" /\ Avail > 0
               \/ rpc[job.p].op = "write" /\ Free > job.free
            THEN "nread" ELSE "idle"
  /\ job' = NoJob
  /\ UNCHANGED <<ring, books, procs, sent, rcvd>>

\* FS_SELECT and FS_WAIT: the flags go up, then the scan
WaitRpc(p) ==
  /\ kpc = "idle" /\ rpc[p].op = "wait" /\ waiter[p] = None
  /\ flag' = [e \in Ends |-> flag[e] \/ e \in rpc[p].ends]
  /\ job' = Job(p) /\ kpc' = "scan"
  /\ UNCHANGED <<mode, head, tail, gone, data, books, procs, sent, rcvd>>

\* Fault: an immediate answer leaves the flags the scan raised.
ScanKeepingFlags ==
  /\ kpc = "scan" /\ Idle
  /\ LET p == job.p IN
     IF Ready(rpc[p].ends) \/ ~rpc[p].park
     THEN Respond({p}, Then(p)) /\ UNCHANGED <<flag, waiter>>
     ELSE /\ waiter' = [waiter EXCEPT ![p] = rpc[p]]
          /\ UNCHANGED <<flag, rpc, pc>>
  /\ UNCHANGED <<mode, head, tail, gone, data, holders, queue, loc, sent, rcvd>>

Scan ==
  /\ kpc = "scan" /\ Idle
  /\ LET p == job.p IN
     IF Ready(rpc[p].ends) \/ ~rpc[p].park
     THEN Respond({p}, Then(p)) /\ flag' = Lowered(rpc[p].ends) /\ UNCHANGED waiter
     ELSE /\ waiter' = [waiter EXCEPT ![p] = rpc[p]]
          /\ UNCHANGED <<flag, rpc, pc>>
  /\ UNCHANGED <<mode, head, tail, gone, data, holders, queue, loc, sent, rcvd>>

KickRpc(p) ==
  /\ kpc = "idle" /\ rpc[p].op = "kick"
  /\ Respond({p}, Then(p))
  /\ kpc' = "nread"
  /\ UNCHANGED <<ring, books, job, loc, sent, rcvd>>

\* _pipeNotify, the readers' loop
NotifyReaders ==
  /\ kpc = "nread"
  /\ IF queue["r"] # <<>> /\ (Avail > 0 \/ ~Open("w"))
     THEN LET p == Head(queue["r"]) IN
          /\ Cancel(p)
          /\ Respond({p}, IF Avail > 0 THEN Then(p) ELSE Returns(p, "eof"))
          /\ IF Avail > 0 THEN Take(Least(waiter[p].n, Avail)) ELSE UNCHANGED <<head, rcvd>>
          /\ job' = [job EXCEPT !.progress = TRUE] /\ UNCHANGED kpc
     ELSE kpc' = "nwrite" /\ UNCHANGED <<head, rcvd, flag, waiter, queue, job, rpc, pc>>
  /\ UNCHANGED <<mode, tail, gone, data, holders, loc, sent>>

\* _pipeNotify, the writers' loop, and round again while anything moved
NotifyWriters ==
  /\ kpc = "nwrite"
  /\ IF queue["w"] # <<>> /\ (~Open("r") \/ ~Blocked(waiter[Head(queue["w"])].n, Free))
     THEN LET p == Head(queue["w"]) IN
          /\ Cancel(p) /\ Respond({p}, Then(p))
          /\ IF Open("r") THEN Put(Least(waiter[p].n, Free)) ELSE UNCHANGED <<data, tail, sent>>
          /\ job' = [job EXCEPT !.progress = TRUE] /\ UNCHANGED kpc
     ELSE /\ kpc' = IF job.progress THEN "nread" ELSE "nsel"
          /\ job' = [job EXCEPT !.progress = FALSE]
          /\ UNCHANGED <<data, tail, sent, flag, waiter, queue, rpc, pc>>
  /\ UNCHANGED <<mode, head, gone, holders, loc, rcvd>>

\* _pipeNotify's last act, _recheckSelects
RecheckSelects ==
  /\ kpc = "nsel"
  /\ LET woken == {p \in Procs : waiter[p].op = "wait" /\ Ready(waiter[p].ends)} IN
     /\ waiter' = [p \in Procs |-> IF p \in woken THEN None ELSE waiter[p]]
     /\ flag' = Lowered(UNION {waiter[p].ends : p \in woken})
     /\ Respond(woken, [p \in woken |-> rpc[p].then])
  /\ Resume
  /\ UNCHANGED <<mode, head, tail, gone, data, holders, queue, loc, sent, rcvd>>

\* krpc-intr, or the timer of a timed wait
Interrupt(p) ==
  /\ kpc = "idle" /\ waiter[p] # None
  /\ Cancel(p) /\ Respond({p}, Returns(p, "idle")) /\ Forget(p)
  /\ UNCHANGED <<mode, head, tail, gone, data, holders, kernel, sent, rcvd>>

(* ------------------- the kernel: holders, and the mode ------------------ *)

\* _pipeMaybePromote's test on the holders left behind; `known` is _procs
Promotable(h, known) ==
  /\ mode = "LATENT"
  /\ \A e \in Ends : Cardinality(h[e]) = 1 /\ h[e] \subseteq known
\* Fault: promotion trusts the flags it finds.
RequeuedNot == flag
\* it re-raises the flag of every waiter queued on either end
Requeued == [e \in Ends |-> flag[e] \/ queue[e] # <<>>]

\* Fault: inheritance gives the end a second holder and leaves the mode FAST.
SpawnRpcUndemoted(p) ==
  /\ kpc = "idle" /\ rpc[p].op = "spawn" /\ pc[rpc[p].child] = "unborn"
  /\ LET c == rpc[p].child IN
     /\ holders' = [e \in Ends |-> holders[e] \cup (IF e \in rpc[p].ends THEN {c} ELSE {})]
     /\ rpc' = [rpc EXCEPT ![p] = None]
     /\ pc' = [pc EXCEPT ![c] = "idle", ![p] = rpc[p].then]
  /\ UNCHANGED <<mode, head, tail, gone, flag, data, queue, waiter, kernel, loc, sent, rcvd>>

\* FS_SPAWN's inheritance: each end is shared (which demotes), then the
\* file actions close what the child is not to have (which may promote)
SpawnRpc(p) ==
  /\ kpc = "idle" /\ rpc[p].op = "spawn" /\ pc[rpc[p].child] = "unborn"
  /\ LET c == rpc[p].child
         h == [e \in Ends |-> holders[e] \cup (IF e \in rpc[p].ends THEN {c} ELSE {})] IN
     /\ holders' = h
     /\ mode' = IF mode = "FAST" /\ Held(p) # {} THEN "DEMOTED" ELSE mode
     /\ IF Held(p) # rpc[p].ends /\ Promotable(h, Procs \ {c})
        THEN /\ flag' = Requeued /\ kpc' = "fast"
             /\ job' = [Job(p) EXCEPT !.reply = TRUE]
             /\ pc' = [pc EXCEPT ![c] = "idle"] /\ UNCHANGED rpc
        ELSE /\ rpc' = [rpc EXCEPT ![p] = None]
             /\ pc' = [pc EXCEPT ![c] = "idle", ![p] = rpc[p].then]
             /\ UNCHANGED <<flag, kernel>>
  /\ UNCHANGED <<head, tail, gone, data, queue, waiter, loc, sent, rcvd>>

SpawnFails(p) ==
  /\ kpc = "idle" /\ rpc[p].op = "spawn"
  /\ Respond({p}, Then(p))
  /\ UNCHANGED <<ring, books, kernel, loc, sent, rcvd>>

CloseRpc(p) ==
  /\ kpc = "idle" /\ rpc[p].op = "close"
  /\ job' = [Job(p) EXCEPT !.todo = rpc[p].ends, !.reply = TRUE]
  /\ kpc' = "unref"
  /\ UNCHANGED <<ring, books, procs, sent, rcvd>>

\* _exitProcess: an exit, or a fatal signal at any point of the program
Die(p) ==
  /\ kpc = "idle" /\ pc[p] \notin {"unborn", "dead"}
  /\ Cancel(p) /\ Respond({p}, Returns(p, "dead"))
  /\ Forget(p)
  /\ job' = [Job(p) EXCEPT !.todo = Held(p)] /\ kpc' = "unref"
  /\ UNCHANGED <<mode, head, tail, gone, data, holders, sent, rcvd>>

\* _ofdUnref, one end at a time
Unref ==
  /\ kpc = "unref"
  /\ \E e \in job.todo :
       LET h == [holders EXCEPT ![e] = @ \ {job.p}] IN
       /\ holders' = h
       /\ gone' = IF h[e] = {} THEN gone \cup {e} ELSE gone
       /\ job' = [job EXCEPT !.todo = @ \ {e}]
       /\ IF h[e] = {} THEN kpc' = "nread" /\ UNCHANGED flag
          ELSE IF Promotable(h, Procs) THEN kpc' = "fast" /\ flag' = Requeued
          ELSE UNCHANGED <<kpc, flag>>
  /\ UNCHANGED <<mode, head, tail, data, queue, waiter, procs, sent, rcvd>>

\* _pipeMaybePromote's last act
GoFast ==
  /\ kpc = "fast"
  /\ mode' = "FAST" /\ Resume
  /\ UNCHANGED <<head, tail, gone, flag, data, books, procs, sent, rcvd>>

UnrefDone ==
  /\ kpc = "unref" /\ job.todo = {}
  /\ IF job.reply THEN Respond({job.p}, Then(job.p)) ELSE UNCHANGED <<pc, rpc>>
  /\ Idle
  /\ UNCHANGED <<ring, books, loc, sent, rcvd>>

(* ------------------------------- behaviour ------------------------------ *)

\* PIPE_CREATE: a fresh ring, both ends held by the creator
Init ==
  /\ mode = "LATENT" /\ head = 0 /\ tail = 0 /\ gone = {}
  /\ flag = [e \in Ends |-> FALSE]
  /\ data = [c \in 0..Cap-1 |-> 0]
  /\ holders = [e \in Ends |-> {Creator}]
  /\ queue = [e \in Ends |-> <<>>]
  /\ waiter = [p \in Procs |-> None]
  /\ kpc = "idle" /\ job = NoJob
  /\ pc = [p \in Procs |-> IF p = Creator THEN "idle" ELSE "unborn"]
  /\ loc = [p \in Procs |-> NoLocals]
  /\ rpc = [p \in Procs |-> None]
  /\ sent = 0 /\ rcvd = 0

Next ==
  \/ \E p \in Procs :
       \/ StartRead(p) \/ RdMode(p) \/ RdTake(p) \/ RdCommit(p) \/ RdKick(p) \/ RdGone(p)
       \/ StartWrite(p) \/ WrMode(p) \/ WrGone(p) \/ WrPut(p) \/ WrCommit(p) \/ WrKick(p)
       \/ StartSelect(p) \/ StartClose(p) \/ StartSpawn(p)
       \/ ReadRpc(p) \/ WriteRpc(p) \/ WaitRpc(p) \/ KickRpc(p)
       \/ SpawnRpc(p) \/ SpawnFails(p) \/ CloseRpc(p) \/ Die(p) \/ Interrupt(p)
  \/ Park \/ Rescan \/ Scan
  \/ NotifyReaders \/ NotifyWriters \/ RecheckSelects
  \/ Unref \/ GoFast \/ UnrefDone

Spec == Init /\ [][Next]_vars

(* ------------------------------ properties ------------------------------ *)

FastReading == {"rdTake", "rdCommit", "rdGone", "rdKick"}
FastWriting == {"wrGone", "wrPut", "wrCommit", "wrKick"}

\* The ring words, the kernel's books and each process's place and registers.
TypeOK ==
  /\ mode \in {"LATENT", "FAST", "DEMOTED"}
  /\ {head, tail} \subseteq 0..Wrap-1 /\ {sent, rcvd} \subseteq Nat
  /\ gone \subseteq Ends /\ flag \in [Ends -> BOOLEAN]
  /\ data \in [0..Cap-1 -> Nat]
  /\ holders \in [Ends -> SUBSET Procs]
  /\ \A e \in Ends : queue[e] \in Seq(Procs)
  /\ waiter \in [Procs -> Requests] /\ rpc \in [Procs -> Requests]
  /\ kpc \in {"idle", "park", "rescan", "scan", "nread", "nwrite", "nsel", "unref", "fast"}
  /\ job \in [p : Procs, todo : SUBSET Ends, reply : BOOLEAN, free : Nat, progress : BOOLEAN]
  /\ pc \in [Procs -> {"unborn", "idle", "eof", "blocked", "dead", "rdMode", "wrMode"}
                        \cup FastReading \cup FastWriting]
  /\ loc \in [Procs -> [n : Nat, at : 0..Wrap-1, buf : Seq(Nat)]]

\* The stream is a stream: whatever mix of holders and kernel moved the bytes,
\* across mode changes and index wrap-around, the ring holds exactly the bytes
\* written and not yet read, in order, never more than its capacity, and a
\* reader that is about to commit holds the next ones (kernel.js 367-401).
StreamInOrder ==
  /\ rcvd <= sent /\ sent - rcvd <= Cap
  /\ head = rcvd % Wrap /\ tail = sent % Wrap
  /\ InOrder(Stored(head, Avail))
  /\ \A p \in Procs : pc[p] = "rdCommit" => InOrder(loc[p].buf) /\ Len(loc[p].buf) <= Avail

\* A process inside a local ring operation is the only holder of that end, even
\* when the mode word has moved on since it loaded FAST, and the kernel has no
\* request to play the same role for another (kernel.js 393-401: "at most one
\* producer and one consumer touch the ring at any instant").
FastRoleIsSole ==
  \A p \in Procs :
    /\ pc[p] \in FastReading => holders["r"] = {p} /\ \A q \in Procs : rpc[q].op # "read"
    /\ pc[p] \in FastWriting => holders["w"] = {p} /\ \A q \in Procs : rpc[q].op # "write"

\* "a flag can't outlive its waiter" (kernel.js 7963-7965): a raised word means
\* a wait that raised it is registered, or is being scanned right now.
FlagHasWaiter ==
  \A e \in Ends : flag[e] =>
    \/ \E p \in Procs : waiter[p] # None /\ e \in waiter[p].ends
    \/ kpc = "scan" /\ e \in rpc[job.p].ends

\* the waits the kernel would answer if it looked now
Servable(p) ==
  \/ waiter[p].op = "wait" /\ Ready(waiter[p].ends)
  \/ queue["r"] # <<>> /\ p = Head(queue["r"]) /\ (Avail > 0 \/ ~Open("w"))
  \/ /\ queue["w"] # <<>> /\ p = Head(queue["w"])
     /\ ~Open("r") \/ ~Blocked(waiter[p].n, Free)

WakeComing ==
  \/ kpc # "idle"
  \/ \E q \in Procs : \/ rpc[q].op = "kick"
                      \/ pc[q] = "wrKick" /\ flag["r"]
                      \/ pc[q] = "rdKick" /\ flag["w"]

\* "a wake can be redundant but never lost" (kernel.js 388-390): while the pipe is
\* FAST, a wait that could be answered is about to be: the kernel is at work, a
\* PIPE_KICK is under way, or the holder that just committed will see the flag.
\* For programs whose writes block alike: a small write queued behind a larger
\* atomic one that is then cancelled does lose its wake (7957).
WakeNeverLost == mode = "FAST" /\ (\E p \in Procs : Servable(p)) => WakeComing

\* "Drain-before-EOF (POSIX)" (kernel.js 8514): a read that reports end of file
\* leaves nothing unread behind it.
DrainBeforeEof == \A p \in Procs : pc[p] = "eof" => Avail = 0
=============================================================================
