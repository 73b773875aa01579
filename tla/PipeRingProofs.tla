--------------------------- MODULE PipeRingProofs ---------------------------
(***************************************************************************)
(* Theorems about PipeRing, for any processes, capacity and sizes.         *)
(*                                                                         *)
(* Roles: a local ring operation is performed by the only process that     *)
(* plays its role, and no parked flag outlives its waiter.  A holder can   *)
(* only be removed by its own close or death, so whoever is at the ring    *)
(* still holds its end (Holding); the mode is FAST only while no end has   *)
(* two holders (SoleWhenFast); and an end gets a holder only from a        *)
(* process that holds it and is parked in its spawn.                       *)
(*                                                                         *)
(* The stream: with the roles settled, whoever moves an index is the only  *)
(* one that can, so the cells between the indices are the bytes in flight  *)
(* (Cells, InFlight); the rest is arithmetic modulo Wrap and Cap.          *)
(*                                                                         *)
(* Wakes: what is parked cannot be served, or somebody is about to look:   *)
(* the kernel (Looking, Rechecking) or a holder that owes a kick (Owed).   *)
(***************************************************************************)
EXTENDS PipeRing, SequenceTheorems, FiniteSetTheorems, TLAPS

Jobs(free) == [p : Procs, todo : SUBSET Ends, reply : BOOLEAN, free : {free}, progress : BOOLEAN]

\* What the variables are made of.
Shape ==
  /\ DOMAIN pc = Procs /\ DOMAIN rpc = Procs /\ DOMAIN waiter = Procs /\ DOMAIN flag = Ends
  /\ holders \in [Ends -> SUBSET Procs] /\ queue \in [Ends -> Seq(Procs)]
  /\ job \in Jobs(job.free)

\* A process is blocked exactly while its request is with the kernel, and what
\* is parked is that request.
Parked ==
  \A p \in Procs :
    /\ pc[p] = "blocked" <=> rpc[p].op # "none"
    /\ rpc[p].op = "none" => rpc[p] = None
    /\ waiter[p] = None \/ (waiter[p] = rpc[p] /\ rpc[p].op \in {"read", "write", "wait"})

OpOf(e) == IF e = "r" THEN "read" ELSE "write"

\* A queue holds parked requests for its end, each once.
Queued ==
  \A e \in Ends : \A i \in 1..Len(queue[e]) :
    /\ waiter[queue[e][i]].op = OpOf(e)
    /\ \A j \in 1..Len(queue[e]) : queue[e][i] = queue[e][j] => i = j

Reading(p) == pc[p] \in {"rdMode"} \cup FastReading \/ rpc[p].op = "read" \/ rpc[p].then = "rdMode"
Writing(p) == pc[p] \in {"wrMode"} \cup FastWriting \/ rpc[p].op = "write" \/ rpc[p].then = "wrMode"

\* Who is at an end, or waits to be, holds it, and so does who bequeaths it.
Holding ==
  \A p \in Procs :
    /\ Reading(p) => p \in holders["r"]
    /\ Writing(p) => p \in holders["w"]
    /\ rpc[p].then \in {"idle", "rdMode", "wrMode"}
    /\ rpc[p].then # "idle" => rpc[p].op = "wait"
    /\ rpc[p].op = "read" => rpc[p].ends = {"r"}
    /\ rpc[p].op = "write" => rpc[p].ends = {"w"}
    /\ rpc[p].op = "close" => rpc[p].ends \subseteq Ends
    /\ rpc[p].op = "spawn" => rpc[p].ends \subseteq Held(p) /\ rpc[p].child \in Procs

AtMostOne(S) == \A p, q \in S : p = q

SoleWhenFast == mode = "FAST" \/ kpc = "fast" => \A e \in Ends : AtMostOne(holders[e])

\* Once in, a local operation keeps its role, whatever the mode becomes.
SoleRole ==
  \A p \in Procs :
    /\ pc[p] \in FastReading => AtMostOne(holders["r"])
    /\ pc[p] \in FastWriting => AtMostOne(holders["w"])

\* The handler the kernel is in, and the process it is for.
JobOk ==
  /\ kpc \in {"idle", "park", "rescan", "scan"} => job.todo = {} /\ ~job.reply
  /\ job.todo # {} => pc[job.p] = "dead" \/ rpc[job.p].op = "close"
  /\ job.reply => rpc[job.p].op \in {"close", "spawn"}
  /\ kpc = "park" => rpc[job.p].op \in {"read", "write"} /\ waiter[job.p] = None
  /\ kpc = "scan" => rpc[job.p].op = "wait" /\ waiter[job.p] = None

IInv == Shape /\ Parked /\ Queued /\ Holding /\ SoleWhenFast /\ SoleRole /\ JobOk /\ FlagHasWaiter

(* ------------------------------- data lemmas ---------------------------- *)

\* The request a process with no call under way has.
LEMMA NoneFields == None.op = "none" /\ None.ends = {} /\ None.then = "idle"
BY DEF None

\* What a request carries.
LEMMA RequestFields ==
  ASSUME NEW op, NEW ends
  PROVE  /\ Request(op, ends).op = op /\ Request(op, ends).ends = ends
         /\ Request(op, ends).then = "idle"
BY DEF None, Request

\* A select's request returns the program to where it was.
LEMMA SelectRequest ==
  ASSUME NEW ends, NEW park, NEW r, r = [Request("wait", ends) EXCEPT !.park = park]
  PROVE  r.op = "wait" /\ r.ends = ends /\ r.then = "idle"
BY DEF None, Request

\* Concatenation, in a form Zenon can instantiate.
LEMMA Joined ==
  \A f, b \in Seq(Procs) :
    /\ f \o b \in Seq(Procs) /\ Len(f \o b) = Len(f) + Len(b)
    /\ \A k \in 1..Len(f) + Len(b) : (f \o b)[k] = IF k <= Len(f) THEN f[k] ELSE b[k - Len(f)]
BY ConcatProperties, Zenon

\* The handler's books, empty.
LEMMA NoJobShape ==
  /\ NoJob.p = Creator /\ NoJob.todo = {} /\ NoJob.reply = FALSE
  /\ NoJob \in Jobs(NoJob.free)
BY RingAssumption DEF NoJob, Jobs

\* The handler's books as a call is taken up.
LEMMA JobShape ==
  ASSUME NEW p \in Procs
  PROVE  /\ Job(p).p = p /\ Job(p).todo = {} /\ Job(p).reply = FALSE
         /\ Job(p) \in Jobs(Job(p).free)
BY DEF Job, NoJob, Jobs

\* Taking a process out of a queue that holds it at most once.
LEMMA WithoutRemoves ==
  ASSUME NEW q \in Seq(Procs), NEW p,
         \A i, j \in 1..Len(q) : q[i] = q[j] => i = j
  PROVE  /\ Without(q, p) \in Seq(Procs)
         /\ \A i \in 1..Len(Without(q, p)) :
              /\ Without(q, p)[i] # p
              /\ \E k \in 1..Len(q) : q[k] = Without(q, p)[i]
         /\ \A i, j \in 1..Len(Without(q, p)) : Without(q, p)[i] = Without(q, p)[j] => i = j
<1>1. CASE \A i \in 1..Len(q) : q[i] # p
  BY <1>1 DEF Without
<1>2. ASSUME NEW i \in 1..Len(q), q[i] = p
      PROVE  /\ Without(q, p) \in Seq(Procs) /\ Len(Without(q, p)) = Len(q) - 1
             /\ \A k \in 1..Len(Without(q, p)) : Without(q, p)[k] = IF k < i THEN q[k] ELSE q[k + 1]
  <2>1. (CHOOSE k \in 1..Len(q) : q[k] = p) = i
    BY <1>2
  <2> DEFINE front == SubSeq(q, 1, i - 1)
             back  == SubSeq(q, i + 1, Len(q))
  <2>2. Without(q, p) = front \o back
    BY <1>2, <2>1 DEF Without, RemoveAt
  <2>3. Len(q) \in Nat /\ \A k \in 1..Len(q) : q[k] \in Procs
    BY LenProperties
  <2>4. /\ front \in Seq(Procs) /\ Len(front) = i - 1
        /\ \A k \in 1..(i - 1) : front[k] = q[k]
    BY <1>2, <2>3, SubSeqProperties
  <2>5. /\ back \in Seq(Procs) /\ Len(back) = Len(q) - i
        /\ \A k \in 1..(Len(q) - i) : back[k] = q[i + k]
    BY <1>2, <2>3, SubSeqProperties
  <2> HIDE DEF front, back
  <2>6. /\ front \o back \in Seq(Procs) /\ Len(front \o back) = Len(front) + Len(back)
        /\ \A k \in 1..Len(front) + Len(back) :
             (front \o back)[k] = IF k <= Len(front) THEN front[k] ELSE back[k - Len(front)]
    <3>1. front \in Seq(Procs) /\ back \in Seq(Procs)
      BY <2>4, <2>5
    <3> QED BY <3>1, Joined, Zenon
  <2>7. /\ Without(q, p) \in Seq(Procs) /\ Len(Without(q, p)) = Len(q) - 1
        /\ \A k \in 1..(Len(q) - 1) :
             Without(q, p)[k] = IF k <= i - 1 THEN front[k] ELSE back[k - (i - 1)]
    BY <1>2, <2>2, <2>3, <2>4, <2>5, <2>6
  <2>8. ASSUME NEW k \in 1..(Len(q) - 1)
        PROVE  Without(q, p)[k] = IF k < i THEN q[k] ELSE q[k + 1]
    <3>1. CASE k < i
      BY <1>2, <2>3, <2>4, <2>7, <3>1
    <3>2. CASE ~(k < i)
      <4>1. k - (i - 1) \in 1..(Len(q) - i) /\ i + (k - (i - 1)) = k + 1
        BY <1>2, <2>3, <3>2
      <4> QED BY <1>2, <2>3, <2>5, <2>7, <3>2, <4>1
    <3> QED BY <3>1, <3>2
  <2> QED BY <2>7, <2>8
<1>3. ASSUME NEW i \in 1..Len(q), q[i] = p
      PROVE  /\ \A k \in 1..Len(Without(q, p)) :
                  Without(q, p)[k] # p /\ \E m \in 1..Len(q) : q[m] = Without(q, p)[k]
             /\ \A j, k \in 1..Len(Without(q, p)) : Without(q, p)[j] = Without(q, p)[k] => j = k
  <2> DEFINE w == Without(q, p)
             from(k) == IF k < i THEN k ELSE k + 1
  <2>1. Len(q) \in Nat /\ Len(w) = Len(q) - 1
    BY <1>2, <1>3, LenProperties
  <2>2. ASSUME NEW k \in 1..Len(w)
        PROVE  from(k) \in 1..Len(q) /\ from(k) # i /\ w[k] = q[from(k)]
    <3>1. w[k] = IF k < i THEN q[k] ELSE q[k + 1]
      BY <1>2, <1>3
    <3> HIDE DEF w
    <3> QED BY <2>1, <3>1
  <2>3. \A j, k \in 1..Len(w) : from(j) = from(k) => j = k
    BY <2>1
  <2> HIDE DEF w, from
  <2>4. ASSUME NEW k \in 1..Len(w)
        PROVE  w[k] # p /\ \E m \in 1..Len(q) : q[m] = w[k]
    BY <1>3, <2>2
  <2>5. ASSUME NEW j \in 1..Len(w), NEW k \in 1..Len(w), w[j] = w[k]
        PROVE  j = k
    BY <2>2, <2>3, <2>5
  <2> QED BY <2>4, <2>5 DEF w
<1> QED BY <1>1, <1>2, <1>3

\* Promotion finds at most one holder at each end.
LEMMA PromotableIsSole ==
  ASSUME NEW h \in [Ends -> SUBSET Procs], NEW known, Promotable(h, known)
  PROVE  \A e \in Ends : AtMostOne(h[e])
<1> SUFFICES ASSUME NEW e \in Ends PROVE AtMostOne(h[e])
  OBVIOUS
<1>1. IsFiniteSet(h[e]) /\ Cardinality(h[e]) = 1
  BY FS_Subset, RingAssumption DEF Promotable
<1> QED BY <1>1, FS_Singleton DEF AtMostOne

(* ---------------------- steps of the programs --------------------------- *)

\* A program moves on by itself.
LEMMA LocalStep ==
  ASSUME IInv, NEW p \in Procs, NEW to,
         pc[p] \notin {"blocked", "dead"}, to \notin {"blocked", "dead"},
         to \in {"rdMode"} \cup FastReading => Reading(p) \/ "r" \in Held(p),
         to \in {"wrMode"} \cup FastWriting => Writing(p) \/ "w" \in Held(p),
         to \in FastReading => pc[p] \in FastReading \/ mode = "FAST",
         to \in FastWriting => pc[p] \in FastWriting \/ mode = "FAST",
         Goto(p, to), UNCHANGED <<mode, flag, rpc, books, kernel>>
  PROVE  IInv'
<1> USE DEF IInv, Shape, Goto, books, kernel
<1>1. Shape' /\ Queued'
  BY DEF Jobs, Queued
<1>2. Parked'
  BY DEF Parked
<1>3. Holding'
  BY DEF Holding, Reading, Writing, Held
<1>4. SoleWhenFast' /\ SoleRole'
  BY DEF SoleWhenFast, SoleRole, AtMostOne, Ends
<1>5. JobOk'
  BY DEF JobOk, Parked, Jobs
<1>6. FlagHasWaiter'
  BY DEF FlagHasWaiter
<1> QED BY <1>1, <1>2, <1>3, <1>4, <1>5, <1>6

\* A program posts a request.
LEMMA AskStep ==
  ASSUME IInv, NEW p \in Procs, NEW r, pc[p] \notin {"blocked", "dead"},
         r.op \in {"read", "write", "wait", "kick", "close", "spawn"},
         r.op = "read" => Reading(p) /\ r.ends = {"r"},
         r.op = "write" => Writing(p) /\ r.ends = {"w"},
         r.op = "close" => r.ends \subseteq Ends,
         r.op = "spawn" => r.ends \subseteq Held(p) /\ r.child \in Procs,
         r.then \in {"idle", "rdMode", "wrMode"}, r.then # "idle" => r.op = "wait",
         r.then = "rdMode" => Reading(p), r.then = "wrMode" => Writing(p),
         Ask(p, r), UNCHANGED <<mode, flag, books, kernel>>
  PROVE  IInv'
<1> USE DEF IInv, Shape, Ask, Goto, books, kernel
<1>1. Shape' /\ Queued'
  BY DEF Jobs, Queued
<1>2. rpc[p] = None /\ waiter[p] = None
  BY NoneFields DEF Parked
<1>3. Parked'
  BY <1>2, NoneFields DEF Parked
<1>4. Holding'
  BY DEF Holding, Reading, Writing, Held, FastReading, FastWriting
<1>5. SoleWhenFast' /\ SoleRole'
  BY DEF SoleWhenFast, SoleRole, FastReading, FastWriting
<1>6. JobOk'
  BY <1>2, NoneFields DEF JobOk, Jobs
<1>7. FlagHasWaiter'
  BY <1>2, NoneFields DEF FlagHasWaiter, JobOk, Jobs
<1> QED BY <1>1, <1>3, <1>4, <1>5, <1>6, <1>7

(* ------------------------ steps of the kernel --------------------------- *)

\* A call returns that is not parked, and the handler goes on or ends.
LEMMA AnswerStep ==
  ASSUME IInv, NEW p \in Procs, NEW to, rpc[p].op # "none", waiter[p] = None,
         to \in {"idle", "eof"} \/ to = rpc[p].then,
         Respond({p}, Returns(p, to)), UNCHANGED <<mode, flag, books>>,
         \/ kpc = "idle" /\ kpc' \in {"idle", "nread"} /\ job' = job
         \/ kpc = "unref" /\ kpc' = "idle" /\ job' = NoJob
  PROVE  IInv'
<1> USE NoneFields DEF IInv, Shape, Respond, Returns, books
<1>1. Shape' /\ Queued'
  BY NoJobShape DEF Jobs, Queued
<1>2. Parked'
  BY DEF Parked, Holding
<1>3. Holding'
  BY DEF Holding, Reading, Writing, Held, FastReading, FastWriting
<1>4. SoleWhenFast' /\ SoleRole'
  BY DEF SoleWhenFast, SoleRole, Holding, FastReading, FastWriting
<1>5. JobOk'
  BY NoJobShape DEF JobOk, Jobs
<1>6. FlagHasWaiter'
  BY DEF FlagHasWaiter, JobOk, Jobs
<1> QED BY <1>1, <1>2, <1>3, <1>4, <1>5, <1>6

\* A parked call is taken back: it is answered, interrupted, or its process dies.
LEMMA CancelStep ==
  ASSUME IInv, NEW p \in Procs, NEW to,
         Cancel(p), Respond({p}, Returns(p, to)), UNCHANGED <<mode, holders>>,
         \/ /\ waiter[p] # None /\ (to \in {"idle", "eof"} \/ to = rpc[p].then)
            /\ kpc \in {"idle", "nread", "nwrite"} /\ kpc' = kpc
            /\ job' = job \/ job' = [job EXCEPT !.progress = TRUE]
         \/ /\ to = "dead" /\ kpc = "idle" /\ kpc' = "unref"
            /\ job' = [Job(p) EXCEPT !.todo = Held(p)]
  PROVE  IInv'
<1> USE NoneFields DEF IInv, Shape
<1>1. ASSUME NEW e \in Ends
      PROVE  /\ queue'[e] \in Seq(Procs)
             /\ \A i \in 1..Len(queue'[e]) :
                  /\ queue'[e][i] # p
                  /\ \E k \in 1..Len(queue[e]) : queue[e][k] = queue'[e][i]
             /\ \A i, j \in 1..Len(queue'[e]) : queue'[e][i] = queue'[e][j] => i = j
  <2>1. queue[e] \in Seq(Procs) /\ queue'[e] = Without(queue[e], p)
    BY DEF Cancel
  <2>2. \A i, j \in 1..Len(queue[e]) : queue[e][i] = queue[e][j] => i = j
    BY DEF Queued
  <2> QED BY <2>1, <2>2, WithoutRemoves
<1>2. Held(p) \subseteq Ends
  BY DEF Held
<1>3. job' \in Jobs(job'.free)
  BY <1>2, JobShape, ZenonT(60) DEF Jobs
<1>4. Shape'
  BY <1>1, <1>3 DEF Cancel, Respond, Lowered
<1>5. Parked'
  BY DEF Parked, Holding, Cancel, Respond, Returns
<1>6. Queued'
  <2> SUFFICES ASSUME NEW e \in Ends, NEW i \in 1..Len(queue'[e])
               PROVE  waiter'[queue'[e][i]].op = OpOf(e)
    BY <1>1 DEF Queued
  <2>1. PICK k \in 1..Len(queue[e]) : queue[e][k] = queue'[e][i]
    BY <1>1
  <2>2. queue'[e][i] \in Procs /\ queue'[e][i] # p
    BY <1>1, ElementOfSeq
  <2> QED BY <2>1, <2>2 DEF Queued, Cancel
<1>7. Holding'
  BY DEF Holding, Reading, Writing, Held, FastReading, FastWriting, Respond, Returns
<1>8. SoleWhenFast' /\ SoleRole'
  BY DEF SoleWhenFast, SoleRole, Holding, FastReading, FastWriting, Respond, Returns
<1>9. JobOk'
  <2>1. CASE to = "dead" /\ job' = [Job(p) EXCEPT !.todo = Held(p)] /\ kpc' = "unref"
    <3>1. job'.p = p /\ job'.reply = FALSE
      BY <2>1, JobShape DEF Jobs
    <3> QED BY <2>1, <3>1 DEF JobOk, Respond, Returns
  <2>2. CASE waiter[p] # None /\ kpc \in {"idle", "nread", "nwrite"} /\ kpc' = kpc
             /\ (job' = job \/ job' = [job EXCEPT !.progress = TRUE])
    <3>1. job.p \in Procs /\ job'.p = job.p /\ job'.todo = job.todo /\ job'.reply = job.reply
      BY <2>2 DEF Jobs
    <3>2. (job.todo # {} \/ job.reply) => job.p # p
      BY <2>2 DEF JobOk, Parked
    <3> QED BY <2>2, <3>1, <3>2 DEF JobOk, Respond, Returns
  <2> QED BY <2>1, <2>2
<1>10. FlagHasWaiter'
  BY DEF FlagHasWaiter, Cancel, Lowered
<1> QED BY <1>4, <1>5, <1>6, <1>7, <1>8, <1>9, <1>10

\* A handler's step that leaves the kernel's other books and the processes alone.
LEMMA HandlerStep ==
  ASSUME IInv, UNCHANGED <<books, pc, rpc>>, DOMAIN flag' = Ends, job' \in Jobs(job'.free),
         SoleWhenFast', JobOk', FlagHasWaiter'
  PROVE  IInv'
<1> USE DEF IInv, Shape, books
<1>1. Shape' /\ Queued'
  BY DEF Queued
<1>2. Parked' /\ Holding' /\ SoleRole'
  BY DEF Parked, Holding, Reading, Writing, Held, SoleRole
<1> QED BY <1>1, <1>2

\* The kernel takes a call up, or an empty-handed handler ends.
LEMMA TakeUpStep ==
  ASSUME IInv, UNCHANGED <<mode, flag, books, pc, rpc>>, job' \in Jobs(job'.free),
         kpc \notin {"scan", "fast"}, kpc' \notin {"scan", "fast"}, JobOk'
  PROVE  IInv'
<1>1. SoleWhenFast'
  BY DEF IInv, SoleWhenFast, books
<1>2. FlagHasWaiter'
  BY DEF IInv, FlagHasWaiter, books
<1> QED BY <1>1, <1>2, HandlerStep DEF IInv, Shape

\* A read or a write that cannot proceed is parked: flag, queue, books.
LEMMA ParkStep == ASSUME IInv, Park PROVE IInv'
<1> DEFINE p == job.p
           e == IF rpc[p].op = "read" THEN "r" ELSE "w"
<1> USE NoneFields DEF IInv, Shape
<1>1. /\ p \in Procs /\ e \in Ends /\ rpc[p].op = OpOf(e) /\ rpc[p].ends = {e}
      /\ waiter[p] = None
  BY DEF Park, JobOk, Jobs, Ends, OpOf, Holding
<1>2. /\ waiter' = [waiter EXCEPT ![p] = rpc[p]] /\ flag' = [flag EXCEPT ![e] = TRUE]
      /\ queue' = [queue EXCEPT ![e] = Append(@, p)] /\ kpc' = "rescan"
      /\ UNCHANGED <<mode, holders, job, pc, rpc>>
  BY DEF Park, procs
<1> HIDE DEF p, e
<1>3. Shape'
  BY <1>1, <1>2, AppendProperties
<1>4. Parked'
  BY <1>1, <1>2 DEF Parked, OpOf
<1>5. Queued'
  <2>1. \A i \in 1..Len(queue[e]) : queue[e][i] # p
    BY <1>1 DEF Queued, OpOf
  <2>2. /\ Len(queue[e]) \in Nat /\ Len(queue'[e]) = Len(queue[e]) + 1
        /\ \A i \in 1..Len(queue[e]) : queue'[e][i] = queue[e][i]
        /\ queue'[e][Len(queue[e]) + 1] = p
    BY <1>1, <1>2, AppendProperties, LenProperties
  <2>3. \A f \in Ends : f # e => queue'[f] = queue[f]
    BY <1>2
  <2>4. ASSUME NEW f \in Ends, NEW i \in 1..Len(queue[f])
        PROVE  queue[f][i] \in Procs /\ queue[f][i] # p
    <3>1. queue[f] \in Seq(Procs)
      BY <1>1
    <3>2. queue[f][i] \in Procs
      BY ONLY <2>4, <3>1, ElementOfSeq
    <3>3. waiter[queue[f][i]].op = OpOf(f)
      BY DEF Queued
    <3> QED BY <1>1, <3>2, <3>3 DEF OpOf
  <2>5. ASSUME NEW f \in Ends, NEW i \in 1..Len(queue'[f])
        PROVE  waiter'[queue'[f][i]].op = OpOf(f)
    BY <1>1, <1>2, <2>2, <2>3, <2>4 DEF Queued
  <2>6. ASSUME NEW f \in Ends, NEW i \in 1..Len(queue'[f]), NEW j \in 1..Len(queue'[f]),
               queue'[f][i] = queue'[f][j]
        PROVE  i = j
    <3>1. CASE f # e
      BY <2>3, <2>6, <3>1 DEF Queued
    <3>2. CASE f = e
      <4>1. \A k \in 1..Len(queue[e]) + 1 : k \in 1..Len(queue[e]) \/ k = Len(queue[e]) + 1
        BY <2>2
      <4>2. \A k, m \in 1..Len(queue[e]) : queue[e][k] = queue[e][m] => k = m
        BY <1>1 DEF Queued
      <4> QED BY <2>1, <2>2, <2>6, <3>2, <4>1, <4>2, ZenonT(60)
    <3> QED BY <3>1, <3>2
  <2> QED BY <2>5, <2>6 DEF Queued
<1>6. Holding' /\ SoleWhenFast' /\ SoleRole'
  BY <1>2 DEF Park, Holding, Reading, Writing, Held, SoleWhenFast, SoleRole
<1>7. JobOk'
  BY <1>2 DEF Park, JobOk, Jobs
<1>8. FlagHasWaiter'
  <2> SUFFICES ASSUME NEW f \in Ends, flag'[f]
               PROVE  \E q \in Procs : waiter'[q] # None /\ f \in waiter'[q].ends
    BY DEF FlagHasWaiter
  <2>1. CASE f = e
    <3>1. waiter'[p] # None /\ e \in waiter'[p].ends
      BY <1>1, <1>2 DEF OpOf
    <3> QED BY <1>1, <2>1, <3>1
  <2>2. CASE f # e
    <3>1. PICK q \in Procs : waiter[q] # None /\ f \in waiter[q].ends
      BY <1>1, <1>2, <2>2 DEF Park, FlagHasWaiter
    <3> QED BY <1>1, <1>2, <3>1
  <2> QED BY <2>1, <2>2
<1> QED BY <1>3, <1>4, <1>5, <1>6, <1>7, <1>8

\* A wait raises the flags before it looks.
LEMMA WaitStep == ASSUME IInv, NEW p \in Procs, WaitRpc(p) PROVE IInv'
<1> USE NoneFields, JobShape DEF WaitRpc
<1>1. SoleWhenFast'
  BY DEF IInv, SoleWhenFast, books
<1>2. job'.p = p /\ JobOk'
  BY DEF JobOk, books, procs
<1>3. FlagHasWaiter'
  BY <1>2 DEF IInv, FlagHasWaiter, books, procs
<1> QED BY <1>1, <1>2, <1>3, HandlerStep DEF procs

\* It looks: the flags go down again with the answer, or it is registered.
LEMMA ScanStep == ASSUME IInv, Scan PROVE IInv'
<1> DEFINE p == job.p
<1>1. /\ p \in Procs /\ rpc[p].op = "wait" /\ waiter[p] = None /\ kpc = "scan" /\ kpc' = "idle"
      /\ job' = NoJob /\ UNCHANGED <<mode, holders, queue>>
  BY DEF Scan, Idle, IInv, Shape, Jobs, JobOk
<1>2. \A e \in Ends : flag[e] /\ e \notin rpc[p].ends =>
        \E q \in Procs : q # p /\ waiter[q] # None /\ e \in waiter[q].ends
  BY <1>1 DEF IInv, FlagHasWaiter
<1>3. CASE Respond({p}, Then(p)) /\ flag' = Lowered(rpc[p].ends) /\ UNCHANGED waiter
  <2> USE NoneFields, NoJobShape DEF IInv, Shape, Respond, Then
  <2>1. Shape' /\ Queued'
    BY <1>1, <1>3 DEF Queued, Lowered
  <2>2. Parked'
    BY <1>1, <1>3 DEF Parked, Holding
  <2>3. Holding' /\ SoleRole' /\ SoleWhenFast'
    BY <1>1, <1>3, ZenonT(60)
    DEF Holding, Reading, Writing, Held, FastReading, FastWriting, SoleRole, SoleWhenFast
  <2>4. JobOk'
    BY <1>1 DEF JobOk
  <2>5. FlagHasWaiter'
    BY <1>1, <1>2, <1>3 DEF FlagHasWaiter, Lowered
  <2> QED BY <2>1, <2>2, <2>3, <2>4, <2>5
<1>4. CASE waiter' = [waiter EXCEPT ![p] = rpc[p]] /\ UNCHANGED <<flag, rpc, pc>>
  <2> USE NoneFields, NoJobShape DEF IInv, Shape
  <2>1. Shape'
    BY <1>1, <1>4
  <2>2. Parked'
    BY <1>1, <1>4 DEF Parked
  <2>3. Queued'
    <3>1. \A e \in Ends : \A i \in 1..Len(queue[e]) : queue[e][i] \in Procs /\ queue[e][i] # p
      BY <1>1, ElementOfSeq DEF Queued, OpOf
    <3> QED BY <1>1, <1>4, <3>1 DEF Queued
  <2>4. Holding' /\ SoleRole' /\ SoleWhenFast'
    BY <1>1, <1>4 DEF Holding, Reading, Writing, Held, SoleRole, SoleWhenFast
  <2>5. JobOk'
    BY <1>1 DEF JobOk
  <2>6. FlagHasWaiter'
    BY <1>1, <1>2, <1>4 DEF FlagHasWaiter
  <2> QED BY <2>1, <2>2, <2>3, <2>4, <2>5, <2>6
<1> QED BY <1>3, <1>4 DEF Scan

\* Every select that is ready is answered in one turn.
LEMMA RecheckStep == ASSUME IInv, RecheckSelects PROVE IInv'
<1> DEFINE woken == {p \in Procs : waiter[p].op = "wait" /\ Ready(waiter[p].ends)}
<1>1. \A p \in woken : p \in Procs /\ waiter[p].op = "wait" /\ waiter[p] = rpc[p] /\ rpc[p].op = "wait"
  BY NoneFields DEF IInv, Parked
<1>2. /\ waiter' = [p \in Procs |-> IF p \in woken THEN None ELSE waiter[p]]
      /\ flag' = Lowered(UNION {waiter[p].ends : p \in woken})
      /\ rpc' = [p \in Procs |-> IF p \in woken THEN None ELSE rpc[p]]
      /\ pc'  = [p \in Procs |-> IF p \in woken THEN rpc[p].then ELSE pc[p]]
      /\ kpc = "nsel" /\ Resume /\ UNCHANGED <<mode, holders, queue>>
  BY DEF RecheckSelects, Respond
<1> HIDE DEF woken
<1> USE NoneFields, NoJobShape DEF IInv, Shape
<1>3. Shape'
  BY <1>2 DEF Lowered, Resume, Idle
<1>4. Parked'
  BY <1>1, <1>2 DEF Parked, Holding
<1>5. Queued'
  <2>1. \A e \in Ends : \A i \in 1..Len(queue[e]) : queue[e][i] \in Procs /\ queue[e][i] \notin woken
    BY <1>1, ElementOfSeq DEF Queued, OpOf
  <2> QED BY <1>2, <2>1 DEF Queued
<1>6. Holding' /\ SoleRole' /\ SoleWhenFast'
  BY <1>1, <1>2, ZenonT(60)
  DEF Holding, Reading, Writing, Held, FastReading, FastWriting, SoleRole, SoleWhenFast, Resume, Idle
<1>7. JobOk'
  <2>1. CASE kpc' = "idle" /\ job' = NoJob
    BY <2>1 DEF JobOk
  <2>2. CASE kpc' = "unref" /\ job' = job
    <3>1. job.p \in Procs /\ ((job.todo # {} \/ job.reply) => job.p \notin woken)
      BY <1>1 DEF Jobs, JobOk, Parked
    <3> QED BY <1>2, <2>2, <3>1 DEF JobOk
  <2> QED BY <1>2, <2>1, <2>2 DEF Resume, Idle
<1>8. FlagHasWaiter'
  BY <1>1, <1>2, ZenonT(60) DEF FlagHasWaiter, Lowered
<1> QED BY <1>3, <1>4, <1>5, <1>6, <1>7, <1>8

\* The head of a queue is parked.
LEMMA HeadQueued ==
  ASSUME IInv, NEW e \in Ends, queue[e] # <<>>
  PROVE  /\ Head(queue[e]) \in Procs /\ waiter[Head(queue[e])].op = OpOf(e)
         /\ waiter[Head(queue[e])] # None
<1>1. queue[e] \in Seq(Procs) /\ 1 \in 1..Len(queue[e]) /\ Head(queue[e]) = queue[e][1]
  BY EmptySeq, LenProperties DEF IInv, Shape
<1>2. queue[e][1] \in Procs
  BY <1>1, ElementOfSeq
<1>3. waiter[queue[e][1]].op = OpOf(e)
  BY <1>1 DEF IInv, Queued
<1> QED BY <1>1, <1>2, <1>3, NoneFields DEF OpOf

\* The flags promotion raises belong to the waits it queues behind.
LEMMA RequeuedHasWaiter ==
  ASSUME IInv, kpc # "scan", NEW e \in Ends, Requeued[e]
  PROVE  \E p \in Procs : waiter[p] # None /\ e \in waiter[p].ends
<1>1. CASE flag[e]
  BY <1>1 DEF IInv, FlagHasWaiter
<1>2. CASE queue[e] # <<>>
  BY <1>2, HeadQueued DEF IInv, Parked, Holding, OpOf, Ends
<1> QED BY <1>1, <1>2 DEF Requeued

\* Inheritance: the child joins the holders of ends its parent holds.
LEMMA SpawnStep == ASSUME IInv, NEW p \in Procs, SpawnRpc(p) PROVE IInv'
<1> DEFINE c == rpc[p].child
           keep == rpc[p].ends
<1>1. /\ p \in Procs /\ rpc[p].op = "spawn" /\ pc[p] = "blocked" /\ waiter[p] = None /\ rpc[p].then = "idle"
      /\ c \in Procs /\ c # p /\ pc[c] = "unborn" /\ rpc[c] = None /\ kpc = "idle"
      /\ \A e \in keep : e \in Ends /\ p \in holders[e]
  BY NoneFields DEF SpawnRpc, IInv, Parked, Holding, Held
<1>2. /\ \A e \in Ends : holders'[e] = IF e \in keep THEN holders[e] \cup {c} ELSE holders[e]
      /\ holders' \in [Ends -> SUBSET Procs] /\ UNCHANGED <<queue, waiter>>
  BY <1>1 DEF SpawnRpc, IInv, Shape
<1>3. mode' = "FAST" => mode = "FAST" /\ \A e \in Ends : holders'[e] = holders[e]
  BY <1>1, <1>2 DEF SpawnRpc, Held
<1> HIDE DEF c, keep
<1> USE NoneFields, JobShape DEF IInv, Shape
<1>4. CASE /\ rpc' = [rpc EXCEPT ![p] = None] /\ pc' = [pc EXCEPT ![c] = "idle", ![p] = rpc[p].then]
           /\ UNCHANGED <<flag, kernel>>
  <2>1. Shape' /\ Queued'
    BY <1>2, <1>4 DEF Queued, kernel
  <2>2. Parked'
    BY <1>1, <1>2, <1>4 DEF Parked
  <2>3. Holding'
    <3>1. \A q \in Procs : Held(q) \subseteq Held(q)'
      BY <1>2 DEF Held
    <3>2. \A q \in Procs : (Reading(q)' => Reading(q)) /\ (Writing(q)' => Writing(q))
      BY <1>1, <1>4 DEF Reading, Writing, FastReading, FastWriting
    <3>3. \A q \in Procs : rpc'[q] = rpc[q] \/ rpc'[q] = None
      BY <1>1, <1>4
    <3> QED BY <1>2, <3>1, <3>2, <3>3 DEF Holding, Ends
  <2>4. SoleWhenFast'
    BY <1>1, <1>3, <1>4 DEF SoleWhenFast, kernel
  <2>5. JobOk'
    BY <1>1, <1>4 DEF JobOk, kernel
  <2>6. FlagHasWaiter'
    BY <1>1, <1>2, <1>4 DEF FlagHasWaiter, kernel
  <2>7. SoleRole'
    BY <1>1, <1>2, <1>4 DEF SoleRole, AtMostOne, Holding, Reading, Writing, FastReading, FastWriting, Ends
  <2> QED BY <2>1, <2>2, <2>3, <2>4, <2>5, <2>6, <2>7
<1>5. CASE /\ \A e \in Ends : AtMostOne(holders'[e])
           /\ flag' = Requeued /\ kpc' = "fast" /\ job' = [Job(p) EXCEPT !.reply = TRUE]
           /\ pc' = [pc EXCEPT ![c] = "idle"] /\ UNCHANGED rpc
  <2>1. job'.p = p /\ job'.todo = {} /\ job'.reply = TRUE /\ job' \in Jobs(job'.free)
    BY <1>5 DEF Jobs
  <2>2. Shape' /\ Queued'
    BY <1>2, <1>5, <2>1 DEF Queued, Requeued
  <2>3. Parked'
    BY <1>1, <1>2, <1>5 DEF Parked
  <2>4. Holding'
    <3>1. \A q \in Procs : Held(q) \subseteq Held(q)'
      BY <1>2 DEF Held
    <3>2. \A q \in Procs : (Reading(q)' => Reading(q)) /\ (Writing(q)' => Writing(q))
      BY <1>1, <1>5 DEF Reading, Writing, FastReading, FastWriting
    <3>3. \A q \in Procs : rpc'[q] = rpc[q] \/ rpc'[q] = None
      BY <1>1, <1>5
    <3> QED BY <1>2, <3>1, <3>2, <3>3 DEF Holding, Ends
  <2>5. SoleWhenFast' /\ SoleRole'
    BY <1>5 DEF SoleWhenFast, SoleRole, Ends
  <2>6. JobOk'
    BY <1>1, <1>5, <2>1 DEF JobOk
  <2>7. FlagHasWaiter'
    BY <1>1, <1>2, <1>5, RequeuedHasWaiter DEF FlagHasWaiter
  <2> QED BY <2>2, <2>3, <2>4, <2>5, <2>6, <2>7
<1> QED
  <2>1. ASSUME NEW known, Promotable(holders', known)
        PROVE  \A e \in Ends : AtMostOne(holders'[e])
    BY <1>2, <2>1, PromotableIsSole
  <2> QED BY <1>4, <1>5, <2>1 DEF SpawnRpc, c, keep

\* A close or a death drops one end, and may leave each end to one process.
LEMMA UnrefStep == ASSUME IInv, Unref PROVE IInv'
<1> DEFINE p == job.p
<1> USE NoneFields DEF IInv, Shape
<1>1. PICK x \in job.todo :
        /\ holders' = [holders EXCEPT ![x] = @ \ {p}]
        /\ job' = [job EXCEPT !.todo = @ \ {x}]
        /\ \/ kpc' \in {"unref", "nread"} /\ flag' = flag
           \/ Promotable(holders', Procs) /\ kpc' = "fast" /\ flag' = Requeued
  BY DEF Unref
<1>2. /\ kpc = "unref" /\ UNCHANGED <<mode, queue, waiter, pc, rpc>>
      /\ x \in Ends /\ p \in Procs /\ rpc[p].then = "idle"
      /\ pc[p] = "dead" \/ rpc[p].op = "close"
      /\ pc[p] \in {"dead", "blocked"} /\ rpc[p].op \in {"close", "none"}
  BY DEF Unref, procs, Jobs, JobOk, Holding, Parked
<1>3. /\ holders' \in [Ends -> SUBSET Procs]
      /\ \A e \in Ends : holders'[e] \subseteq holders[e] /\ holders[e] \ {p} \subseteq holders'[e]
  BY <1>1, <1>2
<1>4. Shape' /\ Queued'
  BY <1>1, <1>2, <1>3, ZenonT(60) DEF Queued, Requeued, Jobs
<1>5. Parked'
  BY <1>2 DEF Parked
<1>6. Holding'
  BY <1>2, <1>3 DEF Holding, Reading, Writing, Held, FastReading, FastWriting, Ends
<1>7. SoleWhenFast' /\ SoleRole'
  <2>1. \A e \in Ends : AtMostOne(holders[e]) => AtMostOne(holders'[e])
    BY <1>3 DEF AtMostOne
  <2>2. kpc' = "fast" => \A e \in Ends : AtMostOne(holders'[e])
    BY <1>1, <1>3, PromotableIsSole
  <2> QED BY <1>2, <2>1, <2>2 DEF SoleWhenFast, SoleRole, Ends
<1>8. JobOk'
  BY <1>1, <1>2 DEF JobOk, Jobs
<1>9. FlagHasWaiter'
  BY <1>1, <1>2, RequeuedHasWaiter DEF FlagHasWaiter
<1> QED BY <1>4, <1>5, <1>6, <1>7, <1>8, <1>9

\* The mode word is stored last.
LEMMA GoFastStep == ASSUME IInv, GoFast PROVE IInv'
<1> USE NoJobShape DEF GoFast, Resume, Idle
<1>1. SoleWhenFast'
  BY DEF IInv, SoleWhenFast, books
<1>2. JobOk'
  BY DEF IInv, JobOk, procs, books
<1>3. FlagHasWaiter'
  BY DEF IInv, FlagHasWaiter, books
<1> QED BY <1>1, <1>2, <1>3, HandlerStep DEF procs, IInv, Shape

(* ------------------------------ theorems -------------------------------- *)

\* The programs' steps, fast path and requests.
LEMMA ProgramSteps ==
  ASSUME IInv, NEW p \in Procs,
         \/ StartRead(p) \/ RdMode(p) \/ RdTake(p) \/ RdCommit(p) \/ RdKick(p) \/ RdGone(p)
         \/ StartWrite(p) \/ WrMode(p) \/ WrGone(p) \/ WrPut(p) \/ WrCommit(p) \/ WrKick(p)
         \/ StartSelect(p) \/ StartClose(p) \/ StartSpawn(p)
  PROVE  IInv'
<1> USE DEF Program, ring, Reading, Writing, FastReading, FastWriting
<1>1. CASE StartRead(p)
  BY <1>1, LocalStep DEF StartRead
<1>2. CASE RdMode(p)
  <2>1. CASE mode = "FAST" /\ Goto(p, "rdTake") /\ UNCHANGED rpc
    BY <1>2, <2>1, LocalStep DEF RdMode
  <2>2. CASE Ask(p, [Request("read", {"r"}) EXCEPT !.n = ReadCount])
    <3> DEFINE r == [Request("read", {"r"}) EXCEPT !.n = ReadCount]
    <3>1. r.op = "read" /\ r.ends = {"r"} /\ r.then = "idle"
      BY DEF Request, None
    <3>2. Ask(p, r)
      BY <2>2
    <3> HIDE DEF r
    <3> QED BY <1>2, <3>1, <3>2, AskStep DEF RdMode
  <2> QED BY <1>2, <2>1, <2>2 DEF RdMode
<1>3. CASE RdTake(p)
  <2>1. CASE Goto(p, "rdCommit")
    BY <1>3, <2>1, LocalStep DEF RdTake
  <2>2. CASE Goto(p, "rdGone")
    BY <1>3, <2>2, LocalStep DEF RdTake
  <2> QED BY <1>3, <2>1, <2>2 DEF RdTake
<1>4. CASE RdCommit(p)
  BY <1>4, LocalStep DEF RdCommit
<1>5. CASE RdKick(p)
  <2>1. CASE Goto(p, "idle") /\ UNCHANGED rpc
    BY <1>5, <2>1, LocalStep DEF RdKick
  <2>2. CASE Ask(p, Request("kick", {}))
    BY <1>5, <2>2, RequestFields, AskStep DEF RdKick
  <2> QED BY <1>5, <2>1, <2>2 DEF RdKick
<1>6. CASE RdGone(p)
  <2>1. CASE Goto(p, "eof") /\ UNCHANGED rpc
    BY <1>6, <2>1, LocalStep DEF RdGone
  <2>2. CASE Ask(p, [Request("wait", {"r"}) EXCEPT !.park = TRUE, !.then = "rdMode"])
    <3> DEFINE r == [Request("wait", {"r"}) EXCEPT !.park = TRUE, !.then = "rdMode"]
    <3>1. r.op = "wait" /\ r.ends = {"r"} /\ r.then = "rdMode"
      BY DEF Request, None
    <3>2. Ask(p, r)
      BY <2>2
    <3> HIDE DEF r
    <3> QED BY <1>6, <3>1, <3>2, AskStep DEF RdGone
  <2> QED BY <1>6, <2>1, <2>2 DEF RdGone
<1>7. CASE StartWrite(p)
  BY <1>7, LocalStep DEF StartWrite
<1>8. CASE WrMode(p)
  <2>1. CASE mode = "FAST" /\ Goto(p, "wrGone") /\ UNCHANGED rpc
    BY <1>8, <2>1, LocalStep DEF WrMode
  <2>2. CASE Ask(p, [Request("write", {"w"}) EXCEPT !.n = loc[p].n])
    <3> DEFINE r == [Request("write", {"w"}) EXCEPT !.n = loc[p].n]
    <3>1. r.op = "write" /\ r.ends = {"w"} /\ r.then = "idle"
      BY DEF Request, None
    <3>2. Ask(p, r)
      BY <2>2
    <3> HIDE DEF r
    <3> QED BY <1>8, <3>1, <3>2, AskStep DEF WrMode
  <2> QED BY <1>8, <2>1, <2>2 DEF WrMode
<1>9. CASE WrGone(p)
  <2>1. CASE Goto(p, "wrPut") /\ UNCHANGED rpc
    BY <1>9, <2>1, LocalStep DEF WrGone
  <2>2. CASE Ask(p, Request("kick", {}))
    BY <1>9, <2>2, RequestFields, AskStep DEF WrGone
  <2> QED BY <1>9, <2>1, <2>2 DEF WrGone
<1>10. CASE WrPut(p)
  <2>1. CASE Goto(p, "wrCommit") /\ UNCHANGED rpc
    BY <1>10, <2>1, LocalStep DEF WrPut
  <2>2. CASE Ask(p, [Request("wait", {"w"}) EXCEPT !.park = TRUE, !.then = "wrMode"])
    <3> DEFINE r == [Request("wait", {"w"}) EXCEPT !.park = TRUE, !.then = "wrMode"]
    <3>1. r.op = "wait" /\ r.ends = {"w"} /\ r.then = "wrMode"
      BY DEF Request, None
    <3>2. Ask(p, r)
      BY <2>2
    <3> HIDE DEF r
    <3> QED BY <1>10, <3>1, <3>2, AskStep DEF WrPut
  <2> QED BY <1>10, <2>1, <2>2 DEF WrPut
<1>11. CASE WrCommit(p)
  BY <1>11, LocalStep DEF WrCommit
<1>12. CASE WrKick(p)
  <2>1. CASE Goto(p, "idle") /\ UNCHANGED rpc
    BY <1>12, <2>1, LocalStep DEF WrKick
  <2>2. CASE Ask(p, Request("kick", {}))
    BY <1>12, <2>2, RequestFields, AskStep DEF WrKick
  <2> QED BY <1>12, <2>1, <2>2 DEF WrKick
<1>13. CASE StartSelect(p)
  <2>1. PICK ends, park : Ask(p, [Request("wait", ends) EXCEPT !.park = park])
    BY <1>13 DEF StartSelect
  <2> QED BY <1>13, <2>1, SelectRequest, AskStep DEF StartSelect
<1>14. CASE StartClose(p)
  <2>1. PICK e \in Ends : Ask(p, Request("close", {e}))
    BY <1>14 DEF StartClose, Held
  <2> QED BY <1>14, <2>1, RequestFields, AskStep DEF StartClose
<1>15. CASE StartSpawn(p)
  <2>1. PICK c \in Procs, keep \in SUBSET Held(p) :
          Ask(p, [Request("spawn", keep) EXCEPT !.child = c])
    BY <1>15 DEF StartSpawn
  <2> DEFINE r == [Request("spawn", keep) EXCEPT !.child = c]
  <2>2. r.op = "spawn" /\ r.ends = keep /\ r.then = "idle" /\ r.child = c
    BY DEF Request, None
  <2>3. Ask(p, r)
    BY <2>1
  <2> HIDE DEF r
  <2> QED BY <1>15, <2>2, <2>3, AskStep DEF StartSpawn
<1> QED BY <1>1, <1>2, <1>3, <1>4, <1>5, <1>6, <1>7, <1>8, <1>9, <1>10, <1>11, <1>12, <1>13, <1>14, <1>15

\* The kernel's steps for one process's call, or its end.
LEMMA CallSteps ==
  ASSUME IInv, NEW p \in Procs,
         \/ ReadRpc(p) \/ WriteRpc(p) \/ WaitRpc(p) \/ KickRpc(p)
         \/ SpawnRpc(p) \/ SpawnFails(p) \/ CloseRpc(p) \/ Die(p) \/ Interrupt(p)
  PROVE  IInv'
<1>1. CASE ReadRpc(p)
  <2>1. CASE Respond({p}, Then(p)) /\ kpc' = "nread" /\ UNCHANGED job
    BY <1>1, <2>1, AnswerStep DEF ReadRpc, Then, Returns
  <2>2. CASE Respond({p}, Returns(p, "eof")) /\ UNCHANGED kernel
    BY <1>1, <2>2, AnswerStep DEF ReadRpc, kernel
  <2>3. CASE kpc' = "park" /\ job' = Job(p) /\ UNCHANGED <<rpc, pc>>
    <3>1. JobOk'
      BY <1>1, <2>3, JobShape DEF ReadRpc, JobOk, books
    <3> QED BY <1>1, <2>3, <3>1, JobShape, TakeUpStep DEF ReadRpc
  <2> QED BY <1>1, <2>1, <2>2, <2>3 DEF ReadRpc
<1>2. CASE WriteRpc(p)
  <2>1. CASE Respond({p}, Then(p)) /\ UNCHANGED kernel
    BY <1>2, <2>1, AnswerStep DEF WriteRpc, Then, Returns, kernel
  <2>2. CASE Respond({p}, Then(p)) /\ kpc' = "nread" /\ UNCHANGED job
    BY <1>2, <2>2, AnswerStep DEF WriteRpc, Then, Returns
  <2>3. CASE kpc' = "park" /\ job' = [Job(p) EXCEPT !.free = Free] /\ UNCHANGED <<rpc, pc>>
    <3>1. job'.p = p /\ job'.todo = {} /\ job'.reply = FALSE /\ job' \in Jobs(job'.free)
      BY <2>3 DEF Job, NoJob, Jobs
    <3>2. JobOk'
      BY <1>2, <2>3, <3>1 DEF WriteRpc, JobOk, books
    <3> QED BY <1>2, <2>3, <3>1, <3>2, TakeUpStep DEF WriteRpc
  <2> QED BY <1>2, <2>1, <2>2, <2>3 DEF WriteRpc
<1>3. CASE WaitRpc(p)
  BY <1>3, WaitStep
<1>4. CASE KickRpc(p)
  BY <1>4, AnswerStep, NoneFields DEF KickRpc, Then, Returns, IInv, Parked, ring
<1>5. CASE SpawnRpc(p)
  BY <1>5, SpawnStep
<1>6. CASE SpawnFails(p)
  BY <1>6, AnswerStep, NoneFields DEF SpawnFails, Then, Returns, IInv, Parked, ring, kernel
<1>7. CASE CloseRpc(p)
  <2>1. job'.p = p /\ job'.todo = rpc[p].ends /\ job'.reply = TRUE /\ job' \in Jobs(job'.free)
    BY <1>7 DEF CloseRpc, Job, NoJob, Jobs, IInv, Holding
  <2>2. JobOk'
    BY <1>7, <2>1 DEF CloseRpc, JobOk, procs
  <2> QED BY <1>7, <2>1, <2>2, TakeUpStep DEF CloseRpc, ring, procs
<1>8. CASE Die(p)
  BY <1>8, CancelStep DEF Die
<1>9. CASE Interrupt(p)
  BY <1>9, CancelStep DEF Interrupt, kernel
<1> QED BY <1>1, <1>2, <1>3, <1>4, <1>5, <1>6, <1>7, <1>8, <1>9

\* The rest of a handler.
LEMMA HandlerSteps ==
  ASSUME IInv, Rescan \/ NotifyReaders \/ NotifyWriters \/ UnrefDone
  PROVE  IInv'
<1>1. CASE Rescan
  <2>1. JobOk'
    BY <1>1, NoJobShape DEF Rescan, JobOk
  <2> QED BY <1>1, <2>1, NoJobShape, TakeUpStep DEF Rescan, ring, procs
<1>2. CASE NotifyReaders
  <2>1. CASE kpc' = "nwrite" /\ UNCHANGED <<flag, waiter, queue, job, rpc, pc>>
    <3>1. JobOk'
      BY <1>2, <2>1 DEF NotifyReaders, JobOk, IInv
    <3> QED BY <1>2, <2>1, <3>1, TakeUpStep DEF NotifyReaders, books, IInv, Shape
  <2>2. CASE queue["r"] # <<>> /\ kpc' # "nwrite"
    <3> DEFINE p == Head(queue["r"])
    <3>1. p \in Procs /\ waiter[p] # None
      BY <2>2, HeadQueued DEF Ends
    <3>2. /\ Cancel(p) /\ (Respond({p}, Returns(p, rpc[p].then)) \/ Respond({p}, Returns(p, "eof")))
          /\ job' = [job EXCEPT !.progress = TRUE] /\ kpc = "nread" /\ kpc' = kpc
          /\ UNCHANGED <<mode, holders>>
      BY <1>2, <2>2 DEF NotifyReaders, Then, Returns
    <3> HIDE DEF p
    <3> QED BY <3>1, <3>2, CancelStep
  <2> QED BY <1>2, <2>1, <2>2 DEF NotifyReaders
<1>3. CASE NotifyWriters
  <2>1. CASE kpc' \in {"nread", "nsel"} /\ job' = [job EXCEPT !.progress = FALSE]
             /\ UNCHANGED <<flag, waiter, queue, rpc, pc>>
    <3>1. job'.p = job.p /\ job'.todo = job.todo /\ job'.reply = job.reply /\ job' \in Jobs(job'.free)
      BY <2>1 DEF IInv, Shape, Jobs
    <3>2. JobOk'
      BY <1>3, <2>1, <3>1 DEF NotifyWriters, JobOk, IInv
    <3> QED BY <1>3, <2>1, <3>1, <3>2, TakeUpStep DEF NotifyWriters, books
  <2>2. CASE queue["w"] # <<>> /\ kpc' = kpc
    <3> DEFINE p == Head(queue["w"])
    <3>1. p \in Procs /\ waiter[p] # None
      BY <2>2, HeadQueued DEF Ends
    <3>2. /\ Cancel(p) /\ Respond({p}, Returns(p, rpc[p].then))
          /\ job' = [job EXCEPT !.progress = TRUE] /\ kpc = "nwrite" /\ kpc' = kpc
          /\ UNCHANGED <<mode, holders>>
      BY <1>3, <2>2 DEF NotifyWriters, Then, Returns
    <3> HIDE DEF p
    <3> QED BY <3>1, <3>2, CancelStep
  <2> QED BY <1>3, <2>1, <2>2 DEF NotifyWriters
<1>4. CASE UnrefDone
  <2>1. CASE job.reply
    <3> DEFINE p == job.p
    <3>1. p \in Procs /\ rpc[p].op # "none" /\ waiter[p] = None
      BY <2>1 DEF IInv, Shape, Jobs, JobOk, Parked
    <3>2. /\ Respond({p}, Returns(p, rpc[p].then)) /\ kpc = "unref" /\ kpc' = "idle" /\ job' = NoJob
          /\ UNCHANGED <<mode, flag, books>>
      BY <1>4, <2>1 DEF UnrefDone, Idle, Then, Returns, ring
    <3> HIDE DEF p
    <3> QED BY <3>1, <3>2, AnswerStep
  <2>2. CASE ~job.reply
    <3>1. JobOk'
      BY <1>4, NoJobShape DEF UnrefDone, Idle, JobOk
    <3> QED BY <1>4, <2>2, <3>1, NoJobShape, TakeUpStep DEF UnrefDone, Idle, ring
  <2> QED BY <2>1, <2>2
<1> QED BY <1>1, <1>2, <1>3, <1>4

\* IInv holds in every reachable state: it holds at first, every step keeps it.
THEOREM Invariant == Spec => []IInv
<1>1. Init => IInv
  <2> SUFFICES ASSUME Init PROVE IInv
    OBVIOUS
  <2> USE NoneFields, NoJobShape, RingAssumption DEF Init
  <2>1. Shape
    <3>1. holders \in [Ends -> SUBSET Procs]
      BY DEF Ends
    <3>2. queue \in [Ends -> Seq(Procs)]
      BY EmptySeq
    <3> QED BY <3>1, <3>2 DEF Shape
  <2>2. Parked /\ JobOk
    BY DEF Parked, JobOk
  <2>3. Queued
    BY EmptySeq DEF Queued
  <2>4. Holding /\ SoleWhenFast /\ SoleRole
    BY DEF Holding, Reading, Writing, FastReading, FastWriting, SoleWhenFast, SoleRole
  <2>5. FlagHasWaiter
    BY DEF FlagHasWaiter
  <2> QED BY <2>1, <2>2, <2>3, <2>4, <2>5 DEF IInv
<1>2. IInv /\ [Next]_vars => IInv'
  <2> SUFFICES ASSUME IInv, [Next]_vars PROVE IInv'
    OBVIOUS
  <2>1. CASE Next
    BY <2>1, ProgramSteps, CallSteps, HandlerSteps, ParkStep, ScanStep, RecheckStep, UnrefStep, GoFastStep
       DEF Next
  <2>2. CASE UNCHANGED vars
    <3>1. JobOk' /\ SoleWhenFast' /\ FlagHasWaiter'
      BY <2>2 DEF vars, ring, books, kernel, procs, IInv, JobOk, SoleWhenFast, FlagHasWaiter
    <3> QED BY <2>2, <3>1, HandlerStep DEF vars, ring, books, kernel, procs, IInv, Shape
  <2> QED BY <2>1, <2>2
<1> QED BY <1>1, <1>2, PTL DEF Spec

\* A process inside a local ring operation is the only holder of that end, and
\* the kernel has no request to play the same role (kernel.js 393-401).
THEOREM SoleRoleAlways == Spec => []FastRoleIsSole
<1>1. IInv => FastRoleIsSole
  <2> SUFFICES ASSUME IInv, NEW p \in Procs
               PROVE  /\ pc[p] \in FastReading => holders["r"] = {p} /\ \A q \in Procs : rpc[q].op # "read"
                      /\ pc[p] \in FastWriting => holders["w"] = {p} /\ \A q \in Procs : rpc[q].op # "write"
    BY DEF FastRoleIsSole
  <2>1. pc[p] \in FastReading \cup FastWriting => rpc[p].op = "none"
    BY DEF IInv, Parked, FastReading, FastWriting
  <2> QED BY <2>1 DEF IInv, SoleRole, AtMostOne, Holding, Reading, Writing
<1> QED BY <1>1, Invariant, PTL

\* A raised parked flag has a registered wait behind it (kernel.js 7963-7965).
THEOREM FlagsHaveWaiters == Spec => []FlagHasWaiter
<1>1. IInv => FlagHasWaiter
  BY DEF IInv
<1> QED BY <1>1, Invariant, PTL

(* ------------------------ arithmetic of the ring ------------------------ *)

\* Division with a remainder.
LEMMA ModSplit ==
  \A m \in Nat \ {0}, a \in Int : a % m \in 0..m-1 /\ \E q \in Int : a = q * m + (a % m)
<1> SUFFICES ASSUME NEW m \in Nat \ {0}, NEW a \in Int
             PROVE  a % m \in 0..m-1 /\ \E q \in Int : a = q * m + (a % m)
  OBVIOUS
<1>1. a % m \in 0..m-1
  OBVIOUS
<1>2. a = (a \div m) * m + (a % m) /\ a \div m \in Int
  OBVIOUS
<1> QED BY <1>1, <1>2

\* A remainder is its own remainder.
LEMMA ModSmall == \A m \in Nat \ {0} : \A r \in 0..m-1 : r % m = r
OBVIOUS

\* Two remainders that differ by a multiple of the divisor are one.
LEMMA SameRemainder ==
  ASSUME NEW m \in Nat \ {0}, NEW q \in Int, NEW r \in 0..m-1, NEW p \in Int, NEW s \in 0..m-1,
         p * m + s = q * m + r
  PROVE  r = s
<1>1. (p - q) * m = r - s
  OBVIOUS
<1>2. CASE p = q
  BY <1>1, <1>2
<1>3. CASE p > q
  <2>1. (p - q) * m >= m
    BY <1>3
  <2> QED BY <1>1, <2>1
<1>4. CASE p < q
  <2>1. (q - p) * m >= m
    BY <1>4
  <2>2. (p - q) * m = -((q - p) * m)
    OBVIOUS
  <2> QED BY <1>1, <2>1, <2>2
<1> QED BY <1>2, <1>3, <1>4

\* Adding a multiple of the divisor leaves the remainder.
LEMMA ModShift ==
  ASSUME NEW m \in Nat \ {0}, NEW a \in Int, NEW k \in Int
  PROVE  (a + k * m) % m = a % m
<1> DEFINE b == a + k * m
           x == a % m
           y == b % m
<1>1. PICK q \in Int : a = q * m + x
  BY ModSplit
<1>2. b \in Int /\ x \in 0..m-1
  BY ModSplit
<1> HIDE DEF b
<1>3. (\E p \in Int : b = p * m + y) /\ y \in 0..m-1
  BY <1>2, ModSplit
<1> HIDE DEF x, y
<1>4. PICK p \in Int : b = p * m + y
  BY <1>3
<1>5. (q + k) * m = q * m + k * m /\ q + k \in Int
  OBVIOUS
<1>6. (q + k) * m + x = p * m + y
  BY <1>1, <1>2, <1>3, <1>4, <1>5 DEF b
<1>7. \A r \in Int : r * m + x = p * m + y => x = y
  BY <1>2, <1>3, SameRemainder
<1>8. x = y
  BY <1>5, <1>6, <1>7
<1> QED BY <1>8 DEF x, y, b

\* Reducing one operand of a sum first changes nothing.
LEMMA ModSum ==
  ASSUME NEW m \in Nat \ {0}, NEW a \in Int, NEW b \in Int
  PROVE  /\ ((a % m) + b) % m = (a + b) % m
         /\ (b - (a % m)) % m = (b - a) % m
         /\ ((a % m) - b) % m = (a - b) % m
<1> DEFINE x == a % m
           c == a + b
           d == b - a
           e == a - b
<1>1. PICK q \in Int : a = q * m + x
  BY ModSplit
<1>2. x \in Int /\ c \in Int /\ d \in Int /\ e \in Int /\ -q \in Int
  BY ModSplit
<1>3. (c + (-q) * m) % m = c % m /\ (d + q * m) % m = d % m /\ (e + (-q) * m) % m = e % m
  BY <1>2, ModShift
<1>4. c + (-q) * m = x + b /\ d + q * m = b - x /\ e + (-q) * m = x - b
  <2>1. (-q) * m = -(q * m) /\ q * m \in Int
    OBVIOUS
  <2> HIDE DEF x
  <2> QED BY <1>1, <1>2, <2>1
<1> QED BY <1>3, <1>4

\* The cells of the ring repeat with the index: Wrap is a multiple of Cap.
LEMMA WrapIsCells == \E d \in Int : Wrap = d * Cap
<1>1. Wrap \in Int /\ Cap \in Nat \ {0} /\ Wrap % Cap = 0
  BY RingAssumption
<1>2. PICK d \in Int : Wrap = d * Cap + (Wrap % Cap)
  BY <1>1, ModSplit
<1>3. d * Cap \in Int
  BY <1>1
<1> QED BY <1>1, <1>2, <1>3

\* Free-running indices: the cell, the next index and the distance that the
\* reduced indices give are those of the positions in the stream.
LEMMA RingIndex ==
  ASSUME NEW a \in Int, NEW i \in Int
  PROVE  /\ ((a % Wrap) + i) % Wrap = (a + i) % Wrap
         /\ ((a % Wrap) + i) % Cap = (a + i) % Cap
         /\ ((i % Cap) - (a % Wrap)) % Cap = (i - a) % Cap
         /\ a % Wrap \in 0..Wrap-1 /\ a % Cap \in 0..Cap-1
<1>1. Wrap \in Nat \ {0} /\ Cap \in Nat \ {0}
  BY RingAssumption
<1>2. PICK d \in Int : Wrap = d * Cap
  BY WrapIsCells
<1>3. PICK q \in Int : a = q * Wrap + (a % Wrap)
  BY <1>1, ModSplit
<1> DEFINE x == a % Wrap
           k == q * d
<1>4. x \in 0..Wrap-1 /\ a % Cap \in 0..Cap-1 /\ k \in Int /\ -k \in Int
  BY <1>1, ModSplit
<1>5. q * Wrap = k * Cap
  BY <1>1, <1>2
<1>6. x = a + (-k) * Cap
  BY <1>1, <1>3, <1>4, <1>5
<1>7. (x + i) % Wrap = (a + i) % Wrap
  BY <1>1, ModSum
<1> HIDE DEF x, k
<1>10. x \in Int /\ (-k) * Cap = -(k * Cap) /\ k * Cap \in Int
  BY <1>1, <1>4
<1>8. (x + i) % Cap = (a + i) % Cap
  <2>1. x + i = (a + i) + (-k) * Cap /\ a + i \in Int
    BY <1>6, <1>10
  <2> QED BY <1>1, <1>4, <2>1, ModShift, ZenonT(60)
<1>9. ((i % Cap) - x) % Cap = (i - a) % Cap
  <2>1. ((i % Cap) - x) % Cap = (i - x) % Cap
    BY <1>1, <1>10, ModSum
  <2>2. i - x = (i - a) + k * Cap /\ i - a \in Int
    BY <1>6, <1>10
  <2>3. ((i - a) + k * Cap) % Cap = (i - a) % Cap
    BY <1>1, <1>4, <2>2, ModShift
  <2> QED BY <2>1, <2>2, <2>3
<1> QED BY <1>4, <1>7, <1>8, <1>9 DEF x

\* The fill level, from the reduced indices.
LEMMA RingDistance ==
  ASSUME NEW a \in Int, NEW b \in Int, b - a \in 0..Cap
  PROVE  ((b % Wrap) - (a % Wrap)) % Wrap = b - a
<1>1. Wrap \in Nat \ {0} /\ Cap \in Nat \ {0} /\ Cap < Wrap
  BY RingAssumption
<1>2. a % Wrap \in Int /\ b - a \in Int
  BY <1>1, ModSplit
<1>3. ((b % Wrap) - (a % Wrap)) % Wrap = (b - (a % Wrap)) % Wrap
  BY <1>1, <1>2, ModSum
<1>4. (b - (a % Wrap)) % Wrap = (b - a) % Wrap
  BY <1>1, ModSum
<1>5. (b - a) % Wrap = b - a
  BY <1>1, ModSmall
<1> QED BY <1>3, <1>4, <1>5

(* ------------------------ the stream in the ring ------------------------ *)

\* Byte rcvd + k is in the cell its position in the stream falls on.
Cells == \A k \in 1..(sent - rcvd) : data[(rcvd + k - 1) % Cap] = rcvd + k

\* A reader that has copied bytes out, or a writer that has copied bytes in, has
\* loaded an index nobody else has moved since.
InFlight ==
  \A p \in Procs :
    /\ pc[p] = "rdCommit" =>
         loc[p].at = head /\ Len(loc[p].buf) <= sent - rcvd /\ InOrder(loc[p].buf)
    /\ pc[p] = "wrCommit" =>
         /\ loc[p].at = tail /\ loc[p].n <= Cap - (sent - rcvd)
         /\ \A i \in 1..loc[p].n : data[(sent + i - 1) % Cap] = sent + i

\* What the indices, the cells and the registers of a local operation agree on.
Stream ==
  /\ rcvd <= sent /\ sent - rcvd <= Cap
  /\ head = rcvd % Wrap /\ tail = sent % Wrap
  /\ Cells /\ InFlight

\* The fill level the ring words show.
LEMMA RingLevels ==
  ASSUME TypeOK, Stream
  PROVE  /\ Avail = sent - rcvd /\ Free = Cap - (sent - rcvd)
         /\ Avail \in 0..Cap /\ Free \in 0..Cap /\ {Cap, Wrap} \subseteq Nat \ {0}
<1>1. sent \in Nat /\ rcvd \in Nat /\ Cap \in Nat \ {0} /\ Wrap \in Nat \ {0}
  BY RingAssumption DEF TypeOK
<1>2. sent - rcvd \in 0..Cap
  BY <1>1 DEF Stream
<1>3. Avail = sent - rcvd
  <2>1. sent \in Int /\ rcvd \in Int
    BY <1>1
  <2>2. ((sent % Wrap) - (rcvd % Wrap)) % Wrap = sent - rcvd
    BY <1>2, <2>1, RingDistance, Zenon
  <2> QED BY <2>2, Zenon DEF Avail, Stream
<1> QED BY <1>1, <1>2, <1>3 DEF Free

\* The bytes copied out are the next ones of the stream.
LEMMA StoredInOrder ==
  ASSUME TypeOK, Stream, NEW n \in 0..(sent - rcvd)
  PROVE  Stored(head, n) \in Seq(Nat) /\ Len(Stored(head, n)) = n /\ InOrder(Stored(head, n))
<1>1. sent \in Nat /\ rcvd \in Nat /\ Cap \in Nat \ {0} /\ head = rcvd % Wrap
      /\ data \in [0..Cap-1 -> Nat] /\ head \in Int
  BY RingAssumption DEF TypeOK, Stream
<1>2. ASSUME NEW i \in 1..n
      PROVE  data[(head + i - 1) % Cap] = rcvd + i
  <2>1. ((rcvd % Wrap) + (i - 1)) % Cap = (rcvd + (i - 1)) % Cap
    BY <1>1, RingIndex
  <2>2. head + i - 1 = (rcvd % Wrap) + (i - 1) /\ rcvd + i - 1 = rcvd + (i - 1)
    BY <1>1
  <2>3. data[(rcvd + i - 1) % Cap] = rcvd + i
    <3>1. i \in 1..(sent - rcvd)
      BY <1>1
    <3> QED BY <3>1, Zenon DEF Stream, Cells
  <2> QED BY <2>1, <2>2, <2>3
<1> DEFINE s == [i \in 1..n |-> data[(head + i - 1) % Cap]]
<1>3. s \in [1..n -> Nat] /\ \A i \in 1..n : s[i] = rcvd + i
  BY <1>1, <1>2
<1> HIDE DEF s
<1>4. s \in Seq(Nat) /\ Len(s) = n
  BY <1>1, <1>3
<1> QED BY <1>3, <1>4 DEF Stored, InOrder, s

\* Bytes copied in go where the stream continues, and spare the unread ones.
LEMMA WrittenCells ==
  ASSUME TypeOK, Stream, NEW n \in 0..(Cap - (sent - rcvd))
  PROVE  /\ Written(tail, n) \in [0..Cap-1 -> Nat]
         /\ \A i \in 1..n : Written(tail, n)[(sent + i - 1) % Cap] = sent + i
         /\ \A k \in 1..(sent - rcvd) : Written(tail, n)[(rcvd + k - 1) % Cap] = rcvd + k
<1>1. sent \in Nat /\ rcvd \in Nat /\ Cap \in Nat \ {0} /\ tail = sent % Wrap
      /\ data \in [0..Cap-1 -> Nat] /\ sent - rcvd \in 0..Cap
  <2>1. sent \in Nat /\ rcvd \in Nat /\ Cap \in Nat \ {0} /\ data \in [0..Cap-1 -> Nat]
    BY RingAssumption DEF TypeOK
  <2>2. tail = sent % Wrap /\ rcvd <= sent /\ sent - rcvd <= Cap
    BY DEF Stream
  <2> QED BY <2>1, <2>2
<1>2. ASSUME NEW x \in Int
      PROVE  /\ x % Cap \in 0..Cap-1 /\ ((x % Cap) - tail) % Cap = (x - sent) % Cap
             /\ (x - sent) % Cap \in 0..Cap-1
  <2>1. x - sent \in Int /\ sent \in Int
    BY <1>1
  <2>2. ((x % Cap) - (sent % Wrap)) % Cap = (x - sent) % Cap /\ x % Cap \in 0..Cap-1
    BY <2>1, RingIndex, Zenon
  <2>3. (x - sent) % Cap \in 0..Cap-1
    BY <2>1, RingIndex, Zenon
  <2> QED BY <1>1, <2>2, <2>3, Zenon
<1> DEFINE d(x) == (x - sent) % Cap
<1>3. \A c \in 0..Cap-1 : Written(tail, n)[c] =
        IF (c - tail) % Cap < n THEN sent + ((c - tail) % Cap) + 1 ELSE data[c]
  BY DEF Written
<1>4. Written(tail, n) \in [0..Cap-1 -> Nat]
  <2>1. \A c \in 0..Cap-1 : (c - tail) % Cap \in Nat
    <3>1. tail \in Int
      BY RingAssumption DEF TypeOK
    <3> QED BY <1>1, <3>1, ModSplit
  <2>2. ASSUME NEW c \in 0..Cap-1
        PROVE  data[c] \in Nat /\ sent + ((c - tail) % Cap) + 1 \in Nat
    <3> DEFINE i == (c - tail) % Cap
    <3>1. i \in Nat
      BY <2>1
    <3> HIDE DEF i
    <3>2. sent + i + 1 \in Nat
      BY <1>1, <3>1
    <3> QED BY <1>1, <3>2 DEF i
  <2>3. \A c \in 0..Cap-1 : Written(tail, n)[c] \in Nat
    BY <1>3, <2>2, Zenon
  <2> QED BY <2>3 DEF Written
<1>5. ASSUME NEW i \in 1..n
      PROVE  Written(tail, n)[(sent + i - 1) % Cap] = sent + i
  <2>1. (sent + i - 1) - sent = i - 1 /\ i - 1 \in 0..Cap-1 /\ sent + i - 1 \in Int
    BY <1>1
  <2>2. (i - 1) % Cap = i - 1
    BY <1>1, <2>1, ModSmall
  <2> DEFINE c == (sent + i - 1) % Cap
  <2>3. c \in 0..Cap-1 /\ (c - tail) % Cap = i - 1
    BY <1>2, <2>1, <2>2
  <2> HIDE DEF c
  <2>4. Written(tail, n)[c] = sent + (i - 1) + 1
    BY <1>3, <2>3
  <2>5. sent + (i - 1) + 1 = sent + i
    BY <1>1
  <2> QED BY <2>4, <2>5 DEF c
<1>6. ASSUME NEW k \in 1..(sent - rcvd)
      PROVE  Written(tail, n)[(rcvd + k - 1) % Cap] = rcvd + k
  <2> DEFINE j == (rcvd + k - 1) - sent
             c == (rcvd + k - 1) % Cap
  <2>1. j \in Int /\ j + 1 * Cap \in n..Cap-1 /\ rcvd + k - 1 \in Int /\ j + 1 * Cap \in 0..Cap-1
    BY <1>1
  <2>2. j % Cap = j + 1 * Cap
    <3> HIDE DEF j
    <3>1. (j + 1 * Cap) % Cap = j % Cap
      <4>1. j \in Int /\ 1 \in Int /\ Cap \in Nat \ {0}
        BY <1>1, <2>1
      <4> QED BY <4>1, ModShift, Zenon
    <3> QED BY <1>1, <2>1, <3>1, ModSmall
  <2>3. c \in 0..Cap-1 /\ (c - tail) % Cap = j % Cap
    BY <1>2, <2>1
  <2> HIDE DEF c, j
  <2>4. ~((c - tail) % Cap < n)
    BY <1>1, <2>1, <2>2, <2>3
  <2>5. Written(tail, n)[c] = data[c]
    BY <1>3, <2>3, <2>4
  <2>6. data[c] = rcvd + k
    BY DEF Stream, Cells, c
  <2> QED BY <2>5, <2>6 DEF c
<1> QED BY <1>4, <1>5, <1>6

\* Nothing of the stream moves.
LEMMA StreamKept ==
  ASSUME Stream, UNCHANGED <<head, tail, data, sent, rcvd>>,
         \A p \in Procs : pc'[p] \in {"rdCommit", "wrCommit"} => pc'[p] = pc[p] /\ loc'[p] = loc[p]
  PROVE  Stream'
<1>1. Cells'
  BY DEF Stream, Cells
<1>2. InFlight'
  <2> SUFFICES ASSUME NEW p \in Procs, pc'[p] \in {"rdCommit", "wrCommit"}
               PROVE  /\ pc'[p] = "rdCommit" =>
                           loc'[p].at = head /\ Len(loc'[p].buf) <= sent - rcvd /\ InOrder(loc'[p].buf)
                      /\ pc'[p] = "wrCommit" =>
                           /\ loc'[p].at = tail /\ loc'[p].n <= Cap - (sent - rcvd)
                           /\ \A i \in 1..loc'[p].n : data[(sent + i - 1) % Cap] = sent + i
    BY DEF InFlight, InOrder
  <2>1. pc'[p] = pc[p] /\ loc'[p] = loc[p]
    OBVIOUS
  <2> QED BY <2>1 DEF Stream, InFlight
<1> QED BY <1>1, <1>2 DEF Stream

\* Bytes are consumed: the head moves over them.
LEMMA TakeStep ==
  ASSUME TypeOK, Stream, NEW n \in 0..(sent - rcvd), rcvd' = rcvd + n,
         head' = (head + n) % Wrap, UNCHANGED <<tail, data, sent>>,
         \A p \in Procs : /\ pc'[p] # "rdCommit"
                          /\ pc'[p] = "wrCommit" => pc'[p] = pc[p] /\ loc'[p] = loc[p]
  PROVE  Stream'
<1>1. sent \in Nat /\ rcvd \in Nat /\ Cap \in Nat \ {0} /\ Wrap \in Nat \ {0}
  BY RingAssumption DEF TypeOK
<1>2. head' = rcvd' % Wrap
  <2>1. rcvd \in Int /\ n \in Int
    BY <1>1
  <2>2. ((rcvd % Wrap) + n) % Wrap = (rcvd + n) % Wrap
    BY <2>1, RingIndex, Zenon
  <2> QED BY <2>2, Zenon DEF Stream
<1>3. Cells'
  <2> SUFFICES ASSUME NEW k \in 1..(sent - (rcvd + n))
               PROVE  data[((rcvd + n) + k - 1) % Cap] = (rcvd + n) + k
    BY DEF Cells
  <2>1. n + k \in 1..(sent - rcvd) /\ (rcvd + n) + k - 1 = rcvd + (n + k) - 1
        /\ (rcvd + n) + k = rcvd + (n + k)
    BY <1>1
  <2> QED BY <2>1 DEF Stream, Cells
<1>4. InFlight'
  <2> SUFFICES ASSUME NEW p \in Procs, pc'[p] = "wrCommit"
               PROVE  /\ loc'[p].at = tail /\ loc'[p].n <= Cap - (sent - (rcvd + n))
                      /\ \A i \in 1..loc'[p].n : data[(sent + i - 1) % Cap] = sent + i
    BY DEF InFlight
  <2>1. pc[p] = "wrCommit" /\ loc'[p] = loc[p] /\ loc[p].n \in Nat
    BY DEF TypeOK
  <2>2. loc[p].n <= Cap - (sent - rcvd) /\ loc[p].at = tail
        /\ \A i \in 1..loc[p].n : data[(sent + i - 1) % Cap] = sent + i
    BY <2>1 DEF Stream, InFlight
  <2> QED BY <1>1, <2>1, <2>2
<1> QED BY <1>1, <1>2, <1>3, <1>4 DEF Stream

\* Bytes are produced: the tail moves over cells already written.
LEMMA PutStep ==
  ASSUME TypeOK, Stream, NEW n \in 0..(Cap - (sent - rcvd)), sent' = sent + n,
         tail' = (tail + n) % Wrap, UNCHANGED <<head, rcvd>>,
         \A i \in 1..n : data'[(sent + i - 1) % Cap] = sent + i,
         \A k \in 1..(sent - rcvd) : data'[(rcvd + k - 1) % Cap] = rcvd + k,
         \A p \in Procs : /\ pc'[p] # "wrCommit"
                          /\ pc'[p] = "rdCommit" => pc'[p] = pc[p] /\ loc'[p] = loc[p]
  PROVE  Stream'
<1>1. sent \in Nat /\ rcvd \in Nat /\ Cap \in Nat \ {0} /\ Wrap \in Nat \ {0}
  BY RingAssumption DEF TypeOK
<1>2. tail' = sent' % Wrap
  <2>1. sent \in Int /\ n \in Int
    BY <1>1
  <2>2. ((sent % Wrap) + n) % Wrap = (sent + n) % Wrap
    BY <2>1, RingIndex, Zenon
  <2> QED BY <2>2, Zenon DEF Stream
<1>3. Cells'
  <2> SUFFICES ASSUME NEW k \in 1..((sent + n) - rcvd)
               PROVE  data'[(rcvd + k - 1) % Cap] = rcvd + k
    BY DEF Cells
  <2>1. CASE k <= sent - rcvd
    BY <1>1, <2>1
  <2>2. CASE k > sent - rcvd
    <3> DEFINE i == k - (sent - rcvd)
    <3>1. i \in 1..n /\ sent + i - 1 = rcvd + k - 1 /\ sent + i = rcvd + k
      BY <1>1, <2>2
    <3> HIDE DEF i
    <3>2. data'[(sent + i - 1) % Cap] = sent + i
      BY <3>1
    <3> QED BY <3>1, <3>2
  <2> QED BY <1>1, <2>1, <2>2
<1>4. InFlight'
  <2> SUFFICES ASSUME NEW p \in Procs, pc'[p] = "rdCommit"
               PROVE  /\ loc'[p].at = head /\ Len(loc'[p].buf) <= (sent + n) - rcvd
                      /\ \A i \in 1..Len(loc'[p].buf) : loc'[p].buf[i] = rcvd + i
    BY DEF InFlight, InOrder
  <2>1. pc[p] = "rdCommit" /\ loc'[p] = loc[p] /\ Len(loc[p].buf) \in Nat
    BY LenProperties DEF TypeOK
  <2>2. loc[p].at = head /\ Len(loc[p].buf) <= sent - rcvd /\ InOrder(loc[p].buf)
    BY <2>1 DEF Stream, InFlight
  <2> QED BY <1>1, <2>1, <2>2 DEF InOrder
<1> QED BY <1>1, <1>2, <1>3, <1>4 DEF Stream

(* -------------------------- types, step by step ------------------------- *)

Places == {"unborn", "idle", "eof", "blocked", "dead", "rdMode", "wrMode"} \cup FastReading \cup FastWriting

\* The ring's words, the rest of the books, and the processes, each typed.
RingTyped ==
  /\ mode \in {"LATENT", "FAST", "DEMOTED"} /\ {head, tail} \subseteq 0..Wrap-1
  /\ {sent, rcvd} \subseteq Nat /\ gone \subseteq Ends /\ data \in [0..Cap-1 -> Nat]
BooksTyped ==
  /\ flag \in [Ends -> BOOLEAN] /\ waiter \in [Procs -> Requests] /\ job.free \in Nat
  /\ kpc \in {"idle", "park", "rescan", "scan", "nread", "nwrite", "nsel", "unref", "fast"}
ProcsTyped ==
  /\ rpc \in [Procs -> Requests] /\ pc \in [Procs -> Places]
  /\ loc \in [Procs -> [n : Nat, at : 0..Wrap-1, buf : Seq(Nat)]]

\* The parts, with what IInv says of the holders, the queues and the handler.
LEMMA TypedParts == Shape => (TypeOK <=> RingTyped /\ BooksTyped /\ ProcsTyped)
<1> SUFFICES ASSUME Shape PROVE TypeOK <=> RingTyped /\ BooksTyped /\ ProcsTyped
  OBVIOUS
<1>1. /\ holders \in [Ends -> SUBSET Procs] /\ \A e \in Ends : queue[e] \in Seq(Procs)
      /\ job \in [p : Procs, todo : SUBSET Ends, reply : BOOLEAN, free : {job.free}, progress : BOOLEAN]
  BY DEF Shape, Jobs
<1>2. job \in [p : Procs, todo : SUBSET Ends, reply : BOOLEAN, free : Nat, progress : BOOLEAN]
        <=> job.free \in Nat
  BY <1>1
<1> QED BY <1>1, <1>2 DEF TypeOK, RingTyped, BooksTyped, ProcsTyped, Places

\* The same one step later.
LEMMA TypedPartsNext ==
  ASSUME IInv', RingTyped', BooksTyped', ProcsTyped'
  PROVE  TypeOK'
<1>1. /\ holders' \in [Ends -> SUBSET Procs] /\ \A e \in Ends : queue'[e] \in Seq(Procs)
      /\ job' \in [p : Procs, todo : SUBSET Ends, reply : BOOLEAN, free : {job'.free}, progress : BOOLEAN]
  BY DEF IInv, Shape, Jobs
<1>2. job' \in [p : Procs, todo : SUBSET Ends, reply : BOOLEAN, free : Nat, progress : BOOLEAN]
  BY <1>1 DEF BooksTyped
<1> QED BY <1>1, <1>2 DEF TypeOK, RingTyped, BooksTyped, ProcsTyped, Places

\* Requests are requests.
LEMMA RequestTyped ==
  /\ None \in Requests
  /\ \A op \in {"none", "read", "write", "wait", "kick", "close", "spawn"}, ends \in SUBSET Ends :
       Request(op, ends) \in Requests
  /\ \A r \in Requests : \A n \in Nat : [r EXCEPT !.n = n] \in Requests
  /\ \A r \in Requests : \A park \in BOOLEAN : [r EXCEPT !.park = park] \in Requests
  /\ \A r \in Requests : \A c \in Procs : [r EXCEPT !.child = c] \in Requests
  /\ \A r \in Requests : r.n \in Nat /\ r.then \in Places /\ r.ends \subseteq Ends /\ r.child \in Procs
<1> USE RingAssumption DEF Requests, None
<1>1. None \in Requests
  OBVIOUS
<1>2. ASSUME NEW op \in {"none", "read", "write", "wait", "kick", "close", "spawn"}, NEW ends \in SUBSET Ends
      PROVE  Request(op, ends) \in Requests
  BY DEF Request
<1> QED BY <1>1, <1>2 DEF Places

\* A program's place, its request and its registers.
LEMMA ProcsMove ==
  ASSUME ProcsTyped, NEW p \in Procs
  PROVE  /\ \A to \in Places : Goto(p, to) => pc' \in [Procs -> Places]
         /\ \A r \in Requests : Ask(p, r) => pc' \in [Procs -> Places] /\ rpc' \in [Procs -> Requests]
         /\ Forget(p) => loc' \in [Procs -> [n : Nat, at : 0..Wrap-1, buf : Seq(Nat)]]
<1>1. "blocked" \in Places
  BY DEF Places
<1>2. NoLocals \in [n : Nat, at : 0..Wrap-1, buf : Seq(Nat)]
  BY RingAssumption, EmptySeq DEF NoLocals
<1> QED BY <1>1, <1>2 DEF ProcsTyped, Goto, Ask, Forget

\* Calls that return leave the processes typed.
LEMMA ResponseTyped ==
  ASSUME ProcsTyped, NEW ps \in SUBSET Procs, NEW result, \A p \in ps : result[p] \in Places,
         Respond(ps, result)
  PROVE  pc' \in [Procs -> Places] /\ rpc' \in [Procs -> Requests]
BY RequestTyped DEF ProcsTyped, Respond

\* Taking a wait back leaves the books typed.
LEMMA CancelTyped ==
  ASSUME BooksTyped, NEW p \in Procs, Cancel(p)
  PROVE  flag' \in [Ends -> BOOLEAN] /\ waiter' \in [Procs -> Requests]
<1>1. \A e \in Ends : flag[e] \in BOOLEAN
  BY DEF BooksTyped
<1> QED BY <1>1, RequestTyped DEF BooksTyped, Cancel, Lowered

\* What the proofs below carry along and give back.
Typed == RingTyped /\ BooksTyped /\ ProcsTyped
AtCommit == {"rdCommit", "wrCommit"}

LEMMA TypedNow == ASSUME IInv, TypeOK PROVE Typed
BY TypedParts DEF IInv, Typed

\* A program's step that leaves the ring and the kernel alone.
LEMMA ProgramMoves ==
  ASSUME Typed, Stream, NEW p \in Procs, UNCHANGED <<ring, books, kernel, sent, rcvd>>, ProcsTyped',
         \A q \in Procs \ {p} : pc'[q] = pc[q] /\ loc'[q] = loc[q], pc'[p] \notin AtCommit
  PROVE  Typed' /\ Stream'
<1>1. RingTyped' /\ BooksTyped'
  BY DEF Typed, RingTyped, BooksTyped, ring, books, kernel
<1>2. \A q \in Procs : pc'[q] \in {"rdCommit", "wrCommit"} => pc'[q] = pc[q] /\ loc'[q] = loc[q]
  BY DEF AtCommit
<1>3. Stream'
  BY <1>2, StreamKept DEF ring
<1> QED BY <1>1, <1>3 DEF Typed

\* It goes on, or posts a request.
LEMMA ProgramGoes ==
  ASSUME Typed, Stream, NEW p \in Procs, NEW to \in Places, to \notin AtCommit, Goto(p, to),
         UNCHANGED <<ring, books, kernel, rpc, sent, rcvd>>, UNCHANGED loc \/ Forget(p)
  PROVE  Typed' /\ Stream'
<1>1. ProcsTyped'
  BY ProcsMove DEF ProcsTyped, Typed
<1>2. pc'[p] = to /\ \A q \in Procs \ {p} : pc'[q] = pc[q] /\ loc'[q] = loc[q]
  BY DEF Goto, Forget, Typed, ProcsTyped
<1> QED BY <1>1, <1>2, ProgramMoves

LEMMA ProgramAsks ==
  ASSUME Typed, Stream, NEW p \in Procs, NEW r \in Requests, Ask(p, r),
         UNCHANGED <<ring, books, kernel, sent, rcvd>>, UNCHANGED loc \/ Forget(p)
  PROVE  Typed' /\ Stream'
<1>1. ProcsTyped'
  BY ProcsMove DEF ProcsTyped, Typed
<1>2. pc'[p] = "blocked" /\ \A q \in Procs \ {p} : pc'[q] = pc[q] /\ loc'[q] = loc[q]
  BY DEF Ask, Goto, Forget, Typed, ProcsTyped
<1> QED BY <1>1, <1>2, ProgramMoves DEF AtCommit

\* The waits a full or an empty ring sends a program to.
LEMMA FastWaitTyped ==
  /\ [Request("wait", {"r"}) EXCEPT !.park = TRUE, !.then = "rdMode"] \in Requests
  /\ [Request("wait", {"w"}) EXCEPT !.park = TRUE, !.then = "wrMode"] \in Requests
BY RingAssumption DEF Requests, Request, None, Ends

\* The reader's local path: it copies out, then moves the head.
LEMMA ReaderKeeps ==
  ASSUME IInv, FastRoleIsSole, TypeOK, Stream, NEW p \in Procs,
         StartRead(p) \/ RdMode(p) \/ RdTake(p) \/ RdCommit(p) \/ RdKick(p) \/ RdGone(p)
  PROVE  Typed' /\ Stream'
<1>1. Typed
  BY TypedNow
<1>2. \A to \in {"rdMode", "rdTake", "rdGone", "rdKick", "idle", "eof"} :
        to \in Places /\ to \notin AtCommit
  BY DEF Places, FastReading, AtCommit
<1>3. \A e \in Ends : {e} \subseteq Ends /\ {} \subseteq Ends
  OBVIOUS
<1>4. CASE StartRead(p)
  BY <1>1, <1>2, <1>4, ProgramGoes DEF StartRead, Program
<1>5. CASE RdMode(p)
  <2>1. CASE Goto(p, "rdTake") /\ UNCHANGED rpc
    BY <1>1, <1>2, <1>5, <2>1, ProgramGoes DEF RdMode, Program
  <2>2. CASE Ask(p, [Request("read", {"r"}) EXCEPT !.n = ReadCount])
    <3>1. ReadCount \in Nat /\ Request("read", {"r"}) \in Requests
      BY RequestTyped, RingAssumption DEF Ends
    <3>2. [Request("read", {"r"}) EXCEPT !.n = ReadCount] \in Requests
      BY <3>1, RequestTyped
    <3> QED BY <1>1, <1>5, <2>2, <3>2, ProgramAsks DEF RdMode, Program
  <2> QED BY <1>5, <2>1, <2>2 DEF RdMode
<1>6. CASE RdTake(p)
  <2>1. CASE Avail > 0
    <3> DEFINE n == Least(ReadCount, Avail)
    <3>1. n \in 0..(sent - rcvd) /\ n \in Nat
      <4>1. ReadCount \in Nat \ {0} /\ Avail = sent - rcvd /\ Avail \in Nat
        BY RingLevels, RingAssumption
      <4> HIDE DEF Avail
      <4>2. n \in 0..Avail /\ n \in Nat
        BY <4>1 DEF Least
      <4> QED BY <4>1, <4>2
    <3> HIDE DEF n
    <3>2. Stored(head, n) \in Seq(Nat) /\ Len(Stored(head, n)) = n /\ InOrder(Stored(head, n))
      BY <3>1, StoredInOrder
    <3>3. /\ loc' = [loc EXCEPT ![p].at = head, ![p].buf = Stored(head, n)] /\ Goto(p, "rdCommit")
          /\ UNCHANGED <<ring, books, kernel, rpc, sent, rcvd>>
      BY <1>6, <2>1 DEF RdTake, Program, n
    <3>4. ProcsTyped'
      <4>1. pc' \in [Procs -> Places]
        BY <1>1, <3>3, ProcsMove DEF Places, FastReading, Typed
      <4>2. head \in 0..Wrap-1
        BY DEF TypeOK
      <4> QED BY <1>1, <3>2, <3>3, <4>1, <4>2 DEF Typed, ProcsTyped
    <3>5. RingTyped' /\ BooksTyped'
      BY <1>1, <3>3 DEF Typed, RingTyped, BooksTyped, ring, books, kernel
    <3>6. Cells'
      BY <3>3 DEF Stream, Cells, ring
    <3>7. InFlight'
      <4> SUFFICES ASSUME NEW q \in Procs
                   PROVE  /\ pc'[q] = "rdCommit" =>
                               loc'[q].at = head /\ Len(loc'[q].buf) <= sent - rcvd /\ InOrder(loc'[q].buf)
                          /\ pc'[q] = "wrCommit" =>
                               /\ loc'[q].at = tail /\ loc'[q].n <= Cap - (sent - rcvd)
                               /\ \A i \in 1..loc'[q].n : data[(sent + i - 1) % Cap] = sent + i
        BY <3>3, ZenonT(60) DEF InFlight, InOrder, ring
      <4>1. CASE q = p
        <5>1. pc'[p] = "rdCommit" /\ loc'[p].at = head /\ loc'[p].buf = Stored(head, n)
          BY <1>1, <3>3 DEF Typed, ProcsTyped, Goto
        <5>2. n <= sent - rcvd
          BY <3>1 DEF TypeOK
        <5> QED BY <3>2, <4>1, <5>1, <5>2
      <4>2. CASE q # p
        <5>1. pc'[q] = pc[q] /\ loc'[q] = loc[q]
          BY <1>1, <3>3, <4>2 DEF Typed, ProcsTyped, Goto
        <5> QED BY <5>1 DEF Stream, InFlight
      <4> QED BY <4>1, <4>2
    <3> QED BY <3>3, <3>4, <3>5, <3>6, <3>7 DEF Stream, Typed, ring
  <2>2. CASE ~(Avail > 0)
    BY <1>1, <1>2, <1>6, <2>2, ProgramGoes DEF RdTake, Program
  <2> QED BY <2>1, <2>2
<1>7. CASE RdCommit(p)
  <2> DEFINE n == Len(loc[p].buf)
  <2>1. /\ pc[p] = "rdCommit" /\ n \in 0..(sent - rcvd) /\ loc[p].at = head /\ n \in Nat
    BY <1>7, LenProperties DEF RdCommit, TypeOK, Stream, InFlight
  <2> HIDE DEF n
  <2>2. /\ head' = (head + n) % Wrap /\ rcvd' = rcvd + n /\ Forget(p) /\ Goto(p, "rdKick")
        /\ UNCHANGED <<mode, tail, gone, flag, data, books, kernel, rpc, sent>>
    BY <1>7, <2>1 DEF RdCommit, Program, n
  <2>3. \A q \in Procs : pc[q] = "rdCommit" => q = p
    BY <2>1 DEF FastRoleIsSole, FastReading
  <2>4. \A q \in Procs : /\ pc'[q] # "rdCommit"
                         /\ pc'[q] = "wrCommit" => pc'[q] = pc[q] /\ loc'[q] = loc[q]
    BY <1>1, <2>2, <2>3 DEF Goto, Forget, Typed, ProcsTyped
  <2>5. Stream'
    BY <2>1, <2>2, <2>4, TakeStep
  <2>6. ProcsTyped'
    BY <1>1, <1>2, <2>2, ProcsMove DEF ProcsTyped, Typed
  <2>7. head' \in 0..Wrap-1 /\ rcvd' \in Nat
    <3>1. head + n \in Int /\ rcvd + n \in Nat
      <4>1. head \in Int /\ rcvd \in Nat
        BY RingAssumption DEF TypeOK
      <4> QED BY <2>1, <4>1
    <3>2. (head + n) % Wrap \in 0..Wrap-1
      BY <3>1, RingIndex, Zenon
    <3> QED BY <2>2, <3>1, <3>2
  <2>8. RingTyped' /\ BooksTyped'
    BY <1>1, <2>2, <2>7 DEF Typed, RingTyped, BooksTyped, books, kernel
  <2> QED BY <2>5, <2>6, <2>8 DEF Typed
<1>8. CASE RdKick(p)
  <2>1. CASE Ask(p, Request("kick", {}))
    BY <1>1, <1>8, <2>1, RequestTyped, ProgramAsks DEF RdKick, Program
  <2>2. CASE Goto(p, "idle") /\ UNCHANGED rpc
    BY <1>1, <1>2, <1>8, <2>2, ProgramGoes DEF RdKick, Program
  <2> QED BY <1>8, <2>1, <2>2 DEF RdKick
<1>9. CASE RdGone(p)
  <2>1. CASE Ask(p, [Request("wait", {"r"}) EXCEPT !.park = TRUE, !.then = "rdMode"])
    BY <1>1, <1>9, <2>1, FastWaitTyped, ProgramAsks DEF RdGone, Program
  <2>2. CASE Goto(p, "eof") /\ UNCHANGED rpc
    BY <1>1, <1>2, <1>9, <2>2, ProgramGoes DEF RdGone, Program
  <2> QED BY <1>9, <2>1, <2>2 DEF RdGone
<1> QED BY <1>4, <1>5, <1>6, <1>7, <1>8, <1>9

\* The writer's local path: it copies in, then moves the tail.
LEMMA WriterKeeps ==
  ASSUME IInv, FastRoleIsSole, TypeOK, Stream, NEW p \in Procs,
         StartWrite(p) \/ WrMode(p) \/ WrGone(p) \/ WrPut(p) \/ WrCommit(p) \/ WrKick(p)
  PROVE  Typed' /\ Stream'
<1>1. Typed
  BY TypedNow
<1>2. \A to \in {"wrGone", "wrPut", "wrKick", "idle"} : to \in Places /\ to \notin AtCommit
  BY DEF Places, FastWriting, AtCommit
<1>3. CASE StartWrite(p)
  <2>1. PICK n \in WriteSizes : loc' = [loc EXCEPT ![p].n = n]
    BY <1>3 DEF StartWrite
  <2>2. n \in Nat /\ pc' = [pc EXCEPT ![p] = "wrMode"] /\ UNCHANGED <<ring, books, kernel, rpc, sent, rcvd>>
    BY <1>3, RingAssumption DEF StartWrite, Goto, Program
  <2>3. ProcsTyped'
    BY <1>1, <2>1, <2>2 DEF Typed, ProcsTyped, Places
  <2>4. pc'[p] = "wrMode" /\ \A q \in Procs \ {p} : pc'[q] = pc[q] /\ loc'[q] = loc[q]
    BY <1>1, <2>1, <2>2 DEF Typed, ProcsTyped
  <2> QED BY <1>1, <2>2, <2>3, <2>4, ProgramMoves DEF AtCommit
<1>4. CASE WrMode(p)
  <2>1. CASE Goto(p, "wrGone") /\ UNCHANGED <<loc, rpc>>
    BY <1>1, <1>2, <1>4, <2>1, ProgramGoes DEF WrMode, Program
  <2>2. CASE Ask(p, [Request("write", {"w"}) EXCEPT !.n = loc[p].n]) /\ Forget(p)
    <3>1. loc[p].n \in Nat /\ Request("write", {"w"}) \in Requests
      BY RequestTyped DEF TypeOK, Ends
    <3>2. [Request("write", {"w"}) EXCEPT !.n = loc[p].n] \in Requests
      BY <3>1, RequestTyped
    <3> QED BY <1>1, <1>4, <2>2, <3>2, ProgramAsks DEF WrMode, Program
  <2> QED BY <1>4, <2>1, <2>2 DEF WrMode
<1>5. CASE WrGone(p)
  <2>1. CASE Ask(p, Request("kick", {})) /\ Forget(p)
    BY <1>1, <1>5, <2>1, RequestTyped, ProgramAsks DEF WrGone, Program
  <2>2. CASE Goto(p, "wrPut") /\ UNCHANGED <<loc, rpc>>
    BY <1>1, <1>2, <1>5, <2>2, ProgramGoes DEF WrGone, Program
  <2> QED BY <1>5, <2>1, <2>2 DEF WrGone
<1>6. CASE WrPut(p)
  <2>1. CASE Blocked(loc[p].n, Free)
    <3>1. /\ Ask(p, [Request("wait", {"w"}) EXCEPT !.park = TRUE, !.then = "wrMode"])
          /\ UNCHANGED <<ring, books, kernel, loc, sent, rcvd>>
      BY <1>6, <2>1 DEF WrPut, Program, ring
    <3> QED BY <1>1, <3>1, FastWaitTyped, ProgramAsks
  <2>2. CASE ~Blocked(loc[p].n, Free)
    <3> DEFINE n == Least(loc[p].n, Free)
    <3>1. n \in 0..(Cap - (sent - rcvd)) /\ n \in Nat /\ n <= Cap - (sent - rcvd)
      <4>1. loc[p].n \in Nat /\ Free = Cap - (sent - rcvd) /\ Free \in Nat
        BY RingLevels, SMTT(30) DEF TypeOK
      <4> HIDE DEF Free
      <4>2. n \in 0..Free /\ n \in Nat
        BY <4>1 DEF Least
      <4> QED BY <4>1, <4>2
    <3> HIDE DEF n
    <3>2. /\ data' = Written(tail, n) /\ loc' = [loc EXCEPT ![p].at = tail, ![p].n = n]
          /\ pc[p] = "wrPut" /\ Goto(p, "wrCommit")
          /\ UNCHANGED <<mode, head, tail, gone, flag, books, kernel, rpc, sent, rcvd>>
      BY <1>6, <2>2 DEF WrPut, Program, n
    <3>3. /\ data' \in [0..Cap-1 -> Nat]
          /\ \A i \in 1..n : data'[(sent + i - 1) % Cap] = sent + i
          /\ \A k \in 1..(sent - rcvd) : data'[(rcvd + k - 1) % Cap] = rcvd + k
      BY <3>1, <3>2, WrittenCells
    <3>4. ProcsTyped'
      <4>1. pc' \in [Procs -> Places]
        BY <1>1, <3>2, ProcsMove DEF Places, FastWriting, Typed
      <4>2. tail \in 0..Wrap-1
        BY DEF TypeOK
      <4> QED BY <1>1, <3>1, <3>2, <4>1, <4>2 DEF Typed, ProcsTyped
    <3>5. RingTyped' /\ BooksTyped'
      BY <1>1, <3>2, <3>3 DEF Typed, RingTyped, BooksTyped, books, kernel
    <3>6. Cells'
      BY <3>2, <3>3 DEF Cells
    <3>7. \A q \in Procs \ {p} : pc[q] # "wrCommit"
      BY <3>2 DEF FastRoleIsSole, FastWriting
    <3>8. InFlight'
      <4> SUFFICES ASSUME NEW q \in Procs
                   PROVE  /\ pc'[q] = "rdCommit" =>
                               loc'[q].at = head /\ Len(loc'[q].buf) <= sent - rcvd /\ InOrder(loc'[q].buf)
                          /\ pc'[q] = "wrCommit" =>
                               /\ loc'[q].at = tail /\ loc'[q].n <= Cap - (sent - rcvd)
                               /\ \A i \in 1..loc'[q].n : data'[(sent + i - 1) % Cap] = sent + i
        BY <3>2, ZenonT(60) DEF InFlight, InOrder
      <4>1. CASE q = p
        <5>1. pc'[p] = "wrCommit" /\ loc'[p].at = tail /\ loc'[p].n = n
          BY <1>1, <3>2 DEF Typed, ProcsTyped, Goto
        <5> QED BY <3>1, <3>3, <4>1, <5>1
      <4>2. CASE q # p
        <5>1. pc'[q] = pc[q] /\ loc'[q] = loc[q] /\ pc[q] # "wrCommit"
          BY <1>1, <3>2, <3>7, <4>2 DEF Typed, ProcsTyped, Goto
        <5> QED BY <5>1 DEF Stream, InFlight
      <4> QED BY <4>1, <4>2
    <3> QED BY <3>2, <3>4, <3>5, <3>6, <3>8 DEF Stream, Typed
  <2> QED BY <2>1, <2>2
<1>7. CASE WrCommit(p)
  <2> DEFINE n == loc[p].n
  <2>1. /\ pc[p] = "wrCommit" /\ n \in 0..(Cap - (sent - rcvd)) /\ loc[p].at = tail /\ n \in Nat
        /\ \A i \in 1..n : data[(sent + i - 1) % Cap] = sent + i
    <3>1. pc[p] = "wrCommit" /\ n \in Nat
      BY <1>7 DEF WrCommit, TypeOK
    <3>2. /\ n <= Cap - (sent - rcvd) /\ loc[p].at = tail
          /\ \A i \in 1..n : data[(sent + i - 1) % Cap] = sent + i
      BY <3>1 DEF Stream, InFlight
    <3>3. Cap - (sent - rcvd) \in Int
      BY RingAssumption, SMTT(30) DEF TypeOK
    <3> QED BY <3>1, <3>2, <3>3
  <2> HIDE DEF n
  <2>2. /\ tail' = (tail + n) % Wrap /\ sent' = sent + n /\ Forget(p) /\ Goto(p, "wrKick")
        /\ UNCHANGED <<mode, head, gone, flag, data, books, kernel, rpc, rcvd>>
    BY <1>7, <2>1 DEF WrCommit, Program, n
  <2>3. \A q \in Procs : pc[q] = "wrCommit" => q = p
    BY <2>1 DEF FastRoleIsSole, FastWriting
  <2>4. \A q \in Procs : /\ pc'[q] # "wrCommit"
                         /\ pc'[q] = "rdCommit" => pc'[q] = pc[q] /\ loc'[q] = loc[q]
    BY <1>1, <2>2, <2>3 DEF Goto, Forget, Typed, ProcsTyped
  <2>5. \A k \in 1..(sent - rcvd) : data[(rcvd + k - 1) % Cap] = rcvd + k
    BY DEF Stream, Cells
  <2>6. Stream'
    BY <2>1, <2>2, <2>4, <2>5, PutStep
  <2>7. ProcsTyped'
    BY <1>1, <1>2, <2>2, ProcsMove DEF ProcsTyped, Typed
  <2>8. tail' \in 0..Wrap-1 /\ sent' \in Nat
    <3>1. tail + n \in Int /\ sent + n \in Nat
      <4>1. tail \in Int /\ sent \in Nat
        BY RingAssumption DEF TypeOK
      <4> QED BY <2>1, <4>1
    <3>2. (tail + n) % Wrap \in 0..Wrap-1
      BY <3>1, RingIndex, Zenon
    <3> QED BY <2>2, <3>1, <3>2
  <2>9. RingTyped' /\ BooksTyped'
    BY <1>1, <2>2, <2>8 DEF Typed, RingTyped, BooksTyped, books, kernel
  <2> QED BY <2>6, <2>7, <2>9 DEF Typed
<1>8. CASE WrKick(p)
  <2>1. CASE Ask(p, Request("kick", {}))
    BY <1>1, <1>8, <2>1, RequestTyped, ProgramAsks DEF WrKick, Program
  <2>2. CASE Goto(p, "idle") /\ UNCHANGED rpc
    BY <1>1, <1>2, <1>8, <2>2, ProgramGoes DEF WrKick, Program
  <2> QED BY <1>8, <2>1, <2>2 DEF WrKick
<1> QED BY <1>3, <1>4, <1>5, <1>6, <1>7, <1>8

\* Operations that are always brokered.
LEMMA AskerKeeps ==
  ASSUME IInv, TypeOK, Stream, NEW p \in Procs, StartSelect(p) \/ StartClose(p) \/ StartSpawn(p)
  PROVE  Typed' /\ Stream'
<1>1. Typed
  BY TypedNow
<1>2. CASE StartSelect(p)
  <2>1. PICK ends \in SUBSET Held(p), how \in Selects :
          Ask(p, [Request("wait", ends) EXCEPT !.park = (how = "park")])
    BY <1>2 DEF StartSelect
  <2>2. ends \in SUBSET Ends /\ (how = "park") \in BOOLEAN
    BY DEF Held
  <2>3. Request("wait", ends) \in Requests
    BY <2>2, RequestTyped
  <2>4. [Request("wait", ends) EXCEPT !.park = (how = "park")] \in Requests
    BY <2>2, <2>3, RequestTyped
  <2> QED BY <1>1, <1>2, <2>1, <2>4, ProgramAsks DEF StartSelect, Program
<1>3. CASE StartClose(p)
  <2>1. PICK e \in Held(p) : Ask(p, Request("close", {e}))
    BY <1>3 DEF StartClose
  <2>2. {e} \in SUBSET Ends
    BY DEF Held
  <2>3. Request("close", {e}) \in Requests
    BY <2>2, RequestTyped
  <2> QED BY <1>1, <1>3, <2>1, <2>3, ProgramAsks DEF StartClose, Program
<1>4. CASE StartSpawn(p)
  <2>1. PICK c \in Procs, keep \in SUBSET Held(p) :
          Ask(p, [Request("spawn", keep) EXCEPT !.child = c])
    BY <1>4 DEF StartSpawn
  <2>2. keep \in SUBSET Ends
    BY DEF Held
  <2>3. Request("spawn", keep) \in Requests
    BY <2>2, RequestTyped
  <2>4. [Request("spawn", keep) EXCEPT !.child = c] \in Requests
    BY <2>3, RequestTyped
  <2> QED BY <1>1, <1>4, <2>1, <2>4, ProgramAsks DEF StartSpawn, Program
<1> QED BY <1>2, <1>3, <1>4

\* Calls that return leave every local operation where it is.
LEMMA ResponsePlaces ==
  ASSUME Typed, NEW ps \in SUBSET Procs, NEW result, \A p \in ps : result[p] \in Places \ AtCommit,
         Respond(ps, result), UNCHANGED loc \/ \E p \in ps : Forget(p)
  PROVE  /\ ProcsTyped'
         /\ \A q \in Procs : pc'[q] \in {"rdCommit", "wrCommit"} => pc'[q] = pc[q] /\ loc'[q] = loc[q]
<1>1. pc' \in [Procs -> Places] /\ rpc' \in [Procs -> Requests]
  BY ResponseTyped DEF Typed
<1>2. loc' \in [Procs -> [n : Nat, at : 0..Wrap-1, buf : Seq(Nat)]]
  BY ProcsMove DEF Typed, ProcsTyped
<1>3. ASSUME NEW q \in Procs, pc'[q] \in {"rdCommit", "wrCommit"}
      PROVE  pc'[q] = pc[q] /\ loc'[q] = loc[q]
  <2>1. q \notin ps /\ pc'[q] = pc[q]
    BY <1>3 DEF Respond, AtCommit
  <2> QED BY <2>1 DEF Forget, Typed, ProcsTyped
<1> QED BY <1>1, <1>2, <1>3 DEF ProcsTyped

\* Where an answered call returns to.
LEMMA ReturnPlaces ==
  ASSUME TypeOK, NEW p \in Procs
  PROVE  /\ \A q \in {p} : Then(p)[q] \in Places \ AtCommit
         /\ \A to \in {"eof", "idle", "dead"} : \A q \in {p} : Returns(p, to)[q] \in Places \ AtCommit
         /\ rpc[p].then \in Places \ AtCommit
<1>1. rpc[p].then \in {"idle", "rdMode", "wrMode"}
  BY DEF TypeOK, Requests
<1> QED BY <1>1 DEF Then, Returns, Places, AtCommit

\* A kernel's step that moves no bytes.
LEMMA KernelMoves ==
  ASSUME Typed, Stream, UNCHANGED <<head, tail, data, sent, rcvd>>, ProcsTyped', BooksTyped',
         \A q \in Procs : pc'[q] \in {"rdCommit", "wrCommit"} => pc'[q] = pc[q] /\ loc'[q] = loc[q],
         mode' \in {"LATENT", "FAST", "DEMOTED"}, gone' \subseteq Ends
  PROVE  Typed' /\ Stream'
<1>1. RingTyped'
  BY DEF Typed, RingTyped
<1> QED BY <1>1, StreamKept DEF Typed

\* The handler's books as calls are taken up and end.
LEMMA JobTyped ==
  /\ NoJob.free \in Nat
  /\ \A p \in Procs : Job(p).free \in Nat
BY DEF NoJob, Job

\* The kernel consumes for a reader: nobody is at the ring in that role.
LEMMA KernelTakes ==
  ASSUME FastRoleIsSole, TypeOK, Typed, Stream, NEW p \in Procs, rpc[p].op = "read",
         NEW n \in Nat, Take(Least(n, Avail)), Respond({p}, Then(p)),
         UNCHANGED <<mode, tail, gone, data, loc, sent>>, BooksTyped'
  PROVE  Typed' /\ Stream'
<1> DEFINE m == Least(n, Avail)
<1>1. m \in 0..(sent - rcvd) /\ m \in Nat
  <2>1. Avail = sent - rcvd /\ Avail \in Nat
    BY RingLevels
  <2> HIDE DEF Avail
  <2>2. m \in 0..Avail /\ m \in Nat
    BY <2>1 DEF Least
  <2> QED BY <2>1, <2>2
<1> HIDE DEF m
<1>2. head' = (head + m) % Wrap /\ rcvd' = rcvd + m
  BY DEF Take, m
<1>3. ProcsTyped' /\ \A q \in Procs : pc'[q] \in {"rdCommit", "wrCommit"} => pc'[q] = pc[q] /\ loc'[q] = loc[q]
  BY ReturnPlaces, ResponsePlaces
<1>4. \A q \in Procs : pc[q] # "rdCommit"
  BY DEF FastRoleIsSole, FastReading
<1>5. \A q \in Procs : /\ pc'[q] # "rdCommit"
                       /\ pc'[q] = "wrCommit" => pc'[q] = pc[q] /\ loc'[q] = loc[q]
  BY <1>3, <1>4
<1>6. Stream'
  BY <1>1, <1>2, <1>5, TakeStep
<1>7. head' \in 0..Wrap-1 /\ rcvd' \in Nat
  <2>1. head \in Int /\ rcvd \in Nat
    BY RingAssumption DEF TypeOK
  <2>2. head + m \in Int /\ rcvd + m \in Nat
    BY <1>1, <2>1
  <2>3. (head + m) % Wrap \in 0..Wrap-1
    BY <2>2, RingIndex, Zenon
  <2> QED BY <1>2, <2>2, <2>3
<1>8. RingTyped'
  BY <1>7 DEF Typed, RingTyped
<1> QED BY <1>3, <1>6, <1>8 DEF Typed

\* The kernel produces for a writer.
LEMMA KernelPuts ==
  ASSUME FastRoleIsSole, TypeOK, Typed, Stream, NEW p \in Procs, rpc[p].op = "write",
         NEW n \in Nat, Put(Least(n, Free)), Respond({p}, Then(p)),
         UNCHANGED <<mode, head, gone, loc, rcvd>>, BooksTyped'
  PROVE  Typed' /\ Stream'
<1> DEFINE m == Least(n, Free)
<1>1. m \in 0..(Cap - (sent - rcvd)) /\ m \in Nat
  <2>1. Free = Cap - (sent - rcvd) /\ Free \in Nat
    BY RingLevels
  <2> HIDE DEF Free
  <2>2. m \in 0..Free /\ m \in Nat
    BY <2>1 DEF Least
  <2> QED BY <2>1, <2>2
<1> HIDE DEF m
<1>2. data' = Written(tail, m) /\ tail' = (tail + m) % Wrap /\ sent' = sent + m
  BY DEF Put, m
<1>3. /\ data' \in [0..Cap-1 -> Nat]
      /\ \A i \in 1..m : data'[(sent + i - 1) % Cap] = sent + i
      /\ \A k \in 1..(sent - rcvd) : data'[(rcvd + k - 1) % Cap] = rcvd + k
  BY <1>1, <1>2, WrittenCells
<1>4. ProcsTyped' /\ \A q \in Procs : pc'[q] \in {"rdCommit", "wrCommit"} => pc'[q] = pc[q] /\ loc'[q] = loc[q]
  BY ReturnPlaces, ResponsePlaces
<1>5. \A q \in Procs : pc[q] # "wrCommit"
  BY DEF FastRoleIsSole, FastWriting
<1>6. \A q \in Procs : /\ pc'[q] # "wrCommit"
                       /\ pc'[q] = "rdCommit" => pc'[q] = pc[q] /\ loc'[q] = loc[q]
  BY <1>4, <1>5
<1>7. Stream'
  BY <1>1, <1>2, <1>3, <1>6, PutStep
<1>8. tail' \in 0..Wrap-1 /\ sent' \in Nat
  <2>1. tail \in Int /\ sent \in Nat
    BY RingAssumption DEF TypeOK
  <2>2. tail + m \in Int /\ sent + m \in Nat
    BY <1>1, <2>1
  <2>3. (tail + m) % Wrap \in 0..Wrap-1
    BY <2>2, RingIndex, Zenon
  <2> QED BY <1>2, <2>2, <2>3
<1>9. RingTyped'
  BY <1>3, <1>8 DEF Typed, RingTyped
<1> QED BY <1>4, <1>7, <1>9 DEF Typed

\* The kernel's steps for one call.
LEMMA CallKeeps ==
  ASSUME IInv, FastRoleIsSole, TypeOK, Stream, NEW p \in Procs,
         \/ ReadRpc(p) \/ WriteRpc(p) \/ WaitRpc(p) \/ KickRpc(p)
         \/ SpawnRpc(p) \/ SpawnFails(p) \/ CloseRpc(p) \/ Die(p) \/ Interrupt(p)
  PROVE  Typed' /\ Stream'
<1>1. Typed /\ {p} \in SUBSET Procs
  BY TypedNow
<1>2. mode \in {"LATENT", "FAST", "DEMOTED"} /\ gone \subseteq Ends
  BY DEF TypeOK
<1>3. ReadCount \in Nat /\ rpc[p].n \in Nat /\ rpc[p].child \in Procs /\ Free \in Nat /\ rpc[p].then \in Places \ AtCommit
  <2>1. rpc[p] \in Requests
    BY DEF TypeOK
  <2>2. rpc[p].n \in Nat /\ rpc[p].child \in Procs
    BY <2>1, RequestTyped
  <2>3. Free \in Nat
    BY RingLevels
  <2> QED BY <2>2, <2>3, ReturnPlaces, RingAssumption
<1> HIDE DEF Free
<1>4. ASSUME UNCHANGED <<flag, waiter>>, kpc' \in {kpc, "nread", "park", "scan", "unref"}, job'.free \in Nat
      PROVE  BooksTyped'
  BY <1>1, <1>4 DEF Typed, BooksTyped
<1>5. job.free \in Nat /\ Job(p).free \in Nat
  BY <1>1, JobTyped DEF Typed, BooksTyped
<1>6. ASSUME UNCHANGED <<rpc, pc, loc>>
      PROVE  /\ ProcsTyped'
             /\ \A q \in Procs : pc'[q] \in {"rdCommit", "wrCommit"} => pc'[q] = pc[q] /\ loc'[q] = loc[q]
  BY <1>1, <1>6 DEF Typed, ProcsTyped
<1>7. ASSUME UNCHANGED loc \/ Forget(p),
             Respond({p}, Then(p)) \/ \E to \in {"eof", "idle", "dead"} : Respond({p}, Returns(p, to))
      PROVE  /\ ProcsTyped'
             /\ \A q \in Procs : pc'[q] \in {"rdCommit", "wrCommit"} => pc'[q] = pc[q] /\ loc'[q] = loc[q]
  BY <1>1, <1>7, ReturnPlaces, ResponsePlaces
<1>8. CASE ReadRpc(p)
  <2>1. UNCHANGED <<mode, tail, gone, flag, data, waiter, loc, sent>> /\ rpc[p].op = "read"
    BY <1>8 DEF ReadRpc, books
  <2>2. CASE Take(Least(ReadCount, Avail)) /\ Respond({p}, Then(p)) /\ kpc' = "nread" /\ UNCHANGED job
    BY <1>1, <1>3, <1>4, <1>5, <2>1, <2>2, KernelTakes
  <2>3. CASE Respond({p}, Returns(p, "eof")) /\ UNCHANGED <<head, rcvd, kernel>>
    <3>1. UNCHANGED <<kpc, job>>
      BY <2>3 DEF kernel
    <3> QED BY <1>1, <1>2, <1>4, <1>5, <1>7, <2>1, <2>3, <3>1, KernelMoves
  <2>4. CASE kpc' = "park" /\ job' = Job(p) /\ UNCHANGED <<head, rcvd, rpc, pc>>
    BY <1>1, <1>2, <1>4, <1>5, <1>6, <2>1, <2>4, KernelMoves
  <2> QED BY <1>8, <2>2, <2>3, <2>4 DEF ReadRpc
<1>9. CASE WriteRpc(p)
  <2>1. UNCHANGED <<mode, head, gone, flag, waiter, loc, rcvd>> /\ rpc[p].op = "write"
    BY <1>9 DEF WriteRpc, books
  <2>2. CASE Respond({p}, Then(p)) /\ UNCHANGED <<data, tail, sent, kernel>>
    <3>1. UNCHANGED <<kpc, job>>
      BY <2>2 DEF kernel
    <3> QED BY <1>1, <1>2, <1>4, <1>5, <1>7, <2>1, <2>2, <3>1, KernelMoves
  <2>3. CASE Put(Least(rpc[p].n, Free)) /\ Respond({p}, Then(p)) /\ kpc' = "nread" /\ UNCHANGED job
    BY <1>1, <1>3, <1>4, <1>5, <2>1, <2>3, KernelPuts
  <2>4. CASE kpc' = "park" /\ job' = [Job(p) EXCEPT !.free = Free] /\ UNCHANGED <<data, tail, sent, rpc, pc>>
    <3>1. job'.free \in Nat
      BY <1>3, <2>4 DEF Job, NoJob
    <3> QED BY <1>1, <1>2, <1>4, <1>6, <2>1, <2>4, <3>1, KernelMoves
  <2> QED BY <1>9, <2>2, <2>3, <2>4 DEF WriteRpc
<1>10. CASE WaitRpc(p)
  <2>1. /\ UNCHANGED <<mode, head, tail, gone, data, waiter, rpc, pc, loc, sent, rcvd>>
        /\ flag' = [e \in Ends |-> flag[e] \/ e \in rpc[p].ends] /\ job' = Job(p) /\ kpc' = "scan"
    BY <1>10 DEF WaitRpc, books, procs
  <2>2. BooksTyped'
    BY <1>1, <1>5, <2>1 DEF Typed, BooksTyped
  <2> QED BY <1>1, <1>2, <1>6, <2>1, <2>2, KernelMoves
<1>11. CASE KickRpc(p)
  <2>1. /\ UNCHANGED <<mode, head, tail, gone, flag, data, waiter, job, loc, sent, rcvd>>
        /\ Respond({p}, Then(p)) /\ kpc' = "nread"
    BY <1>11 DEF KickRpc, books, ring
  <2> QED BY <1>1, <1>2, <1>4, <1>5, <1>7, <2>1, KernelMoves
<1>12. CASE SpawnRpc(p)
  <2> DEFINE c == rpc[p].child
  <2>1. /\ UNCHANGED <<head, tail, gone, data, waiter, loc, sent, rcvd>>
        /\ mode' \in {mode, "DEMOTED"} /\ c \in Procs
        /\ \/ /\ flag' = Requeued /\ kpc' = "fast" /\ job' = [Job(p) EXCEPT !.reply = TRUE]
              /\ pc' = [pc EXCEPT ![c] = "idle"] /\ UNCHANGED rpc
           \/ /\ rpc' = [rpc EXCEPT ![p] = None] /\ pc' = [pc EXCEPT ![c] = "idle", ![p] = rpc[p].then]
              /\ UNCHANGED <<flag, kpc, job>>
    BY <1>3, <1>12 DEF SpawnRpc, kernel
  <2>2. BooksTyped'
    <3>1. [Job(p) EXCEPT !.reply = TRUE].free \in Nat
      BY <1>5 DEF Job, NoJob
    <3>2. Requeued \in [Ends -> BOOLEAN]
      BY <1>1 DEF Typed, BooksTyped, Requeued
    <3> QED BY <1>1, <2>1, <3>1, <3>2 DEF Typed, BooksTyped
  <2> HIDE DEF c
  <2>3. "idle" \in Places \ AtCommit
    BY DEF Places, AtCommit
  <2>4. ProcsTyped'
    <3>1. /\ rpc \in [Procs -> Requests] /\ pc \in [Procs -> Places]
          /\ loc \in [Procs -> [n : Nat, at : 0..Wrap-1, buf : Seq(Nat)]]
      BY <1>1 DEF Typed, ProcsTyped
    <3>2. None \in Requests /\ rpc[p].then \in Places
      BY <3>1, RequestTyped
    <3>3. pc' \in [Procs -> Places]
      BY ONLY <2>1, <2>3, <3>1, <3>2
    <3>4. rpc' \in [Procs -> Requests]
      BY ONLY <2>1, <3>1, <3>2
    <3> QED BY ONLY <2>1, <3>1, <3>3, <3>4 DEF ProcsTyped
  <2>5. \A q \in Procs : pc'[q] \in {"rdCommit", "wrCommit"} => pc'[q] = pc[q] /\ loc'[q] = loc[q]
    BY <1>1, <1>3, <2>1, <2>3 DEF Typed, ProcsTyped, AtCommit
  <2> QED BY <1>1, <1>2, <2>1, <2>2, <2>4, <2>5, KernelMoves
<1>13. CASE SpawnFails(p)
  <2>1. /\ UNCHANGED <<mode, head, tail, gone, flag, data, waiter, kpc, job, loc, sent, rcvd>>
        /\ Respond({p}, Then(p))
    BY <1>13 DEF SpawnFails, books, ring, kernel
  <2> QED BY <1>1, <1>2, <1>4, <1>5, <1>7, <2>1, KernelMoves
<1>14. CASE CloseRpc(p)
  <2>1. /\ UNCHANGED <<mode, head, tail, gone, flag, data, waiter, rpc, pc, loc, sent, rcvd>>
        /\ job' = [Job(p) EXCEPT !.todo = rpc[p].ends, !.reply = TRUE] /\ kpc' = "unref"
    BY <1>14 DEF CloseRpc, books, ring, procs
  <2>2. job'.free \in Nat
    BY <2>1 DEF Job, NoJob
  <2> QED BY <1>1, <1>2, <1>4, <1>6, <2>1, <2>2, KernelMoves
<1>15. CASE Die(p)
  <2>1. /\ UNCHANGED <<mode, head, tail, gone, data, sent, rcvd>> /\ Cancel(p)
        /\ Respond({p}, Returns(p, "dead")) /\ Forget(p) /\ kpc' = "unref"
        /\ job' = [Job(p) EXCEPT !.todo = Held(p)]
    BY <1>15 DEF Die
  <2>2. job'.free \in Nat
    BY <2>1 DEF Job, NoJob
  <2>3. BooksTyped'
    BY <1>1, <2>1, <2>2, CancelTyped DEF Typed, BooksTyped
  <2> QED BY <1>1, <1>2, <1>7, <2>1, <2>3, KernelMoves
<1>16. CASE Interrupt(p)
  <2>1. /\ UNCHANGED <<mode, head, tail, gone, data, kpc, job, sent, rcvd>> /\ Cancel(p)
        /\ Respond({p}, Returns(p, "idle")) /\ Forget(p)
    BY <1>16 DEF Interrupt, kernel
  <2>3. BooksTyped'
    BY <1>1, <2>1, CancelTyped DEF Typed, BooksTyped
  <2> QED BY <1>1, <1>2, <1>7, <2>1, <2>3, KernelMoves
<1> QED BY <1>8, <1>9, <1>10, <1>11, <1>12, <1>13, <1>14, <1>15, <1>16

\* The rest of the kernel's handlers.
LEMMA HandlerKeeps ==
  ASSUME IInv, FastRoleIsSole, TypeOK, Stream,
         \/ Park \/ Rescan \/ Scan \/ NotifyReaders \/ NotifyWriters \/ RecheckSelects
         \/ Unref \/ GoFast \/ UnrefDone
  PROVE  Typed' /\ Stream'
<1>1. Typed
  BY TypedNow
<1>2. mode \in {"LATENT", "FAST", "DEMOTED"} /\ gone \subseteq Ends
  BY DEF TypeOK
<1>3. job.p \in Procs /\ {job.p} \in SUBSET Procs /\ rpc[job.p] \in Requests
  BY DEF TypeOK
<1>4. ASSUME UNCHANGED <<rpc, pc, loc>>
      PROVE  /\ ProcsTyped'
             /\ \A q \in Procs : pc'[q] \in {"rdCommit", "wrCommit"} => pc'[q] = pc[q] /\ loc'[q] = loc[q]
  BY <1>1, <1>4 DEF Typed, ProcsTyped
<1>5. ASSUME NEW p \in Procs, UNCHANGED loc,
             Respond({p}, Then(p)) \/ \E to \in {"eof", "idle", "dead"} : Respond({p}, Returns(p, to))
      PROVE  /\ ProcsTyped'
             /\ \A q \in Procs : pc'[q] \in {"rdCommit", "wrCommit"} => pc'[q] = pc[q] /\ loc'[q] = loc[q]
  <2>1. {p} \in SUBSET Procs
    OBVIOUS
  <2> QED BY <1>1, <1>5, <2>1, ReturnPlaces, ResponsePlaces
<1>6. NoJob.free \in Nat /\ job.free \in Nat /\ [job EXCEPT !.progress = TRUE].free \in Nat
      /\ [job EXCEPT !.progress = FALSE].free \in Nat
  BY <1>1, JobTyped DEF Typed, BooksTyped
<1>7. ASSUME kpc' \in {"idle", "park", "rescan", "scan", "nread", "nwrite", "nsel", "unref", "fast"},
             job'.free \in Nat, UNCHANGED flag \/ flag' = Requeued \/ \E s : flag' = Lowered(s), UNCHANGED waiter
      PROVE  BooksTyped'
  <2>1. \A s : Lowered(s) \in [Ends -> BOOLEAN]
    BY <1>1 DEF Typed, BooksTyped, Lowered
  <2>2. Requeued \in [Ends -> BOOLEAN]
    BY <1>1 DEF Typed, BooksTyped, Requeued
  <2> QED BY <1>1, <1>7, <2>1, <2>2 DEF Typed, BooksTyped
<1>8. CASE Park
  <2>1. /\ UNCHANGED <<mode, head, tail, gone, data, job, rpc, pc, loc, sent, rcvd>> /\ kpc' = "rescan"
        /\ waiter' = [waiter EXCEPT ![job.p] = rpc[job.p]]
        /\ \E e \in Ends : flag' = [flag EXCEPT ![e] = TRUE]
    BY <1>8 DEF Park, procs, Ends
  <2>2. BooksTyped'
    BY <1>1, <1>3, <1>6, <2>1 DEF Typed, BooksTyped
  <2> QED BY <1>1, <1>2, <1>4, <2>1, <2>2, KernelMoves
<1>9. CASE Rescan
  <2>1. /\ UNCHANGED <<mode, head, tail, gone, flag, data, waiter, rpc, pc, loc, sent, rcvd>>
        /\ kpc' \in {"nread", "idle"} /\ job' = NoJob
    BY <1>9 DEF Rescan, procs, ring, books
  <2> QED BY <1>1, <1>2, <1>4, <1>6, <1>7, <2>1, KernelMoves
<1>10. CASE Scan
  <2>1. /\ UNCHANGED <<mode, head, tail, gone, data, loc, sent, rcvd>> /\ kpc' = "idle" /\ job' = NoJob
        /\ \/ Respond({job.p}, Then(job.p)) /\ flag' = Lowered(rpc[job.p].ends) /\ UNCHANGED waiter
           \/ waiter' = [waiter EXCEPT ![job.p] = rpc[job.p]] /\ UNCHANGED <<flag, rpc, pc>>
    BY <1>10 DEF Scan, Idle
  <2>2. CASE Respond({job.p}, Then(job.p)) /\ flag' = Lowered(rpc[job.p].ends) /\ UNCHANGED waiter
    BY <1>1, <1>2, <1>3, <1>5, <1>6, <1>7, <2>1, <2>2, KernelMoves
  <2>3. CASE waiter' = [waiter EXCEPT ![job.p] = rpc[job.p]] /\ UNCHANGED <<flag, rpc, pc>>
    <3>1. BooksTyped'
      BY <1>1, <1>3, <1>6, <2>1, <2>3 DEF Typed, BooksTyped
    <3> QED BY <1>1, <1>2, <1>4, <2>1, <2>3, <3>1, KernelMoves
  <2> QED BY <2>1, <2>2, <2>3
<1>11. CASE NotifyReaders
  <2>1. CASE kpc' = "nwrite" /\ UNCHANGED <<head, rcvd, flag, waiter, job, rpc, pc>>
    <3>1. UNCHANGED <<mode, tail, gone, data, loc, sent>>
      BY <1>11 DEF NotifyReaders
    <3> QED BY <1>1, <1>2, <1>4, <1>6, <1>7, <2>1, <3>1, KernelMoves
  <2>2. CASE queue["r"] # <<>> /\ kpc' # "nwrite"
    <3> DEFINE p == Head(queue["r"])
    <3>1. p \in Procs /\ rpc[p].op = "read" /\ waiter[p].n \in Nat
      <4>1. p \in Procs /\ waiter[p].op = "read" /\ waiter[p] # None
        BY <2>2, HeadQueued DEF Ends, OpOf
      <4>2. waiter[p] = rpc[p] /\ waiter[p] \in Requests
        BY <4>1 DEF IInv, Parked, TypeOK
      <4> QED BY <4>1, <4>2, RequestTyped
    <3>2. /\ Cancel(p) /\ job' = [job EXCEPT !.progress = TRUE] /\ kpc' = kpc
          /\ UNCHANGED <<mode, tail, gone, data, loc, sent>>
          /\ \/ Respond({p}, Then(p)) /\ Take(Least(waiter[p].n, Avail))
             \/ Respond({p}, Returns(p, "eof")) /\ UNCHANGED <<head, rcvd>>
      BY <1>11, <2>2 DEF NotifyReaders
    <3> HIDE DEF p
    <3>3. BooksTyped'
      BY <1>1, <1>6, <3>1, <3>2, CancelTyped DEF Typed, BooksTyped
    <3>4. CASE Respond({p}, Then(p)) /\ Take(Least(waiter[p].n, Avail))
      BY <1>1, <3>1, <3>2, <3>3, <3>4, KernelTakes
    <3>5. CASE Respond({p}, Returns(p, "eof")) /\ UNCHANGED <<head, rcvd>>
      BY <1>1, <1>2, <1>5, <3>1, <3>2, <3>3, <3>5, KernelMoves
    <3> QED BY <3>2, <3>4, <3>5
  <2> QED BY <1>11, <2>1, <2>2 DEF NotifyReaders
<1>12. CASE NotifyWriters
  <2>1. CASE /\ kpc' \in {"nread", "nsel"} /\ job' = [job EXCEPT !.progress = FALSE]
             /\ UNCHANGED <<data, tail, sent, flag, waiter, rpc, pc>>
    <3>1. UNCHANGED <<mode, head, gone, loc, rcvd>>
      BY <1>12 DEF NotifyWriters
    <3> QED BY <1>1, <1>2, <1>4, <1>6, <1>7, <2>1, <3>1, KernelMoves
  <2>2. CASE queue["w"] # <<>> /\ kpc' = kpc
    <3> DEFINE p == Head(queue["w"])
    <3>1. p \in Procs /\ rpc[p].op = "write" /\ waiter[p].n \in Nat
      <4>1. p \in Procs /\ waiter[p].op = "write" /\ waiter[p] # None
        BY <2>2, HeadQueued DEF Ends, OpOf
      <4>2. waiter[p] = rpc[p] /\ waiter[p] \in Requests
        BY <4>1 DEF IInv, Parked, TypeOK
      <4> QED BY <4>1, <4>2, RequestTyped
    <3>2. /\ Cancel(p) /\ job' = [job EXCEPT !.progress = TRUE] /\ kpc' = kpc /\ Respond({p}, Then(p))
          /\ UNCHANGED <<mode, head, gone, loc, rcvd>>
          /\ Put(Least(waiter[p].n, Free)) \/ UNCHANGED <<data, tail, sent>>
      BY <1>12, <2>2 DEF NotifyWriters
    <3> HIDE DEF p
    <3>3. BooksTyped'
      BY <1>1, <1>6, <3>1, <3>2, CancelTyped DEF Typed, BooksTyped
    <3>4. CASE Put(Least(waiter[p].n, Free))
      BY <1>1, <3>1, <3>2, <3>3, <3>4, KernelPuts
    <3>5. CASE UNCHANGED <<data, tail, sent>>
      BY <1>1, <1>2, <1>5, <3>1, <3>2, <3>3, <3>5, KernelMoves
    <3> QED BY <3>2, <3>4, <3>5
  <2> QED BY <1>12, <2>1, <2>2 DEF NotifyWriters
<1>13. CASE RecheckSelects
  <2> DEFINE woken == {p \in Procs : waiter[p].op = "wait" /\ Ready(waiter[p].ends)}
             result == [p \in woken |-> rpc[p].then]
  <2>1. /\ waiter' = [p \in Procs |-> IF p \in woken THEN None ELSE waiter[p]]
        /\ \E s : flag' = Lowered(s)
        /\ Respond(woken, result) /\ kpc' \in {"idle", "unref"} /\ job' \in {job, NoJob}
        /\ UNCHANGED <<mode, head, tail, gone, data, loc, sent, rcvd>>
    BY <1>13 DEF RecheckSelects, Resume, Idle
  <2>2. woken \in SUBSET Procs /\ \A p \in woken : result[p] \in Places \ AtCommit
    BY ReturnPlaces
  <2> HIDE DEF woken, result
  <2>3. ProcsTyped' /\ \A q \in Procs : pc'[q] \in {"rdCommit", "wrCommit"} => pc'[q] = pc[q] /\ loc'[q] = loc[q]
    BY <1>1, <2>1, <2>2, ResponsePlaces
  <2>4. BooksTyped'
    <3>1. waiter' \in [Procs -> Requests]
      BY <1>1, <2>1, RequestTyped DEF Typed, BooksTyped
    <3>2. flag' \in [Ends -> BOOLEAN]
      BY <1>1, <2>1 DEF Typed, BooksTyped, Lowered
    <3>3. job'.free \in Nat
      BY <1>6, <2>1
    <3> QED BY <2>1, <3>1, <3>2, <3>3 DEF BooksTyped
  <2> QED BY <1>1, <1>2, <2>1, <2>3, <2>4, KernelMoves
<1>14. CASE Unref
  <2>1. PICK e \in job.todo :
          /\ gone' = gone \cup {e} \/ gone' = gone
          /\ job' = [job EXCEPT !.todo = @ \ {e}]
          /\ kpc' \in {"unref", "nread", "fast"} /\ (flag' = flag \/ flag' = Requeued)
    BY <1>14 DEF Unref
  <2>2. UNCHANGED <<mode, head, tail, data, waiter, rpc, pc, loc, sent, rcvd>>
    BY <1>14 DEF Unref, procs
  <2>3. gone' \subseteq Ends /\ job'.free \in Nat
    BY <1>2, <1>6, <2>1 DEF TypeOK
  <2> QED BY <1>1, <1>2, <1>4, <1>7, <2>1, <2>2, <2>3, KernelMoves
<1>15. CASE GoFast
  <2>1. /\ mode' = "FAST" /\ kpc' \in {"idle", "unref"} /\ job' \in {job, NoJob}
        /\ UNCHANGED <<head, tail, gone, flag, data, waiter, rpc, pc, loc, sent, rcvd>>
    BY <1>15 DEF GoFast, Resume, Idle, books, procs
  <2> QED BY <1>1, <1>2, <1>4, <1>6, <1>7, <2>1, KernelMoves
<1>16. CASE UnrefDone
  <2>1. /\ Respond({job.p}, Then(job.p)) \/ UNCHANGED <<pc, rpc>>
        /\ kpc' = "idle" /\ job' = NoJob
        /\ UNCHANGED <<mode, head, tail, gone, flag, data, waiter, loc, sent, rcvd>>
    BY <1>16 DEF UnrefDone, Idle, ring, books
  <2>2. ProcsTyped' /\ \A q \in Procs : pc'[q] \in {"rdCommit", "wrCommit"} => pc'[q] = pc[q] /\ loc'[q] = loc[q]
    BY <1>3, <1>4, <1>5, <2>1
  <2> QED BY <1>1, <1>2, <1>6, <1>7, <1>16, <2>1, <2>2, KernelMoves DEF UnrefDone, Idle, ring, books
<1> QED BY <1>8, <1>9, <1>10, <1>11, <1>12, <1>13, <1>14, <1>15, <1>16

\* A fresh ring is typed and empty.
LEMMA InitStream == ASSUME Init PROVE TypeOK /\ Stream
<1>1. NoLocals \in [n : Nat, at : 0..Wrap-1, buf : Seq(Nat)]
  BY RingAssumption, EmptySeq DEF NoLocals
<1>2. 0 \in 0..Wrap-1 /\ 0 % Wrap = 0 /\ Cap \in Nat
  BY RingAssumption
<1>3. TypeOK
  BY <1>1, <1>2, RequestTyped, RingAssumption, EmptySeq DEF Init, TypeOK, Ends, NoJob
<1>4. Cells /\ InFlight
  BY DEF Init, Cells, InFlight
<1> QED BY <1>2, <1>3, <1>4 DEF Init, Stream

\* Types and the stream's bookkeeping hold in every reachable state.
THEOREM TypeCorrect == Spec => [](TypeOK /\ Stream)
<1>1. Init => TypeOK /\ Stream
  BY InitStream
<1>2. IInv /\ IInv' /\ FastRoleIsSole /\ TypeOK /\ Stream /\ [Next]_vars => (TypeOK /\ Stream)'
  <2> SUFFICES ASSUME IInv, IInv', FastRoleIsSole, TypeOK, Stream, [Next]_vars
               PROVE  TypeOK' /\ Stream'
    OBVIOUS
  <2>1. CASE Next
    <3>1. Typed' /\ Stream'
      BY <2>1, ReaderKeeps, WriterKeeps, AskerKeeps, CallKeeps, HandlerKeeps DEF Next
    <3> QED BY <3>1, TypedPartsNext DEF Typed
  <2>2. CASE UNCHANGED vars
    <3>1. TypeOK'
      BY <2>2 DEF TypeOK, vars, ring, books, kernel, procs
    <3>2. Stream'
      BY <2>2, StreamKept DEF vars, ring, books, kernel, procs
    <3> QED BY <3>1, <3>2
  <2> QED BY <2>1, <2>2
<1> QED BY <1>1, <1>2, Invariant, SoleRoleAlways, PTL DEF Spec

\* Whatever mix of holders and kernel moved the bytes, across mode changes and
\* index wrap-around, the ring holds exactly the bytes written and not yet read,
\* in order and within its capacity (kernel.js 367-401).
THEOREM StreamStaysInOrder == Spec => []StreamInOrder
<1>1. TypeOK /\ Stream => StreamInOrder
  <2> SUFFICES ASSUME TypeOK, Stream PROVE StreamInOrder
    OBVIOUS
  <2>1. Avail = sent - rcvd /\ sent - rcvd \in 0..(sent - rcvd)
    <3>1. Avail = sent - rcvd /\ Avail \in Nat
      BY RingLevels
    <3> HIDE DEF Avail
    <3> QED BY <3>1
  <2>2. InOrder(Stored(head, Avail))
    BY <2>1, StoredInOrder
  <2> QED BY <2>1, <2>2 DEF Stream, StreamInOrder, InFlight
<1> QED BY <1>1, TypeCorrect, PTL

(* ---------------------------- wakes, kept and owed ---------------------- *)

\* No program parks a select of its own: the answer to a second wait lowers the
\* flag of the first.
PollsOnly == Selects \subseteq {"poll"}

\* The writes of the programs block at the same fill levels.  Without it a write
\* that is queued behind a larger atomic one is passed over when that one is
\* taken back.
AlikeWrites ==
  \A m, n \in WriteSizes : \A free \in 0..Cap : Blocked(m, free) <=> Blocked(n, free)

\* The queue of e, whose calls are all blocked when one of them is.
Uniform(e) == e = "r" \/ AlikeWrites

Wakeful == PollsOnly /\ AlikeWrites

\* What a request says of the process that posted it.
CallerOk(p) ==
  /\ rpc[p].op = "wait" => rpc[p].ends \subseteq Held(p)
  /\ rpc[p].op = "kick" => Held(p) # {}
  /\ rpc[p].op = "close" => rpc[p].ends \subseteq Held(p) \/ (job.reply /\ job.p = p)
  /\ rpc[p].then = "rdMode" => rpc[p].ends = {"r"}
  /\ rpc[p].then = "wrMode" => rpc[p].ends = {"w"} /\ loc[p].n \in WriteSizes
  /\ rpc[p].park => rpc[p].then # "idle"
  /\ waiter[p].op = "wait" => waiter[p].park
  /\ rpc[p].op = "write" => rpc[p].n \in WriteSizes
  /\ pc[p] \in {"wrMode", "wrGone", "wrPut"} => loc[p].n \in WriteSizes

\* What a handler carries over its own stores.
HandlerOk ==
  /\ job.todo \subseteq Held(job.p)
  /\ job.todo # {} => job.reply \/ pc[job.p] = "dead"
  /\ kpc \in {"park", "rescan"} =>
       \/ rpc[job.p].op = "read" /\ Open("w")
       \/ rpc[job.p].op = "write" /\ Open("r") /\ Blocked(rpc[job.p].n, job.free)
  /\ kpc = "scan" => \A e \in rpc[job.p].ends : flag[e]

\* Until the pipe is promoted nobody is at the ring; promotion finds the flags
\* of the queues up.
LatentQuiet ==
  /\ mode = "LATENT" =>
       \A p \in Procs : /\ pc[p] \notin FastReading \cup FastWriting
                        /\ rpc[p].then = "idle" /\ rpc[p].op # "kick"
  /\ kpc = "fast" => mode = "LATENT" /\ \A e \in Ends : queue[e] # <<>> => flag[e]

CallsOk == (\A p \in Procs : CallerOk(p)) /\ HandlerOk /\ LatentQuiet

\* A kick is under way, or the holder that just committed will see the flag.
Owed(e) ==
  \E q \in Procs : rpc[q].op = "kick" \/ (pc[q] = (IF e = "r" THEN "wrKick" ELSE "rdKick") /\ flag[e])

\* The kernel is closing the end of a pipe's only holder: it will look round.
Closing == kpc = "unref" /\ job.todo # {} /\ mode = "FAST"

\* The kernel has yet to look at the queue of e.
Looking(e) ==
  \/ kpc = "nread" \/ Closing
  \/ kpc = "nwrite" /\ (e = "w" \/ job.progress)
  \/ kpc = "rescan" /\ rpc[job.p].op = OpOf(e)

\* The kernel has yet to look at the waits that are in no queue.
Rechecking == kpc \in {"nread", "nwrite", "nsel"} \/ Closing

\* Nobody queued at e could be served.
Stuck(e) ==
  IF e = "r" THEN Avail = 0 /\ Open("w")
  ELSE Open("r") /\ \A n \in WriteSizes : Blocked(n, Free)

QueueWakes ==
  mode # "DEMOTED" =>
    \A e \in Ends : Uniform(e) /\ queue[e] # <<>> => Stuck(e) \/ Looking(e) \/ Owed(e)

\* Of process p, a wait that is in no queue and is for end e.
Waits(p, e) == waiter[p].op = "wait" /\ e \in waiter[p].ends

WaitWakes ==
  mode = "FAST" =>
    \A p \in Procs : \A e \in Ends : Waits(p, e) => ~Ready({e}) \/ Rechecking \/ Owed(e)

\* While the pipe is FAST a parked call has its flag up.
Flagged ==
  mode = "FAST" =>
    \A e \in Ends : queue[e] # <<>> \/ (\E p \in Procs : Waits(p, e)) => flag[e]

WakeInv == CallsOk /\ QueueWakes /\ WaitWakes /\ Flagged

\* A program moves on by itself.
LEMMA GoesOk ==
  ASSUME IInv, TypeOK, CallsOk, NEW p \in Procs, NEW to, Goto(p, to), pc[p] # "blocked",
         UNCHANGED <<mode, flag, rpc, books, kernel>>, \A q \in Procs \ {p} : loc'[q] = loc[q],
         to \in {"wrMode", "wrGone", "wrPut"} => loc'[p].n \in WriteSizes,
         to \in FastReading \cup FastWriting => mode # "LATENT",
         pc[p] # "dead"
  PROVE  CallsOk'
<1> USE DEF Goto, books, kernel
<1>1. rpc[p] = None /\ DOMAIN pc = Procs /\ job.p \in Procs
  BY DEF IInv, Parked, Shape, Jobs
<1>2. ASSUME NEW q \in Procs PROVE CallerOk(q)'
  <2>1. CASE q = p
    BY <1>1, <2>1, NoneFields DEF CallsOk, CallerOk, Held
  <2>2. CASE q # p
    <3>1. loc'[q] = loc[q] /\ pc'[q] = pc[q]
      BY <1>1, <2>2
    <3> QED BY <3>1 DEF CallsOk, CallerOk, Held
  <2> QED BY <2>1, <2>2
<1>3. HandlerOk'
  BY <1>1 DEF CallsOk, HandlerOk, Held, Open
<1>4. LatentQuiet'
  BY <1>1 DEF CallsOk, LatentQuiet
<1> QED BY <1>2, <1>3, <1>4 DEF CallsOk

\* A program posts a request.
LEMMA AsksOk ==
  ASSUME IInv, TypeOK, CallsOk, NEW p \in Procs, NEW r, Ask(p, r), pc[p] \notin {"blocked", "dead"},
         UNCHANGED <<mode, flag, books, kernel>>, \A q \in Procs \ {p} : loc'[q] = loc[q],
         r.op = "wait" => r.ends \subseteq Held(p),
         r.op = "kick" => Held(p) # {},
         r.op = "close" => r.ends \subseteq Held(p),
         r.then = "rdMode" => r.ends = {"r"},
         r.then = "wrMode" => r.ends = {"w"} /\ loc'[p].n \in WriteSizes,
         r.park => r.then # "idle",
         r.op = "write" => r.n \in WriteSizes,
         mode = "LATENT" => r.then = "idle" /\ r.op # "kick"
  PROVE  CallsOk'
<1> USE DEF Ask, Goto, books, kernel
<1>1. /\ rpc[p] = None /\ waiter[p] = None /\ DOMAIN pc = Procs /\ DOMAIN rpc = Procs /\ job.p \in Procs
      /\ pc'[p] = "blocked" /\ rpc'[p] = r
  BY NoneFields DEF IInv, Parked, Shape, Jobs
<1>2. \A q \in Procs \ {p} : pc'[q] = pc[q] /\ rpc'[q] = rpc[q]
  BY <1>1
<1>3. ASSUME NEW q \in Procs PROVE CallerOk(q)'
  <2>1. CASE q = p
    BY <1>1, <2>1, NoneFields DEF CallerOk, Held
  <2>2. CASE q # p
    <3>1. loc'[q] = loc[q] /\ pc'[q] = pc[q] /\ rpc'[q] = rpc[q]
      BY <1>2, <2>2
    <3> QED BY <3>1 DEF CallsOk, CallerOk, Held
  <2> QED BY <2>1, <2>2
<1>4. HandlerOk'
  <2>1. kpc \in {"park", "rescan", "scan"} => job.p # p
    BY <1>1, NoneFields DEF IInv, JobOk, CallsOk, HandlerOk
  <2>2. CASE job.p = p
    BY <1>1, <2>1, <2>2 DEF CallsOk, HandlerOk, Held, Open
  <2>3. CASE job.p # p
    <3>1. pc'[job.p] = pc[job.p] /\ rpc'[job.p] = rpc[job.p]
      BY <1>1, <1>2, <2>3
    <3> QED BY <3>1 DEF CallsOk, HandlerOk, Held, Open
  <2> QED BY <2>2, <2>3
<1>5. LatentQuiet'
  BY <1>1, <1>2 DEF CallsOk, LatentQuiet, FastReading, FastWriting
<1> QED BY <1>3, <1>4, <1>5 DEF CallsOk

\* The programs' steps leave calls and handlers in order.
LEMMA ProgramCalls ==
  ASSUME IInv, TypeOK, CallsOk, PollsOnly, NEW p \in Procs,
         \/ StartRead(p) \/ RdMode(p) \/ RdTake(p) \/ RdCommit(p) \/ RdKick(p) \/ RdGone(p)
         \/ StartWrite(p) \/ WrMode(p) \/ WrGone(p) \/ WrPut(p) \/ WrCommit(p) \/ WrKick(p)
         \/ StartSelect(p) \/ StartClose(p) \/ StartSpawn(p)
  PROVE  CallsOk'
<1> USE DEF Program, ring, Forget
<1>1. /\ DOMAIN loc = Procs
      /\ mode = "LATENT" => pc[p] \notin FastReading \cup FastWriting
      /\ pc[p] \in FastReading => "r" \in Held(p)
      /\ pc[p] \in FastWriting => "w" \in Held(p)
      /\ pc[p] \in {"wrMode", "wrGone", "wrPut"} => loc[p].n \in WriteSizes
  BY DEF TypeOK, CallsOk, LatentQuiet, CallerOk, IInv, Holding, Reading, Writing, Held, Ends
<1>2. CASE StartRead(p)
  BY <1>2, GoesOk DEF StartRead, FastReading, FastWriting
<1>3. CASE RdMode(p)
  <2>1. CASE mode = "FAST" /\ Goto(p, "rdTake") /\ UNCHANGED rpc
    BY <1>3, <2>1, GoesOk DEF RdMode
  <2>2. CASE mode # "FAST" /\ Ask(p, [Request("read", {"r"}) EXCEPT !.n = ReadCount])
    <3> DEFINE r == [Request("read", {"r"}) EXCEPT !.n = ReadCount]
    <3>1. r.op = "read" /\ r.then = "idle" /\ r.park = FALSE
      BY DEF Request, None
    <3>2. Ask(p, r)
      BY <2>2
    <3> HIDE DEF r
    <3> QED BY <1>3, <3>1, <3>2, AsksOk DEF RdMode
  <2> QED BY <1>3, <2>1, <2>2 DEF RdMode
<1>4. CASE RdTake(p)
  <2>1. pc[p] = "rdTake" /\ UNCHANGED <<mode, flag, rpc, books, kernel>>
        /\ (Goto(p, "rdCommit") \/ Goto(p, "rdGone")) /\ \A q \in Procs \ {p} : loc'[q] = loc[q]
    BY <1>1, <1>4 DEF RdTake
  <2> QED BY <1>1, <2>1, GoesOk DEF FastReading, FastWriting
<1>5. CASE RdCommit(p)
  <2>1. \A q \in Procs \ {p} : loc'[q] = loc[q]
    BY <1>1, <1>5 DEF RdCommit
  <2> QED BY <1>1, <1>5, <2>1, GoesOk DEF RdCommit, FastReading, FastWriting
<1>6. CASE RdKick(p)
  <2>1. CASE Goto(p, "idle") /\ UNCHANGED rpc
    BY <1>6, <2>1, GoesOk DEF RdKick, FastReading, FastWriting
  <2>2. CASE Ask(p, Request("kick", {}))
    <3> DEFINE r == Request("kick", {})
    <3>1. r.op = "kick" /\ r.then = "idle" /\ r.park = FALSE
      BY DEF Request, None
    <3>2. Ask(p, r) /\ Held(p) # {} /\ mode # "LATENT"
      BY <1>1, <1>6, <2>2 DEF RdKick, FastReading
    <3> HIDE DEF r
    <3> QED BY <1>6, <3>1, <3>2, AsksOk DEF RdKick
  <2> QED BY <1>6, <2>1, <2>2 DEF RdKick
<1>7. CASE RdGone(p)
  <2>1. CASE Goto(p, "eof") /\ UNCHANGED rpc
    BY <1>7, <2>1, GoesOk DEF RdGone, FastReading, FastWriting
  <2>2. CASE Ask(p, [Request("wait", {"r"}) EXCEPT !.park = TRUE, !.then = "rdMode"])
    <3> DEFINE r == [Request("wait", {"r"}) EXCEPT !.park = TRUE, !.then = "rdMode"]
    <3>1. r.op = "wait" /\ r.ends = {"r"} /\ r.then = "rdMode"
      BY DEF Request, None
    <3>2. Ask(p, r)
      BY <2>2
    <3> HIDE DEF r
    <3> QED BY <1>1, <1>7, <3>1, <3>2, AsksOk DEF RdGone, FastReading
  <2> QED BY <1>7, <2>1, <2>2 DEF RdGone
<1>8. CASE StartWrite(p)
  <2>1. loc'[p].n \in WriteSizes /\ \A q \in Procs \ {p} : loc'[q] = loc[q]
    BY <1>8, <1>1 DEF StartWrite, TypeOK
  <2> QED BY <1>8, <2>1, GoesOk DEF StartWrite, FastReading, FastWriting
<1>9. CASE WrMode(p)
  <2>1. CASE mode = "FAST" /\ Goto(p, "wrGone") /\ UNCHANGED <<loc, rpc>>
    BY <1>1, <1>9, <2>1, GoesOk DEF WrMode
  <2>2. CASE mode # "FAST" /\ Ask(p, [Request("write", {"w"}) EXCEPT !.n = loc[p].n]) /\ Forget(p)
    <3> DEFINE r == [Request("write", {"w"}) EXCEPT !.n = loc[p].n]
    <3>1. r.op = "write" /\ r.then = "idle" /\ r.park = FALSE /\ r.n = loc[p].n
      BY DEF Request, None
    <3>2. Ask(p, r) /\ \A q \in Procs \ {p} : loc'[q] = loc[q]
      BY <1>1, <2>2
    <3>3. pc[p] = "wrMode" /\ UNCHANGED <<mode, flag, books, kernel>>
      BY <1>9 DEF WrMode
    <3> HIDE DEF r
    <3> QED BY <1>1, <3>1, <3>2, <3>3, AsksOk
  <2> QED BY <1>9, <2>1, <2>2 DEF WrMode
<1>10. CASE WrGone(p)
  <2>1. pc[p] = "wrGone" /\ UNCHANGED <<mode, flag, books, kernel>>
    BY <1>10 DEF WrGone
  <2>2. CASE Ask(p, Request("kick", {})) /\ Forget(p)
    <3>1. \A q \in Procs \ {p} : loc'[q] = loc[q]
      BY <1>1, <2>2
    <3> DEFINE r == Request("kick", {})
    <3>2. r.op = "kick" /\ r.then = "idle" /\ r.park = FALSE
      BY DEF Request, None
    <3>3. Ask(p, r) /\ Held(p) # {} /\ mode # "LATENT"
      BY <1>1, <2>1, <2>2 DEF FastWriting
    <3> HIDE DEF r
    <3> QED BY <2>1, <3>1, <3>2, <3>3, AsksOk
  <2>3. CASE Goto(p, "wrPut") /\ UNCHANGED <<loc, rpc>>
    BY <1>1, <2>1, <2>3, GoesOk DEF FastWriting, FastReading
  <2> QED BY <1>10, <2>2, <2>3 DEF WrGone
<1>11. CASE WrPut(p)
  <2>1. pc[p] = "wrPut" /\ UNCHANGED <<mode, flag, books, kernel>>
    BY <1>11 DEF WrPut
  <2>2. CASE Ask(p, [Request("wait", {"w"}) EXCEPT !.park = TRUE, !.then = "wrMode"]) /\ UNCHANGED loc
    <3> DEFINE r == [Request("wait", {"w"}) EXCEPT !.park = TRUE, !.then = "wrMode"]
    <3>1. r.op = "wait" /\ r.ends = {"w"} /\ r.then = "wrMode"
      BY DEF Request, None
    <3>2. Ask(p, r)
      BY <2>2
    <3> HIDE DEF r
    <3> QED BY <1>1, <2>1, <2>2, <3>1, <3>2, AsksOk DEF FastWriting
  <2>3. CASE Goto(p, "wrCommit") /\ UNCHANGED rpc /\ \A q \in Procs \ {p} : loc'[q] = loc[q]
    BY <1>1, <2>1, <2>3, GoesOk DEF FastWriting, FastReading
  <2>4. Goto(p, "wrCommit") => \A q \in Procs \ {p} : loc'[q] = loc[q]
    BY <1>1, <1>11 DEF WrPut
  <2> QED BY <1>11, <2>2, <2>3, <2>4 DEF WrPut
<1>12. CASE WrCommit(p)
  <2>1. \A q \in Procs \ {p} : loc'[q] = loc[q]
    BY <1>1, <1>12 DEF WrCommit
  <2> QED BY <1>1, <1>12, <2>1, GoesOk DEF WrCommit, FastReading, FastWriting
<1>13. CASE WrKick(p)
  <2>1. CASE Goto(p, "idle") /\ UNCHANGED rpc
    BY <1>13, <2>1, GoesOk DEF WrKick, FastReading, FastWriting
  <2>2. CASE Ask(p, Request("kick", {}))
    <3> DEFINE r == Request("kick", {})
    <3>1. r.op = "kick" /\ r.then = "idle" /\ r.park = FALSE
      BY DEF Request, None
    <3>2. Ask(p, r) /\ Held(p) # {} /\ mode # "LATENT"
      BY <1>1, <1>13, <2>2 DEF WrKick, FastWriting
    <3> HIDE DEF r
    <3> QED BY <1>13, <3>1, <3>2, AsksOk DEF WrKick
  <2> QED BY <1>13, <2>1, <2>2 DEF WrKick
<1>14. CASE StartSelect(p)
  <2>1. PICK ends \in SUBSET Held(p) \ {{}}, how \in Selects :
          Ask(p, [Request("wait", ends) EXCEPT !.park = (how = "park")])
    BY <1>14 DEF StartSelect
  <2> DEFINE r == [Request("wait", ends) EXCEPT !.park = (how = "park")]
  <2>2. r.op = "wait" /\ r.ends = ends /\ r.then = "idle" /\ r.park = FALSE
    BY DEF Request, None, PollsOnly
  <2>3. Ask(p, r)
    BY <2>1
  <2> HIDE DEF r
  <2> QED BY <1>14, <2>2, <2>3, AsksOk DEF StartSelect
<1>15. CASE StartClose(p)
  <2>1. PICK e \in Held(p) : Ask(p, Request("close", {e}))
    BY <1>15 DEF StartClose
  <2> DEFINE r == Request("close", {e})
  <2>2. r.op = "close" /\ r.ends \subseteq Held(p) /\ r.then = "idle" /\ r.park = FALSE
    BY DEF Request, None
  <2>3. Ask(p, r)
    BY <2>1
  <2> HIDE DEF r
  <2> QED BY <1>15, <2>2, <2>3, AsksOk DEF StartClose
<1>16. CASE StartSpawn(p)
  <2>1. PICK c \in Procs, keep \in SUBSET Held(p) :
          Ask(p, [Request("spawn", keep) EXCEPT !.child = c])
    BY <1>16 DEF StartSpawn
  <2> DEFINE r == [Request("spawn", keep) EXCEPT !.child = c]
  <2>2. r.op = "spawn" /\ r.then = "idle" /\ r.park = FALSE
    BY DEF Request, None
  <2>3. Ask(p, r)
    BY <2>1
  <2> HIDE DEF r
  <2> QED BY <1>16, <2>2, <2>3, AsksOk DEF StartSpawn
<1> QED BY <1>2, <1>3, <1>4, <1>5, <1>6, <1>7, <1>8, <1>9, <1>10, <1>11, <1>12, <1>13, <1>14, <1>15, <1>16

\* The kernel answers some calls, and goes on with or ends its handler.
LEMMA ServesOk ==
  ASSUME IInv, TypeOK, CallsOk, mode' = mode \/ mode' # "LATENT",
         \A q \in Procs :
           \/ pc'[q] = pc[q] /\ rpc'[q] = rpc[q] /\ loc'[q] = loc[q]
           \/ rpc'[q] = None /\ (pc'[q] \in {"idle", "eof", "dead"} \/ (pc'[q] = rpc[q].then /\ loc'[q] = loc[q])),
         \A q \in Procs : rpc'[q].op # "none" =>
           Held(q) \subseteq Held(q)' \/ (job'.reply /\ job'.p = q /\ rpc[q].op = "close"),
         \A q \in Procs : waiter'[q].op = "wait" => waiter[q] = waiter'[q] \/ waiter'[q].park,
         job.reply => (job'.reply /\ job'.p = job.p) \/ rpc'[job.p] = None,
         HandlerOk',
         kpc' = "fast" => mode' = "LATENT" /\ \A e \in Ends : queue'[e] # <<>> => flag'[e]
  PROVE  CallsOk'
<1>1. None.op = "none" /\ None.then = "idle" /\ None.park = FALSE
  BY DEF None
<1>2. ASSUME NEW q \in Procs PROVE CallerOk(q)'
  <2>1. CallerOk(q) /\ rpc[q].then \in {"idle", "rdMode", "wrMode"}
    BY DEF CallsOk, IInv, Holding
  <2>2. CASE pc'[q] = pc[q] /\ rpc'[q] = rpc[q] /\ loc'[q] = loc[q]
    <3>1. CASE rpc[q].op = "none"
      BY <1>1, <2>1, <2>2, <3>1 DEF CallerOk
    <3>2. CASE rpc[q].op # "none" /\ Held(q) \subseteq Held(q)'
      BY <1>1, <2>1, <2>2, <3>2 DEF CallerOk
    <3>3. CASE job'.reply /\ job'.p = q /\ rpc[q].op = "close"
      BY <1>1, <2>1, <2>2, <3>3 DEF CallerOk
    <3> QED BY <2>2, <3>1, <3>2, <3>3
  <2>3. CASE rpc'[q] = None /\ (pc'[q] \in {"idle", "eof", "dead"} \/ (pc'[q] = rpc[q].then /\ loc'[q] = loc[q]))
    BY <1>1, <2>1, <2>3 DEF CallerOk
  <2> QED BY <2>2, <2>3
<1>3. LatentQuiet'
  BY <1>1 DEF CallsOk, LatentQuiet, FastReading, FastWriting
<1> QED BY <1>2, <1>3 DEF CallsOk

\* The kernel's handlers that a call starts.
LEMMA CallCalls ==
  ASSUME IInv, TypeOK, CallsOk, NEW p \in Procs,
         \/ ReadRpc(p) \/ WriteRpc(p) \/ WaitRpc(p) \/ KickRpc(p)
         \/ SpawnRpc(p) \/ SpawnFails(p) \/ CloseRpc(p) \/ Die(p) \/ Interrupt(p)
  PROVE  CallsOk'
<1>1. /\ kpc = "idle" /\ job.todo = {} /\ ~job.reply
      /\ DOMAIN loc = Procs /\ DOMAIN rpc = Procs /\ DOMAIN pc = Procs /\ DOMAIN waiter = Procs
  BY DEF IInv, JobOk, TypeOK, ReadRpc, WriteRpc, WaitRpc, KickRpc, SpawnRpc, SpawnFails, CloseRpc, Die, Interrupt
<1>2. /\ None.op = "none" /\ Job(p).p = p /\ Job(p).todo = {} /\ Job(p).reply = FALSE
      /\ [Job(p) EXCEPT !.free = Free].p = p /\ [Job(p) EXCEPT !.free = Free].todo = {}
      /\ [Job(p) EXCEPT !.free = Free].free = Free
  BY DEF None, Job, NoJob
<1>3. ASSUME \E to \in {"idle", "eof"} : Respond({p}, Returns(p, to)) \/ Respond({p}, Then(p)),
             UNCHANGED <<mode, holders, waiter, loc, job>>, kpc' \in {"idle", "nread"}
      PROVE  CallsOk'
  <2>1. HandlerOk'
    BY <1>1, <1>3 DEF HandlerOk
  <2>2. \A q \in Procs : Held(q)' = Held(q)
    BY <1>3 DEF Held
  <2>3. \A q \in Procs :
               \/ pc'[q] = pc[q] /\ rpc'[q] = rpc[q] /\ loc'[q] = loc[q]
               \/ rpc'[q] = None /\ (pc'[q] \in {"idle", "eof", "dead"} \/ (pc'[q] = rpc[q].then /\ loc'[q] = loc[q]))
    BY <1>3 DEF Respond, Returns, Then
  <2> QED BY <1>1, <1>3, <2>1, <2>2, <2>3, ServesOk
<1>4. CASE ReadRpc(p)
  <2>1. CASE kpc' = "park" /\ job' = Job(p) /\ Open("w") /\ UNCHANGED <<rpc, pc>>
    <3>1. rpc[p].op = "read" /\ UNCHANGED <<mode, flag, books, loc>>
      BY <1>4 DEF ReadRpc
    <3>2. HandlerOk'
      BY <1>2, <2>1, <3>1 DEF HandlerOk, Held, Open, books
    <3> QED BY <1>1, <2>1, <3>1, <3>2, ServesOk DEF Held, books
  <2> QED BY <1>1, <1>3, <1>4, <2>1 DEF ReadRpc, books, kernel
<1>5. CASE WriteRpc(p)
  <2>1. CASE kpc' = "park" /\ job' = [Job(p) EXCEPT !.free = Free] /\ Open("r")
             /\ Blocked(rpc[p].n, Free) /\ UNCHANGED <<rpc, pc>>
    <3>1. rpc[p].op = "write" /\ UNCHANGED <<mode, flag, books, loc>>
      BY <1>5 DEF WriteRpc
    <3> HIDE DEF Blocked, Free
    <3>2. HandlerOk'
      <4>1. job'.p = p /\ job'.todo = {} /\ job'.free = Free
        BY <1>2, <2>1
      <4>2. rpc'[p] = rpc[p] /\ Open("r")' /\ rpc'[p].op = "write"
        BY <2>1, <3>1 DEF Open, books
      <4>3. Blocked(rpc'[p].n, job'.free)
        BY <2>1, <4>1, <4>2
      <4>4. Blocked(rpc[job.p].n, job.free)'
        BY <4>1, <4>3 DEF Blocked
      <4> QED BY <2>1, <4>1, <4>2, <4>4 DEF HandlerOk
    <3> QED BY <1>1, <2>1, <3>1, <3>2, ServesOk DEF Held, books
  <2> QED BY <1>1, <1>3, <1>5, <2>1 DEF WriteRpc, books, kernel
<1>6. CASE WaitRpc(p)
  <2>1. /\ UNCHANGED <<mode, books, procs>> /\ job' = Job(p) /\ kpc' = "scan"
        /\ flag' = [e \in Ends |-> flag[e] \/ e \in rpc[p].ends] /\ rpc[p].op = "wait"
    BY <1>6 DEF WaitRpc
  <2>2. rpc[p].ends \subseteq Ends
    BY <2>1 DEF TypeOK, Requests
  <2>3. HandlerOk'
    BY <1>2, <2>1, <2>2 DEF HandlerOk, Held, books, procs
  <2> QED BY <1>1, <2>1, <2>3, ServesOk DEF Held, books, procs
<1>7. CASE KickRpc(p)
  BY <1>1, <1>3, <1>7 DEF KickRpc, books, ring
<1>8. CASE SpawnRpc(p)
  <2> DEFINE c == rpc[p].child
  <2>1. /\ rpc[p].op = "spawn" /\ c \in Procs /\ pc[c] = "unborn" /\ c # p
        /\ UNCHANGED <<waiter, queue, loc>>
        /\ mode' = mode \/ mode' = "DEMOTED"
        /\ \A e \in Ends : holders[e] \subseteq holders'[e]
        /\ \/ /\ rpc' = [rpc EXCEPT ![p] = None] /\ pc' = [pc EXCEPT ![c] = "idle", ![p] = rpc[p].then]
              /\ UNCHANGED <<flag, kernel>>
           \/ /\ Promotable(holders', Procs \ {c}) /\ flag' = Requeued /\ kpc' = "fast"
              /\ job' = [Job(p) EXCEPT !.reply = TRUE]
              /\ pc' = [pc EXCEPT ![c] = "idle"] /\ UNCHANGED rpc
    BY <1>8 DEF SpawnRpc, TypeOK, Requests, IInv, Parked
  <2>2. rpc[c] = None
    BY <2>1 DEF IInv, Parked
  <2> HIDE DEF c
  <2>3. \A q \in Procs : Held(q) \subseteq Held(q)'
    BY <2>1 DEF Held
  <2>4. \A q \in Procs :
          \/ pc'[q] = pc[q] /\ rpc'[q] = rpc[q] /\ loc'[q] = loc[q]
          \/ rpc'[q] = None /\ (pc'[q] \in {"idle", "eof", "dead"} \/ (pc'[q] = rpc[q].then /\ loc'[q] = loc[q]))
    BY <1>1, <2>1, <2>2
  <2>5. HandlerOk' /\ (kpc' = "fast" => mode' = "LATENT" /\ \A e \in Ends : queue'[e] # <<>> => flag'[e])
    <3>1. CASE UNCHANGED kernel
      BY <1>1, <3>1 DEF HandlerOk, kernel
    <3>2. CASE Promotable(holders', Procs \ {c}) /\ flag' = Requeued /\ kpc' = "fast"
               /\ job' = [Job(p) EXCEPT !.reply = TRUE] /\ pc' = [pc EXCEPT ![c] = "idle"] /\ UNCHANGED rpc
      <4>1. job'.todo = {} /\ mode = "LATENT"
        BY <3>2 DEF Promotable, Job, NoJob
      <4>2. mode' = "LATENT"
        BY <1>8, <4>1 DEF SpawnRpc
      <4> QED BY <2>1, <3>2, <4>1, <4>2 DEF HandlerOk, Requeued
    <3> QED BY <2>1, <3>1, <3>2
  <2> QED BY <1>1, <2>1, <2>3, <2>4, <2>5, ServesOk
<1>9. CASE SpawnFails(p)
  BY <1>1, <1>3, <1>9 DEF SpawnFails, books, ring, kernel
<1>10. CASE CloseRpc(p)
  <2>1. /\ UNCHANGED <<mode, flag, books, procs>> /\ rpc[p].op = "close"
        /\ job' = [Job(p) EXCEPT !.todo = rpc[p].ends, !.reply = TRUE] /\ kpc' = "unref"
    BY <1>10 DEF CloseRpc, ring
  <2>2. job'.p = p /\ job'.todo = rpc[p].ends /\ job'.reply = TRUE
    BY <2>1 DEF Job, NoJob
  <2>3. rpc[p].ends \subseteq Held(p)
    BY <1>1, <2>1 DEF CallsOk, CallerOk
  <2>4. HandlerOk'
    BY <2>1, <2>2, <2>3 DEF HandlerOk, Held, books
  <2> QED BY <1>1, <2>1, <2>4, ServesOk DEF Held, books, procs
<1>11. CASE Die(p)
  <2>1. /\ UNCHANGED <<mode, holders>> /\ Cancel(p) /\ Respond({p}, Returns(p, "dead")) /\ Forget(p)
        /\ job' = [Job(p) EXCEPT !.todo = Held(p)] /\ kpc' = "unref"
    BY <1>11 DEF Die
  <2>2. job'.p = p /\ job'.todo = Held(p)
    BY <2>1 DEF Job, NoJob
  <2>3. HandlerOk'
    BY <2>1, <2>2 DEF HandlerOk, Held, Respond, Returns
  <2>4. \A q \in Procs :
          \/ pc'[q] = pc[q] /\ rpc'[q] = rpc[q] /\ loc'[q] = loc[q]
          \/ rpc'[q] = None /\ pc'[q] \in {"idle", "eof", "dead"}
    BY <1>1, <2>1 DEF Respond, Returns, Forget
  <2> QED BY <1>1, <1>2, <2>1, <2>3, <2>4, ServesOk DEF Held, Cancel
<1>12. CASE Interrupt(p)
  <2>1. /\ UNCHANGED <<mode, holders, kpc, job>> /\ Cancel(p) /\ Respond({p}, Returns(p, "idle")) /\ Forget(p)
    BY <1>12 DEF Interrupt, kernel
  <2>2. HandlerOk'
    BY <1>1, <2>1 DEF HandlerOk
  <2>3. \A q \in Procs :
          \/ pc'[q] = pc[q] /\ rpc'[q] = rpc[q] /\ loc'[q] = loc[q]
          \/ rpc'[q] = None /\ pc'[q] \in {"idle", "eof", "dead"}
    BY <1>1, <2>1 DEF Respond, Returns, Forget
  <2> QED BY <1>1, <1>2, <2>1, <2>2, <2>3, ServesOk DEF Held, Cancel
<1> QED BY <1>4, <1>5, <1>6, <1>7, <1>8, <1>9, <1>10, <1>11, <1>12

\* The rest of the kernel's handlers.
LEMMA HandlerCalls ==
  ASSUME IInv, TypeOK, CallsOk,
         \/ Park \/ Rescan \/ Scan \/ NotifyReaders \/ NotifyWriters \/ RecheckSelects
         \/ Unref \/ GoFast \/ UnrefDone
  PROVE  CallsOk'
<1>1. /\ DOMAIN loc = Procs /\ DOMAIN rpc = Procs /\ DOMAIN pc = Procs /\ DOMAIN waiter = Procs
      /\ job.p \in Procs /\ CallerOk(job.p) /\ HandlerOk
      /\ (kpc \in {"park", "rescan", "scan"} => job.todo = {} /\ ~job.reply)
  BY DEF TypeOK, CallsOk, IInv, JobOk
<1>2. /\ None.op = "none" /\ NoJob.todo = {} /\ NoJob.reply = FALSE
      /\ [job EXCEPT !.progress = TRUE].p = job.p /\ [job EXCEPT !.progress = TRUE].todo = job.todo
      /\ [job EXCEPT !.progress = TRUE].reply = job.reply
      /\ [job EXCEPT !.progress = FALSE].p = job.p /\ [job EXCEPT !.progress = FALSE].todo = job.todo
      /\ [job EXCEPT !.progress = FALSE].reply = job.reply
  BY DEF None, NoJob, TypeOK
<1>3. ASSUME UNCHANGED <<mode, holders, waiter, pc, rpc, loc>>,
             job.reply => job'.reply /\ job'.p = job.p,
             job'.todo # {} => job'.todo \subseteq job.todo /\ job'.p = job.p /\ job'.reply = job.reply,
             kpc' \in {"idle", "nread", "nwrite", "nsel", "unref"}
      PROVE  CallsOk'
  <2>1. HandlerOk'
    BY <1>1, <1>3 DEF HandlerOk, Held
  <2> QED BY <1>3, <2>1, ServesOk DEF Held
<1>4. ASSUME NEW p \in Procs, waiter[p] # None, Cancel(p), \E to \in {"idle", "eof"} : Respond({p}, Returns(p, to)) \/ Respond({p}, Then(p)),
             UNCHANGED <<mode, holders, loc, kpc>>, job' = [job EXCEPT !.progress = TRUE],
             kpc \in {"nread", "nwrite"}
      PROVE  CallsOk'
  <2>1. rpc[p].op \in {"read", "write", "wait"} /\ pc[p] = "blocked"
    BY <1>4 DEF IInv, Parked
  <2>2. HandlerOk'
    <3>1. job.todo # {} /\ ~job.reply => pc'[job.p] = "dead"
      BY <1>1, <1>4, <2>1 DEF HandlerOk, Respond
    <3> QED BY <1>1, <1>2, <1>4, <3>1 DEF HandlerOk, Held
  <2>3. \A q \in Procs :
          \/ pc'[q] = pc[q] /\ rpc'[q] = rpc[q] /\ loc'[q] = loc[q]
          \/ rpc'[q] = None /\ (pc'[q] \in {"idle", "eof", "dead"} \/ (pc'[q] = rpc[q].then /\ loc'[q] = loc[q]))
    BY <1>4 DEF Respond, Returns, Then
  <2> QED BY <1>1, <1>2, <1>4, <2>2, <2>3, ServesOk DEF Held, Cancel
<1>5. CASE Park
  <2>1. /\ UNCHANGED <<mode, holders, job, pc, rpc, loc>> /\ kpc = "park" /\ kpc' = "rescan"
        /\ waiter' = [waiter EXCEPT ![job.p] = rpc[job.p]] /\ rpc[job.p].op \in {"read", "write"}
    BY <1>5 DEF Park, procs, IInv, JobOk
  <2>2. HandlerOk'
    BY <1>1, <2>1 DEF HandlerOk, Held, Open, Blocked
  <2> QED BY <1>1, <2>1, <2>2, ServesOk DEF Held
<1>6. CASE Rescan
  BY <1>1, <1>2, <1>3, <1>6 DEF Rescan, ring, books, procs
<1>7. CASE Scan
  <2>1. /\ UNCHANGED <<mode, holders, loc>> /\ kpc' = "idle" /\ job' = NoJob /\ kpc = "scan"
    BY <1>7 DEF Scan, Idle
  <2>2. HandlerOk'
    BY <1>2, <2>1 DEF HandlerOk
  <2>3. CASE Respond({job.p}, Then(job.p)) /\ UNCHANGED waiter
    BY <1>1, <2>1, <2>2, <2>3, ServesOk DEF Held, Respond, Then
  <2>4. CASE waiter' = [waiter EXCEPT ![job.p] = rpc[job.p]] /\ UNCHANGED <<rpc, pc>> /\ rpc[job.p].park
    BY <1>1, <2>1, <2>2, <2>4, ServesOk DEF Held
  <2>5. rpc[job.p].park \in BOOLEAN
    BY <1>1 DEF TypeOK, Requests
  <2> QED BY <1>7, <2>3, <2>4, <2>5 DEF Scan
<1>8. CASE NotifyReaders
  <2>1. CASE queue["r"] # <<>> /\ kpc' = kpc
    <3> DEFINE p == Head(queue["r"])
    <3>1. p \in Procs /\ waiter[p] # None
      BY <2>1, HeadQueued DEF Ends
    <3>2. /\ Cancel(p) /\ UNCHANGED <<mode, holders, loc, kpc>> /\ kpc = "nread"
          /\ job' = [job EXCEPT !.progress = TRUE]
          /\ Respond({p}, Then(p)) \/ Respond({p}, Returns(p, "eof"))
      BY <1>8, <2>1 DEF NotifyReaders
    <3> HIDE DEF p
    <3> QED BY <1>4, <3>1, <3>2
  <2>2. CASE kpc' = "nwrite" /\ UNCHANGED <<waiter, job, rpc, pc>>
    BY <1>1, <1>3, <1>8, <2>2 DEF NotifyReaders
  <2> QED BY <1>8, <2>1, <2>2 DEF NotifyReaders
<1>9. CASE NotifyWriters
  <2>1. CASE queue["w"] # <<>> /\ kpc' = kpc
    <3> DEFINE p == Head(queue["w"])
    <3>1. p \in Procs /\ waiter[p] # None
      BY <2>1, HeadQueued DEF Ends
    <3>2. /\ Cancel(p) /\ UNCHANGED <<mode, holders, loc, kpc>> /\ kpc = "nwrite"
          /\ job' = [job EXCEPT !.progress = TRUE] /\ Respond({p}, Then(p))
      BY <1>9, <2>1 DEF NotifyWriters
    <3> HIDE DEF p
    <3> QED BY <1>4, <3>1, <3>2
  <2>2. CASE kpc' \in {"nread", "nsel"} /\ job' = [job EXCEPT !.progress = FALSE] /\ UNCHANGED <<waiter, rpc, pc>>
    BY <1>1, <1>2, <1>3, <1>9, <2>2 DEF NotifyWriters
  <2> QED BY <1>9, <2>1, <2>2 DEF NotifyWriters
<1>10. CASE RecheckSelects
  <2> DEFINE woken == {p \in Procs : waiter[p].op = "wait" /\ Ready(waiter[p].ends)}
  <2>1. \A q \in Procs : q \in woken => rpc[q].op = "wait" /\ pc[q] = "blocked"
    BY <1>2 DEF IInv, Parked
  <2>2. /\ waiter' = [p \in Procs |-> IF p \in woken THEN None ELSE waiter[p]]
        /\ rpc' = [p \in Procs |-> IF p \in woken THEN None ELSE rpc[p]]
        /\ pc'  = [p \in Procs |-> IF p \in woken THEN rpc[p].then ELSE pc[p]]
        /\ Resume /\ UNCHANGED <<mode, holders, loc>>
    BY <1>10 DEF RecheckSelects, Respond
  <2> HIDE DEF woken
  <2>3. kpc' \in {"idle", "unref"} /\ (job' = job \/ (job.todo = {} /\ ~job.reply /\ job' = NoJob))
    BY <2>2 DEF Resume, Idle
  <2>4. HandlerOk'
    <3>1. job.todo # {} /\ ~job.reply => pc'[job.p] = "dead"
      BY <1>1, <2>1, <2>2 DEF HandlerOk
    <3> QED BY <1>1, <1>2, <2>2, <2>3, <3>1 DEF HandlerOk, Held
  <2> QED BY <1>1, <1>2, <2>2, <2>3, <2>4, ServesOk DEF Held
<1>11. CASE Unref
  <2> DEFINE p == job.p
  <2>1. PICK e \in job.todo :
          /\ holders' = [holders EXCEPT ![e] = @ \ {p}]
          /\ job' = [job EXCEPT !.todo = @ \ {e}]
          /\ \/ kpc' \in {"unref", "nread"}
             \/ Promotable(holders', Procs) /\ kpc' = "fast" /\ flag' = Requeued
    BY <1>11 DEF Unref
  <2>2. UNCHANGED <<mode, queue, waiter, pc, rpc, loc>> /\ job \in Jobs(job.free)
    BY <1>11 DEF Unref, procs, IInv, Shape
  <2>3. job'.p = p /\ job'.reply = job.reply /\ job'.todo = job.todo \ {e}
    BY <2>1, <2>2 DEF Jobs
  <2>4. \A q \in Procs : IF q = p THEN Held(q)' = Held(q) \ {e} ELSE Held(q)' = Held(q)
    BY <2>1, <2>2 DEF Held, IInv, Shape
  <2>5. pc[p] = "dead" \/ (job.reply /\ rpc[p].op = "close")
    BY <1>1, <2>1 DEF HandlerOk, IInv, JobOk
  <2>6. pc[p] = "dead" => rpc[p].op = "none"
    BY <1>1 DEF IInv, Parked, TypeOK, Requests
  <2>7. HandlerOk'
    BY <1>1, <2>1, <2>2, <2>3, <2>4, <2>5 DEF HandlerOk
  <2>8. kpc' = "fast" => mode' = "LATENT" /\ \A f \in Ends : queue'[f] # <<>> => flag'[f]
    BY <2>1, <2>2 DEF Promotable, Requeued
  <2> QED BY <1>1, <2>2, <2>3, <2>4, <2>5, <2>6, <2>7, <2>8, ServesOk
<1>12. CASE GoFast
  <2>1. /\ mode' = "FAST" /\ UNCHANGED <<holders, waiter, pc, rpc, loc>> /\ kpc' \in {"idle", "unref"}
        /\ (job' = job \/ (job.todo = {} /\ ~job.reply /\ job' = NoJob))
    BY <1>12 DEF GoFast, Resume, Idle, books, procs
  <2>2. HandlerOk'
    BY <1>1, <1>2, <2>1 DEF HandlerOk, Held
  <2> QED BY <1>1, <2>1, <2>2, ServesOk DEF Held
<1>13. CASE UnrefDone
  <2>1. /\ UNCHANGED <<mode, holders, waiter, loc>> /\ kpc' = "idle" /\ job' = NoJob
        /\ (job.reply /\ Respond({job.p}, Then(job.p))) \/ (~job.reply /\ UNCHANGED <<pc, rpc>>)
    BY <1>13 DEF UnrefDone, Idle, ring, books
  <2>2. HandlerOk'
    BY <1>2, <2>1 DEF HandlerOk
  <2> QED BY <1>1, <2>1, <2>2, ServesOk DEF Held, Respond, Then
<1> QED BY <1>5, <1>6, <1>7, <1>8, <1>9, <1>10, <1>11, <1>12, <1>13

\* While the pipe is FAST each end has one holder, so a lowered flag was no other
\* wait's: whoever is parked for an end is that holder.
LEMMA SoleWaiter ==
  ASSUME IInv, CallsOk, mode = "FAST", NEW e \in Ends, NEW p \in Procs, p \in holders[e]
  PROVE  /\ \A q \in Procs : waiter[q] # None /\ e \in waiter[q].ends => q = p
         /\ \A i \in 1..Len(queue[e]) : queue[e][i] = p
         /\ queue[e] # <<>> => waiter[p].op = OpOf(e)
<1>1. \A q \in holders[e] : q = p
  BY DEF IInv, SoleWhenFast, AtMostOne
<1>2. ASSUME NEW q \in Procs, waiter[q] # None, e \in waiter[q].ends PROVE q = p
  <2>1. waiter[q] = rpc[q] /\ rpc[q].op \in {"read", "write", "wait"} /\ CallerOk(q)
    BY <1>2 DEF IInv, Parked, CallsOk
  <2>2. q \in holders[e]
    BY <1>2, <2>1 DEF IInv, Holding, Reading, Writing, CallerOk, Held
  <2> QED BY <1>1, <2>2
<1>3. ASSUME NEW i \in 1..Len(queue[e]) PROVE queue[e][i] = p /\ waiter[p].op = OpOf(e)
  <2>1. queue[e][i] \in Procs /\ waiter[queue[e][i]].op = OpOf(e)
    BY ElementOfSeq DEF IInv, Shape, Queued
  <2>2. e \in waiter[queue[e][i]].ends /\ waiter[queue[e][i]] # None
    BY <2>1, NoneFields DEF IInv, Parked, Holding, OpOf, Ends
  <2> QED BY <1>2, <2>1, <2>2
<1>4. queue[e] # <<>> => 1 \in 1..Len(queue[e])
  BY EmptySeq, LenProperties DEF IInv, Shape
<1> QED BY <1>2, <1>3, <1>4

\* A wait's ends are held, and so is the end of a queue that is not empty.
LEMMA WaiterHolds ==
  ASSUME IInv, CallsOk, NEW e \in Ends
  PROVE  /\ \A q \in Procs : waiter[q] # None /\ e \in waiter[q].ends => q \in holders[e]
         /\ queue[e] # <<>> => \E q \in Procs : waiter[q] # None /\ e \in waiter[q].ends
<1>1. ASSUME NEW q \in Procs, waiter[q] # None, e \in waiter[q].ends PROVE q \in holders[e]
  <2>1. waiter[q] = rpc[q] /\ rpc[q].op \in {"read", "write", "wait"} /\ CallerOk(q)
    BY <1>1 DEF IInv, Parked, CallsOk
  <2> QED BY <1>1, <2>1 DEF IInv, Holding, Reading, Writing, CallerOk, Held
<1>2. ASSUME queue[e] # <<>> PROVE \E q \in Procs : waiter[q] # None /\ e \in waiter[q].ends
  <2>1. Head(queue[e]) \in Procs /\ waiter[Head(queue[e])].op = OpOf(e)
        /\ waiter[Head(queue[e])] # None
    BY <1>2, HeadQueued
  <2>2. e \in waiter[Head(queue[e])].ends
    BY <2>1 DEF IInv, Parked, Holding, OpOf, Ends
  <2> QED BY <2>1, <2>2
<1> QED BY <1>1, <1>2

\* The queue left by a waiter that is taken back.
LEMMA CancelQueue ==
  ASSUME IInv, NEW p \in Procs, Cancel(p), NEW e \in Ends
  PROVE  /\ queue'[e] # <<>> => queue[e] # <<>>
         /\ (\A i \in 1..Len(queue[e]) : queue[e][i] = p) => queue'[e] = <<>>
<1>1. queue[e] \in Seq(Procs) /\ queue'[e] = Without(queue[e], p)
  BY DEF IInv, Shape, Cancel
<1>2. \A i, j \in 1..Len(queue[e]) : queue[e][i] = queue[e][j] => i = j
  BY DEF IInv, Queued
<1>3. /\ queue'[e] \in Seq(Procs)
      /\ \A i \in 1..Len(queue'[e]) : queue'[e][i] # p /\ \E k \in 1..Len(queue[e]) : queue[e][k] = queue'[e][i]
  BY <1>1, <1>2, WithoutRemoves
<1>4. queue'[e] # <<>> => 1 \in 1..Len(queue'[e])
  BY <1>3, EmptySeq, LenProperties
<1>5. queue[e] = <<>> => 1..Len(queue[e]) = {}
  BY EmptySeq
<1> QED BY <1>3, <1>4, <1>5

\* A step that leaves the ring, the queues and the waits alone and still owes
\* what it owed.
LEMMA StillWakes ==
  ASSUME QueueWakes, WaitWakes, Flagged, mode' = mode \/ mode' = "DEMOTED",
         UNCHANGED <<head, tail, queue, waiter>>,
         \A e \in Ends : Open(e)' = Open(e) /\ (flag[e] => flag'[e]),
         \A e \in Ends : Owed(e) => Owed(e)',
         \A e \in Ends : Looking(e) => Looking(e)',
         Rechecking => Rechecking'
  PROVE  QueueWakes' /\ WaitWakes' /\ Flagged'
<1>1. Avail' = Avail /\ Free' = Free
  BY DEF Avail, Free
<1>2. \A e \in Ends : Stuck(e)' = Stuck(e) /\ (Ready({e})' <=> Ready({e}))
  BY <1>1 DEF Stuck, Ready, Ends, Blocked
<1>3. QueueWakes'
  BY <1>2 DEF QueueWakes
<1>4. WaitWakes'
  BY <1>2 DEF WaitWakes, Waits
<1>5. Flagged'
  BY DEF Flagged, Waits
<1> QED BY <1>3, <1>4, <1>5

\* A program's step that leaves the ring's indices alone.
LEMMA ProgramWakes ==
  ASSUME IInv, CallsOk, QueueWakes, WaitWakes, Flagged, NEW p \in Procs,
         pc[p] # "blocked", UNCHANGED <<mode, head, tail, flag, books, kernel>>,
         \A q \in Procs \ {p} : pc'[q] = pc[q] /\ rpc'[q] = rpc[q],
         (pc[p] = "wrKick" /\ flag["r"]) \/ (pc[p] = "rdKick" /\ flag["w"]) => rpc'[p].op = "kick"
  PROVE  QueueWakes' /\ WaitWakes' /\ Flagged'
<1> USE DEF books, kernel
<1>1. rpc[p].op = "none" /\ job.p \in Procs
  BY NoneFields DEF IInv, Parked, Shape, Jobs
<1>2. \A e \in Ends : Owed(e) => Owed(e)'
  BY <1>1 DEF Owed, Ends
<1>3. kpc = "rescan" => job.p # p
  BY <1>1 DEF CallsOk, HandlerOk
<1>4. (\A e \in Ends : Looking(e) => Looking(e)') /\ (Rechecking => Rechecking')
  BY <1>1, <1>3 DEF Looking, Rechecking, Closing
<1> QED BY <1>2, <1>4, StillWakes DEF Open

\* The reader frees cells: the flag its kick answers to is the writers'.
LEMMA RdCommitWakes ==
  ASSUME IInv, TypeOK, FastRoleIsSole, CallsOk, QueueWakes, WaitWakes, Flagged, NEW p \in Procs, RdCommit(p)
  PROVE  QueueWakes' /\ WaitWakes' /\ Flagged'
<1>1. /\ pc[p] = "rdCommit" /\ pc'[p] = "rdKick" /\ UNCHANGED <<mode, flag, rpc, queue, waiter, holders>>
      /\ pc[p] \in FastReading
  BY DEF RdCommit, Goto, Program, books, IInv, Shape, FastReading
<1>2. Flagged'
  BY <1>1 DEF Flagged, Waits
<1>3. CASE mode = "FAST"
  <2>1. flag["w"] => Owed("w")'
    BY <1>1 DEF Owed
  <2>2. holders["r"] = {p} /\ \A q \in Procs : rpc[q].op # "read"
    BY <1>1 DEF FastRoleIsSole
  <2>3. waiter[p] = None
    BY <1>1, NoneFields DEF IInv, Parked
  <2>4. queue["r"] = <<>> /\ \A q \in Procs : ~Waits(q, "r")
    BY <1>3, <2>2, <2>3, NoneFields, SoleWaiter DEF Ends, OpOf, Waits
  <2>5. queue["w"] # <<>> \/ (\E q \in Procs : Waits(q, "w")) => flag["w"]
    BY <1>3 DEF Flagged, Ends
  <2> QED BY <1>1, <1>2, <2>1, <2>4, <2>5 DEF QueueWakes, WaitWakes, Waits, Ends
<1>4. CASE mode # "FAST"
  BY <1>1, <1>2, <1>4 DEF QueueWakes, WaitWakes, IInv, CallsOk, LatentQuiet, TypeOK
<1> QED BY <1>3, <1>4

\* The writer adds bytes: the flag its kick answers to is the readers'.
LEMMA WrCommitWakes ==
  ASSUME IInv, TypeOK, FastRoleIsSole, CallsOk, QueueWakes, WaitWakes, Flagged, NEW p \in Procs, WrCommit(p)
  PROVE  QueueWakes' /\ WaitWakes' /\ Flagged'
<1>1. /\ pc[p] = "wrCommit" /\ pc'[p] = "wrKick" /\ UNCHANGED <<mode, flag, rpc, queue, waiter, holders>>
      /\ pc[p] \in FastWriting
  BY DEF WrCommit, Goto, Program, books, IInv, Shape, FastWriting
<1>2. Flagged'
  BY <1>1 DEF Flagged, Waits
<1>3. CASE mode = "FAST"
  <2>1. flag["r"] => Owed("r")'
    BY <1>1 DEF Owed
  <2>2. holders["w"] = {p} /\ \A q \in Procs : rpc[q].op # "write"
    BY <1>1 DEF FastRoleIsSole
  <2>3. waiter[p] = None
    BY <1>1, NoneFields DEF IInv, Parked
  <2>4. queue["w"] = <<>> /\ \A q \in Procs : ~Waits(q, "w")
    BY <1>3, <2>2, <2>3, NoneFields, SoleWaiter DEF Ends, OpOf, Waits
  <2>5. queue["r"] # <<>> \/ (\E q \in Procs : Waits(q, "r")) => flag["r"]
    BY <1>3 DEF Flagged, Ends
  <2> QED BY <1>1, <1>2, <2>1, <2>4, <2>5 DEF QueueWakes, WaitWakes, Waits, Ends
<1>4. CASE mode # "FAST"
  BY <1>1, <1>2, <1>4 DEF QueueWakes, WaitWakes, IInv, CallsOk, LatentQuiet, TypeOK
<1> QED BY <1>3, <1>4

\* The kernel looks round from here.
LEMMA LooksRound ==
  ASSUME kpc' = "nread" \/ Closing', Flagged' PROVE QueueWakes' /\ WaitWakes' /\ Flagged'
BY DEF QueueWakes, WaitWakes, Looking, Rechecking

\* A waiter taken back lowers no flag another call needs.
LEMMA CancelFlagged ==
  ASSUME IInv, TypeOK, CallsOk, Flagged, NEW p \in Procs, Cancel(p), UNCHANGED mode
  PROVE  Flagged'
<1> SUFFICES ASSUME mode = "FAST", NEW e \in Ends, queue'[e] # <<>> \/ \E q \in Procs : Waits(q, e)'
             PROVE  flag'[e]
  BY DEF Flagged
<1>1. \A q \in Procs : waiter'[q] = IF q = p THEN None ELSE waiter[q]
  BY DEF Cancel, TypeOK
<1>2. (queue'[e] # <<>> => queue[e] # <<>>) /\ \A q \in Procs : Waits(q, e)' => Waits(q, e) /\ q # p
  BY <1>1, CancelQueue, NoneFields DEF Waits
<1>3. flag[e]
  BY <1>2 DEF Flagged
<1>4. e \notin waiter[p].ends
  <2> SUFFICES ASSUME e \in waiter[p].ends PROVE FALSE
    OBVIOUS
  <2>1. waiter[p] # None /\ p \in holders[e]
    BY NoneFields, WaiterHolds
  <2>2. /\ \A q \in Procs : waiter[q] # None /\ e \in waiter[q].ends => q = p
        /\ \A i \in 1..Len(queue[e]) : queue[e][i] = p
    BY <2>1, SoleWaiter
  <2>3. queue'[e] = <<>>
    BY <2>2, CancelQueue
  <2> QED BY <1>2, <2>2, <2>3, NoneFields DEF Waits
<1> QED BY <1>3, <1>4 DEF Cancel, Lowered

\* A call that was not parked, and was no kick, is answered or goes on.
LEMMA CallMoves ==
  ASSUME IInv, CallsOk, QueueWakes, WaitWakes, Flagged, NEW p \in Procs,
         kpc = "idle" \/ (kpc = "unref" /\ job.todo = {}), pc[p] = "blocked", rpc[p].op # "kick",
         mode' = mode \/ mode' = "DEMOTED",
         UNCHANGED <<head, tail, queue, waiter>>,
         \A e \in Ends : Open(e)' = Open(e) /\ (flag[e] => flag'[e]),
         \A q \in Procs : pc[q] \in {"wrKick", "rdKick"} => pc'[q] = pc[q],
         \A q \in Procs : rpc[q].op = "kick" => rpc'[q] = rpc[q]
  PROVE  QueueWakes' /\ WaitWakes' /\ Flagged'
<1>1. \A e \in Ends : Owed(e) => Owed(e)'
  BY DEF Owed
<1>2. (\A e \in Ends : ~Looking(e)) /\ ~Rechecking
  BY DEF Looking, Rechecking, Closing
<1> QED BY <1>1, <1>2, StillWakes

\* A flag that is lowered was owed nothing: the pipe is FAST and the waits of its
\* end are those of p, or it is not FAST and nobody has committed.
LEMMA StillOwed ==
  ASSUME IInv, TypeOK, CallsOk, mode # "DEMOTED", NEW e \in Ends, Owed(e),
         \A q \in Procs : rpc[q].op = "kick" => rpc'[q] = rpc[q],
         \A q \in Procs : pc[q] \in {"wrKick", "rdKick"} => pc'[q] = pc[q],
         mode = "FAST" => (flag[e] => flag'[e])
  PROVE  Owed(e)'
<1>1. mode = "LATENT" => \A q \in Procs : pc[q] \notin {"wrKick", "rdKick"}
  BY DEF CallsOk, LatentQuiet, FastReading, FastWriting
<1> QED BY <1>1 DEF Owed, TypeOK

\* A call starts: the wakes that were due are due.
LEMMA CallWakes ==
  ASSUME IInv, TypeOK, CallsOk, QueueWakes, WaitWakes, Flagged, NEW p \in Procs,
         \/ ReadRpc(p) \/ WriteRpc(p) \/ WaitRpc(p) \/ KickRpc(p)
         \/ SpawnRpc(p) \/ SpawnFails(p) \/ CloseRpc(p)
  PROVE  QueueWakes' /\ WaitWakes' /\ Flagged'
<1>1. /\ kpc = "idle" /\ pc[p] = "blocked" /\ DOMAIN rpc = Procs /\ DOMAIN pc = Procs
      /\ flag \in [Ends -> BOOLEAN] /\ UNCHANGED <<queue, waiter>>
  BY DEF IInv, Parked, TypeOK, ReadRpc, WriteRpc, WaitRpc, KickRpc, SpawnRpc, SpawnFails, CloseRpc, books
<1>2. ASSUME NEW to, Respond({p}, Returns(p, to)) \/ Respond({p}, Then(p)) \/ UNCHANGED <<pc, rpc>>,
             rpc[p].op # "kick",
             UNCHANGED <<mode, head, tail, holders>>, \A e \in Ends : flag[e] => flag'[e]
      PROVE  QueueWakes' /\ WaitWakes' /\ Flagged'
  BY <1>1, <1>2, CallMoves DEF Respond, Open
<1>3. ASSUME kpc' = "nread", UNCHANGED <<mode, flag>>
      PROVE  QueueWakes' /\ WaitWakes' /\ Flagged'
  BY <1>1, <1>3, LooksRound DEF Flagged, Waits
<1>4. CASE ReadRpc(p)
  <2>1. UNCHANGED <<mode, tail, flag, holders>> /\ rpc[p].op = "read"
    BY <1>4 DEF ReadRpc, books
  <2>2. \/ kpc' = "nread"
        \/ UNCHANGED head /\ (Respond({p}, Returns(p, "eof")) \/ UNCHANGED <<pc, rpc>>)
    BY <1>4 DEF ReadRpc
  <2> QED BY <1>2, <1>3, <2>1, <2>2
<1>5. CASE WriteRpc(p)
  <2>1. UNCHANGED <<mode, head, flag, holders>> /\ rpc[p].op = "write"
    BY <1>5 DEF WriteRpc, books
  <2>2. \/ kpc' = "nread"
        \/ UNCHANGED tail /\ (Respond({p}, Then(p)) \/ UNCHANGED <<pc, rpc>>)
    BY <1>5 DEF WriteRpc
  <2> QED BY <1>2, <1>3, <2>1, <2>2
<1>6. CASE WaitRpc(p)
  <2>1. UNCHANGED <<mode, head, tail, holders, pc, rpc>> /\ rpc[p].op = "wait"
        /\ \A e \in Ends : flag[e] => flag'[e]
    BY <1>6 DEF WaitRpc, books, procs
  <2> QED BY <1>2, <2>1
<1>7. CASE KickRpc(p)
  BY <1>3, <1>7 DEF KickRpc, ring
<1>8. CASE SpawnRpc(p)
  <2> DEFINE c == rpc[p].child
  <2>1. /\ rpc[p].op = "spawn" /\ pc[c] = "unborn" /\ c # p /\ c \in Procs
        /\ rpc[p].ends \subseteq Held(p)
        /\ mode' = mode \/ mode' = "DEMOTED"
        /\ UNCHANGED <<head, tail>>
        /\ flag' = flag \/ flag' = Requeued
        /\ pc' = [pc EXCEPT ![c] = "idle"] \/ pc' = [pc EXCEPT ![c] = "idle", ![p] = rpc[p].then]
        /\ rpc' = rpc \/ rpc' = [rpc EXCEPT ![p] = None]
        /\ holders' = [e \in Ends |-> holders[e] \cup (IF e \in rpc[p].ends THEN {c} ELSE {})]
    BY <1>1, <1>8 DEF SpawnRpc, IInv, Holding
  <2> HIDE DEF c
  <2>2. \A e \in Ends : Open(e)' = Open(e) /\ (flag[e] => flag'[e])
    BY <2>1 DEF Open, Requeued, Held
  <2>3. \A q \in Procs : pc[q] \in {"wrKick", "rdKick"} => pc'[q] = pc[q]
    BY <1>1, <2>1
  <2>4. \A q \in Procs : rpc[q].op = "kick" => rpc'[q] = rpc[q]
    BY <1>1, <2>1
  <2> QED BY <1>1, <2>1, <2>2, <2>3, <2>4, CallMoves
<1>9. CASE SpawnFails(p)
  BY <1>2, <1>9 DEF SpawnFails, ring, books
<1>10. CASE CloseRpc(p)
  BY <1>2, <1>10 DEF CloseRpc, ring, books, procs
<1> QED BY <1>4, <1>5, <1>6, <1>7, <1>8, <1>9, <1>10

\* A parked call is interrupted.
LEMMA InterruptWakes ==
  ASSUME IInv, TypeOK, CallsOk, QueueWakes, WaitWakes, Flagged, NEW p \in Procs, Interrupt(p)
  PROVE  QueueWakes' /\ WaitWakes' /\ Flagged'
<1>1. /\ kpc = "idle" /\ waiter[p] # None /\ Cancel(p) /\ Respond({p}, Returns(p, "idle"))
      /\ UNCHANGED <<mode, head, tail, holders, kpc, job>>
  BY DEF Interrupt, kernel
<1>2. pc[p] = "blocked" /\ rpc[p].op # "kick"
  BY <1>1 DEF IInv, Parked
<1>3. Flagged'
  BY <1>1, CancelFlagged
<1>4. \A q \in Procs : waiter'[q] = IF q = p THEN None ELSE waiter[q]
  BY <1>1 DEF Cancel, TypeOK
<1>5. ASSUME NEW e \in Ends, mode # "DEMOTED", Owed(e), queue'[e] # <<>> \/ \E q \in Procs : Waits(q, e)'
      PROVE  Owed(e)'
  <2>1. mode = "FAST" => flag'[e]
    BY <1>1, <1>3, <1>5 DEF Flagged
  <2> QED BY <1>1, <1>2, <1>5, <2>1, StillOwed DEF Respond
<1>6. Avail' = Avail /\ Free' = Free
  BY <1>1 DEF Avail, Free
<1>7. \A e \in Ends : ~Looking(e) /\ ~Rechecking /\ Stuck(e)' = Stuck(e) /\ Ready({e})' = Ready({e})
  BY <1>1, <1>6 DEF Looking, Rechecking, Closing, Stuck, Ready, Open, Blocked
<1>8. \A e \in Ends : (queue'[e] # <<>> => queue[e] # <<>>) /\ \A q \in Procs : Waits(q, e)' => Waits(q, e)
  BY <1>1, <1>4, CancelQueue, NoneFields DEF Waits
<1>9. QueueWakes'
  BY <1>1, <1>5, <1>7, <1>8 DEF QueueWakes
<1>10. WaitWakes'
  BY <1>1, <1>5, <1>7, <1>8 DEF WaitWakes
<1> QED BY <1>3, <1>9, <1>10

\* A process dies: what it owed it owed as a holder, whose ends are closed next.
LEMMA DieWakes ==
  ASSUME IInv, TypeOK, CallsOk, QueueWakes, WaitWakes, Flagged, NEW p \in Procs, Die(p)
  PROVE  QueueWakes' /\ WaitWakes' /\ Flagged'
<1>1. /\ kpc = "idle" /\ Cancel(p) /\ Respond({p}, Returns(p, "dead"))
      /\ UNCHANGED <<mode, head, tail, holders>> /\ kpc' = "unref" /\ job' = [Job(p) EXCEPT !.todo = Held(p)]
  BY DEF Die
<1>2. job'.todo = Held(p)
  BY <1>1 DEF Job, NoJob
<1>3. Flagged'
  BY <1>1, CancelFlagged
<1>4. \A q \in Procs : waiter'[q] = IF q = p THEN None ELSE waiter[q]
  BY <1>1 DEF Cancel, TypeOK
<1>5. CASE mode = "FAST" /\ Held(p) # {}
  BY <1>1, <1>2, <1>3, <1>5, LooksRound DEF Closing
<1>6. CASE mode # "FAST" \/ Held(p) = {}
  <2>1. ASSUME mode # "DEMOTED" PROVE pc[p] \notin {"wrKick", "rdKick"} /\ rpc[p].op # "kick"
    <3>1. CASE Held(p) = {}
      BY <3>1 DEF CallsOk, CallerOk, IInv, Holding, Reading, Writing, FastReading, FastWriting, Held, Ends
    <3>2. CASE mode = "LATENT"
      BY <3>2 DEF CallsOk, LatentQuiet, FastReading, FastWriting
    <3> QED BY <1>6, <2>1, <3>1, <3>2 DEF TypeOK
  <2>2. ASSUME NEW e \in Ends, mode # "DEMOTED", Owed(e), queue'[e] # <<>> \/ \E q \in Procs : Waits(q, e)'
        PROVE  Owed(e)'
    <3>1. mode = "FAST" => flag'[e]
      BY <1>1, <1>3, <2>2 DEF Flagged
    <3> QED BY <1>1, <2>1, <2>2, <3>1, StillOwed DEF Respond
  <2>3. Avail' = Avail /\ Free' = Free
    BY <1>1 DEF Avail, Free
  <2>4. \A e \in Ends : ~Looking(e) /\ ~Rechecking /\ Stuck(e)' = Stuck(e) /\ Ready({e})' = Ready({e})
    BY <1>1, <2>3 DEF Looking, Rechecking, Closing, Stuck, Ready, Open, Blocked
  <2>5. \A e \in Ends : (queue'[e] # <<>> => queue[e] # <<>>) /\ \A q \in Procs : Waits(q, e)' => Waits(q, e)
    BY <1>1, <1>4, CancelQueue, NoneFields DEF Waits
  <2>6. QueueWakes'
    BY <1>1, <2>2, <2>4, <2>5 DEF QueueWakes
  <2>7. WaitWakes'
    BY <1>1, <2>2, <2>4, <2>5 DEF WaitWakes
  <2> QED BY <1>3, <2>6, <2>7
<1> QED BY <1>5, <1>6

\* The blocked sizes agree, so what blocks one parked write blocks every write.
LEMMA OneBlockedAllBlocked ==
  ASSUME TypeOK, Stream, AlikeWrites, NEW n \in WriteSizes, NEW free \in Nat, Blocked(n, free), Free <= free
  PROVE  \A m \in WriteSizes : Blocked(m, Free)
<1>1. Free \in 0..Cap /\ n \in Nat \ {0} /\ Atomic \in Nat /\ Free \in Nat
  BY RingLevels, RingAssumption
<1> HIDE DEF Free
<1>2. Blocked(n, Free)
  BY <1>1 DEF Blocked
<1> QED BY <1>1, <1>2 DEF AlikeWrites

\* Parking and looking again.
LEMMA ParkWakes ==
  ASSUME IInv, TypeOK, Stream, CallsOk, QueueWakes, WaitWakes, Flagged, Park \/ Rescan \/ Scan
  PROVE  QueueWakes' /\ WaitWakes' /\ Flagged'
<1>1. job.p \in Procs /\ DOMAIN waiter = Procs /\ DOMAIN flag = Ends /\ queue \in [Ends -> Seq(Procs)]
  BY DEF IInv, Shape, Jobs
<1>2. CASE Park
  <2> DEFINE p == job.p
  <2>1. PICK x \in Ends :
        /\ kpc = "park" /\ kpc' = "rescan" /\ UNCHANGED <<mode, head, tail, holders, job, pc, rpc>>
        /\ waiter' = [waiter EXCEPT ![p] = rpc[p]] /\ flag' = [flag EXCEPT ![x] = TRUE]
        /\ queue' = [queue EXCEPT ![x] = Append(@, p)]
        /\ rpc[p].op = OpOf(x) /\ rpc[p].op # "wait"
    BY <1>2 DEF Park, procs, IInv, JobOk, OpOf, Ends
  <2> HIDE DEF p
  <2>2. Looking(x)'
    <3>1. job'.p = p
      BY <2>1 DEF p
    <3> QED BY <2>1, <3>1 DEF Looking
  <2>3. \A e \in Ends : ~Looking(e) /\ ~Rechecking
    BY <2>1 DEF Looking, Rechecking, Closing
  <2>4. Avail' = Avail /\ Free' = Free
    BY <2>1 DEF Avail, Free
  <2>5. \A e \in Ends : /\ Stuck(e)' = Stuck(e) /\ Ready({e})' = Ready({e})
                        /\ (Owed(e) => Owed(e)') /\ (flag[e] => flag'[e])
    BY <1>1, <2>1, <2>4 DEF Stuck, Ready, Open, Blocked, Owed
  <2>6. \A e \in Ends : \A q \in Procs : Waits(q, e)' => Waits(q, e)
    BY <1>1, <2>1 DEF Waits, p
  <2>7. \A e \in Ends : e # x => queue'[e] = queue[e]
    BY <2>1
  <2>8. QueueWakes'
    <3> SUFFICES ASSUME mode # "DEMOTED", NEW e \in Ends, Uniform(e), queue'[e] # <<>>
                 PROVE  Stuck(e)' \/ Looking(e)' \/ Owed(e)'
      BY <2>1 DEF QueueWakes
    <3>1. CASE e = x
      BY <2>2, <3>1
    <3>2. CASE e # x
      BY <2>3, <2>5, <2>7, <3>2 DEF QueueWakes
    <3> QED BY <3>1, <3>2
  <2>9. WaitWakes'
    BY <2>1, <2>3, <2>5, <2>6 DEF WaitWakes
  <2>10. flag'[x]
    BY <1>1, <2>1
  <2>11. Flagged'
    BY <2>1, <2>5, <2>6, <2>7, <2>10 DEF Flagged
  <2> QED BY <2>8, <2>9, <2>11
<1>3. CASE Rescan
  <2>1. kpc = "rescan" /\ UNCHANGED <<mode, head, tail, flag, queue, waiter, holders, pc, rpc>>
        /\ (Rescan => kpc' = "nread" \/ (kpc' = "idle" /\ ~(rpc[job.p].op = "read" /\ Avail > 0)
                                         /\ ~(rpc[job.p].op = "write" /\ Free > job.free)))
    BY <1>3 DEF Rescan, ring, books, procs
  <2>2. Flagged'
    BY <2>1 DEF Flagged, Waits
  <2>3. CASE kpc' = "nread"
    BY <2>2, <2>3, LooksRound
  <2>4. CASE /\ kpc' = "idle" /\ ~(rpc[job.p].op = "read" /\ Avail > 0)
             /\ ~(rpc[job.p].op = "write" /\ Free > job.free)
    <3>1. Avail \in 0..Cap /\ Free \in 0..Cap /\ Cap \in Nat /\ job.free \in Nat
      BY RingLevels DEF TypeOK
    <3>2. Avail' = Avail /\ Free' = Free
      BY <2>1 DEF Avail, Free
    <3>3. \A e \in Ends : Stuck(e)' = Stuck(e) /\ Ready({e})' = Ready({e}) /\ (Owed(e) => Owed(e)') /\ ~Rechecking
      BY <2>1, <3>2 DEF Stuck, Ready, Open, Blocked, Owed, Rechecking, Closing
    <3> HIDE DEF Avail, Free
    <3>4. \A e \in Ends : Uniform(e) /\ Looking(e) => Stuck(e)
      <4> SUFFICES ASSUME NEW e \in Ends, Uniform(e), rpc[job.p].op = OpOf(e) PROVE Stuck(e)
        BY <2>1 DEF Looking, Closing
      <4>1. CASE e = "r"
        <5>1. ~(Avail > 0) /\ Open("w")
          BY <2>1, <2>4, <4>1 DEF CallsOk, HandlerOk, OpOf
        <5>2. Avail = 0
          BY <3>1, <5>1
        <5> QED BY <4>1, <5>1, <5>2 DEF Stuck
      <4>2. CASE e # "r"
        <5>1. /\ ~(Free > job.free) /\ Open("r") /\ Blocked(rpc[job.p].n, job.free)
              /\ rpc[job.p].n \in WriteSizes
          BY <1>1, <2>1, <2>4, <4>2 DEF CallsOk, HandlerOk, CallerOk, OpOf
        <5>2. Free <= job.free
          BY <3>1, <5>1
        <5>3. \A m \in WriteSizes : Blocked(m, Free)
          BY <3>1, <4>2, <5>1, <5>2, OneBlockedAllBlocked DEF Uniform
        <5> QED BY <4>2, <5>1, <5>3 DEF Stuck
      <4> QED BY <4>1, <4>2
    <3>5. QueueWakes'
      BY <2>1, <3>3, <3>4 DEF QueueWakes
    <3>6. WaitWakes'
      BY <2>1, <3>3 DEF WaitWakes, Waits
    <3> QED BY <2>2, <3>5, <3>6
  <2> QED BY <1>3, <2>1, <2>3, <2>4
<1>4. CASE Scan
  <2> DEFINE p == job.p
  <2>1. /\ kpc = "scan" /\ UNCHANGED <<mode, head, tail, holders, queue>>
        /\ \/ Respond({p}, Then(p)) /\ flag' = Lowered(rpc[p].ends) /\ UNCHANGED waiter
           \/ /\ ~Ready(rpc[p].ends)
              /\ waiter' = [waiter EXCEPT ![p] = rpc[p]] /\ UNCHANGED <<flag, rpc, pc>>
    BY <1>4 DEF Scan
  <2>2. /\ p \in Procs /\ rpc[p].op = "wait" /\ waiter[p] = None /\ pc[p] = "blocked"
        /\ rpc[p].ends \subseteq Held(p) /\ \A e \in rpc[p].ends : flag[e]
    BY <1>1, <2>1 DEF IInv, JobOk, Parked, CallsOk, CallerOk, HandlerOk
  <2> HIDE DEF p
  <2>3. \A e \in Ends : ~Looking(e) /\ ~Rechecking
    BY <2>1 DEF Looking, Rechecking, Closing
  <2>4. Avail' = Avail /\ Free' = Free
    BY <2>1 DEF Avail, Free
  <2>5. \A e \in Ends : Stuck(e)' = Stuck(e) /\ Ready({e})' = Ready({e})
    BY <2>1, <2>4 DEF Stuck, Ready, Open, Blocked
  <2>6. CASE Respond({p}, Then(p)) /\ flag' = Lowered(rpc[p].ends) /\ UNCHANGED waiter
    <3>1. Flagged'
      <4> SUFFICES ASSUME mode = "FAST", NEW e \in Ends, queue[e] # <<>> \/ \E q \in Procs : Waits(q, e)
                   PROVE  flag'[e]
        BY <2>1, <2>6 DEF Flagged, Waits
      <4>1. flag[e]
        BY DEF Flagged
      <4>2. PICK q \in Procs : waiter[q] # None /\ e \in waiter[q].ends
        BY WaiterHolds, NoneFields DEF Waits
      <4>3. e \notin rpc[p].ends
        BY <2>2, <4>2, SoleWaiter DEF Held
      <4> QED BY <2>6, <4>1, <4>3 DEF Lowered
    <3>2. ASSUME NEW e \in Ends, mode # "DEMOTED", Owed(e), queue[e] # <<>> \/ \E q \in Procs : Waits(q, e)
          PROVE  Owed(e)'
      <4>1. mode = "FAST" => flag'[e]
        BY <2>1, <2>6, <3>1, <3>2 DEF Flagged, Waits
      <4> QED BY <2>2, <2>6, <3>2, <4>1, StillOwed DEF Respond
    <3>3. QueueWakes'
      BY <2>1, <2>3, <2>5, <3>2 DEF QueueWakes
    <3>4. WaitWakes'
      BY <2>1, <2>3, <2>5, <2>6, <3>2 DEF WaitWakes, Waits
    <3> QED BY <3>1, <3>3, <3>4
  <2>7. CASE /\ ~Ready(rpc[p].ends)
             /\ waiter' = [waiter EXCEPT ![p] = rpc[p]] /\ UNCHANGED <<flag, rpc, pc>>
    <3>1. \A e \in Ends : Owed(e)' = Owed(e)
      BY <2>7 DEF Owed
    <3>2. \A e \in Ends : \A q \in Procs : Waits(q, e)' => Waits(q, e) \/ (q = p /\ e \in rpc[p].ends)
      BY <1>1, <2>7 DEF Waits
    <3>3. \A e \in Ends : e \in rpc[p].ends => ~Ready({e}) /\ flag[e]
      BY <2>2, <2>7 DEF Ready
    <3>4. Flagged'
      BY <2>1, <2>7, <3>2, <3>3 DEF Flagged
    <3>5. QueueWakes'
      BY <2>1, <2>3, <2>5, <3>1 DEF QueueWakes
    <3>6. WaitWakes'
      BY <2>1, <2>3, <2>5, <3>1, <3>2, <3>3 DEF WaitWakes
    <3> QED BY <3>4, <3>5, <3>6
  <2> QED BY <2>1, <2>6, <2>7
<1> QED BY <1>2, <1>3, <1>4

\* _pipeNotify: every queue and every wait is looked at before the kernel rests.
LEMMA NotifyWakes ==
  ASSUME IInv, TypeOK, Stream, CallsOk, QueueWakes, WaitWakes, Flagged,
         NotifyReaders \/ NotifyWriters \/ RecheckSelects
  PROVE  QueueWakes' /\ WaitWakes' /\ Flagged'
<1>1. Avail \in 0..Cap /\ Free \in 0..Cap /\ Cap \in Nat /\ Free \in Nat
  BY RingLevels
<1>2. CASE NotifyReaders
  <2>1. UNCHANGED mode /\ kpc = "nread"
    BY <1>2 DEF NotifyReaders
  <2>2. CASE queue["r"] # <<>> /\ Cancel(Head(queue["r"])) /\ kpc' = kpc
    <3>1. Head(queue["r"]) \in Procs
      BY <2>2, HeadQueued DEF Ends
    <3> QED BY <2>1, <2>2, <3>1, CancelFlagged, LooksRound
  <2>3. CASE /\ kpc' = "nwrite" /\ UNCHANGED <<flag, waiter, queue, rpc, pc>>
             /\ UNCHANGED <<head, tail, holders>> /\ ~(queue["r"] # <<>> /\ (Avail > 0 \/ ~Open("w")))
    <3>1. Flagged'
      BY <2>1, <2>3 DEF Flagged, Waits
    <3>2. WaitWakes'
      BY <2>3 DEF WaitWakes, Rechecking
    <3>3. queue["r"] # <<>> => Stuck("r")'
      <4>1. Avail' = Avail /\ Open("w")' = Open("w")
        BY <2>3 DEF Avail, Open
      <4> HIDE DEF Avail, Free
      <4>2. queue["r"] # <<>> => Avail = 0 /\ Open("w")
        BY <1>1, <2>3
      <4> QED BY <4>1, <4>2 DEF Stuck
    <3>4. QueueWakes'
      BY <2>3, <3>3 DEF QueueWakes, Looking, Ends
    <3> QED BY <3>1, <3>2, <3>4
  <2> QED BY <1>2, <2>2, <2>3 DEF NotifyReaders
<1>3. CASE NotifyWriters
  <2>1. UNCHANGED mode /\ kpc = "nwrite"
    BY <1>3 DEF NotifyWriters
  <2>2. CASE queue["w"] # <<>> /\ Cancel(Head(queue["w"])) /\ kpc' = kpc /\ job' = [job EXCEPT !.progress = TRUE]
    <3>1. Head(queue["w"]) \in Procs /\ job'.progress = TRUE
      BY <2>2, HeadQueued DEF Ends, TypeOK
    <3>2. Flagged'
      BY <2>1, <2>2, <3>1, CancelFlagged
    <3> QED BY <2>1, <2>2, <3>1, <3>2 DEF QueueWakes, WaitWakes, Looking, Rechecking, Ends
  <2>3. CASE /\ kpc' = (IF job.progress THEN "nread" ELSE "nsel")
             /\ UNCHANGED <<flag, waiter, queue, rpc, pc>> /\ UNCHANGED <<head, tail, holders>>
             /\ ~(queue["w"] # <<>> /\ (~Open("r") \/ ~Blocked(waiter[Head(queue["w"])].n, Free)))
    <3>1. Flagged'
      BY <2>1, <2>3 DEF Flagged, Waits
    <3>2. WaitWakes'
      BY <2>3 DEF WaitWakes, Rechecking
    <3>3. Avail' = Avail /\ Free' = Free
      BY <2>3 DEF Avail, Free
    <3>4. \A e \in Ends : Stuck(e)' = Stuck(e) /\ (Owed(e) => Owed(e)')
      BY <2>3, <3>3 DEF Stuck, Open, Blocked, Owed
    <3>5. Uniform("w") /\ queue["w"] # <<>> => Stuck("w")
      <4> SUFFICES ASSUME Uniform("w"), queue["w"] # <<>> PROVE Stuck("w")
        OBVIOUS
      <4> DEFINE h == Head(queue["w"])
      <4>1. h \in Procs /\ waiter[h].op = "write" /\ waiter[h] # None
        BY HeadQueued DEF Ends, OpOf
      <4>2. waiter[h] = rpc[h] /\ waiter[h].n \in WriteSizes
        BY <4>1 DEF IInv, Parked, CallsOk, CallerOk
      <4>3. Open("r") /\ Blocked(waiter[h].n, Free)
        BY <2>3
      <4> HIDE DEF h, Free
      <4>4. Free <= Free
        BY <1>1
      <4>5. \A m \in WriteSizes : Blocked(m, Free)
        BY <1>1, <4>2, <4>3, <4>4, OneBlockedAllBlocked DEF Uniform
      <4> QED BY <4>3, <4>5 DEF Stuck
    <3>6. CASE job.progress
      BY <2>3, <3>1, <3>6, LooksRound
    <3>7. CASE ~job.progress
      <4>1. Looking("r") => FALSE
        BY <2>1, <3>7 DEF Looking, Closing
      <4>2. QueueWakes'
        BY <2>1, <2>3, <3>4, <3>5, <4>1 DEF QueueWakes, Ends
      <4> QED BY <3>1, <3>2, <4>2
    <3> QED BY <3>6, <3>7
  <2> QED BY <1>3, <2>2, <2>3 DEF NotifyWriters
<1>4. CASE RecheckSelects
  <2> DEFINE woken == {p \in Procs : waiter[p].op = "wait" /\ Ready(waiter[p].ends)}
  <2>1. /\ waiter' = [p \in Procs |-> IF p \in woken THEN None ELSE waiter[p]]
        /\ flag' = Lowered(UNION {waiter[p].ends : p \in woken})
        /\ rpc' = [p \in Procs |-> IF p \in woken THEN None ELSE rpc[p]]
        /\ pc'  = [p \in Procs |-> IF p \in woken THEN rpc[p].then ELSE pc[p]]
        /\ kpc = "nsel" /\ UNCHANGED <<mode, head, tail, holders, queue>>
    BY <1>4 DEF RecheckSelects, Respond
  <2>2. \A p \in Procs : p \in woken => /\ waiter[p] # None /\ waiter[p].op = "wait" /\ rpc[p].op = "wait"
                                        /\ pc[p] = "blocked"
    BY NoneFields DEF IInv, Parked
  <2>3. \A q \in Procs : \A e \in Ends : Waits(q, e)' => Waits(q, e) /\ q \notin woken /\ ~Ready({e})
    <3> SUFFICES ASSUME NEW q \in Procs, NEW e \in Ends, Waits(q, e)'
                 PROVE  Waits(q, e) /\ q \notin woken /\ ~Ready({e})
      OBVIOUS
    <3>1. q \notin woken /\ waiter'[q] = waiter[q]
      BY <2>1, NoneFields DEF Waits
    <3>2. Waits(q, e) /\ ~Ready(waiter[q].ends)
      BY <3>1 DEF Waits
    <3> QED BY <3>1, <3>2 DEF Ready, Waits
  <2> HIDE DEF woken
  <2>4. woken \subseteq Procs
    BY DEF woken
  <2>5. \A e \in Ends : ~Looking(e)
    BY <2>1 DEF Looking, Closing
  <2>6. Avail' = Avail /\ Free' = Free
    BY <2>1 DEF Avail, Free
  <2>7. \A e \in Ends : Stuck(e)' = Stuck(e) /\ Ready({e})' = Ready({e})
    BY <2>1, <2>6 DEF Stuck, Ready, Open, Blocked
  <2>8. Flagged'
    <3> SUFFICES ASSUME mode = "FAST", NEW e \in Ends, queue[e] # <<>> \/ \E q \in Procs : Waits(q, e)'
                 PROVE  flag'[e]
      BY <2>1 DEF Flagged
    <3>1. flag[e]
      BY <2>3 DEF Flagged
    <3>2. ASSUME NEW p \in woken, e \in waiter[p].ends PROVE FALSE
      <4>1. p \in Procs /\ waiter[p] # None /\ waiter[p].op = "wait"
        BY <2>2, <2>4
      <4>2. p \in holders[e]
        BY <3>2, <4>1, WaiterHolds
      <4>3. /\ \A q \in Procs : waiter[q] # None /\ e \in waiter[q].ends => q = p
            /\ queue[e] # <<>> => waiter[p].op = OpOf(e)
        BY <4>1, <4>2, SoleWaiter
      <4> QED BY <2>3, <4>1, <4>3, NoneFields DEF OpOf, Waits
    <3> QED BY <2>1, <3>1, <3>2 DEF Lowered
  <2>9. ASSUME NEW e \in Ends, mode # "DEMOTED", Owed(e), queue[e] # <<>> \/ \E q \in Procs : Waits(q, e)'
        PROVE  Owed(e)'
    <3>1. mode = "FAST" => flag'[e]
      BY <2>1, <2>8, <2>9 DEF Flagged
    <3>2. \A q \in Procs : rpc[q].op = "kick" => rpc'[q] = rpc[q]
      BY <2>1, <2>2
    <3>3. \A q \in Procs : pc[q] \in {"wrKick", "rdKick"} => pc'[q] = pc[q]
      BY <2>1, <2>2
    <3> QED BY <2>9, <3>1, <3>2, <3>3, StillOwed
  <2>10. QueueWakes'
    BY <2>1, <2>5, <2>7, <2>9 DEF QueueWakes
  <2>11. WaitWakes'
    BY <2>3, <2>7 DEF WaitWakes
  <2> QED BY <2>8, <2>10, <2>11
<1> QED BY <1>2, <1>3, <1>4

\* Holders leave; the mode word is stored.
LEMMA UnrefWakes ==
  ASSUME IInv, TypeOK, CallsOk, QueueWakes, WaitWakes, Flagged, Unref \/ GoFast \/ UnrefDone
  PROVE  QueueWakes' /\ WaitWakes' /\ Flagged'
<1>1. job.p \in Procs
  BY DEF TypeOK
<1>2. mode = "LATENT" => \A e \in Ends : ~Owed(e)
  BY DEF CallsOk, LatentQuiet, Owed, FastReading, FastWriting
<1>3. CASE Unref
  <2> DEFINE p == job.p
  <2>1. PICK x \in job.todo :
          /\ holders' = [holders EXCEPT ![x] = @ \ {p}]
          /\ IF holders'[x] = {} THEN kpc' = "nread" /\ UNCHANGED flag
             ELSE kpc' \in {"unref", "fast"} /\ (flag' = flag \/ flag' = Requeued)
    BY <1>3 DEF Unref
  <2>2. kpc = "unref" /\ UNCHANGED <<mode, head, tail, queue, waiter, pc, rpc>> /\ x \in Ends /\ p \in holders[x]
    BY <1>3 DEF Unref, procs, CallsOk, HandlerOk, Held
  <2>3. CASE holders'[x] = {}
    BY <2>1, <2>2, <2>3, LooksRound DEF Flagged, Waits
  <2>4. CASE holders'[x] # {}
    <3>1. mode # "FAST"
      <4>1. holders'[x] = holders[x] \ {p}
        BY <2>1, <2>2 DEF IInv, Shape
      <4> QED BY <2>2, <2>4, <4>1 DEF IInv, SoleWhenFast, AtMostOne
    <3>2. \A e \in Ends : Open(e)' = Open(e)
      BY <2>1, <2>2, <2>4 DEF Open, IInv, Shape
    <3>3. Avail' = Avail /\ Free' = Free
      BY <2>2 DEF Avail, Free
    <3>4. \A e \in Ends : Stuck(e)' = Stuck(e) /\ ~Looking(e)
      BY <2>2, <3>1, <3>2, <3>3 DEF Stuck, Blocked, Ends, Looking, Closing
    <3>5. QueueWakes'
      BY <1>2, <2>2, <3>1, <3>4 DEF QueueWakes, TypeOK
    <3> QED BY <2>2, <3>1, <3>5 DEF WaitWakes, Flagged
  <2> QED BY <2>3, <2>4
<1>4. CASE GoFast
  <2>1. /\ kpc = "fast" /\ mode = "LATENT" /\ \A e \in Ends : queue[e] # <<>> => flag[e]
        /\ UNCHANGED <<head, tail, flag, holders, queue, waiter>>
    BY <1>4 DEF GoFast, books, CallsOk, LatentQuiet
  <2>2. \A q \in Procs : waiter[q].op # "wait"
    <3> SUFFICES ASSUME NEW q \in Procs, waiter[q].op = "wait" PROVE FALSE
      OBVIOUS
    <3>1. waiter[q] = rpc[q] /\ waiter[q].park /\ rpc[q].then = "idle"
      BY <2>1, NoneFields DEF IInv, Parked, CallsOk, CallerOk, LatentQuiet
    <3> QED BY <3>1 DEF CallsOk, CallerOk
  <2>3. Avail' = Avail /\ Free' = Free
    BY <2>1 DEF Avail, Free
  <2>4. \A e \in Ends : Stuck(e)' = Stuck(e) /\ ~Looking(e)
    BY <2>1, <2>3 DEF Stuck, Blocked, Open, Looking, Closing
  <2>5. QueueWakes'
    BY <1>2, <2>1, <2>4 DEF QueueWakes
  <2>6. WaitWakes' /\ Flagged'
    BY <2>1, <2>2 DEF WaitWakes, Flagged, Waits
  <2> QED BY <2>5, <2>6
<1>5. CASE UnrefDone
  <2>1. /\ kpc = "unref" /\ job.todo = {} /\ UNCHANGED <<mode, head, tail, flag, holders, queue, waiter>>
        /\ (job.reply /\ Respond({job.p}, Then(job.p))) \/ (~job.reply /\ UNCHANGED <<pc, rpc>>)
    BY <1>5 DEF UnrefDone, ring, books
  <2>2. CASE job.reply /\ Respond({job.p}, Then(job.p))
    <3>1. rpc[job.p].op \in {"close", "spawn"} /\ pc[job.p] = "blocked"
      BY <1>1, <2>2 DEF IInv, JobOk, Parked
    <3> QED BY <1>1, <2>1, <2>2, <3>1, CallMoves DEF Respond, Open
  <2>3. CASE UNCHANGED <<pc, rpc>>
    <3>1. \A e \in Ends : ~Looking(e) /\ ~Rechecking
      BY <2>1 DEF Looking, Rechecking, Closing
    <3>2. \A e \in Ends : Owed(e)' = Owed(e)
      BY <2>1, <2>3 DEF Owed
    <3>3. ~Rechecking
      BY <2>1 DEF Rechecking, Closing
    <3> QED BY <2>1, <3>1, <3>2, <3>3, StillWakes DEF Open
  <2> QED BY <2>1, <2>2, <2>3
<1> QED BY <1>3, <1>4, <1>5

\* A program's step.
LEMMA ProgramStepWakes ==
  ASSUME IInv, TypeOK, FastRoleIsSole, CallsOk, QueueWakes, WaitWakes, Flagged, NEW p \in Procs,
         \/ StartRead(p) \/ RdMode(p) \/ RdTake(p) \/ RdCommit(p) \/ RdKick(p) \/ RdGone(p)
         \/ StartWrite(p) \/ WrMode(p) \/ WrGone(p) \/ WrPut(p) \/ WrCommit(p) \/ WrKick(p)
         \/ StartSelect(p) \/ StartClose(p) \/ StartSpawn(p)
  PROVE  QueueWakes' /\ WaitWakes' /\ Flagged'
<1>1. CASE RdCommit(p) \/ WrCommit(p)
  BY <1>1, RdCommitWakes, WrCommitWakes
<1>2. CASE RdKick(p) \/ WrKick(p)
  <2>1. /\ pc[p] # "blocked" /\ UNCHANGED <<mode, head, tail, flag, books, kernel>>
        /\ \A q \in Procs \ {p} : pc'[q] = pc[q] /\ rpc'[q] = rpc[q]
    BY <1>2 DEF RdKick, WrKick, Goto, Ask, Program, ring, IInv, Shape
  <2>2. (pc[p] = "wrKick" /\ flag["r"]) \/ (pc[p] = "rdKick" /\ flag["w"]) => Ask(p, Request("kick", {}))
    BY <1>2 DEF RdKick, WrKick
  <2>3. Ask(p, Request("kick", {})) => rpc'[p].op = "kick"
    BY RequestFields DEF Ask, IInv, Shape
  <2> QED BY <2>1, <2>2, <2>3, ProgramWakes
<1>3. CASE ~(RdCommit(p) \/ WrCommit(p) \/ RdKick(p) \/ WrKick(p))
  <2>1. /\ pc[p] \notin {"blocked", "wrKick", "rdKick"} /\ UNCHANGED <<mode, head, tail, flag, books, kernel>>
    BY <1>3 DEF StartRead, RdMode, RdTake, RdGone, StartWrite, WrMode, WrGone, WrPut, StartSelect,
                StartClose, StartSpawn, Program, ring
  <2>2. (\E to : Goto(p, to) /\ UNCHANGED rpc) \/ (\E r : Ask(p, r))
    BY <1>3 DEF StartRead, RdMode, RdTake, RdGone, StartWrite, WrMode, WrGone, WrPut, StartSelect,
                StartClose, StartSpawn
  <2>3. \A q \in Procs \ {p} : pc'[q] = pc[q] /\ rpc'[q] = rpc[q]
    BY <2>2 DEF Goto, Ask, IInv, Shape
  <2> QED BY <2>1, <2>3, ProgramWakes
<1> QED BY <1>1, <1>2, <1>3

\* What the wakes need holds in every reachable state.
THEOREM WakesInvariant == ASSUME PollsOnly PROVE Spec => []WakeInv
<1>1. Init => WakeInv
  <2> SUFFICES ASSUME Init PROVE WakeInv
    OBVIOUS
  <2>1. /\ None.op = "none" /\ None.then = "idle" /\ None.park = FALSE
        /\ NoJob.todo = {} /\ NoJob.reply = FALSE /\ NoJob.p \in Procs
    BY RingAssumption DEF None, NoJob
  <2>2. CallsOk
    BY <2>1 DEF Init, CallsOk, CallerOk, HandlerOk, LatentQuiet, FastReading, FastWriting
  <2>3. QueueWakes /\ WaitWakes /\ Flagged
    BY DEF Init, QueueWakes, WaitWakes, Flagged
  <2> QED BY <2>2, <2>3 DEF WakeInv
<1>2. IInv /\ FastRoleIsSole /\ TypeOK /\ Stream /\ WakeInv /\ [Next]_vars => WakeInv'
  <2> SUFFICES ASSUME IInv, FastRoleIsSole, TypeOK, Stream, WakeInv, [Next]_vars
               PROVE  WakeInv'
    OBVIOUS
  <2>1. CallsOk /\ QueueWakes /\ WaitWakes /\ Flagged
    BY DEF WakeInv
  <2>2. CASE Next
    <3>1. CallsOk'
      BY <2>1, <2>2, ProgramCalls, CallCalls, HandlerCalls DEF Next
    <3>2. QueueWakes' /\ WaitWakes' /\ Flagged'
      BY <2>1, <2>2, ProgramStepWakes, CallWakes, DieWakes, InterruptWakes, ParkWakes, NotifyWakes, UnrefWakes
         DEF Next
    <3> QED BY <3>1, <3>2 DEF WakeInv
  <2>3. CASE UNCHANGED vars
    <3>1. CallsOk'
      BY <2>1, <2>3 DEF CallsOk, CallerOk, HandlerOk, LatentQuiet, Held, Open, Blocked, vars, ring, books, kernel, procs
    <3>2. Avail' = Avail /\ Free' = Free /\ \A e \in Ends : Ready({e})' = Ready({e})
      BY <2>3 DEF Avail, Free, Ready, Open, vars, ring, books
    <3>3. QueueWakes' /\ WaitWakes' /\ Flagged'
      BY <2>1, <2>3, <3>2 DEF QueueWakes, WaitWakes, Flagged, Waits, Stuck, Looking, Owed, Rechecking, Closing,
         Open, Blocked, vars, ring, books, kernel, procs
    <3> QED BY <3>1, <3>3 DEF WakeInv
  <2> QED BY <2>2, <2>3
<1> QED BY <1>1, <1>2, Invariant, SoleRoleAlways, TypeCorrect, PTL DEF Spec

\* What of the calls that could be answered is not a write left in the queue from
\* before the pipe was FAST: every parked wait, and the reads.
WaitNeverLost ==
  mode = "FAST" /\ (\E p \in Procs : Servable(p) /\ waiter[p].op # "write") => WakeComing

\* A served call: a wait or an end's queue could move.
LEMMA ServableCases ==
  ASSUME IInv, TypeOK, WakeInv, mode = "FAST", NEW p \in Procs, Servable(p),
         waiter[p].op = "write" => AlikeWrites
  PROVE  WakeComing
<1>1. \A e \in Ends : Owed(e) => WakeComing
  BY DEF Owed, WakeComing, Ends
<1>2. \A e \in Ends : Looking(e) \/ Rechecking => WakeComing
  BY DEF Looking, Rechecking, Closing, WakeComing
<1>3. CASE waiter[p].op = "wait" /\ Ready(waiter[p].ends)
  <2>1. PICK e \in Ends : e \in waiter[p].ends /\ Ready({e})
    BY <1>3 DEF Ready, Ends
  <2> QED BY <1>1, <1>2, <1>3, <2>1 DEF WakeInv, WaitWakes, Waits
<1>4. CASE queue["r"] # <<>> /\ (Avail > 0 \/ ~Open("w"))
  <2>1. ~Stuck("r")
    BY <1>4 DEF Stuck
  <2> QED BY <1>1, <1>2, <1>4, <2>1 DEF WakeInv, QueueWakes, Ends, Uniform
<1>5. CASE queue["w"] # <<>> /\ p = Head(queue["w"]) /\ (~Open("r") \/ ~Blocked(waiter[p].n, Free))
  <2>1. waiter[p].op = "write" /\ waiter[p] # None
    BY <1>5, HeadQueued DEF Ends, OpOf
  <2>2. waiter[p].n \in WriteSizes
    BY <2>1 DEF IInv, Parked, WakeInv, CallsOk, CallerOk
  <2>3. ~Stuck("w") /\ Uniform("w")
    BY <1>5, <2>1, <2>2 DEF Stuck, Uniform
  <2> QED BY <1>1, <1>2, <1>5, <2>3 DEF WakeInv, QueueWakes, Ends
<1> QED BY <1>3, <1>4, <1>5 DEF Servable

\* Whatever the programs write, a wait or a read that could be answered while the
\* pipe is FAST is about to be (kernel.js 388-390).
THEOREM WaitsAreNeverLost == ASSUME PollsOnly PROVE Spec => []WaitNeverLost
<1>1. IInv /\ TypeOK /\ WakeInv => WaitNeverLost
  BY ServableCases DEF WaitNeverLost
<1> QED BY <1>1, Invariant, TypeCorrect, WakesInvariant, PTL

\* While the pipe is FAST, a wait that could be answered is about to be: the
\* kernel is at work, a PIPE_KICK is under way, or the holder that just committed
\* will see the flag (kernel.js 388-390).
THEOREM WakesAreNeverLost == ASSUME Wakeful PROVE Spec => []WakeNeverLost
<1>1. IInv /\ TypeOK /\ WakeInv => WakeNeverLost
  BY ServableCases DEF WakeNeverLost, Wakeful
<1>2. PollsOnly
  BY DEF Wakeful
<1> QED BY <1>1, <1>2, Invariant, TypeCorrect, WakesInvariant, PTL

=============================================================================
