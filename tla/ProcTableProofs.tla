--------------------------- MODULE ProcTableProofs ---------------------------
(* Results about the process table, for any number of processes and any      *)
(* signals, dispositions, selectors and options in play.                     *)
(*                                                                           *)
(* The argument: whatever a handler does, a process it was not called by     *)
(* keeps its answer unless it is parked in a wait (Kept), and only an exit   *)
(* takes a process off the table, which is then told to a parked parent      *)
(* (Reported).  The answer of the handler itself goes to a process that is   *)
(* not parked, so that it cannot overwrite a report.                         *)
(*                                                                           *)
(* The second half, on waits: every table operator is Good.  What it answers *)
(* with a stop or a continue is true and no longer unreported (Rep), whom it *)
(* wakes with a child's status has SIGCHLD first (Chl), and it keeps Safe:   *)
(* a live process and its children are in the table (Kids), and no zombie    *)
(* beside a parked wait that selects it but the exiting process itself, in   *)
(* the middle of its own exit (Served).                                      *)
(*                                                                           *)
(* The third part: where no signal stops a process, no operator takes a      *)
(* child from a parked parent but by answering it (Steady), so a wait that   *)
(* was worth parking for stays one.                                          *)
EXTENDS ProcTable, WellFoundedInduction, TLAPS

Tables == [Pid -> PCB]
Alive(r) == r.state \in {"running", "stopped"}

\* What a PCB alone must satisfy.
Sane(r) ==
  /\ r.listed \/ Alive(r) => r.pgid # 0
  /\ r.waiter.on => Alive(r) /\ r.rpc.tag = "deferred"
  /\ r.state = "zombie" => r.itimer = "off"
  /\ Alive(r) /\ r.pendingStop => r.state = "stopped"
  /\ Alive(r) /\ r.pendingCont => r.state = "running"

\* Children are younger, and those in the table know their parent.
Linked(ps) ==
  \A p \in Pid : \A c \in ps[p].children :
    c > p /\ (ps[c].listed => ps[c].ppid = p)

TableInv(ps) == ps \in Tables /\ (\A p \in Pid : Sane(ps[p])) /\ Linked(ps)

\* What a handler may do to any process, the one that called it included.
Bounded(r, t) ==
  /\ Alive(t) => Alive(r)
  /\ t.listed => r.listed
  /\ r.pgid # 0 => t.pgid # 0

\* What it may do to a process it was not called by.
Kept(r, t) ==
  /\ Alive(t) => Alive(r)
  /\ t.listed => r.listed
  /\ r.pgid # 0 => t.pgid # 0
  /\ Alive(t) /\ ~r.waiter.on => ~t.waiter.on /\ t.rpc = r.rpc

SameKin(r, t) ==
  t.listed = r.listed /\ t.ppid = r.ppid /\ t.pgid = r.pgid /\ t.children = r.children

\* A part of a handler that takes nobody off the table.
Mild(ps, qs) ==
  TableInv(qs) /\ \A p \in Pid : Kept(ps[p], qs[p]) /\ SameKin(ps[p], qs[p])

NoNewKin(ps, qs) ==
  \A p \in Pid : \A c \in qs[p].children : \E q \in Pid : c \in ps[q].children

\* A part of a handler.
Tame(ps, qs) ==
  TableInv(qs) /\ (\A p \in Pid : Kept(ps[p], qs[p])) /\ NoNewKin(ps, qs)

\* Who leaves the table is reported to a parked parent, if there is one to
\* report to.
Reported(ps, qs) ==
  \A c \in Pid : ps[c].listed /\ ~qs[c].listed =>
    \/ c = 1 \/ ~ps[1].listed \/ qs[c].ppid = 0
    \/ qs[qs[c].ppid].rpc = Rpc("exit", c) /\ ps[qs[c].ppid].waiter.on

\* A part of a handler, an exit included.
Lawful(ps, qs) == Tame(ps, qs) /\ Reported(ps, qs)

-----------------------------------------------------------------------------
(* Edits of one PCB.                                                         *)

LEMMA Constants ==
  /\ NoWaiter \in Waiters /\ ~NoWaiter.on
  /\ Done \in Rpcs
  /\ \A tag \in {"done", "posted", "deferred", "exit", "stop", "cont"}, p \in 0 .. MaxPid :
       Rpc(tag, p) \in Rpcs /\ Rpc(tag, p).tag = tag /\ Rpc(tag, p).pid = p
  /\ [s \in Sigs |-> "dfl"] \in [Sigs -> Dispositions]
  /\ 0 \in 0 .. MaxPid /\ Pid \subseteq 0 .. MaxPid /\ 1 \in Pid
<1>1. 0 \in 0 .. MaxPid /\ Pid \subseteq 0 .. MaxPid /\ 1 \in Pid
  BY MaxPidAssumption DEF Pid
<1>2. NoWaiter \in Waiters /\ ~NoWaiter.on
  BY Zenon DEF NoWaiter, Waiters
<1>3. \A tag \in {"done", "posted", "deferred", "exit", "stop", "cont"}, p \in 0 .. MaxPid :
        Rpc(tag, p) \in Rpcs /\ Rpc(tag, p).tag = tag /\ Rpc(tag, p).pid = p
  BY DEF Rpc, Rpcs
<1>4. Done \in Rpcs
  BY <1>1, <1>3, Zenon DEF Done
<1>5. [s \in Sigs |-> "dfl"] \in [Sigs -> Dispositions]
  BY DEF Dispositions
<1> QED
  BY <1>1, <1>2, <1>3, <1>4, <1>5

\* Replacing one PCB by another.
Put(ps, p, t) == [ps EXCEPT ![p] = t]

LEMMA PutInv ==
  ASSUME NEW ps, TableInv(ps), NEW p \in Pid, NEW t \in PCB, Sane(t), SameKin(ps[p], t)
  PROVE  /\ TableInv(Put(ps, p, t)) /\ Put(ps, p, t)[p] = t
         /\ \A q \in Pid : q # p => Put(ps, p, t)[q] = ps[q]
         /\ \A q \in Pid : SameKin(ps[q], Put(ps, p, t)[q])
<1> DEFINE qs == Put(ps, p, t)
<1>1. qs \in Tables /\ qs[p] = t /\ \A q \in Pid : q # p => qs[q] = ps[q]
  <2>1. ps \in Tables
    BY Zenon DEF TableInv
  <2> QED
    BY <2>1, Zenon DEF Tables, Put
<1> HIDE DEF qs
<1>2. \A q \in Pid : Sane(qs[q])
  BY <1>1, Zenon DEF TableInv
<1>3. \A q \in Pid : SameKin(ps[q], qs[q])
  BY <1>1, Zenon DEF SameKin
<1>4. \A q \in Pid : qs[q].children = ps[q].children /\ qs[q].listed = ps[q].listed /\ qs[q].ppid = ps[q].ppid
  BY <1>3, Zenon DEF SameKin
<1>5. \A q \in Pid : ps[q].children \subseteq Pid
  BY Zenon DEF TableInv, Tables, PCB
<1>6. Linked(qs)
  BY <1>4, <1>5, SMTT(30) DEF TableInv, Linked
<1>7. TableInv(qs) /\ qs[p] = t /\ (\A q \in Pid : q # p => qs[q] = ps[q])
      /\ \A q \in Pid : SameKin(ps[q], qs[q])
  BY <1>1, <1>2, <1>3, <1>6, Zenon DEF TableInv
<1> QED
  BY <1>7, Zenon DEF qs

LEMMA PutMild ==
  ASSUME NEW ps, TableInv(ps), NEW p \in Pid, NEW t \in PCB, Sane(t),
         Kept(ps[p], t), SameKin(ps[p], t)
  PROVE  Mild(ps, Put(ps, p, t))
<1>1. /\ TableInv(Put(ps, p, t)) /\ Put(ps, p, t)[p] = t
      /\ \A q \in Pid : q # p => Put(ps, p, t)[q] = ps[q]
      /\ \A q \in Pid : SameKin(ps[q], Put(ps, p, t)[q])
  BY PutInv, Zenon
<1> QED
  BY <1>1, Zenon DEF Mild, Kept

LEMMA Unpack ==
  ASSUME NEW ps, TableInv(ps), NEW p \in Pid
  PROVE  ps[p] \in PCB /\ Sane(ps[p]) /\ ps \in Tables /\ (Live(ps, p) <=> Alive(ps[p]))
  BY Zenon DEF TableInv, Tables, Live, Alive

LEMMA MildRefl == ASSUME NEW ps, TableInv(ps) PROVE Mild(ps, ps)
  BY Zenon DEF Mild, Kept, SameKin

LEMMA MildTrans ==
  ASSUME NEW ps, NEW qs, NEW rs, Mild(ps, qs), Mild(qs, rs)
  PROVE  Mild(ps, rs)
<1>1. ASSUME NEW p \in Pid PROVE Kept(ps[p], rs[p]) /\ SameKin(ps[p], rs[p])
  <2>1. Kept(ps[p], qs[p]) /\ Kept(qs[p], rs[p]) /\ SameKin(ps[p], qs[p]) /\ SameKin(qs[p], rs[p])
    BY Zenon DEF Mild
  <2> QED
    BY <2>1, Zenon DEF Kept, SameKin
<1> QED
  BY <1>1, Zenon DEF Mild

LEMMA MildLawful == ASSUME NEW ps, NEW qs, Mild(ps, qs) PROVE Lawful(ps, qs)
<1>1. \A p \in Pid : qs[p].children = ps[p].children /\ qs[p].listed = ps[p].listed
  BY Zenon DEF Mild, SameKin
<1>2. NoNewKin(ps, qs) /\ Reported(ps, qs)
  BY <1>1, Zenon DEF NoNewKin, Reported
<1> QED
  BY <1>2, Zenon DEF Mild, Lawful, Tame

\* A PCB by its fields; the flags an edit may flip are arguments.
With(r, st, li, stop, cont, mi) ==
  [state |-> st, listed |-> li, ppid |-> r.ppid, pgid |-> r.pgid, sid |-> r.sid,
   children |-> r.children, disp |-> r.disp, pend |-> r.pend, block |-> r.block,
   pendingStop |-> stop, pendingCont |-> cont, waiter |-> r.waiter, rpc |-> r.rpc,
   itimer |-> r.itimer, worker |-> r.worker, missed |-> mi]

LEMMA FullForm ==
  ASSUME NEW r \in PCB
  PROVE  r = With(r, r.state, r.listed, r.pendingStop, r.pendingCont, r.missed)
  BY Zenon DEF PCB, With

LEMMA Fields ==
  ASSUME NEW r \in PCB
  PROVE  /\ r.state \in {"unborn", "running", "stopped", "zombie"} /\ r.listed \in BOOLEAN
         /\ r.ppid \in 0 .. MaxPid /\ r.pgid \in 0 .. MaxPid /\ r.sid \in 0 .. MaxPid
         /\ r.children \subseteq Pid /\ r.disp \in [Sigs -> Dispositions]
         /\ r.pend \subseteq Sigs /\ r.block \subseteq Sigs
         /\ r.pendingStop \in BOOLEAN /\ r.pendingCont \in BOOLEAN
         /\ r.waiter \in Waiters /\ r.rpc \in Rpcs
         /\ r.itimer \in {"off", "once", "interval"} /\ r.worker \in {"none", "up", "lost"}
         /\ r.missed \in BOOLEAN
  BY Zenon DEF PCB

LEMMA RpcEdit ==
  ASSUME NEW r \in PCB, NEW v \in Rpcs, NEW t, t = [r EXCEPT !.rpc = v]
  PROVE  /\ t \in PCB /\ SameKin(r, t)
         /\ t.rpc = v /\ t.waiter = r.waiter /\ t.state = r.state /\ t.itimer = r.itimer
         /\ t.pendingStop = r.pendingStop /\ t.pendingCont = r.pendingCont
  BY SMT DEF PCB, SameKin

LEMMA WaiterEdit ==
  ASSUME NEW r \in PCB, NEW v \in Waiters, NEW t, t = [r EXCEPT !.waiter = v]
  PROVE  /\ t \in PCB /\ SameKin(r, t)
         /\ t.rpc = r.rpc /\ t.waiter = v /\ t.state = r.state /\ t.itimer = r.itimer
         /\ t.pendingStop = r.pendingStop /\ t.pendingCont = r.pendingCont
  BY SMT DEF PCB, SameKin

LEMMA TimerEdit ==
  ASSUME NEW r \in PCB, NEW v \in {"off", "once", "interval"}, NEW t, t = [r EXCEPT !.itimer = v]
  PROVE  /\ t \in PCB /\ SameKin(r, t)
         /\ t.rpc = r.rpc /\ t.waiter = r.waiter /\ t.state = r.state /\ t.itimer = v
         /\ t.pendingStop = r.pendingStop /\ t.pendingCont = r.pendingCont
  BY SMT DEF PCB, SameKin

LEMMA WorkerEdit ==
  ASSUME NEW r \in PCB, NEW v \in {"none", "up", "lost"}, NEW t, t = [r EXCEPT !.worker = v]
  PROVE  /\ t \in PCB /\ SameKin(r, t)
         /\ t.rpc = r.rpc /\ t.waiter = r.waiter /\ t.state = r.state /\ t.itimer = r.itimer
         /\ t.pendingStop = r.pendingStop /\ t.pendingCont = r.pendingCont
  BY SMT DEF PCB, SameKin

LEMMA PendEdit ==
  ASSUME NEW r \in PCB, NEW v \in SUBSET Sigs, NEW t, t = [r EXCEPT !.pend = v]
  PROVE  /\ t \in PCB /\ SameKin(r, t)
         /\ t.rpc = r.rpc /\ t.waiter = r.waiter /\ t.state = r.state /\ t.itimer = r.itimer
         /\ t.pendingStop = r.pendingStop /\ t.pendingCont = r.pendingCont
  BY SMT DEF PCB, SameKin

LEMMA BlockEdit ==
  ASSUME NEW r \in PCB, NEW v \in SUBSET Sigs, NEW t, t = [r EXCEPT !.block = v]
  PROVE  /\ t \in PCB /\ SameKin(r, t)
         /\ t.rpc = r.rpc /\ t.waiter = r.waiter /\ t.state = r.state /\ t.itimer = r.itimer
         /\ t.pendingStop = r.pendingStop /\ t.pendingCont = r.pendingCont
  BY SMT DEF PCB, SameKin

LEMMA DispEdit ==
  ASSUME NEW r \in PCB, NEW v \in [Sigs -> Dispositions], NEW t, t = [r EXCEPT !.disp = v]
  PROVE  /\ t \in PCB /\ SameKin(r, t)
         /\ t.rpc = r.rpc /\ t.waiter = r.waiter /\ t.state = r.state /\ t.itimer = r.itimer
         /\ t.pendingStop = r.pendingStop /\ t.pendingCont = r.pendingCont
  BY SMT DEF PCB, SameKin

LEMMA StateEdit ==
  ASSUME NEW r \in PCB, NEW v \in {"unborn", "running", "stopped", "zombie"}, NEW t, t = [r EXCEPT !.state = v]
  PROVE  /\ t \in PCB /\ SameKin(r, t)
         /\ t.rpc = r.rpc /\ t.waiter = r.waiter /\ t.state = v /\ t.itimer = r.itimer
         /\ t.pendingStop = r.pendingStop /\ t.pendingCont = r.pendingCont
  BY SMT DEF PCB, SameKin

LEMMA StopFlagEdit ==
  ASSUME NEW r \in PCB, NEW v \in BOOLEAN, NEW t, t = [r EXCEPT !.pendingStop = v]
  PROVE  /\ t \in PCB /\ SameKin(r, t)
         /\ t.rpc = r.rpc /\ t.waiter = r.waiter /\ t.state = r.state /\ t.itimer = r.itimer
         /\ t.pendingStop = v /\ t.pendingCont = r.pendingCont
<1>1. r = With(r, r.state, r.listed, r.pendingStop, r.pendingCont, r.missed)
  BY FullForm, Zenon
<1>2. t = With(r, r.state, r.listed, v, r.pendingCont, r.missed)
  BY <1>1, SMT DEF With
<1> QED
  BY <1>2, Fields, Zenon DEF With, PCB, SameKin

LEMMA ContFlagEdit ==
  ASSUME NEW r \in PCB, NEW v \in BOOLEAN, NEW t, t = [r EXCEPT !.pendingCont = v]
  PROVE  /\ t \in PCB /\ SameKin(r, t)
         /\ t.rpc = r.rpc /\ t.waiter = r.waiter /\ t.state = r.state /\ t.itimer = r.itimer
         /\ t.pendingStop = r.pendingStop /\ t.pendingCont = v
<1>1. r = With(r, r.state, r.listed, r.pendingStop, r.pendingCont, r.missed)
  BY FullForm, Zenon
<1>2. t = With(r, r.state, r.listed, r.pendingStop, v, r.missed)
  BY <1>1, SMT DEF With
<1> QED
  BY <1>2, Fields, Zenon DEF With, PCB, SameKin

LEMMA MissedEdit ==
  ASSUME NEW r \in PCB, NEW v \in BOOLEAN, NEW t, t = [r EXCEPT !.missed = v]
  PROVE  /\ t \in PCB /\ SameKin(r, t)
         /\ t.rpc = r.rpc /\ t.waiter = r.waiter /\ t.state = r.state /\ t.itimer = r.itimer
         /\ t.pendingStop = r.pendingStop /\ t.pendingCont = r.pendingCont
<1>1. r = With(r, r.state, r.listed, r.pendingStop, r.pendingCont, r.missed)
  BY FullForm, Zenon
<1>2. t = With(r, r.state, r.listed, r.pendingStop, r.pendingCont, v)
  BY <1>1, SMT DEF With
<1> QED
  BY <1>2, Fields, Zenon DEF With, PCB, SameKin

LEMMA ListedEdit ==
  ASSUME NEW r \in PCB, NEW v \in BOOLEAN, NEW t, t = [r EXCEPT !.listed = v]
  PROVE  /\ t \in PCB /\ t.listed = v /\ t.ppid = r.ppid /\ t.pgid = r.pgid /\ t.children = r.children
         /\ t.rpc = r.rpc /\ t.waiter = r.waiter /\ t.state = r.state /\ t.itimer = r.itimer
         /\ t.pendingStop = r.pendingStop /\ t.pendingCont = r.pendingCont
<1>1. r = With(r, r.state, r.listed, r.pendingStop, r.pendingCont, r.missed)
  BY FullForm, Zenon
<1>2. t = With(r, r.state, v, r.pendingStop, r.pendingCont, r.missed)
  BY <1>1, SMT DEF With
<1> QED
  BY <1>2, Fields, Zenon DEF With, PCB

LEMMA ParentEdit ==
  ASSUME NEW r \in PCB, NEW v \in 0 .. MaxPid, NEW t, t = [r EXCEPT !.ppid = v]
  PROVE  /\ t \in PCB /\ t.listed = r.listed /\ t.ppid = v /\ t.pgid = r.pgid /\ t.children = r.children
         /\ t.rpc = r.rpc /\ t.waiter = r.waiter /\ t.state = r.state /\ t.itimer = r.itimer
         /\ t.pendingStop = r.pendingStop /\ t.pendingCont = r.pendingCont
  BY SMT DEF PCB

LEMMA ChildrenEdit ==
  ASSUME NEW r \in PCB, NEW v \in SUBSET Pid, NEW t, t = [r EXCEPT !.children = v]
  PROVE  /\ t \in PCB /\ t.listed = r.listed /\ t.ppid = r.ppid /\ t.pgid = r.pgid /\ t.children = v
         /\ t.rpc = r.rpc /\ t.waiter = r.waiter /\ t.state = r.state /\ t.itimer = r.itimer
         /\ t.pendingStop = r.pendingStop /\ t.pendingCont = r.pendingCont
  BY SMT DEF PCB

WithChildren(r, v) == [r EXCEPT !.children = v]

LEMMA AdoptEdit ==
  ASSUME NEW r \in PCB, NEW v \in SUBSET Pid, NEW t, t = WithChildren(r, v)
  PROVE  /\ t \in PCB /\ t.listed = r.listed /\ t.ppid = r.ppid /\ t.pgid = r.pgid /\ t.children = v
         /\ t.rpc = r.rpc /\ t.waiter = r.waiter /\ t.state = r.state /\ t.itimer = r.itimer
         /\ t.pendingStop = r.pendingStop /\ t.pendingCont = r.pendingCont
  BY SMT DEF PCB, WithChildren

LEMMA GroupEdit ==
  ASSUME NEW r \in PCB, NEW v \in 0 .. MaxPid, NEW t, t = [r EXCEPT !.pgid = v]
  PROVE  /\ t \in PCB /\ t.listed = r.listed /\ t.ppid = r.ppid /\ t.pgid = v /\ t.children = r.children
         /\ t.rpc = r.rpc /\ t.waiter = r.waiter /\ t.state = r.state /\ t.itimer = r.itimer
         /\ t.pendingStop = r.pendingStop /\ t.pendingCont = r.pendingCont
  BY SMT DEF PCB

LEMMA SessionEdit ==
  ASSUME NEW r \in PCB, NEW v \in 0 .. MaxPid, NEW t, t = [r EXCEPT !.sid = v]
  PROVE  /\ t \in PCB /\ SameKin(r, t)
         /\ t.rpc = r.rpc /\ t.waiter = r.waiter /\ t.state = r.state /\ t.itimer = r.itimer
         /\ t.pendingStop = r.pendingStop /\ t.pendingCont = r.pendingCont
  BY SMT DEF PCB, SameKin

\* What nothing reads of a zombie is put back.
Buried(r, w, v, d) ==
  [r EXCEPT !.state = "zombie", !.waiter = w, !.itimer = "off",
            !.worker = "none", !.disp = d, !.pend = {}, !.block = {},
            !.pendingStop = FALSE, !.pendingCont = FALSE, !.rpc = v]

LEMMA ZombieEdit ==
  ASSUME NEW r \in PCB, NEW w \in Waiters, NEW v \in Rpcs, NEW d \in [Sigs -> Dispositions],
         NEW t, t = Buried(r, w, v, d)
  PROVE  /\ t \in PCB /\ SameKin(r, t) /\ t.rpc = v /\ t.waiter = w
         /\ t.state = "zombie" /\ t.itimer = "off"
<1> DEFINE Dead(y) == y \in PCB /\ SameKin(r, y) /\ y.state = "zombie"
<1>1. PICK y1 : y1 = [r EXCEPT !.state = "zombie"]
  OBVIOUS
<1>2. Dead(y1)
  BY <1>1, SMT DEF PCB, SameKin
<1>3. PICK y2 : y2 = [y1 EXCEPT !.waiter = w]
  OBVIOUS
<1>4. Dead(y2) /\ y2.waiter = w
  BY <1>2, <1>3, SMT DEF PCB, SameKin
<1>5. PICK y3 : y3 = [y2 EXCEPT !.itimer = "off"]
  OBVIOUS
<1>6. Dead(y3) /\ y3.waiter = w /\ y3.itimer = "off"
  BY <1>4, <1>5, SMT DEF PCB, SameKin
<1>7. PICK y4 : y4 = [y3 EXCEPT !.worker = "none"]
  OBVIOUS
<1>8. Dead(y4) /\ y4.waiter = w /\ y4.itimer = "off"
  BY <1>6, <1>7, SMT DEF PCB, SameKin
<1>9. PICK y5 : y5 = [y4 EXCEPT !.disp = d]
  OBVIOUS
<1>10. Dead(y5) /\ y5.waiter = w /\ y5.itimer = "off"
  BY <1>8, <1>9, SMT DEF PCB, SameKin
<1>11. PICK y6 : y6 = [y5 EXCEPT !.pend = {}]
  OBVIOUS
<1>12. Dead(y6) /\ y6.waiter = w /\ y6.itimer = "off"
  BY <1>10, <1>11, SMT DEF PCB, SameKin
<1>13. PICK y7 : y7 = [y6 EXCEPT !.block = {}]
  OBVIOUS
<1>14. Dead(y7) /\ y7.waiter = w /\ y7.itimer = "off"
  BY <1>12, <1>13, SMT DEF PCB, SameKin
<1>15. PICK y8 : y8 = [y7 EXCEPT !.pendingStop = FALSE]
  OBVIOUS
<1>16. y8 \in PCB /\ SameKin(y7, y8) /\ y8.waiter = y7.waiter /\ y8.state = y7.state /\ y8.itimer = y7.itimer
  BY <1>14, <1>15, StopFlagEdit, Zenon
<1>17. PICK y9 : y9 = [y8 EXCEPT !.pendingCont = FALSE]
  OBVIOUS
<1>18. y9 \in PCB /\ SameKin(y8, y9) /\ y9.waiter = y8.waiter /\ y9.state = y8.state /\ y9.itimer = y8.itimer
  BY <1>16, <1>17, ContFlagEdit, Zenon
<1>19. Dead(y9) /\ y9.waiter = w /\ y9.itimer = "off"
  BY <1>14, <1>16, <1>18, Zenon DEF SameKin
<1>20. PICK y10 : y10 = [y9 EXCEPT !.rpc = v]
  OBVIOUS
<1>21. Dead(y10) /\ y10.waiter = w /\ y10.itimer = "off" /\ y10.rpc = v
  BY <1>19, <1>20, SMT DEF PCB, SameKin
<1>22. y10 = t
  BY <1>1, <1>3, <1>5, <1>7, <1>9, <1>11, <1>13, <1>15, <1>17, <1>20, Zenon DEF Buried
<1> QED
  BY <1>21, <1>22, Zenon

\* A process leaves the table.
LEMMA UnlistEdit ==
  ASSUME NEW r \in PCB, NEW t,
         t = [r EXCEPT !.listed = FALSE, !.missed = FALSE] \/ t = [r EXCEPT !.listed = FALSE]
  PROVE  /\ t \in PCB /\ ~t.listed /\ t.ppid = r.ppid /\ t.pgid = r.pgid /\ t.children = r.children
         /\ t.rpc = r.rpc /\ t.waiter = r.waiter /\ t.state = r.state /\ t.itimer = r.itimer
         /\ t.pendingStop = r.pendingStop /\ t.pendingCont = r.pendingCont
<1>0. PICK no \in BOOLEAN : no = FALSE
  OBVIOUS
<1>1. PICK r1 : r1 = [r EXCEPT !.listed = no]
  OBVIOUS
<1>2. /\ r1 \in PCB /\ r1.listed = no /\ r1.ppid = r.ppid /\ r1.pgid = r.pgid
      /\ r1.children = r.children
      /\ r1.rpc = r.rpc /\ r1.waiter = r.waiter /\ r1.state = r.state /\ r1.itimer = r.itimer
      /\ r1.pendingStop = r.pendingStop /\ r1.pendingCont = r.pendingCont
  BY <1>1, ListedEdit
<1>3. CASE t = [r EXCEPT !.listed = FALSE]
  BY <1>0, <1>1, <1>2, <1>3, Zenon
<1>4. CASE t = [r EXCEPT !.listed = FALSE, !.missed = FALSE]
  <2>1. t = [r1 EXCEPT !.missed = FALSE]
    BY <1>0, <1>1, <1>4, Zenon
  <2>2. /\ t \in PCB /\ SameKin(r1, t) /\ t.rpc = r1.rpc /\ t.waiter = r1.waiter
        /\ t.state = r1.state /\ t.itimer = r1.itimer
        /\ t.pendingStop = r1.pendingStop /\ t.pendingCont = r1.pendingCont
    BY <1>2, <2>1, MissedEdit, Zenon
  <2> QED
    BY <1>0, <1>2, <2>2, Zenon DEF SameKin
<1> QED
  BY <1>3, <1>4

-----------------------------------------------------------------------------
(* The parts of handlers that take nobody off the table.                     *)

\* An answer to a process that is not parked.
LEMMA RespondStep ==
  ASSUME NEW ps, TableInv(ps), NEW p \in Pid, ~ps[p].waiter.on, NEW v \in Rpcs,
         NEW qs, qs = Respond(ps, p, v)
  PROVE  /\ TableInv(qs) /\ \A q \in Pid : q # p => qs[q] = ps[q]
         /\ \A q \in Pid : SameKin(ps[q], qs[q])
         /\ qs[p].state = ps[p].state /\ ~qs[p].waiter.on
         /\ IF Alive(ps[p]) THEN qs[p].rpc = v ELSE qs = ps
<1>1. ps[p] \in PCB /\ Sane(ps[p]) /\ (Live(ps, p) <=> Alive(ps[p]))
  BY Unpack, Zenon
<1>2. CASE ~Alive(ps[p])
  <2>1. qs = ps
    BY <1>1, <1>2, Zenon DEF Respond
  <2> QED
    BY <1>2, <2>1, Zenon DEF SameKin
<1>3. CASE Alive(ps[p])
  <2>1. PICK t : t = [ps[p] EXCEPT !.rpc = v]
    OBVIOUS
  <2>2. qs = Put(ps, p, t)
    BY <1>1, <1>3, <2>1, Zenon DEF Respond, Put
  <2>3. /\ t \in PCB /\ SameKin(ps[p], t) /\ t.rpc = v /\ t.waiter = ps[p].waiter
        /\ t.state = ps[p].state /\ t.itimer = ps[p].itimer
        /\ t.pendingStop = ps[p].pendingStop /\ t.pendingCont = ps[p].pendingCont
    BY <1>1, <2>1, RpcEdit
  <2>4. Sane(t)
    BY <1>1, <2>3, Zenon DEF Sane, SameKin, Alive
  <2>5. /\ TableInv(qs) /\ qs[p] = t /\ \A q \in Pid : q # p => qs[q] = ps[q]
        /\ \A q \in Pid : SameKin(ps[q], qs[q])
    BY <2>2, <2>3, <2>4, PutInv
  <2> QED
    BY <1>3, <2>3, <2>5, Zenon
<1> QED
  BY <1>2, <1>3

\* An answer to a parked wait.
LEMMA AnswerMild ==
  ASSUME NEW ps, TableInv(ps), NEW p \in Pid, ps[p].waiter.on, NEW v \in Rpcs,
         NEW qs, qs = Answer(ps, p, v)
  PROVE  /\ Mild(ps, qs) /\ qs[p].rpc = v /\ qs[p].state = ps[p].state /\ ~qs[p].waiter.on
         /\ \A q \in Pid : q # p => qs[q] = ps[q]
<1>1. ps[p] \in PCB /\ Sane(ps[p]) /\ ps \in Tables
  BY Unpack, Zenon
<1>2. PICK w \in Waiters : w = NoWaiter
  BY Constants, Zenon
<1>3. PICK t : t = [ps[p] EXCEPT !.waiter = w]
  OBVIOUS
<1>4. /\ t \in PCB /\ SameKin(ps[p], t) /\ t.rpc = ps[p].rpc /\ t.waiter = w
      /\ t.state = ps[p].state /\ t.itimer = ps[p].itimer
      /\ t.pendingStop = ps[p].pendingStop /\ t.pendingCont = ps[p].pendingCont
  BY <1>1, <1>3, WaiterEdit
<1>5. ~t.waiter.on /\ Alive(t)
  <2>1. ~w.on
    BY <1>2, Constants, Zenon
  <2> QED
    BY <1>1, <1>4, <2>1, Zenon DEF Sane, Alive
<1>6. PICK rs : rs = Put(ps, p, t)
  OBVIOUS
<1>7. rs = [ps EXCEPT ![p].waiter = NoWaiter]
  BY <1>1, <1>2, <1>3, <1>6, Zenon DEF Tables, Put
<1>8. Sane(t) /\ Kept(ps[p], t)
  BY <1>1, <1>4, <1>5, Zenon DEF Sane, SameKin, Alive, Kept
<1>9. /\ TableInv(rs) /\ rs[p] = t /\ \A q \in Pid : q # p => rs[q] = ps[q]
      /\ \A q \in Pid : SameKin(ps[q], rs[q])
  BY <1>4, <1>6, <1>8, PutInv
<1>10. qs = Respond(rs, p, v)
  BY <1>7, Zenon DEF Answer
<1>11. /\ TableInv(qs) /\ \A q \in Pid : q # p => qs[q] = rs[q]
       /\ \A q \in Pid : SameKin(rs[q], qs[q])
       /\ qs[p].state = rs[p].state /\ ~qs[p].waiter.on /\ qs[p].rpc = v
  BY <1>5, <1>9, <1>10, RespondStep
<1>12. \A q \in Pid : Kept(ps[q], qs[q]) /\ SameKin(ps[q], qs[q])
  <2>1. Kept(ps[p], qs[p])
    BY <1>4, <1>9, <1>11, SMTT(30) DEF Kept, SameKin, Alive
  <2>2. \A q \in Pid : q # p => Kept(ps[q], qs[q])
    BY <1>9, <1>11, Zenon DEF Kept
  <2> QED
    <3>1. ASSUME NEW q \in Pid PROVE SameKin(ps[q], qs[q])
      <4>1. SameKin(ps[q], rs[q]) /\ SameKin(rs[q], qs[q])
        BY <1>9, <1>11, Zenon
      <4> QED
        BY <4>1, Zenon DEF SameKin
    <3> QED
      BY <2>1, <2>2, <3>1, Zenon
<1> QED
  BY <1>4, <1>9, <1>11, <1>12, Zenon DEF Mild

LEMMA PostMild ==
  ASSUME NEW ps, TableInv(ps), NEW p \in Pid, NEW sig \in Sigs
  PROVE  /\ Mild(ps, Post(ps, p, sig))
         /\ \A q \in Pid : /\ Post(ps, p, sig)[q].waiter = ps[q].waiter
                           /\ Post(ps, p, sig)[q].pgid = ps[q].pgid
                           /\ Post(ps, p, sig)[q].state = ps[q].state
<1>0. PICK qs : qs = Post(ps, p, sig)
  OBVIOUS
<1>1. ps[p] \in PCB /\ Sane(ps[p]) /\ ps \in Tables
  BY Unpack, Zenon
<1>2. PICK v : v = ps[p].pend \cup {sig}
  OBVIOUS
<1>3. v \in SUBSET Sigs
  BY <1>1, <1>2, Fields
<1>4. PICK t : t = [ps[p] EXCEPT !.pend = v]
  OBVIOUS
<1>5. /\ t \in PCB /\ SameKin(ps[p], t) /\ t.rpc = ps[p].rpc /\ t.waiter = ps[p].waiter
      /\ t.state = ps[p].state /\ t.itimer = ps[p].itimer
      /\ t.pendingStop = ps[p].pendingStop /\ t.pendingCont = ps[p].pendingCont
  BY <1>1, <1>3, <1>4, PendEdit
<1>6. qs = Put(ps, p, t)
  BY <1>0, <1>1, <1>2, <1>4, Zenon DEF Post, Put
<1>7. Sane(t) /\ Kept(ps[p], t)
  BY <1>1, <1>5, Zenon DEF Sane, SameKin, Alive, Kept
<1>8. /\ TableInv(qs) /\ qs[p] = t /\ \A q \in Pid : q # p => qs[q] = ps[q]
      /\ \A q \in Pid : SameKin(ps[q], qs[q])
  BY <1>5, <1>6, <1>7, PutInv
<1>9. Mild(ps, qs)
  BY <1>5, <1>6, <1>7, PutMild, Zenon
<1>10. \A q \in Pid : qs[q].waiter = ps[q].waiter /\ qs[q].pgid = ps[q].pgid /\ qs[q].state = ps[q].state
  BY <1>5, <1>8, Zenon DEF SameKin
<1> QED
  BY <1>0, <1>9, <1>10, Zenon

LEMMA ChldMild ==
  ASSUME NEW ps, TableInv(ps), NEW p \in Pid
  PROVE  /\ Mild(ps, DeliverChld(ps, p))
         /\ \A q \in Pid : /\ DeliverChld(ps, p)[q].waiter = ps[q].waiter
                           /\ DeliverChld(ps, p)[q].pgid = ps[q].pgid
                           /\ DeliverChld(ps, p)[q].state = ps[q].state
<1>1. CASE ps[p].disp["CHLD"] = "handler"
  <2>1. "CHLD" \in Sigs
    BY SigsAssumption
  <2>2. DeliverChld(ps, p) = Post(ps, p, "CHLD")
    BY <1>1, Zenon DEF DeliverChld
  <2> QED
    BY <2>1, <2>2, PostMild
<1>2. CASE ps[p].disp["CHLD"] # "handler"
  <2>1. DeliverChld(ps, p) = ps
    BY <1>2, Zenon DEF DeliverChld
  <2> QED
    BY <2>1, MildRefl, Zenon
<1> QED
  BY <1>1, <1>2

\* Lowering flags of a PCB.
LEMMA LowerMild ==
  ASSUME NEW ps, TableInv(ps), NEW p \in Pid, NEW t \in PCB, SameKin(ps[p], t),
         t.rpc = ps[p].rpc, t.waiter = ps[p].waiter,
         t.state = ps[p].state, t.itimer = ps[p].itimer,
         t.pendingStop => ps[p].pendingStop, t.pendingCont => ps[p].pendingCont
  PROVE  Mild(ps, Put(ps, p, t)) /\ \A q \in Pid : Put(ps, p, t)[q].waiter = ps[q].waiter
<1>1. Sane(ps[p])
  BY Unpack, Zenon
<1>2. Sane(t) /\ Kept(ps[p], t)
  BY <1>1, Zenon DEF Sane, SameKin, Alive, Kept
<1>3. /\ Put(ps, p, t)[p] = t
      /\ \A q \in Pid : q # p => Put(ps, p, t)[q] = ps[q]
  BY <1>2, PutInv
<1>4. Mild(ps, Put(ps, p, t))
  BY <1>2, PutMild, Zenon
<1>5. \A q \in Pid : Put(ps, p, t)[q].waiter = ps[q].waiter
  BY <1>3, Zenon
<1> QED
  BY <1>4, <1>5

\* Clearing an unreported transition.
LEMMA ClearMild ==
  ASSUME NEW ps, TableInv(ps), NEW p \in Pid, NEW qs,
         qs = [ps EXCEPT ![p].pendingStop = FALSE] \/ qs = [ps EXCEPT ![p].pendingCont = FALSE]
  PROVE  Mild(ps, qs) /\ \A q \in Pid : qs[q].waiter = ps[q].waiter
<1>1. ps[p] \in PCB /\ ps \in Tables
  BY Unpack, Zenon
<1>2. PICK no \in BOOLEAN : no = FALSE
  OBVIOUS
<1>4. CASE qs = [ps EXCEPT ![p].pendingStop = FALSE]
  <2>1. PICK t : t = [ps[p] EXCEPT !.pendingStop = no]
    OBVIOUS
  <2>2. /\ t \in PCB /\ SameKin(ps[p], t) /\ t.rpc = ps[p].rpc /\ t.waiter = ps[p].waiter
        /\ t.state = ps[p].state /\ t.itimer = ps[p].itimer
        /\ t.pendingStop = no /\ t.pendingCont = ps[p].pendingCont
    BY <1>1, <2>1, StopFlagEdit
  <2>3. qs = Put(ps, p, t)
    BY <1>1, <1>2, <1>4, <2>1, Zenon DEF Put
  <2>4. Mild(ps, Put(ps, p, t)) /\ \A q \in Pid : Put(ps, p, t)[q].waiter = ps[q].waiter
    BY <1>2, <2>2, LowerMild
  <2> QED
    BY <2>3, <2>4, Zenon
<1>5. CASE qs = [ps EXCEPT ![p].pendingCont = FALSE]
  <2>1. PICK t : t = [ps[p] EXCEPT !.pendingCont = no]
    OBVIOUS
  <2>2. /\ t \in PCB /\ SameKin(ps[p], t) /\ t.rpc = ps[p].rpc /\ t.waiter = ps[p].waiter
        /\ t.state = ps[p].state /\ t.itimer = ps[p].itimer
        /\ t.pendingStop = ps[p].pendingStop /\ t.pendingCont = no
    BY <1>1, <2>1, ContFlagEdit
  <2>3. qs = Put(ps, p, t)
    BY <1>1, <1>2, <1>5, <2>1, Zenon DEF Put
  <2>4. Mild(ps, Put(ps, p, t)) /\ \A q \in Pid : Put(ps, p, t)[q].waiter = ps[q].waiter
    BY <1>2, <2>2, LowerMild
  <2> QED
    BY <2>3, <2>4, Zenon
<1> QED
  BY <1>4, <1>5

\* The parent is told of a stop or a continue.
LEMMA JobMild ==
  ASSUME NEW ps, TableInv(ps), NEW p \in Pid, NEW kind \in {"stop", "cont"}
  PROVE  Mild(ps, JobNotifyParent(ps, p, kind))
<1> DEFINE parent == ps[p].ppid
           need == IF kind = "stop" THEN "untraced" ELSE "continued"
           told == DeliverChld(ps, parent)
           cleared == IF kind = "stop" THEN [told EXCEPT ![p].pendingStop = FALSE]
                      ELSE [told EXCEPT ![p].pendingCont = FALSE]
<1>1. CASE ~Live(ps, parent)
  <2>1. JobNotifyParent(ps, p, kind) = ps
    BY <1>1, Zenon DEF JobNotifyParent
  <2> QED
    BY <2>1, MildRefl, Zenon
<1>2. CASE Live(ps, parent)
  <2>1. parent \in Pid
    BY <1>2, Zenon DEF Live
  <2>2. Mild(ps, told) /\ TableInv(told) /\ \A q \in Pid : told[q].waiter = ps[q].waiter
    BY <2>1, ChldMild, Zenon DEF Mild
  <2>3. CASE WaitsFor(told, parent, p) /\ need \in told[parent].waiter.opts
    <3>1. JobNotifyParent(ps, p, kind) = Answer(cleared, parent, Rpc(kind, p))
      BY <1>2, <2>3, Zenon DEF JobNotifyParent
    <3>2. told[parent].waiter.on
      BY <2>3, Zenon DEF WaitsFor
    <3>3. Mild(told, cleared) /\ \A q \in Pid : cleared[q].waiter = told[q].waiter
      <4>1. PICK ts : ts = told
        OBVIOUS
      <4>2. TableInv(ts)
        BY <2>2, <4>1, Zenon
      <4>3. PICK cs : cs = cleared
        OBVIOUS
      <4>4. cs = [ts EXCEPT ![p].pendingStop = FALSE] \/ cs = [ts EXCEPT ![p].pendingCont = FALSE]
        BY <4>1, <4>3, Zenon
      <4>5. Mild(ts, cs) /\ \A q \in Pid : cs[q].waiter = ts[q].waiter
        BY <4>2, <4>4, ClearMild
      <4> QED
        BY <4>1, <4>3, <4>5, Zenon
    <3>4. TableInv(cleared) /\ cleared[parent].waiter.on
      BY <2>1, <3>2, <3>3, Zenon DEF Mild
    <3>5. Rpc(kind, p) \in Rpcs
      BY Constants
    <3> HIDE DEF cleared, told, parent
    <3>6. Mild(cleared, Answer(cleared, parent, Rpc(kind, p)))
      BY <2>1, <3>4, <3>5, AnswerMild, Zenon
    <3> QED
      BY <2>2, <3>1, <3>3, <3>6, MildTrans, Zenon
  <2>4. CASE ~(WaitsFor(told, parent, p) /\ need \in told[parent].waiter.opts)
    <3>1. JobNotifyParent(ps, p, kind) = told
      BY <1>2, <2>4, Zenon DEF JobNotifyParent
    <3> QED
      BY <2>2, <3>1, Zenon
  <2> QED
    BY <2>3, <2>4
<1> QED
  BY <1>1, <1>2

\* A stop or a continue of a live process.
LEMMA JobEditMild ==
  ASSUME NEW ps, TableInv(ps), NEW p \in Pid, Alive(ps[p]),
         NEW v \in {"running", "stopped"}, NEW a \in BOOLEAN, NEW b \in BOOLEAN,
         a => v = "stopped", b => v = "running",
         NEW qs, qs = [ps EXCEPT ![p].state = v, ![p].pendingStop = a, ![p].pendingCont = b]
  PROVE  Mild(ps, qs)
<1>1. ps[p] \in PCB /\ Sane(ps[p]) /\ ps \in Tables
  BY Unpack, Zenon
<1>2. PICK t : t = [ps[p] EXCEPT !.state = v, !.pendingStop = a, !.pendingCont = b]
  OBVIOUS
<1>3. /\ t \in PCB /\ SameKin(ps[p], t) /\ t.rpc = ps[p].rpc /\ t.waiter = ps[p].waiter
      /\ t.state = v /\ t.itimer = ps[p].itimer /\ t.pendingStop = a /\ t.pendingCont = b
  <2>1. PICK r1 : r1 = [ps[p] EXCEPT !.state = v]
    OBVIOUS
  <2>2. PICK r2 : r2 = [r1 EXCEPT !.pendingStop = a]
    OBVIOUS
  <2>3. v \in {"unborn", "running", "stopped", "zombie"}
    OBVIOUS
  <2>4. /\ r1 \in PCB /\ SameKin(ps[p], r1) /\ r1.rpc = ps[p].rpc /\ r1.waiter = ps[p].waiter
        /\ r1.state = v /\ r1.itimer = ps[p].itimer
    BY <1>1, <2>1, <2>3, StateEdit
  <2>5. /\ r2 \in PCB /\ SameKin(r1, r2) /\ r2.rpc = r1.rpc /\ r2.waiter = r1.waiter
        /\ r2.state = r1.state /\ r2.itimer = r1.itimer /\ r2.pendingStop = a
    BY <2>2, <2>4, StopFlagEdit
  <2>6. t = [r2 EXCEPT !.pendingCont = b]
    BY <1>2, <2>1, <2>2, Zenon
  <2>7. /\ t \in PCB /\ SameKin(r2, t) /\ t.rpc = r2.rpc /\ t.waiter = r2.waiter
        /\ t.state = r2.state /\ t.itimer = r2.itimer /\ t.pendingStop = r2.pendingStop
        /\ t.pendingCont = b
    BY <2>5, <2>6, ContFlagEdit
  <2> QED
    BY <2>4, <2>5, <2>7, Zenon DEF SameKin
<1>4. qs = Put(ps, p, t)
  BY <1>1, <1>2, Zenon DEF Put
<1>5. Alive(t) /\ t.state # "zombie"
  BY <1>3 DEF Alive
<1>6. Sane(t) /\ Kept(ps[p], t)
  BY <1>1, <1>3, <1>5, Zenon DEF Sane, SameKin, Kept
<1>7. Mild(ps, Put(ps, p, t))
  BY <1>3, <1>6, PutMild, Zenon
<1> QED
  BY <1>4, <1>7, Zenon

LEMMA StopMild ==
  ASSUME NEW ps, TableInv(ps), NEW p \in Pid
  PROVE  Mild(ps, StopProcess(ps, p))
<1>1. CASE ps[p].state # "running"
  BY <1>1, MildRefl, Zenon DEF StopProcess
<1>2. CASE ps[p].state = "running"
  <2>1. PICK qs : qs = [ps EXCEPT ![p].state = "stopped", ![p].pendingStop = TRUE,
                                  ![p].pendingCont = FALSE]
    OBVIOUS
  <2>2. Alive(ps[p])
    BY <1>2 DEF Alive
  <2>3. Mild(ps, qs) /\ TableInv(qs)
    <3>1. PICK v \in {"running", "stopped"}, a \in BOOLEAN, b \in BOOLEAN :
          v = "stopped" /\ a = TRUE /\ b = FALSE
      OBVIOUS
    <3>2. qs = [ps EXCEPT ![p].state = v, ![p].pendingStop = a, ![p].pendingCont = b]
      BY <2>1, <3>1, Zenon
    <3> QED
      BY <2>2, <3>1, <3>2, JobEditMild DEF Mild
  <2>4. StopProcess(ps, p) = JobNotifyParent(qs, p, "stop")
    BY <1>2, <2>1, Zenon DEF StopProcess
  <2> QED
    BY <2>3, <2>4, JobMild, MildTrans, Zenon
<1> QED
  BY <1>1, <1>2

LEMMA ContMild ==
  ASSUME NEW ps, TableInv(ps), NEW p \in Pid
  PROVE  Mild(ps, ContProcess(ps, p))
<1>1. CASE ps[p].state # "stopped"
  BY <1>1, MildRefl, Zenon DEF ContProcess
<1>2. CASE ps[p].state = "stopped"
  <2>1. PICK qs : qs = [ps EXCEPT ![p].state = "running", ![p].pendingStop = FALSE,
                                  ![p].pendingCont = TRUE]
    OBVIOUS
  <2>2. Alive(ps[p])
    BY <1>2 DEF Alive
  <2>3. Mild(ps, qs) /\ TableInv(qs)
    <3>1. PICK v \in {"running", "stopped"}, a \in BOOLEAN, b \in BOOLEAN :
          v = "running" /\ a = FALSE /\ b = TRUE
      OBVIOUS
    <3>2. qs = [ps EXCEPT ![p].state = v, ![p].pendingStop = a, ![p].pendingCont = b]
      BY <2>1, <3>1, Zenon
    <3> QED
      BY <2>2, <3>1, <3>2, JobEditMild DEF Mild
  <2>4. ContProcess(ps, p) = JobNotifyParent(qs, p, "cont")
    BY <1>2, <2>1, Zenon DEF ContProcess
  <2> QED
    BY <2>3, <2>4, JobMild, MildTrans, Zenon
<1> QED
  BY <1>1, <1>2

-----------------------------------------------------------------------------
(* Exits.                                                                    *)

\* What an exit or a reap leaves alone in a PCB.
SameSelf(r, t) ==
  /\ t.state = r.state /\ t.rpc = r.rpc /\ t.waiter = r.waiter /\ t.itimer = r.itimer
  /\ t.pgid = r.pgid /\ t.pendingStop = r.pendingStop /\ t.pendingCont = r.pendingCont

LEMMA SelfKept ==
  ASSUME NEW r, NEW t, SameSelf(r, t), t.listed => r.listed, Sane(r)
  PROVE  Sane(t) /\ Kept(r, t)
BY Zenon DEF SameSelf, Sane, Kept, Alive

LEMMA KeptTrans == ASSUME NEW r, NEW s, NEW t, Kept(r, s), Kept(s, t) PROVE Kept(r, t)
BY DEF Kept

LEMMA TameTrans ==
  ASSUME NEW ps, NEW qs, NEW rs, Tame(ps, qs), Tame(qs, rs)
  PROVE  Tame(ps, rs)
<1>1. \A p \in Pid : Kept(ps[p], rs[p])
  BY KeptTrans, Zenon DEF Tame
<1>2. NoNewKin(ps, rs)
  BY Zenon DEF Tame, NoNewKin
<1> QED
  BY <1>1, <1>2, Zenon DEF Tame

\* A table with fewer entries and fewer children, otherwise the same.
Thin(ps, qs) ==
  /\ qs \in Tables
  /\ \A p \in Pid : /\ SameSelf(ps[p], qs[p]) /\ qs[p].ppid = ps[p].ppid
                    /\ qs[p].listed => ps[p].listed
                    /\ qs[p].children \subseteq ps[p].children

LEMMA ThinTame == ASSUME NEW ps, NEW qs, TableInv(ps), Thin(ps, qs) PROVE Tame(ps, qs)
<1>1. ASSUME NEW p \in Pid PROVE Sane(qs[p]) /\ Kept(ps[p], qs[p])
  BY SelfKept, Zenon DEF Thin, TableInv
<1>2. \A p \in Pid : ps[p].children \subseteq Pid
  BY Fields, Unpack, Zenon
<1>3. Linked(qs)
  BY <1>2, SMTT(30) DEF Thin, TableInv, Linked
<1>4. NoNewKin(ps, qs)
  BY Zenon DEF Thin, NoNewKin
<1> QED
  BY <1>1, <1>3, <1>4, Zenon DEF Thin, Tame, TableInv

LEMMA PutThin ==
  ASSUME NEW ps, TableInv(ps), NEW p \in Pid, NEW t \in PCB,
         SameSelf(ps[p], t), t.ppid = ps[p].ppid, t.listed => ps[p].listed,
         t.children \subseteq ps[p].children
  PROVE  /\ Thin(ps, Put(ps, p, t)) /\ Put(ps, p, t)[p] = t
         /\ \A q \in Pid : q # p => Put(ps, p, t)[q] = ps[q]
<1>1. ps \in Tables
  BY Unpack, Zenon
<1>2. PICK qs : qs = Put(ps, p, t)
  OBVIOUS
<1>3. qs \in Tables /\ qs[p] = t /\ \A q \in Pid : q # p => qs[q] = ps[q]
  BY <1>1, <1>2, Zenon DEF Tables, Put
<1>4. ASSUME NEW q \in Pid
      PROVE  /\ SameSelf(ps[q], qs[q]) /\ qs[q].ppid = ps[q].ppid
             /\ qs[q].listed => ps[q].listed
             /\ qs[q].children \subseteq ps[q].children
  <2>1. CASE q = p
    BY <1>3, <2>1, Zenon
  <2>2. CASE q # p
    BY <1>3, <2>2, Zenon DEF SameSelf
  <2> QED
    BY <2>1, <2>2
<1>5. Thin(ps, qs)
  BY <1>3, <1>4, Zenon DEF Thin
<1> QED
  BY <1>2, <1>3, <1>5, Zenon

LEMMA ThinTrans ==
  ASSUME NEW ps, NEW qs, NEW rs, Thin(ps, qs), Thin(qs, rs)
  PROVE  Thin(ps, rs)
<1>1. ASSUME NEW p \in Pid
      PROVE  /\ SameSelf(ps[p], rs[p]) /\ rs[p].ppid = ps[p].ppid
             /\ rs[p].listed => ps[p].listed
             /\ rs[p].children \subseteq ps[p].children
  <2>1. /\ SameSelf(ps[p], qs[p]) /\ qs[p].ppid = ps[p].ppid
        /\ qs[p].listed => ps[p].listed
        /\ qs[p].children \subseteq ps[p].children
    BY Zenon DEF Thin
  <2>2. /\ SameSelf(qs[p], rs[p]) /\ rs[p].ppid = qs[p].ppid
        /\ rs[p].listed => qs[p].listed
        /\ rs[p].children \subseteq qs[p].children
    BY Zenon DEF Thin
  <2>3. SameSelf(ps[p], rs[p])
    BY <2>1, <2>2, Zenon DEF SameSelf
  <2> QED
    BY <2>1, <2>2, <2>3, Zenon
<1> QED
  BY <1>1, Zenon DEF Thin

LEMMA ThinRefl == ASSUME NEW ps, TableInv(ps) PROVE Thin(ps, ps)
  BY Zenon DEF Thin, TableInv, SameSelf

\* Taking one entry off the table.
Unlisted(ps, z) == [ps EXCEPT ![z].listed = FALSE]

LEMMA UnlistThin ==
  ASSUME NEW ps, TableInv(ps), NEW z \in Pid
  PROVE  /\ Thin(ps, Unlisted(ps, z)) /\ ~Unlisted(ps, z)[z].listed
         /\ \A q \in Pid : q # z => Unlisted(ps, z)[q] = ps[q]
<1>1. ps[z] \in PCB /\ ps \in Tables
  BY Unpack, Zenon
<1>2. PICK t : t = [ps[z] EXCEPT !.listed = FALSE]
  OBVIOUS
<1>3. /\ t \in PCB /\ ~t.listed /\ t.ppid = ps[z].ppid /\ t.children = ps[z].children
      /\ SameSelf(ps[z], t)
  BY <1>1, <1>2, UnlistEdit, Zenon DEF SameSelf
<1>4. Unlisted(ps, z) = Put(ps, z, t)
  BY <1>1, <1>2, Zenon DEF Unlisted, Put
<1>5. /\ Thin(ps, Put(ps, z, t)) /\ Put(ps, z, t)[z] = t
      /\ \A q \in Pid : q # z => Put(ps, z, t)[q] = ps[q]
  BY <1>3, PutThin
<1> QED
  BY <1>3, <1>4, <1>5, Zenon

Gone(ps, z) == [ps EXCEPT ![z].listed = FALSE, ![z].missed = FALSE]

LEMMA GoneThin ==
  ASSUME NEW ps, TableInv(ps), NEW z \in Pid
  PROVE  /\ Thin(ps, Gone(ps, z)) /\ ~Gone(ps, z)[z].listed
         /\ \A q \in Pid : q # z => Gone(ps, z)[q] = ps[q]
<1>1. ps[z] \in PCB /\ ps \in Tables
  BY Unpack, Zenon
<1>2. PICK t : t = [ps[z] EXCEPT !.listed = FALSE, !.missed = FALSE]
  OBVIOUS
<1>3. /\ t \in PCB /\ ~t.listed /\ t.ppid = ps[z].ppid /\ t.children = ps[z].children
      /\ SameSelf(ps[z], t)
  BY <1>1, <1>2, UnlistEdit, ZenonT(60) DEF SameSelf
<1>4. Gone(ps, z) = Put(ps, z, t)
  BY <1>1, <1>2, Zenon DEF Gone, Put
<1>5. /\ Thin(ps, Put(ps, z, t)) /\ Put(ps, z, t)[z] = t
      /\ \A q \in Pid : q # z => Put(ps, z, t)[q] = ps[q]
  BY <1>3, PutThin
<1> QED
  BY <1>3, <1>4, <1>5, Zenon

LEMMA ReapThin ==
  ASSUME NEW ps, TableInv(ps), NEW z \in Pid
  PROVE  /\ Thin(ps, Reap(ps, z)) /\ ~Reap(ps, z)[z].listed
         /\ \A q \in Pid : q # z => Reap(ps, z)[q].listed = ps[q].listed
<1>1. PICK gone : gone = Gone(ps, z)
  OBVIOUS
<1>2. /\ Thin(ps, gone) /\ ~gone[z].listed
      /\ \A q \in Pid : q # z => gone[q] = ps[q]
  BY <1>1, GoneThin
<1>3. TableInv(gone)
  BY <1>2, ThinTame, Zenon DEF Tame
<1>4. PICK parent : parent = ps[z].ppid
  OBVIOUS
<1>5. Reap(ps, z) = IF InTable(gone, parent)
                      THEN [gone EXCEPT ![parent].children = @ \ {z}] ELSE gone
  BY <1>1, <1>4, Zenon DEF Reap, Gone
<1>6. CASE ~InTable(gone, parent)
  <2>1. Reap(ps, z) = gone
    BY <1>5, <1>6, Zenon
  <2> QED
    BY <1>2, <2>1, Zenon
<1>7. CASE InTable(gone, parent)
  <2>1. parent \in Pid
    BY <1>7, Zenon DEF InTable
  <2>2. PICK v : v = gone[parent].children \ {z}
    OBVIOUS
  <2>3. gone[parent] \in PCB /\ gone \in Tables
    BY <1>3, <2>1, Unpack, Zenon
  <2>4. v \in SUBSET Pid /\ v \subseteq gone[parent].children
    BY <2>2, <2>3, Fields, Zenon
  <2>5. PICK t : t = [gone[parent] EXCEPT !.children = v]
    OBVIOUS
  <2>6. /\ t \in PCB /\ t.listed = gone[parent].listed /\ t.ppid = gone[parent].ppid
        /\ t.pgid = gone[parent].pgid /\ t.children = v
        /\ t.rpc = gone[parent].rpc /\ t.waiter = gone[parent].waiter
        /\ t.state = gone[parent].state /\ t.itimer = gone[parent].itimer
        /\ t.pendingStop = gone[parent].pendingStop /\ t.pendingCont = gone[parent].pendingCont
    BY <2>3, <2>4, <2>5, ChildrenEdit
  <2>7. PICK rs : rs = Put(gone, parent, t)
    OBVIOUS
  <2>8. Reap(ps, z) = rs
    BY <1>5, <1>7, <2>1, <2>2, <2>3, <2>5, <2>7, Zenon DEF Put
  <2>9. SameSelf(gone[parent], t)
    BY <2>6, Zenon DEF SameSelf
  <2>10. /\ Thin(gone, rs) /\ rs[parent] = t
         /\ \A q \in Pid : q # parent => rs[q] = gone[q]
    BY <1>3, <2>1, <2>4, <2>6, <2>7, <2>9, PutThin
  <2>11. Thin(ps, rs)
    BY <1>2, <2>10, ThinTrans, Zenon
  <2>12. \A q \in Pid : rs[q].listed = gone[q].listed
    BY <2>6, <2>10, Zenon
  <2> QED
    BY <1>2, <2>8, <2>11, <2>12, Zenon
<1> QED
  BY <1>6, <1>7

LEMMA TeardownMild ==
  ASSUME NEW ps, TableInv(ps), NEW p \in Pid
  PROVE  Mild(ps, Teardown(ps, p)) /\ Teardown(ps, p)[p].state = "zombie"
<1>1. ps[p] \in PCB /\ Sane(ps[p]) /\ ps \in Tables
  BY Unpack, Zenon
<1>2. PICK w \in Waiters, v \in Rpcs, d \in [Sigs -> Dispositions] :
        w = NoWaiter /\ v = Done /\ d = [s \in Sigs |-> "dfl"]
  BY Constants, Zenon
<1>3. PICK r : r = ps[p]
  OBVIOUS
<1>4. PICK t : t = Buried(r, w, v, d)
  OBVIOUS
<1>5. /\ t \in PCB /\ SameKin(r, t) /\ t.rpc = v /\ t.waiter = w
      /\ t.state = "zombie" /\ t.itimer = "off"
  BY <1>1, <1>3, <1>4, ZombieEdit
<1>6. ~Alive(t) /\ ~t.waiter.on
  <2>1. ~Alive(t)
    BY <1>5 DEF Alive
  <2>2. ~t.waiter.on
    BY <1>2, <1>5, Constants
  <2> QED
    BY <2>1, <2>2
<1>7. Sane(t) /\ Kept(ps[p], t)
  BY <1>1, <1>3, <1>5, <1>6, Zenon DEF Sane, SameKin, Kept
<1>8. Teardown(ps, p) = Put(ps, p, t)
  BY <1>1, <1>2, <1>3, <1>4, ZenonT(60) DEF Teardown, Put, Buried
<1>9. SameKin(ps[p], t)
  BY <1>3, <1>5, Zenon
<1>10. Mild(ps, Put(ps, p, t))
  BY <1>5, <1>7, <1>9, PutMild, Zenon
<1>11. Put(ps, p, t)[p] = t
  BY <1>5, <1>7, <1>9, PutInv
<1> QED
  BY <1>5, <1>8, <1>10, <1>11, Zenon

\* The least of some pids, which the loops in pid order take first.
LEMMA LeastPid ==
  ASSUME NEW S \in SUBSET Pid, S # {}
  PROVE  (CHOOSE c \in S : \A d \in S : c <= d) \in S
<1>1. S \subseteq Nat
  BY MaxPidAssumption DEF Pid
<1>2. PICK x \in S : \A y \in S : ~ (<<y, x>> \in OpToRel(<, Nat))
  BY <1>1, NatLessThanWellFounded, WFMin, Zenon
<1>3. ASSUME NEW y \in S PROVE x <= y
  <2>1. x \in Nat /\ y \in Nat
    BY <1>1
  <2>2. <<y, x>> \notin {ss \in Nat \X Nat : ss[1] < ss[2]}
    BY <1>2 DEF OpToRel
  <2>3. ~ (y < x)
    BY <2>1, <2>2
  <2> QED
    BY <2>1, <2>3
<1> QED
  BY <1>3, Zenon

Orphans(ps, p) == {c \in ps[p].children : ps[c].listed}
Moved(ps, p) ==
  [c \in Pid |-> IF c \in Orphans(ps, p) THEN [ps[c] EXCEPT !.ppid = 1]
                 ELSE IF c = p THEN [ps[c] EXCEPT !.children = {}]
                 ELSE ps[c]]

\* Orphans are younger than who dies.
LEMMA OrphanFacts ==
  ASSUME NEW ps, TableInv(ps), NEW p \in Pid, NEW c \in Orphans(ps, p)
  PROVE  c \in Pid /\ c # p /\ c > 1 /\ ps[c].listed /\ ps[c].ppid = p
<1>1. c \in ps[p].children /\ ps[c].listed
  BY Zenon DEF Orphans
<1>2. ps[p].children \subseteq Pid
  BY Unpack, Fields, Zenon
<1>3. c > p /\ ps[c].ppid = p
  BY <1>1, Zenon DEF TableInv, Linked
<1>4. c > 1 /\ c # p
  BY <1>1, <1>2, <1>3, MaxPidAssumption DEF Pid
<1> QED
  BY <1>1, <1>2, <1>3, <1>4

\* Children of who dies become children of nobody, with init for a parent.
LEMMA MovedStep ==
  ASSUME NEW ps, TableInv(ps), NEW p \in Pid, NEW qs, qs = Moved(ps, p)
  PROVE  /\ qs \in Tables
         /\ \A c \in Pid : SameSelf(ps[c], qs[c]) /\ qs[c].listed = ps[c].listed
         /\ \A c \in Pid : qs[c].ppid = IF c \in Orphans(ps, p) THEN 1 ELSE ps[c].ppid
         /\ \A c \in Pid : qs[c].children = IF c = p THEN {} ELSE ps[c].children
<1> DEFINE Right(c) == /\ qs[c] \in PCB /\ SameSelf(ps[c], qs[c]) /\ qs[c].listed = ps[c].listed
                       /\ qs[c].ppid = IF c \in Orphans(ps, p) THEN 1 ELSE ps[c].ppid
                       /\ qs[c].children = IF c = p THEN {} ELSE ps[c].children
<1>1. ASSUME NEW c \in Pid PROVE Right(c)
  <2>1. ps[c] \in PCB
    BY Unpack, Zenon
  <2>2. CASE c \in Orphans(ps, p)
    <3>1. c # p
      BY <2>2, OrphanFacts, Zenon
    <3>2. PICK t : t = [ps[c] EXCEPT !.ppid = 1]
      OBVIOUS
    <3>3. 1 \in 0 .. MaxPid
      BY Constants, Zenon
    <3>4. /\ t \in PCB /\ t.listed = ps[c].listed /\ t.ppid = 1 /\ t.pgid = ps[c].pgid
          /\ t.children = ps[c].children
          /\ t.rpc = ps[c].rpc /\ t.waiter = ps[c].waiter /\ t.state = ps[c].state
          /\ t.itimer = ps[c].itimer
          /\ t.pendingStop = ps[c].pendingStop /\ t.pendingCont = ps[c].pendingCont
      BY <2>1, <3>2, <3>3, ParentEdit
    <3>5. qs[c] = t
      BY <2>2, <3>2, Zenon DEF Moved
    <3> QED
      BY <2>2, <3>1, <3>4, <3>5, Zenon DEF SameSelf
  <2>3. CASE c \notin Orphans(ps, p) /\ c = p
    <3>1. PICK t : t = [ps[c] EXCEPT !.children = {}]
      OBVIOUS
    <3>2. {} \in SUBSET Pid
      OBVIOUS
    <3>3. /\ t \in PCB /\ t.listed = ps[c].listed /\ t.ppid = ps[c].ppid /\ t.pgid = ps[c].pgid
          /\ t.children = {}
          /\ t.rpc = ps[c].rpc /\ t.waiter = ps[c].waiter /\ t.state = ps[c].state
          /\ t.itimer = ps[c].itimer
          /\ t.pendingStop = ps[c].pendingStop /\ t.pendingCont = ps[c].pendingCont
      BY <2>1, <3>1, <3>2, ChildrenEdit
    <3>4. qs[c] = t
      BY <2>3, <3>1, Zenon DEF Moved
    <3> QED
      BY <2>3, <3>3, <3>4, Zenon DEF SameSelf
  <2>4. CASE c \notin Orphans(ps, p) /\ c # p
    <3>1. qs[c] = ps[c]
      BY <2>4, Zenon DEF Moved
    <3> QED
      BY <2>1, <2>4, <3>1, Zenon DEF SameSelf
  <2> QED
    BY <2>2, <2>3, <2>4
<1>2. qs \in Tables
  <2>1. qs = [c \in Pid |-> qs[c]]
    BY Zenon DEF Moved
  <2>2. \A c \in Pid : qs[c] \in PCB
    BY <1>1, Zenon
  <2> QED
    BY <2>1, <2>2, Zenon DEF Tables
<1> QED
  BY <1>1, <1>2, Zenon

LEMMA MovedTame ==
  ASSUME NEW ps, TableInv(ps), NEW p \in Pid
  PROVE  Tame(ps, Moved(ps, p))
<1>1. PICK qs : qs = Moved(ps, p)
  OBVIOUS
<1>2. /\ qs \in Tables
      /\ \A c \in Pid : SameSelf(ps[c], qs[c]) /\ qs[c].listed = ps[c].listed
      /\ \A c \in Pid : qs[c].ppid = IF c \in Orphans(ps, p) THEN 1 ELSE ps[c].ppid
      /\ \A c \in Pid : qs[c].children = IF c = p THEN {} ELSE ps[c].children
  BY <1>1, MovedStep
<1>3. \A c \in Pid : Sane(qs[c]) /\ Kept(ps[c], qs[c])
  BY <1>2, SelfKept, Zenon DEF TableInv
<1>4. ASSUME NEW q \in Pid, NEW c \in qs[q].children
      PROVE  c > q /\ (qs[c].listed => qs[c].ppid = q)
  <2>1. q # p /\ c \in ps[q].children
    BY <1>2, <1>4, Zenon
  <2>2. c > q /\ (ps[c].listed => ps[c].ppid = q)
    BY <2>1, Zenon DEF TableInv, Linked
  <2>3. c \in Pid
    BY <2>1, Unpack, Fields, Zenon
  <2>4. ps[c].listed => c \notin Orphans(ps, p)
    BY <2>1, <2>2, OrphanFacts, Zenon
  <2> QED
    BY <1>2, <2>2, <2>3, <2>4, Zenon
<1>5. NoNewKin(ps, qs)
  BY <1>2, Zenon DEF NoNewKin
<1> QED
  BY <1>1, <1>2, <1>3, <1>4, <1>5, ZenonT(60) DEF Tame, TableInv, Linked

\* init adopts them.
Adopted(ps, p) == [Moved(ps, p) EXCEPT ![1].children = @ \cup Orphans(ps, p)]

LEMMA AdoptedTame ==
  ASSUME NEW ps, TableInv(ps), NEW p \in Pid, p # 1, NEW qs, qs = Adopted(ps, p)
  PROVE  /\ Tame(ps, qs)
         /\ \A c \in Pid : SameSelf(ps[c], qs[c]) /\ qs[c].listed = ps[c].listed
         /\ \A c \in Orphans(ps, p) : qs[c].ppid = 1
<1>1. PICK ms : ms = Moved(ps, p)
  OBVIOUS
<1>2. /\ ms \in Tables
      /\ \A c \in Pid : SameSelf(ps[c], ms[c]) /\ ms[c].listed = ps[c].listed
      /\ \A c \in Pid : ms[c].ppid = IF c \in Orphans(ps, p) THEN 1 ELSE ps[c].ppid
      /\ \A c \in Pid : ms[c].children = IF c = p THEN {} ELSE ps[c].children
  BY <1>1, MovedStep
<1>3. Tame(ps, ms) /\ TableInv(ms)
  BY <1>1, MovedTame, Zenon DEF Tame
<1>4. 1 \in Pid
  BY Constants, Zenon
<1>5. PICK o : o = Orphans(ps, p)
  OBVIOUS
<1>6. \A c \in o : c \in Pid /\ c # p /\ c > 1 /\ ps[c].listed /\ ps[c].ppid = p
  BY <1>5, OrphanFacts, Zenon
<1>7. PICK v : v = ms[1].children \cup o
  OBVIOUS
<1>8. ms[1] \in PCB /\ ms[1].children \subseteq Pid
  BY <1>3, <1>4, Unpack, Fields, Zenon
<1>9. v \in SUBSET Pid
  BY <1>6, <1>7, <1>8, Zenon
<1>10. PICK t : t = [ms[1] EXCEPT !.children = v]
  OBVIOUS
<1>11. /\ t \in PCB /\ t.listed = ms[1].listed /\ t.ppid = ms[1].ppid
       /\ t.pgid = ms[1].pgid /\ t.children = v
       /\ t.rpc = ms[1].rpc /\ t.waiter = ms[1].waiter
       /\ t.state = ms[1].state /\ t.itimer = ms[1].itimer
       /\ t.pendingStop = ms[1].pendingStop /\ t.pendingCont = ms[1].pendingCont
  BY <1>8, <1>9, <1>10, ChildrenEdit
<1>12. qs = [ms EXCEPT ![1] = t]
  BY <1>1, <1>2, <1>4, <1>5, <1>7, <1>10, Zenon DEF Adopted
<1>13. qs \in Tables /\ qs[1] = t /\ \A q \in Pid : q # 1 => qs[q] = ms[q]
  BY <1>2, <1>4, <1>11, <1>12, Zenon DEF Tables
<1>14. \A c \in Pid : SameSelf(ps[c], qs[c]) /\ qs[c].listed = ps[c].listed /\ qs[c].ppid = ms[c].ppid
  BY <1>2, <1>11, <1>13 DEF SameSelf
<1>15. \A c \in Pid : Sane(qs[c]) /\ Kept(ps[c], qs[c])
  BY <1>14, SelfKept, Zenon DEF TableInv
<1>16. ASSUME NEW q \in Pid, NEW c \in qs[q].children
       PROVE  /\ c > q /\ (qs[c].listed => qs[c].ppid = q)
              /\ \E r \in Pid : c \in ps[r].children
  <2>1. CASE q = 1 /\ c \in o
    <3>1. c \in ps[p].children
      BY <1>5, <2>1, Zenon DEF Orphans
    <3> QED
      BY <1>2, <1>5, <1>6, <1>14, <2>1, <3>1, Zenon
  <2>2. CASE ~(q = 1 /\ c \in o)
    <3>1. c \in ms[q].children
      BY <1>7, <1>11, <1>13, <1>16, <2>2, Zenon
    <3>2. c > q /\ (ms[c].listed => ms[c].ppid = q)
      BY <1>3, <3>1, Zenon DEF TableInv, Linked
    <3>3. c \in Pid
      BY <1>3, <3>1, Unpack, Fields, Zenon
    <3>4. c \in ps[q].children
      BY <1>2, <3>1, Zenon
    <3> QED
      BY <1>2, <1>14, <3>2, <3>3, <3>4, Zenon
  <2> QED
    BY <2>1, <2>2
<1>17. Linked(qs) /\ NoNewKin(ps, qs)
  BY <1>16, ZenonT(60) DEF Linked, NoNewKin
<1>18. \A c \in Orphans(ps, p) : qs[c].ppid = 1
  BY <1>2, <1>5, <1>6, <1>14, Zenon
<1> QED
  BY <1>13, <1>14, <1>15, <1>17, <1>18, Zenon DEF Tame, TableInv

\* Reparenting: at most a zombie that init waits for leaves the table, and
\* init is told.
LEMMA ReparentStep ==
  ASSUME NEW ps, TableInv(ps), NEW p \in Pid, NEW qs, qs = Reparent(ps, p)
  PROVE  /\ Tame(ps, qs)
         /\ \A q \in Pid : qs[q].state = ps[q].state
         /\ ps[1].listed => qs[1].listed
         /\ \A c \in Pid : ps[c].listed /\ ~qs[c].listed =>
              /\ qs[c].ppid = 1 /\ qs[1].rpc = Rpc("exit", c)
              /\ ps[1].waiter.on /\ ~qs[1].waiter.on
<1> DEFINE Shape(rs) == /\ Tame(ps, rs)
                        /\ \A c \in Pid : SameSelf(ps[c], rs[c]) /\ rs[c].listed = ps[c].listed
<1>0. 1 \in Pid
  BY Constants, Zenon
<1>1. ASSUME NEW rs, Shape(rs), qs = rs
      PROVE  /\ Tame(ps, qs)
             /\ \A q \in Pid : qs[q].state = ps[q].state
             /\ \A c \in Pid : qs[c].listed = ps[c].listed
  BY <1>1, Zenon DEF SameSelf
<1>2. PICK due : due = AdoptedZombies(ps, p)
  OBVIOUS
<1>3. PICK ads : ads = Adopted(ps, p)
  OBVIOUS
<1>4. PICK z : z = CHOOSE c \in due : \A d \in due : c <= d
  OBVIOUS
<1>5. qs = IF p = 1 \/ ~ps[1].listed THEN Moved(ps, p)
           ELSE IF due = {} THEN ads
           ELSE Answer(Reap(ads, z), 1, Rpc("exit", z))
  BY <1>2, <1>3, <1>4 DEF Reparent, Moved, Adopted, Orphans
<1>6. CASE p = 1 \/ ~ps[1].listed
  <2>1. Shape(Moved(ps, p))
    BY MovedStep, MovedTame
  <2>2. qs = Moved(ps, p)
    BY <1>5, <1>6, Zenon
  <2> HIDE DEF Shape
  <2> QED
    BY <1>0, <1>1, <2>1, <2>2, Zenon
<1>7. CASE ~(p = 1 \/ ~ps[1].listed) /\ due = {}
  <2>1. Shape(ads)
    BY <1>3, <1>7, AdoptedTame
  <2>2. qs = ads
    BY <1>5, <1>7, Zenon
  <2> HIDE DEF Shape
  <2> QED
    BY <1>0, <1>1, <2>1, <2>2, Zenon
<1>8. CASE ~(p = 1 \/ ~ps[1].listed) /\ due # {}
  <2>1. /\ Tame(ps, ads)
        /\ \A c \in Pid : SameSelf(ps[c], ads[c]) /\ ads[c].listed = ps[c].listed
        /\ \A c \in Orphans(ps, p) : ads[c].ppid = 1
    BY <1>3, <1>8, AdoptedTame
  <2>2. due \subseteq Orphans(ps, p) /\ \A c \in due : ps[1].waiter.on
    BY <1>2, Zenon DEF AdoptedZombies, Orphans, WaitsFor
  <2>3. due \subseteq Pid
    BY <2>2, OrphanFacts, Zenon
  <2>4. z \in due
    BY <1>4, <1>8, <2>3, LeastPid, Zenon
  <2>5. z \in Pid /\ z # 1 /\ ads[z].ppid = 1 /\ ps[1].waiter.on
    <3>1. z > 1
      BY <2>2, <2>4, OrphanFacts, Zenon
    <3>2. z # 1
      BY <2>3, <2>4, <3>1 DEF Pid
    <3> QED
      BY <2>1, <2>2, <2>3, <2>4, <3>2, Zenon
  <2>6. PICK rs : rs = Reap(ads, z)
    OBVIOUS
  <2>7. TableInv(ads)
    BY <2>1, Zenon DEF Tame
  <2>8. /\ Thin(ads, rs) /\ ~rs[z].listed
        /\ \A q \in Pid : q # z => rs[q].listed = ads[q].listed
    BY <2>5, <2>6, <2>7, ReapThin
  <2>9. Tame(ads, rs) /\ TableInv(rs)
    BY <2>7, <2>8, ThinTame, Zenon DEF Tame
  <2>10. rs[1].waiter.on /\ rs[z].ppid = 1
    BY <1>0, <2>1, <2>5, <2>8, SMTT(30) DEF Thin, SameSelf
  <2>11. Rpc("exit", z) \in Rpcs
    BY <2>5, Constants, Zenon
  <2>12. qs = Answer(rs, 1, Rpc("exit", z))
    BY <1>5, <1>8, <2>6, Zenon
  <2>13. /\ Mild(rs, qs) /\ qs[1].rpc = Rpc("exit", z) /\ qs[1].state = rs[1].state
         /\ ~qs[1].waiter.on
         /\ \A q \in Pid : q # 1 => qs[q] = rs[q]
    BY <1>0, <2>9, <2>10, <2>11, <2>12, AnswerMild
  <2>14. Tame(rs, qs)
    BY <2>13, MildLawful, Zenon DEF Lawful
  <2>15. Tame(ps, qs)
    BY <2>1, <2>9, <2>14, TameTrans, Zenon
  <2>16. \A q \in Pid : qs[q].state = rs[q].state
    BY <2>13, Zenon
  <2>17. \A q \in Pid : rs[q].state = ps[q].state
    BY <2>1, <2>8 DEF Thin, SameSelf
  <2>18. \A q \in Pid : qs[q].listed = rs[q].listed /\ qs[q].ppid = rs[q].ppid
    BY <2>13, Zenon DEF Mild, SameKin
  <2>19. \A q \in Pid : q # z => qs[q].listed = ps[q].listed
    BY <2>1, <2>8, <2>18, Zenon
  <2> QED
    BY <1>0, <2>5, <2>10, <2>13, <2>15, <2>16, <2>17, <2>18, <2>19, SMTT(30)
<1> QED
  BY <1>6, <1>7, <1>8

\* Telling the parent: nobody but who exits leaves the table.
LEMMA NotifyStep ==
  ASSUME NEW ps, TableInv(ps), NEW p \in Pid, NEW qs, qs = NotifyExit(ps, p)
  PROVE  /\ Lawful(ps, qs)
         /\ \A q \in Pid : qs[q].state = ps[q].state /\ qs[q].ppid = ps[q].ppid
<1>0. PICK parent : parent = ps[p].ppid
  OBVIOUS
<1>1. PICK told : told = DeliverChld(ps, parent)
  OBVIOUS
<1>2. qs = IF p = 1 THEN [ps EXCEPT ![1].listed = FALSE]
           ELSE IF InTable(ps, parent) /\ ps[parent].state = "running"
             THEN IF WaitsFor(told, parent, p)
                    THEN Answer(Reap(told, p), parent, Rpc("exit", p))
                    ELSE told
           ELSE IF ~ps[1].listed \/ parent = 0 THEN Reap(ps, p)
           ELSE [ps EXCEPT ![p].missed = TRUE]
  BY <1>0, <1>1, Zenon DEF NotifyExit
<1>3. CASE p = 1
  <2>1. qs = Unlisted(ps, p)
    BY <1>2, <1>3, Zenon DEF Unlisted
  <2>2. Thin(ps, qs) /\ \A q \in Pid : q # p => qs[q] = ps[q]
    BY <2>1, UnlistThin
  <2>3. Reported(ps, qs)
    BY <1>3, <2>2, Zenon DEF Reported
  <2> QED
    BY <2>2, <2>3, ThinTame DEF Lawful, Thin, SameSelf
<1>4. CASE p # 1 /\ ~(InTable(ps, parent) /\ ps[parent].state = "running")
           /\ (~ps[1].listed \/ parent = 0)
  <2>1. qs = Reap(ps, p)
    BY <1>2, <1>4, Zenon
  <2>2. Thin(ps, qs) /\ \A q \in Pid : q # p => qs[q].listed = ps[q].listed
    BY <2>1, ReapThin, SMTT(30)
  <2>3. qs[p].ppid = parent
    BY <1>0, <2>2, Zenon DEF Thin
  <2>4. Reported(ps, qs)
    BY <1>4, <2>2, <2>3, Zenon DEF Reported
  <2> QED
    BY <2>2, <2>4, ThinTame, Zenon DEF Lawful, Thin, SameSelf
<1>5. CASE p # 1 /\ ~(InTable(ps, parent) /\ ps[parent].state = "running")
           /\ ~(~ps[1].listed \/ parent = 0)
  <2>1. qs = [ps EXCEPT ![p].missed = TRUE]
    BY <1>2, <1>5, Zenon
  <2>2. ps[p] \in PCB /\ Sane(ps[p]) /\ ps \in Tables
    BY Unpack, Zenon
  <2>3. PICK yes \in BOOLEAN : yes = TRUE
    OBVIOUS
  <2>4. PICK t : t = [ps[p] EXCEPT !.missed = yes]
    OBVIOUS
  <2>5. /\ t \in PCB /\ SameKin(ps[p], t)
        /\ t.rpc = ps[p].rpc /\ t.waiter = ps[p].waiter /\ t.state = ps[p].state
        /\ t.itimer = ps[p].itimer
        /\ t.pendingStop = ps[p].pendingStop /\ t.pendingCont = ps[p].pendingCont
    BY <2>2, <2>4, MissedEdit
  <2>6. qs = Put(ps, p, t)
    BY <2>1, <2>2, <2>3, <2>4, Zenon DEF Put
  <2>7. SameSelf(ps[p], t) /\ t.ppid = ps[p].ppid /\ (t.listed => ps[p].listed)
        /\ t.children \subseteq ps[p].children /\ t.listed = ps[p].listed
    BY <2>5, Zenon DEF SameSelf, SameKin
  <2>8. /\ Thin(ps, qs) /\ qs[p] = t /\ \A q \in Pid : q # p => qs[q] = ps[q]
    BY <2>5, <2>6, <2>7, PutThin
  <2>9. Reported(ps, qs)
    BY <2>7, <2>8, Zenon DEF Reported
  <2> QED
    BY <2>8, <2>9, ThinTame DEF Lawful, Thin, SameSelf
<1>6. CASE p # 1 /\ InTable(ps, parent) /\ ps[parent].state = "running"
  <2>1. parent \in Pid
    BY <1>6, Zenon DEF InTable
  <2>2. /\ Mild(ps, told) /\ TableInv(told)
        /\ \A q \in Pid : told[q].waiter = ps[q].waiter /\ told[q].state = ps[q].state
    BY <1>1, <2>1, ChldMild, Zenon DEF Mild
  <2>3. Lawful(ps, told) /\ \A q \in Pid : told[q].ppid = ps[q].ppid /\ told[q].listed = ps[q].listed
    BY <2>2, MildLawful, Zenon DEF Mild, SameKin
  <2>4. CASE ~WaitsFor(told, parent, p)
    <3>1. qs = told
      BY <1>2, <1>6, <2>4, Zenon
    <3> QED
      BY <2>2, <2>3, <3>1, Zenon
  <2>5. CASE WaitsFor(told, parent, p)
    <3>1. PICK rs : rs = Reap(told, p)
      OBVIOUS
    <3>2. /\ Thin(told, rs) /\ ~rs[p].listed
          /\ \A q \in Pid : q # p => rs[q].listed = told[q].listed
      BY <2>2, <3>1, ReapThin, Zenon
    <3>3. Tame(told, rs) /\ TableInv(rs)
      BY <2>2, <3>2, ThinTame, Zenon DEF Tame
    <3>4. told[parent].waiter.on /\ rs[parent].waiter.on
      BY <2>1, <2>5, <3>2, Zenon DEF WaitsFor, Thin, SameSelf
    <3>5. qs = Answer(rs, parent, Rpc("exit", p))
      BY <1>2, <1>6, <2>5, <3>1, Zenon
    <3>6. Rpc("exit", p) \in Rpcs
      BY Constants, Zenon
    <3>7. /\ Mild(rs, qs) /\ qs[parent].rpc = Rpc("exit", p)
          /\ qs[parent].state = rs[parent].state
          /\ \A q \in Pid : q # parent => qs[q] = rs[q]
      BY <2>1, <3>3, <3>4, <3>5, <3>6, AnswerMild
    <3>8. Tame(rs, qs) /\ Tame(ps, told)
      BY <2>3, <3>7, MildLawful, Zenon DEF Lawful
    <3>9. Tame(ps, qs)
      BY <3>3, <3>8, TameTrans, Zenon
    <3>10. \A q \in Pid : qs[q].ppid = rs[q].ppid /\ qs[q].listed = rs[q].listed
      BY <3>7, Zenon DEF Mild, SameKin
    <3>11. \A q \in Pid : qs[q].state = ps[q].state /\ qs[q].ppid = ps[q].ppid
      BY <2>2, <2>3, <3>2, <3>7, <3>10 DEF Thin, SameSelf
    <3>12. ps[parent].waiter.on
      BY <2>1, <2>2, <3>4, Zenon
    <3>13. \A c \in Pid : ps[c].listed /\ ~qs[c].listed => c = p
      BY <2>3, <3>2, <3>10, Zenon
    <3>14. qs[p].ppid = parent
      BY <1>0, <3>11, Zenon
    <3>15. Reported(ps, qs)
      BY <3>7, <3>12, <3>13, <3>14, Zenon DEF Reported
    <3> QED
      BY <3>9, <3>11, <3>15, Zenon DEF Lawful
  <2> QED
    BY <2>4, <2>5
<1> QED
  BY <1>3, <1>4, <1>5, <1>6

\* Who is parked after a part of a handler was parked before it.
LEMMA ParkedBefore ==
  ASSUME NEW ps, NEW qs, Tame(ps, qs), NEW p \in Pid, qs[p].waiter.on
  PROVE  ps[p].waiter.on
<1>1. Kept(ps[p], qs[p]) /\ Sane(qs[p])
  BY Zenon DEF Tame, TableInv
<1> QED
  BY <1>1, Zenon DEF Kept, Sane

\* A whole exit.
LEMMA ExitLawful ==
  ASSUME NEW ps, TableInv(ps), NEW p \in Pid
  PROVE  Lawful(ps, ExitProcess(ps, p))
<1>1. CASE ps[p].state = "zombie"
  <2>1. ExitProcess(ps, p) = ps
    BY <1>1, Zenon DEF ExitProcess
  <2> QED
    BY <2>1, MildRefl, MildLawful, Zenon
<1>2. CASE ps[p].state # "zombie"
  <2>1. PICK ts : ts = Teardown(ps, p)
    OBVIOUS
  <2>2. PICK rs : rs = Reparent(ts, p)
    OBVIOUS
  <2>3. PICK qs : qs = NotifyExit(rs, p)
    OBVIOUS
  <2>4. ExitProcess(ps, p) = qs
    BY <1>2, <2>1, <2>2, <2>3, Zenon DEF ExitProcess
  <2>5. Mild(ps, ts) /\ Tame(ps, ts) /\ TableInv(ts)
    BY <2>1, TeardownMild, MildLawful, Zenon DEF Lawful, Tame
  <2>6. /\ Tame(ts, rs)
        /\ \A q \in Pid : rs[q].state = ts[q].state
        /\ ts[1].listed => rs[1].listed
        /\ \A c \in Pid : ts[c].listed /\ ~rs[c].listed =>
             /\ rs[c].ppid = 1 /\ rs[1].rpc = Rpc("exit", c)
             /\ ts[1].waiter.on /\ ~rs[1].waiter.on
    BY <2>2, <2>5, ReparentStep
  <2>7. TableInv(rs)
    BY <2>6, Zenon DEF Tame
  <2>8. /\ Lawful(rs, qs)
        /\ \A q \in Pid : qs[q].state = rs[q].state /\ qs[q].ppid = rs[q].ppid
    BY <2>3, <2>7, NotifyStep, SMTT(30)
  <2>9. Tame(ps, rs) /\ Tame(rs, qs) /\ Tame(ps, qs)
    BY <2>5, <2>6, <2>8, TameTrans, Zenon DEF Lawful
  <2>10. 1 \in Pid /\ \A c \in Pid : ts[c].listed = ps[c].listed
    BY <2>5, Constants, SMTT(30) DEF Mild, SameKin
  <2>11. ASSUME NEW c \in Pid, ps[c].listed, ~qs[c].listed
         PROVE  \/ c = 1 \/ ~ps[1].listed \/ qs[c].ppid = 0
                \/ qs[qs[c].ppid].rpc = Rpc("exit", c) /\ ps[qs[c].ppid].waiter.on
    <3>1. CASE ~rs[c].listed
      <4>1. /\ qs[c].ppid = 1 /\ rs[1].rpc = Rpc("exit", c)
            /\ ts[1].waiter.on /\ ~rs[1].waiter.on
        BY <2>6, <2>8, <2>10, <2>11, <3>1, Zenon
      <4>2. Sane(ts[1]) /\ Kept(rs[1], qs[1])
        BY <2>5, <2>9, <2>10, Zenon DEF TableInv, Tame
      <4>3. Alive(ts[1])
        BY <4>1, <4>2, Zenon DEF Sane
      <4>4. Alive(qs[1])
        BY <2>6, <2>8, <2>10, <4>3, Zenon DEF Alive
      <4>5. qs[1].rpc = Rpc("exit", c)
        BY <4>1, <4>2, <4>4, Zenon DEF Kept
      <4>6. ps[1].waiter.on
        BY <2>5, <2>10, <4>1, ParkedBefore, Zenon
      <4> QED
        BY <4>1, <4>5, <4>6, Zenon
    <3>2. CASE rs[c].listed
      <4>1. \/ c = 1 \/ ~rs[1].listed \/ qs[c].ppid = 0
            \/ qs[qs[c].ppid].rpc = Rpc("exit", c) /\ rs[qs[c].ppid].waiter.on
        BY <2>8, <2>11, <3>2, Zenon DEF Lawful, Reported
      <4>2. rs[1].listed \/ ~ps[1].listed
        BY <2>6, <2>10, Zenon
      <4>3. qs[c].ppid \in Pid \/ qs[c].ppid = 0
        <5>1. qs[c] \in PCB
          BY <2>9, Unpack, Zenon DEF Tame
        <5>2. qs[c].ppid \in 0 .. MaxPid
          BY <5>1, Fields, Zenon
        <5> QED
          BY <5>2, MaxPidAssumption DEF Pid
      <4>4. CASE qs[c].ppid \in Pid /\ rs[qs[c].ppid].waiter.on
        <5>1. ps[qs[c].ppid].waiter.on
          BY <2>9, <4>4, ParkedBefore, Zenon
        <5> QED
          BY <4>1, <4>2, <5>1, Zenon
      <4> QED
        BY <4>1, <4>2, <4>3, <4>4, Zenon
    <3> QED
      BY <3>1, <3>2
  <2>12. Reported(ps, qs)
    BY <2>11, Zenon DEF Reported
  <2> QED
    BY <2>4, <2>9, <2>12, Zenon DEF Lawful
<1> QED
  BY <1>1, <1>2

-----------------------------------------------------------------------------
(* Signals.                                                                  *)

LEMMA MildThen ==
  ASSUME NEW ps, NEW qs, NEW rs, Mild(ps, qs), Lawful(qs, rs)
  PROVE  Lawful(ps, rs)
<1>1. Tame(ps, qs) /\ Tame(qs, rs)
  BY MildLawful, Zenon DEF Lawful
<1>2. Tame(ps, rs)
  BY <1>1, TameTrans, Zenon
<1>3. 1 \in Pid /\ \A c \in Pid : qs[c].listed = ps[c].listed
  BY Constants, Zenon DEF Mild, SameKin
<1>4. ASSUME NEW c \in Pid, ps[c].listed, ~rs[c].listed
      PROVE  \/ c = 1 \/ ~ps[1].listed \/ rs[c].ppid = 0
             \/ rs[rs[c].ppid].rpc = Rpc("exit", c) /\ ps[rs[c].ppid].waiter.on
  <2>1. \/ c = 1 \/ ~ps[1].listed \/ rs[c].ppid = 0
        \/ rs[rs[c].ppid].rpc = Rpc("exit", c) /\ qs[rs[c].ppid].waiter.on
    BY <1>3, <1>4, Zenon DEF Lawful, Reported
  <2>2. rs[c].ppid \in Pid \/ rs[c].ppid = 0
    <3>1. rs[c].ppid \in 0 .. MaxPid
      BY <1>2, Unpack, Fields, Zenon DEF Tame
    <3> QED
      BY <3>1, MaxPidAssumption DEF Pid
  <2>3. CASE rs[c].ppid \in Pid /\ qs[rs[c].ppid].waiter.on
    <3>1. ps[rs[c].ppid].waiter.on
      BY <1>1, <2>3, ParkedBefore, Zenon
    <3> QED
      BY <2>1, <3>1, Zenon
  <2> QED
    BY <2>1, <2>2, <2>3, Zenon
<1> QED
  BY <1>2, <1>4, Zenon DEF Lawful, Reported

LEMMA LawfulRefl == ASSUME NEW ps, TableInv(ps) PROVE Lawful(ps, ps)
  BY MildRefl, MildLawful, Zenon

LEMMA DefaultLawful ==
  ASSUME NEW ps, TableInv(ps), NEW p \in Pid, NEW sig \in Sigs
  PROVE  Lawful(ps, DefaultAction(ps, p, sig))
<1>1. CASE sig \in Terminating
  <2>1. DefaultAction(ps, p, sig)
          = IF sig \in ps[p].block THEN Post(ps, p, sig) ELSE ExitProcess(ps, p)
    BY <1>1 DEF DefaultAction, Terminating
  <2>2. Lawful(ps, Post(ps, p, sig))
    BY PostMild, MildLawful, Zenon
  <2> QED
    BY <2>1, <2>2, ExitLawful, Zenon
<1>2. CASE sig = "TSTP"
  <2>1. DefaultAction(ps, p, sig) = StopProcess(ps, p)
    BY <1>2 DEF DefaultAction, Terminating
  <2> QED
    BY <2>1, StopMild, MildLawful, Zenon
<1>3. CASE sig \notin Terminating /\ sig # "TSTP"
  <2>1. DefaultAction(ps, p, sig) = ps
    BY <1>3 DEF DefaultAction
  <2> QED
    BY <2>1, LawfulRefl, Zenon
<1> QED
  BY <1>1, <1>2, <1>3

LEMMA DeliverLawful ==
  ASSUME NEW ps, TableInv(ps), NEW p \in Pid, NEW sig \in Sigs
  PROVE  Lawful(ps, Deliver(ps, p, sig))
<1>1. CASE sig = "KILL"
  <2>1. Deliver(ps, p, sig) = ExitProcess(ps, p)
    BY <1>1 DEF Deliver
  <2> QED
    BY <2>1, ExitLawful, Zenon
<1>2. CASE sig = "STOP"
  <2>1. Deliver(ps, p, sig) = StopProcess(ps, p)
    BY <1>2 DEF Deliver
  <2> QED
    BY <2>1, StopMild, MildLawful, Zenon
<1>3. CASE sig # "KILL" /\ sig # "STOP"
  <2>1. PICK ws : ws = IF sig = "CONT" THEN ContProcess(ps, p) ELSE ps
    OBVIOUS
  <2>2. Mild(ps, ws) /\ TableInv(ws)
    BY <2>1, ContMild, MildRefl, Zenon DEF Mild
  <2>3. \/ Deliver(ps, p, sig) = ws
        \/ Deliver(ps, p, sig) = Post(ws, p, sig)
        \/ Deliver(ps, p, sig) = DefaultAction(ws, p, sig)
    BY <1>3, <2>1 DEF Deliver
  <2>4. Lawful(ws, ws) /\ Lawful(ws, Post(ws, p, sig)) /\ Lawful(ws, DefaultAction(ws, p, sig))
    BY <2>2, LawfulRefl, PostMild, MildLawful, DefaultLawful, Zenon
  <2>5. Lawful(ws, Deliver(ps, p, sig))
    BY <2>3, <2>4, Zenon
  <2> QED
    BY <2>2, <2>5, MildThen, Zenon
<1> QED
  BY <1>1, <1>2, <1>3

LEMMA FireLawful ==
  ASSUME NEW ps, TableInv(ps), NEW p \in Pid, "ALRM" \in Sigs
  PROVE  Lawful(ps, FireTimer(ps, p))
<1>1. ps[p] \in PCB /\ Sane(ps[p]) /\ ps \in Tables
  BY Unpack, Zenon
<1>2. PICK v : v = IF ps[p].itimer = "interval" THEN ps[p].itimer ELSE "off"
  OBVIOUS
<1>3. v \in {"off", "once", "interval"} /\ (ps[p].itimer = "off" => v = "off")
  BY <1>2
<1>4. PICK t : t = [ps[p] EXCEPT !.itimer = v]
  OBVIOUS
<1>5. /\ t \in PCB /\ SameKin(ps[p], t)
      /\ t.rpc = ps[p].rpc /\ t.waiter = ps[p].waiter /\ t.state = ps[p].state
      /\ t.itimer = v
      /\ t.pendingStop = ps[p].pendingStop /\ t.pendingCont = ps[p].pendingCont
  BY <1>1, <1>3, <1>4, TimerEdit
<1>6. Sane(t) /\ Kept(ps[p], t)
  BY <1>1, <1>3, <1>5, Zenon DEF Sane, SameKin, Alive, Kept
<1>7. PICK qs : qs = Put(ps, p, t)
  OBVIOUS
<1>8. FireTimer(ps, p) = Deliver(qs, p, "ALRM")
  BY <1>1, <1>2, <1>4, <1>7, Zenon DEF FireTimer, Put
<1>9. Mild(ps, qs) /\ TableInv(qs)
  BY <1>5, <1>6, <1>7, PutMild, Zenon DEF Mild
<1>10. Lawful(qs, Deliver(qs, p, "ALRM"))
  BY <1>9, DeliverLawful, Zenon
<1> QED
  BY <1>8, <1>9, <1>10, MildThen, Zenon

-----------------------------------------------------------------------------
(* Handlers.                                                                 *)

\* Who leaves the table is reported to its parent, if there is one.
Told(ps, qs) ==
  \A c \in Pid : ps[c].listed /\ ~qs[c].listed =>
    \/ c = 1 \/ ~ps[1].listed \/ qs[c].ppid = 0
    \/ qs[qs[c].ppid].rpc = Rpc("exit", c) /\ ps[qs[c].ppid].rpc.tag # "exit"

\* A handler called by p.
Turn(ps, qs, p) ==
  /\ TableInv(qs) /\ NoNewKin(ps, qs) /\ Told(ps, qs)
  /\ \A q \in Pid : Bounded(ps[q], qs[q])
  /\ \A q \in Pid : q # p => Kept(ps[q], qs[q])

LEMMA ParentPid ==
  ASSUME NEW ps, TableInv(ps), NEW c \in Pid
  PROVE  ps[c].ppid \in Pid \/ ps[c].ppid = 0
<1>1. ps[c].ppid \in 0 .. MaxPid
  BY Unpack, Fields, Zenon
<1> QED
  BY <1>1, MaxPidAssumption DEF Pid

LEMMA ReportedTold ==
  ASSUME NEW ps, TableInv(ps), NEW qs, TableInv(qs), Reported(ps, qs)
  PROVE  Told(ps, qs)
<1>1. ASSUME NEW c \in Pid, qs[c].ppid # 0, ps[qs[c].ppid].waiter.on
      PROVE  ps[qs[c].ppid].rpc.tag # "exit"
  <2>1. qs[c].ppid \in Pid
    BY <1>1, ParentPid, Zenon
  <2>2. ps[qs[c].ppid].rpc.tag = "deferred"
    BY <1>1, <2>1, Zenon DEF TableInv, Sane
  <2> QED
    BY <2>2
<1> QED
  BY <1>1, Zenon DEF Reported, Told

LEMMA KeptBounded == ASSUME NEW r, NEW t, Kept(r, t) PROVE Bounded(r, t)
  BY Zenon DEF Kept, Bounded

LEMMA LawfulTurn ==
  ASSUME NEW ps, TableInv(ps), NEW qs, Lawful(ps, qs), NEW p
  PROVE  Turn(ps, qs, p)
<1>1. Told(ps, qs)
  BY ReportedTold, Zenon DEF Lawful, Tame
<1>2. \A q \in Pid : Bounded(ps[q], qs[q])
  BY KeptBounded, Zenon DEF Lawful, Tame
<1> QED
  BY <1>1, <1>2, Zenon DEF Lawful, Tame, Turn

\* The answer to the caller, which is not parked.
LEMMA RespondTurn ==
  ASSUME NEW ps, TableInv(ps), NEW qs, Lawful(ps, qs), NEW p \in Pid, ~ps[p].waiter.on,
         NEW v \in Rpcs, NEW rs, rs = Respond(qs, p, v)
  PROVE  Turn(ps, rs, p)
<1>1. Tame(ps, qs) /\ TableInv(qs)
  BY Zenon DEF Lawful, Tame
<1>2. ~qs[p].waiter.on
  BY <1>1, ParkedBefore, Zenon
<1>3. /\ TableInv(rs) /\ \A q \in Pid : q # p => rs[q] = qs[q]
      /\ \A q \in Pid : SameKin(qs[q], rs[q])
      /\ rs[p].state = qs[p].state
  BY <1>1, <1>2, RespondStep
<1>4. \A q \in Pid : Kept(ps[q], qs[q])
  BY <1>1, Zenon DEF Tame
<1>5. ASSUME NEW q \in Pid PROVE Bounded(ps[q], rs[q])
  <2>1. SameKin(qs[q], rs[q]) /\ Kept(ps[q], qs[q]) /\ rs[q].state = qs[q].state
    BY <1>3, <1>4, Zenon
  <2> QED
    BY <2>1, Zenon DEF Kept, Bounded, SameKin, Alive
<1>6. \A q \in Pid : q # p => Kept(ps[q], rs[q])
  BY <1>3, <1>4, Zenon
<1>7. \A q \in Pid : rs[q].children = qs[q].children /\ rs[q].listed = qs[q].listed /\ rs[q].ppid = qs[q].ppid
  BY <1>3, Zenon DEF SameKin
<1>8. NoNewKin(ps, rs)
  BY <1>1, <1>7, Zenon DEF NoNewKin, Tame
<1>9. ASSUME NEW c \in Pid, ps[c].listed, ~rs[c].listed
      PROVE  \/ c = 1 \/ ~ps[1].listed \/ rs[c].ppid = 0
             \/ rs[rs[c].ppid].rpc = Rpc("exit", c) /\ ps[rs[c].ppid].waiter.on
  <2>1. \/ c = 1 \/ ~ps[1].listed \/ rs[c].ppid = 0
        \/ qs[rs[c].ppid].rpc = Rpc("exit", c) /\ ps[rs[c].ppid].waiter.on
    BY <1>7, <1>9, Zenon DEF Lawful, Reported
  <2>2. rs[c].ppid \in Pid \/ rs[c].ppid = 0
    BY <1>3, ParentPid, Zenon
  <2>3. CASE ps[rs[c].ppid].waiter.on /\ rs[c].ppid \in Pid
    <3>1. rs[c].ppid # p
      BY <2>3, Zenon
    <3> QED
      BY <1>3, <2>1, <2>3, <3>1, Zenon
  <2> QED
    BY <2>1, <2>2, <2>3, Zenon
<1>10. Reported(ps, rs)
  BY <1>9, Zenon DEF Reported
<1>11. Told(ps, rs)
  BY <1>3, <1>10, ReportedTold, Zenon
<1> QED
  BY <1>3, <1>5, <1>6, <1>8, <1>11, Zenon DEF Turn

\* A store to the caller's own page.
Paged(ps, p, v) == [ps EXCEPT ![p].rpc = v]

LEMMA RpcTurn ==
  ASSUME NEW ps, TableInv(ps), NEW p \in Pid, ~ps[p].waiter.on, NEW v \in Rpcs,
         NEW qs, qs = Paged(ps, p, v)
  PROVE  Turn(ps, qs, p) /\ ~qs[p].waiter.on /\ qs[p].rpc = v /\ qs[p].pgid = ps[p].pgid
<1>1. ps[p] \in PCB /\ Sane(ps[p]) /\ ps \in Tables
  BY Unpack, Zenon
<1>2. PICK t : t = [ps[p] EXCEPT !.rpc = v]
  OBVIOUS
<1>3. /\ t \in PCB /\ SameKin(ps[p], t)
      /\ t.rpc = v /\ t.waiter = ps[p].waiter /\ t.state = ps[p].state
      /\ t.itimer = ps[p].itimer
      /\ t.pendingStop = ps[p].pendingStop /\ t.pendingCont = ps[p].pendingCont
  BY <1>1, <1>2, RpcEdit
<1>4. Sane(t) /\ Bounded(ps[p], t)
  BY <1>1, <1>3, Zenon DEF Sane, SameKin, Alive, Bounded
<1>5. qs = Put(ps, p, t)
  BY <1>1, <1>2, Zenon DEF Put, Paged
<1>6. /\ TableInv(qs) /\ qs[p] = t
      /\ \A q \in Pid : q # p => qs[q] = ps[q]
      /\ \A q \in Pid : SameKin(ps[q], qs[q])
  <2>1. SameKin(ps[p], t) /\ Sane(t)
    BY <1>3, <1>4, Zenon
  <2>2. /\ TableInv(Put(ps, p, t)) /\ Put(ps, p, t)[p] = t
        /\ \A q \in Pid : q # p => Put(ps, p, t)[q] = ps[q]
        /\ \A q \in Pid : SameKin(ps[q], Put(ps, p, t)[q])
    BY <1>3, <2>1, PutInv, Zenon
  <2> QED
    BY <1>5, <2>2, Zenon
<1>7. \A q \in Pid : q # p => Kept(ps[q], qs[q]) /\ Bounded(ps[q], qs[q])
  BY <1>6, Zenon DEF Kept, Bounded
<1>8. \A q \in Pid : qs[q].children = ps[q].children /\ qs[q].listed = ps[q].listed
  BY <1>6, Zenon DEF SameKin
<1>9. NoNewKin(ps, qs) /\ Told(ps, qs)
  BY <1>8, Zenon DEF NoNewKin, Told
<1>10. \A q \in Pid : Bounded(ps[q], qs[q])
  BY <1>4, <1>6, <1>7, Zenon
<1>11. Turn(ps, qs, p)
  BY <1>6, <1>7, <1>9, <1>10, Zenon DEF Turn
<1> QED
  BY <1>3, <1>6, <1>11, Zenon DEF SameKin

\* One PCB edited, its place in the tree, its page and its state aside.
LEMMA EditLawful ==
  ASSUME NEW ps, TableInv(ps), NEW p \in Pid, NEW t \in PCB,
         t.listed = ps[p].listed, t.ppid = ps[p].ppid, t.children = ps[p].children,
         t.rpc = ps[p].rpc, t.waiter = ps[p].waiter, t.state = ps[p].state,
         t.pendingStop = ps[p].pendingStop, t.pendingCont = ps[p].pendingCont,
         ps[p].pgid # 0 => t.pgid # 0, t.itimer = ps[p].itimer \/ ps[p].state # "zombie"
  PROVE  Lawful(ps, Put(ps, p, t))
<1>1. ps \in Tables /\ Sane(ps[p])
  BY Unpack, Zenon
<1>2. PICK qs : qs = Put(ps, p, t)
  OBVIOUS
<1>3. qs \in Tables /\ qs[p] = t /\ \A q \in Pid : q # p => qs[q] = ps[q]
  BY <1>1, <1>2, Zenon DEF Tables, Put
<1>4. Sane(t) /\ Kept(ps[p], t)
  BY <1>1, Zenon DEF Sane, Kept, Alive
<1>5. ASSUME NEW q \in Pid
      PROVE  /\ Sane(qs[q]) /\ Kept(ps[q], qs[q])
             /\ qs[q].children = ps[q].children /\ qs[q].listed = ps[q].listed
             /\ qs[q].ppid = ps[q].ppid /\ ps[q].children \subseteq Pid
  <2>1. ps[q].children \subseteq Pid
    BY Unpack, Fields, Zenon
  <2>2. CASE q = p
    BY <1>3, <1>4, <2>1, <2>2, Zenon
  <2>3. CASE q # p
    <3>1. qs[q] = ps[q] /\ Sane(ps[q])
      BY <1>3, <2>3, Zenon DEF TableInv
    <3> QED
      BY <2>1, <3>1, Zenon DEF Kept
  <2> QED
    BY <2>2, <2>3
<1>6. Linked(qs) /\ NoNewKin(ps, qs) /\ Reported(ps, qs)
  BY <1>5, SMTT(30) DEF TableInv, Linked, NoNewKin, Reported
<1>7. Lawful(ps, qs)
  BY <1>3, <1>5, <1>6, Zenon DEF Lawful, Tame, TableInv
<1> QED
  BY <1>2, <1>7, Zenon

\* A wait that takes a zombie.
LEMMA ReapTurn ==
  ASSUME NEW ps, TableInv(ps), NEW p \in Pid, Alive(ps[p]), ~ps[p].waiter.on,
         ps[p].rpc.tag = "posted",
         NEW z \in Pid, z \in ps[p].children, ps[z].listed,
         NEW rs, rs = Respond(Reap(ps, z), p, Rpc("exit", z))
  PROVE  Turn(ps, rs, p)
<1>1. PICK qs : qs = Reap(ps, z)
  OBVIOUS
<1>2. /\ Thin(ps, qs) /\ ~qs[z].listed
      /\ \A q \in Pid : q # z => qs[q].listed = ps[q].listed
  BY <1>1, ReapThin
<1>3. Tame(ps, qs) /\ TableInv(qs)
  BY <1>2, ThinTame, Zenon DEF Tame
<1>4. qs[p].state = ps[p].state /\ qs[p].waiter = ps[p].waiter /\ qs[z].ppid = ps[z].ppid
  BY <1>2, Zenon DEF Thin, SameSelf
<1>5. ps[z].ppid = p
  BY Zenon DEF TableInv, Linked
<1>6. rs = Respond(qs, p, Rpc("exit", z)) /\ Rpc("exit", z) \in Rpcs
  BY <1>1, Constants, Zenon
<1>7. ~qs[p].waiter.on /\ Alive(qs[p])
  BY <1>4, Zenon DEF Alive
<1>8. /\ TableInv(rs) /\ \A q \in Pid : q # p => rs[q] = qs[q]
      /\ \A q \in Pid : SameKin(qs[q], rs[q])
      /\ rs[p].state = qs[p].state
      /\ IF Alive(qs[p]) THEN rs[p].rpc = Rpc("exit", z) ELSE rs = qs
  BY <1>3, <1>6, <1>7, RespondStep
<1>9. rs[p].rpc = Rpc("exit", z)
  BY <1>7, <1>8, Zenon
<1>10. \A q \in Pid : Kept(ps[q], qs[q])
  BY <1>3, Zenon DEF Tame
<1>11. ASSUME NEW q \in Pid PROVE Bounded(ps[q], rs[q])
  <2>1. SameKin(qs[q], rs[q]) /\ Kept(ps[q], qs[q]) /\ rs[q].state = qs[q].state
    BY <1>8, <1>10, Zenon
  <2> QED
    BY <2>1, Zenon DEF Kept, Bounded, SameKin, Alive
<1>12. \A q \in Pid : q # p => Kept(ps[q], rs[q])
  BY <1>8, <1>10, Zenon
<1>13. \A q \in Pid : rs[q].children = qs[q].children /\ rs[q].listed = qs[q].listed /\ rs[q].ppid = qs[q].ppid
  BY <1>8, Zenon DEF SameKin
<1>14. NoNewKin(ps, rs)
  BY <1>3, <1>13, Zenon DEF NoNewKin, Tame
<1>15. \A c \in Pid : ps[c].listed /\ ~rs[c].listed => c = z
  BY <1>2, <1>13, Zenon
<1>16. rs[z].ppid = p
  BY <1>4, <1>5, <1>13, Zenon
<1>17. ps[p].rpc.tag # "exit"
  OBVIOUS
<1>18. Told(ps, rs)
  BY <1>9, <1>15, <1>16, <1>17, Zenon DEF Told
<1> QED
  BY <1>8, <1>11, <1>12, <1>14, <1>18, Zenon DEF Turn

-----------------------------------------------------------------------------
(* The inductive invariant.                                                  *)

\* Whoever has a request with the kernel is not parked, and is answered once.
Owed(ps, S) ==
  \A q \in S \cap Pid :
    /\ ps[q].pgid # 0
    /\ Alive(ps[q]) => ~ps[q].waiter.on /\ ps[q].rpc.tag = "deferred"

\* Pids not yet given out are nobody's.
Fresh(ps, n, S) ==
  \A c \in Pid : c >= n =>
    /\ ~ps[c].listed /\ ~Alive(ps[c]) /\ c \notin S
    /\ \A q \in Pid : c \notin ps[q].children

\* The sender of a group kill under way is owed its answer, and nothing else.
SenderOwed(ps, k, S) ==
  \/ k.targets = {}
  \/ Owed(ps, {k.sender}) /\ (k.sender \in S \cap Pid => ~Alive(ps[k.sender]))

Books == nextPid \in 2 .. MaxPid + 1 /\ spawns \subseteq Pid \cup {0} /\ killing \in Kills

IInv ==
  /\ TableInv(procs) /\ Books
  /\ Fresh(procs, nextPid, spawns) /\ Owed(procs, spawns)
  /\ SenderOwed(procs, killing, spawns)

LEMMA OwedKept ==
  ASSUME NEW ps, NEW qs, NEW p, NEW S, Owed(ps, S), Turn(ps, qs, p),
         p \in S \cap Pid => ~Alive(ps[p])
  PROVE  Owed(qs, S)
<1>1. ASSUME NEW q \in S \cap Pid
      PROVE  /\ qs[q].pgid # 0
             /\ Alive(qs[q]) => ~qs[q].waiter.on /\ qs[q].rpc.tag = "deferred"
  <2>1. q \in Pid /\ Bounded(ps[q], qs[q])
    BY Zenon DEF Turn
  <2>2. ps[q].pgid # 0 /\ (Alive(ps[q]) => ~ps[q].waiter.on /\ ps[q].rpc.tag = "deferred")
    BY Zenon DEF Owed
  <2>3. CASE q = p
    BY <2>1, <2>2, <2>3, Zenon DEF Bounded
  <2>4. CASE q # p
    <3>1. Kept(ps[q], qs[q])
      BY <2>1, <2>4, Zenon DEF Turn
    <3> QED
      BY <2>2, <3>1, Zenon DEF Kept
  <2> QED
    BY <2>3, <2>4
<1> QED
  BY <1>1, Zenon DEF Owed

LEMMA FreshKept ==
  ASSUME NEW ps, NEW qs, NEW p, NEW n, NEW S, Fresh(ps, n, S), Turn(ps, qs, p)
  PROVE  Fresh(qs, n, S)
<1>1. \A q \in Pid : (qs[q].listed => ps[q].listed) /\ (Alive(qs[q]) => Alive(ps[q]))
  BY Zenon DEF Turn, Bounded
<1>2. NoNewKin(ps, qs)
  BY Zenon DEF Turn
<1> QED
  BY <1>1, <1>2, Zenon DEF Fresh, NoNewKin

\* A step that is one turn of a handler.
LEMMA TurnInv ==
  ASSUME IInv, NEW p, Turn(procs, procs', p), p \in spawns \cap Pid => ~Alive(procs[p]),
         Quiet, UNCHANGED <<nextPid, spawns, killing>>
  PROVE  IInv' /\ Told(procs, procs')
<1>1. TableInv(procs') /\ Told(procs, procs')
  BY Zenon DEF Turn
<1>2. Fresh(procs', nextPid, spawns)
  BY FreshKept, Zenon DEF IInv
<1>3. Owed(procs', spawns)
  BY OwedKept, Zenon DEF IInv
<1>4. SenderOwed(procs', killing, spawns)
  BY Zenon DEF SenderOwed, Quiet
<1>5. nextPid' = nextPid /\ spawns' = spawns /\ killing' = killing
  OBVIOUS
<1>6. Books'
  BY <1>5, Zenon DEF IInv, Books
<1> QED
  BY <1>1, <1>2, <1>3, <1>4, <1>5, <1>6, Zenon DEF IInv

LEMMA ZeroNotPid == 0 \notin Pid
  BY DEF Pid

LEMMA LawfulInv ==
  ASSUME IInv, Lawful(procs, procs'), Quiet, UNCHANGED <<nextPid, spawns, killing>>
  PROVE  IInv' /\ Told(procs, procs')
<1>1. Turn(procs, procs', 0)
  BY LawfulTurn, Zenon DEF IInv
<1>2. 0 \notin spawns \cap Pid
  BY ZeroNotPid, Zenon
<1> QED
  BY <1>1, <1>2, TurnInv, Zenon

\* Who calls, or runs, is owed nothing.
LEMMA CallerFacts ==
  ASSUME IInv, NEW p \in Pid, Alive(procs[p]), procs[p].rpc.tag # "deferred"
  PROVE  ~procs[p].waiter.on /\ p \notin spawns /\ procs[p].pgid # 0 /\ ~(p >= nextPid)
<1>1. Sane(procs[p])
  BY Unpack, Zenon DEF IInv
<1>2. ~procs[p].waiter.on /\ procs[p].pgid # 0
  BY <1>1, Zenon DEF Sane
<1>3. p \notin spawns
  BY Zenon DEF IInv, Owed
<1>4. ~(p >= nextPid)
  BY Zenon DEF IInv, Fresh
<1> QED
  BY <1>2, <1>3, <1>4

LEMMA DispatchedFacts ==
  ASSUME IInv, NEW p \in Pid, Dispatched(p)
  PROVE  /\ Quiet /\ Alive(procs[p]) /\ procs[p].rpc.tag = "posted" /\ ~procs[p].waiter.on
         /\ p \notin spawns /\ procs[p].pgid # 0 /\ ~(p >= nextPid) /\ TableInv(procs)
<1>1. Quiet /\ Live(procs, p) /\ procs[p].rpc.tag = "posted"
  BY Zenon DEF Dispatched
<1>2. Alive(procs[p])
  BY <1>1, Zenon DEF Live, Alive
<1>3. procs[p].rpc.tag # "deferred"
  BY <1>1
<1>4. ~procs[p].waiter.on /\ p \notin spawns /\ procs[p].pgid # 0 /\ ~(p >= nextPid)
  BY <1>2, <1>3, CallerFacts, Zenon
<1> QED
  BY <1>1, <1>2, <1>4, Zenon DEF IInv

LEMMA SafeFacts ==
  ASSUME IInv, NEW p \in Pid, AtSafePoint(p)
  PROVE  /\ Alive(procs[p]) /\ ~procs[p].waiter.on /\ p \notin spawns /\ TableInv(procs)
         /\ procs[p] \in PCB /\ procs \in Tables
<1>1. procs[p].rpc.tag # "deferred" /\ procs[p].state = "running"
  BY DEF AtSafePoint, Replied
<1>2. Alive(procs[p])
  BY <1>1 DEF Alive
<1>3. TableInv(procs)
  BY Zenon DEF IInv
<1>4. procs[p] \in PCB /\ procs \in Tables
  BY <1>3, Unpack, Zenon
<1> QED
  BY <1>1, <1>2, <1>3, <1>4, CallerFacts, Zenon

-----------------------------------------------------------------------------
(* Steps of programs.                                                        *)

LEMMA CallStep ==
  ASSUME IInv, NEW p \in Pid, Call(p)
  PROVE  IInv' /\ Told(procs, procs')
<1>1. /\ Quiet /\ AtSafePoint(p) /\ UNCHANGED <<nextPid, spawns, killing>>
      /\ procs' = [procs EXCEPT ![p].rpc = Rpc("posted", 0)]
  BY Zenon DEF Call
<1>2. ~procs[p].waiter.on /\ p \notin spawns /\ TableInv(procs)
  BY <1>1, SafeFacts, Zenon
<1>3. Rpc("posted", 0) \in Rpcs
  BY Constants, Zenon
<1>4. Turn(procs, procs', p)
  <2>1. procs' = Paged(procs, p, Rpc("posted", 0))
    BY <1>1, Zenon DEF Paged
  <2> QED
    BY <1>2, <1>3, <2>1, RpcTurn
<1> QED
  BY <1>1, <1>2, <1>4, TurnInv, Zenon

LEMMA TakeSignalStep ==
  ASSUME IInv, NEW p \in Pid, NEW sig \in Sigs, TakeSignal(p, sig)
  PROVE  IInv' /\ Told(procs, procs')
<1>1. PICK taken : taken = [procs EXCEPT ![p].pend = procs[p].pend \ {sig}]
  OBVIOUS
<1>2. /\ Quiet /\ AtSafePoint(p) /\ UNCHANGED <<nextPid, spawns, killing>>
      /\ procs' = taken \/ procs' = ExitProcess(taken, p)
  BY <1>1, Zenon DEF TakeSignal
<1>3. TableInv(procs) /\ procs[p] \in PCB /\ procs \in Tables
  BY <1>2, SafeFacts, Zenon
<1>4. PICK v : v = procs[p].pend \ {sig}
  OBVIOUS
<1>5. v \in SUBSET Sigs
  BY <1>3, <1>4, Fields, Zenon
<1>6. PICK t : t = [procs[p] EXCEPT !.pend = v]
  OBVIOUS
<1>7. /\ t \in PCB /\ SameKin(procs[p], t)
      /\ t.rpc = procs[p].rpc /\ t.waiter = procs[p].waiter /\ t.state = procs[p].state
      /\ t.itimer = procs[p].itimer
      /\ t.pendingStop = procs[p].pendingStop /\ t.pendingCont = procs[p].pendingCont
  BY <1>3, <1>5, <1>6, PendEdit
<1>8. taken = Put(procs, p, t)
  BY <1>1, <1>3, <1>4, <1>6, Zenon DEF Put
<1>9. Mild(procs, Put(procs, p, t))
  BY <1>3, <1>7, LowerMild
<1>10. Mild(procs, taken) /\ TableInv(taken)
  BY <1>8, <1>9, Zenon DEF Mild
<1>11. Lawful(procs, taken) /\ Lawful(procs, ExitProcess(taken, p))
  BY <1>10, ExitLawful, MildLawful, MildThen, Zenon
<1>12. Lawful(procs, procs')
  BY <1>2, <1>11, Zenon
<1> QED
  BY <1>2, <1>12, LawfulInv, Zenon

LEMMA SetMaskStep ==
  ASSUME IInv, NEW p \in Pid, SetMask(p)
  PROVE  IInv' /\ Told(procs, procs')
<1>1. Quiet /\ AtSafePoint(p) /\ UNCHANGED <<nextPid, spawns, killing>>
  BY Zenon DEF SetMask
<1>2. PICK v \in SUBSET Maskable : procs' = [procs EXCEPT ![p].block = v]
  BY Zenon DEF SetMask
<1>3. TableInv(procs) /\ procs[p] \in PCB /\ procs \in Tables
  BY <1>1, SafeFacts, Zenon
<1>4. v \in SUBSET Sigs
  BY SigsAssumption
<1>5. PICK t : t = [procs[p] EXCEPT !.block = v]
  OBVIOUS
<1>6. /\ t \in PCB /\ SameKin(procs[p], t)
      /\ t.rpc = procs[p].rpc /\ t.waiter = procs[p].waiter /\ t.state = procs[p].state
      /\ t.itimer = procs[p].itimer
      /\ t.pendingStop = procs[p].pendingStop /\ t.pendingCont = procs[p].pendingCont
  BY <1>3, <1>4, <1>5, BlockEdit
<1>7. procs' = Put(procs, p, t)
  BY <1>2, <1>3, <1>5, Zenon DEF Put
<1>8. Mild(procs, Put(procs, p, t))
  BY <1>3, <1>6, LowerMild
<1>9. Lawful(procs, procs')
  BY <1>7, <1>8, MildLawful, Zenon
<1> QED
  BY <1>1, <1>9, LawfulInv, Zenon

LEMMA WorkerDiesStep ==
  ASSUME IInv, NEW p \in Pid, WorkerDies(p)
  PROVE  IInv' /\ Told(procs, procs')
<1>1. PICK lost : lost = [procs EXCEPT ![p].worker = "lost"]
  OBVIOUS
<1>2. /\ Quiet /\ UNCHANGED <<nextPid, spawns, killing>>
      /\ procs' = lost \/ procs' = ExitProcess(lost, p)
  BY <1>1, Zenon DEF WorkerDies
<1>3. TableInv(procs) /\ procs[p] \in PCB /\ procs \in Tables
  BY Unpack, Zenon DEF IInv
<1>4. PICK v \in {"none", "up", "lost"} : v = "lost"
  OBVIOUS
<1>5. PICK t : t = [procs[p] EXCEPT !.worker = v]
  OBVIOUS
<1>6. /\ t \in PCB /\ SameKin(procs[p], t)
      /\ t.rpc = procs[p].rpc /\ t.waiter = procs[p].waiter /\ t.state = procs[p].state
      /\ t.itimer = procs[p].itimer
      /\ t.pendingStop = procs[p].pendingStop /\ t.pendingCont = procs[p].pendingCont
  BY <1>3, <1>5, WorkerEdit
<1>7. lost = Put(procs, p, t)
  BY <1>1, <1>3, <1>4, <1>5, Zenon DEF Put
<1>8. Mild(procs, Put(procs, p, t))
  BY <1>3, <1>6, LowerMild
<1>9. Mild(procs, lost) /\ TableInv(lost)
  BY <1>7, <1>8, Zenon DEF Mild
<1>10. Lawful(procs, lost) /\ Lawful(procs, ExitProcess(lost, p))
  BY <1>9, ExitLawful, MildLawful, MildThen, Zenon
<1>11. Lawful(procs, procs')
  BY <1>2, <1>10, Zenon
<1> QED
  BY <1>2, <1>11, LawfulInv, Zenon

-----------------------------------------------------------------------------
(* Steps of the kernel.                                                      *)

\* A plain answer.
LEMMA ReplyTurn ==
  ASSUME IInv, NEW p \in Pid, Dispatched(p), NEW qs, Lawful(procs, qs),
         NEW v \in Rpcs, procs' = Respond(qs, p, v)
  PROVE  Turn(procs, procs', p)
<1>1. ~procs[p].waiter.on /\ TableInv(procs)
  BY DispatchedFacts, Zenon
<1> QED
  BY <1>1, RespondTurn

LEMMA ReplyStep ==
  ASSUME IInv, NEW p \in Pid, Dispatched(p), NEW qs, Lawful(procs, qs),
         NEW v \in Rpcs, procs' = Respond(qs, p, v), UNCHANGED <<nextPid, spawns, killing>>
  PROVE  IInv' /\ Told(procs, procs')
<1>1. Turn(procs, procs', p)
  BY ReplyTurn, Zenon
<1>2. Quiet /\ p \notin spawns
  BY DispatchedFacts, Zenon
<1> QED
  BY <1>1, <1>2, TurnInv, Zenon

LEMMA ExitStepInv ==
  ASSUME IInv, NEW p \in Pid, Exit(p)
  PROVE  IInv' /\ Told(procs, procs')
<1>1. Quiet /\ UNCHANGED <<nextPid, spawns, killing>> /\ procs' = ExitProcess(procs, p)
  BY Zenon DEF Exit
<1>2. Lawful(procs, procs')
  BY <1>1, ExitLawful, Zenon DEF IInv
<1> QED
  BY <1>1, <1>2, LawfulInv, Zenon

LEMMA TimerStep ==
  ASSUME IInv, NEW p \in Pid, TimerFires(p)
  PROVE  IInv' /\ Told(procs, procs')
<1>1. /\ Quiet /\ UNCHANGED <<nextPid, spawns, killing>> /\ procs' = FireTimer(procs, p)
      /\ "ALRM" \in Sigs
  BY Zenon DEF TimerFires
<1>2. Lawful(procs, procs')
  BY <1>1, FireLawful, Zenon DEF IInv
<1> QED
  BY <1>1, <1>2, LawfulInv, Zenon

LEMMA InterruptStep ==
  ASSUME IInv, NEW p \in Pid, Interrupt(p)
  PROVE  IInv' /\ Told(procs, procs')
<1>1. /\ Quiet /\ UNCHANGED <<nextPid, spawns, killing>> /\ procs' = Answer(procs, p, Done)
      /\ procs[p].waiter.on
  BY Zenon DEF Interrupt
<1>2. Done \in Rpcs /\ TableInv(procs)
  BY Constants, Zenon DEF IInv
<1>3. Mild(procs, procs')
  BY <1>1, <1>2, AnswerMild
<1> QED
  BY <1>1, <1>3, MildLawful, LawfulInv, Zenon

LEMMA DoneReply == Done \in Rpcs
  BY Constants, Zenon

\* A wait that parks.
LEMMA ParkTurn ==
  ASSUME IInv, NEW p \in Pid, Dispatched(p), NEW w \in Waiters,
         procs' = [procs EXCEPT ![p].rpc = Rpc("deferred", 0), ![p].waiter = w]
  PROVE  Turn(procs, procs', p)
<1>1. /\ Alive(procs[p]) /\ TableInv(procs)
  BY DispatchedFacts, Zenon
<1>2. procs[p] \in PCB /\ Sane(procs[p]) /\ procs \in Tables
  BY <1>1, Unpack, Zenon
<1>3. PICK v \in Rpcs : v = Rpc("deferred", 0) /\ v.tag = "deferred"
  <2>1. Rpc("deferred", 0) \in Rpcs /\ Rpc("deferred", 0).tag = "deferred"
    BY Constants
  <2> QED
    BY <2>1, Zenon
<1>4. PICK r : r = [procs[p] EXCEPT !.rpc = v]
  OBVIOUS
<1>5. /\ r \in PCB /\ SameKin(procs[p], r)
      /\ r.rpc = v /\ r.waiter = procs[p].waiter /\ r.state = procs[p].state
      /\ r.itimer = procs[p].itimer
      /\ r.pendingStop = procs[p].pendingStop /\ r.pendingCont = procs[p].pendingCont
  BY <1>2, <1>4, RpcEdit
<1>6. PICK t : t = [r EXCEPT !.waiter = w]
  OBVIOUS
<1>7. /\ t \in PCB /\ SameKin(r, t)
      /\ t.rpc = r.rpc /\ t.waiter = w /\ t.state = r.state
      /\ t.itimer = r.itimer
      /\ t.pendingStop = r.pendingStop /\ t.pendingCont = r.pendingCont
  BY <1>5, <1>6, WaiterEdit
<1>8. SameKin(procs[p], t) /\ Alive(t)
  BY <1>1, <1>5, <1>7, Zenon DEF SameKin, Alive
<1>9. Sane(t) /\ Bounded(procs[p], t)
  BY <1>1, <1>2, <1>3, <1>5, <1>7, <1>8, Zenon DEF Sane, SameKin, Bounded, Alive
<1>10. procs' = Put(procs, p, t)
  BY <1>2, <1>3, <1>4, <1>6, Zenon DEF Put
<1>11. /\ TableInv(Put(procs, p, t)) /\ Put(procs, p, t)[p] = t
       /\ \A q \in Pid : q # p => Put(procs, p, t)[q] = procs[q]
       /\ \A q \in Pid : SameKin(procs[q], Put(procs, p, t)[q])
  BY <1>1, <1>7, <1>8, <1>9, PutInv, Zenon
<1>12. \A q \in Pid : q # p => Kept(procs[q], procs'[q]) /\ Bounded(procs[q], procs'[q])
  BY <1>10, <1>11, Zenon DEF Kept, Bounded
<1>13. \A q \in Pid : procs'[q].children = procs[q].children /\ procs'[q].listed = procs[q].listed
  BY <1>10, <1>11, Zenon DEF SameKin
<1>14. NoNewKin(procs, procs') /\ Told(procs, procs')
  BY <1>13, Zenon DEF NoNewKin, Told
<1>15. \A q \in Pid : Bounded(procs[q], procs'[q])
  BY <1>9, <1>10, <1>11, <1>12, Zenon
<1> QED
  BY <1>10, <1>11, <1>12, <1>14, <1>15, Zenon DEF Turn

LEMMA WaitStep ==
  ASSUME IInv, NEW p \in Pid, Wait(p)
  PROVE  IInv' /\ Told(procs, procs')
<1>1. Dispatched(p) /\ UNCHANGED <<nextPid, spawns, killing>>
  BY Zenon DEF Wait
<1>2. /\ Quiet /\ Alive(procs[p]) /\ procs[p].rpc.tag = "posted" /\ ~procs[p].waiter.on
      /\ p \notin spawns /\ TableInv(procs)
  BY <1>1, DispatchedFacts, Zenon
<1>3. PICK sel \in Sels, opts \in OptSets :
        \/ procs' = Respond(procs, p, Done)
        \/ \E z \in Candidates(p, sel) : procs' = Respond(Reap(procs, z), p, Rpc("exit", z))
        \/ \E c \in Candidates(p, sel) :
             procs' = Respond([procs EXCEPT ![c].pendingStop = FALSE], p, Rpc("stop", c))
        \/ \E c \in Candidates(p, sel) :
             procs' = Respond([procs EXCEPT ![c].pendingCont = FALSE], p, Rpc("cont", c))
        \/ procs' = [procs EXCEPT ![p].rpc = Rpc("deferred", 0),
                                  ![p].waiter = [on |-> TRUE, sel |-> sel, opts |-> opts]]
  <2>1. PICK sel \in Sels, opts \in OptSets, nohang \in BOOLEAN :
        LET cands == Candidates(p, sel)
            zombies == {c \in cands : procs[c].state = "zombie"}
            stops == {c \in cands : "untraced" \in opts /\ procs[c].pendingStop
                                    /\ procs[c].state = "stopped"}
            conts == {c \in cands : "continued" \in opts /\ procs[c].pendingCont}
        IN \/ /\ cands = {}
              /\ procs' = Respond(procs, p, Done)
           \/ \E z \in zombies :
                procs' = Respond(Reap(procs, z), p, Rpc("exit", z))
           \/ /\ zombies = {}
              /\ \E c \in stops :
                   procs' = Respond([procs EXCEPT ![c].pendingStop = FALSE],
                                    p, Rpc("stop", c))
           \/ /\ zombies = {}
              /\ \E c \in conts :
                   procs' = Respond([procs EXCEPT ![c].pendingCont = FALSE],
                                    p, Rpc("cont", c))
           \/ /\ cands # {} /\ zombies = {} /\ stops = {} /\ conts = {}
              /\ procs' = IF nohang THEN Respond(procs, p, Done)
                          ELSE [procs EXCEPT
                                  ![p].rpc = Rpc("deferred", 0),
                                  ![p].waiter = [on |-> TRUE, sel |-> sel,
                                                 opts |-> opts]]
    BY Zenon DEF Wait
  <2> QED
    BY <2>1, Zenon
<1>4. \A c \in Candidates(p, sel) : c \in procs[p].children /\ procs[c].listed
  BY Zenon DEF Candidates
<1>5. procs[p].children \subseteq Pid
  BY <1>2, Unpack, Fields, Zenon
<1>6. CASE procs' = Respond(procs, p, Done)
  <2>1. Lawful(procs, procs)
    BY <1>2, LawfulRefl, Zenon
  <2> QED
    BY <1>1, <1>6, <2>1, DoneReply, ReplyStep, Zenon
<1>7. ASSUME NEW z \in Candidates(p, sel), procs' = Respond(Reap(procs, z), p, Rpc("exit", z))
      PROVE  IInv' /\ Told(procs, procs')
  <2>1. z \in Pid /\ z \in procs[p].children /\ procs[z].listed
    BY <1>4, <1>5, <1>7, Zenon
  <2>2. Turn(procs, procs', p)
    BY <1>2, <1>7, <2>1, ReapTurn, Zenon
  <2> QED
    BY <1>1, <1>2, <2>2, TurnInv, Zenon
<1>8. ASSUME NEW c \in Candidates(p, sel), NEW kind \in {"stop", "cont"}, NEW cleared,
             \/ cleared = [procs EXCEPT ![c].pendingStop = FALSE]
             \/ cleared = [procs EXCEPT ![c].pendingCont = FALSE],
             procs' = Respond(cleared, p, Rpc(kind, c))
      PROVE  IInv' /\ Told(procs, procs')
  <2>1. c \in Pid
    BY <1>4, <1>5, <1>8, Zenon
  <2>2. Mild(procs, cleared)
    BY <1>2, <1>8, <2>1, ClearMild
  <2>3. Lawful(procs, cleared)
    BY <2>2, MildLawful, Zenon
  <2>4. Rpc(kind, c) \in Rpcs
    BY <2>1, Constants
  <2> QED
    BY <1>1, <1>8, <2>3, <2>4, ReplyStep, Zenon
<1>9. CASE procs' = [procs EXCEPT ![p].rpc = Rpc("deferred", 0),
                                  ![p].waiter = [on |-> TRUE, sel |-> sel, opts |-> opts]]
  <2>1. PICK w : w = [on |-> TRUE, sel |-> sel, opts |-> opts]
    OBVIOUS
  <2>2. opts \in SUBSET WaitOptions
    BY ArgsAssumption
  <2>3. w \in Waiters
    BY <2>1, <2>2, Zenon DEF Waiters
  <2>4. procs' = [procs EXCEPT ![p].rpc = Rpc("deferred", 0), ![p].waiter = w]
    BY <1>9, <2>1, Zenon
  <2>5. Turn(procs, procs', p)
    BY <1>1, <2>3, <2>4, ParkTurn
  <2> QED
    BY <1>1, <1>2, <2>5, TurnInv, Zenon
<1>10. CASE \E c \in Candidates(p, sel) :
              procs' = Respond([procs EXCEPT ![c].pendingStop = FALSE], p, Rpc("stop", c))
  <2>1. PICK c \in Candidates(p, sel) :
          procs' = Respond([procs EXCEPT ![c].pendingStop = FALSE], p, Rpc("stop", c))
    BY <1>10
  <2>2. PICK cleared : cleared = [procs EXCEPT ![c].pendingStop = FALSE]
    OBVIOUS
  <2>3. PICK kind \in {"stop", "cont"} : kind = "stop"
    OBVIOUS
  <2>4. procs' = Respond(cleared, p, Rpc(kind, c))
    BY <2>1, <2>2, <2>3, Zenon
  <2> QED
    BY <1>8, <2>2, <2>4, Zenon
<1>11. CASE \E c \in Candidates(p, sel) :
              procs' = Respond([procs EXCEPT ![c].pendingCont = FALSE], p, Rpc("cont", c))
  <2>1. PICK c \in Candidates(p, sel) :
          procs' = Respond([procs EXCEPT ![c].pendingCont = FALSE], p, Rpc("cont", c))
    BY <1>11
  <2>2. PICK cleared : cleared = [procs EXCEPT ![c].pendingCont = FALSE]
    OBVIOUS
  <2>3. PICK kind \in {"stop", "cont"} : kind = "cont"
    OBVIOUS
  <2>4. procs' = Respond(cleared, p, Rpc(kind, c))
    BY <2>1, <2>2, <2>3, Zenon
  <2> QED
    BY <1>8, <2>2, <2>4, Zenon
<1> QED
  BY <1>3, <1>6, <1>7, <1>9, <1>10, <1>11, Zenon

LEMMA KillStep ==
  ASSUME IInv, NEW p \in Pid, Kill(p)
  PROVE  IInv' /\ Told(procs, procs')
<1>1. Dispatched(p) /\ UNCHANGED <<nextPid, spawns, killing>>
  BY Zenon DEF Kill
<1>2. PICK t \in Pid, sig \in Sigs :
        procs' = Respond(procs, p, Done) \/ procs' = Respond(Deliver(procs, t, sig), p, Done)
  BY Zenon DEF Kill
<1>3. Lawful(procs, procs) /\ Lawful(procs, Deliver(procs, t, sig))
  BY LawfulRefl, DeliverLawful, Zenon DEF IInv
<1> QED
  BY <1>1, <1>2, <1>3, DoneReply, ReplyStep, Zenon

LEMMA SetDispositionStep ==
  ASSUME IInv, NEW p \in Pid, SetDisposition(p)
  PROVE  IInv' /\ Told(procs, procs')
<1>1. Dispatched(p) /\ UNCHANGED <<nextPid, spawns, killing>>
  BY Zenon DEF SetDisposition
<1>2. PICK sig \in Handled, kind \in Kinds :
        procs' = Respond([procs EXCEPT ![p].disp[sig] = kind], p, Done)
  BY Zenon DEF SetDisposition
<1>3. sig \in Sigs /\ kind \in Dispositions
  BY SigsAssumption
<1>4. procs[p] \in PCB /\ procs \in Tables /\ TableInv(procs)
  BY Unpack, Zenon DEF IInv
<1>5. PICK v : v = [procs[p].disp EXCEPT ![sig] = kind]
  OBVIOUS
<1>6. v \in [Sigs -> Dispositions]
  <2>1. procs[p].disp \in [Sigs -> Dispositions]
    BY <1>4, Fields, Zenon
  <2> QED
    BY <1>3, <1>5, <2>1, Zenon
<1>7. PICK t : t = [procs[p] EXCEPT !.disp = v]
  OBVIOUS
<1>8. /\ t \in PCB /\ SameKin(procs[p], t)
      /\ t.rpc = procs[p].rpc /\ t.waiter = procs[p].waiter /\ t.state = procs[p].state
      /\ t.itimer = procs[p].itimer
      /\ t.pendingStop = procs[p].pendingStop /\ t.pendingCont = procs[p].pendingCont
  BY <1>4, <1>6, <1>7, DispEdit
<1>9. [procs EXCEPT ![p].disp[sig] = kind] = Put(procs, p, t)
  BY <1>4, <1>5, <1>7, Zenon DEF Put
<1>10. Mild(procs, Put(procs, p, t))
  BY <1>4, <1>8, LowerMild
<1>11. Lawful(procs, Put(procs, p, t)) /\ procs' = Respond(Put(procs, p, t), p, Done)
  BY <1>2, <1>9, <1>10, MildLawful, Zenon
<1> QED
  BY <1>1, <1>11, DoneReply, ReplyStep, Zenon

LEMMA SetPgidStep ==
  ASSUME IInv, NEW p \in Pid, SetPgid(p)
  PROVE  IInv' /\ Told(procs, procs')
<1>1. Dispatched(p) /\ UNCHANGED <<nextPid, spawns, killing>>
  BY Zenon DEF SetPgid
<1>2. PICK t \in Pid, g \in PgidArgs :
        \/ procs' = Respond(procs, p, Done)
        \/ procs' = Respond([procs EXCEPT ![t].pgid = IF g > 0 THEN g ELSE t], p, Done)
  BY Zenon DEF SetPgid
<1>3. procs[t] \in PCB /\ procs \in Tables /\ TableInv(procs)
  BY Unpack, Zenon DEF IInv
<1>4. PICK v : v = IF g > 0 THEN g ELSE t
  OBVIOUS
<1>5. v \in 0 .. MaxPid /\ v # 0
  BY <1>4, ArgsAssumption, MaxPidAssumption DEF Pid
<1>6. PICK r : r = [procs[t] EXCEPT !.pgid = v]
  OBVIOUS
<1>7. /\ r \in PCB /\ r.listed = procs[t].listed /\ r.ppid = procs[t].ppid /\ r.pgid = v
      /\ r.children = procs[t].children
      /\ r.rpc = procs[t].rpc /\ r.waiter = procs[t].waiter /\ r.state = procs[t].state
      /\ r.itimer = procs[t].itimer
      /\ r.pendingStop = procs[t].pendingStop /\ r.pendingCont = procs[t].pendingCont
  BY <1>3, <1>5, <1>6, GroupEdit
<1>8. Lawful(procs, Put(procs, t, r))
  BY <1>3, <1>5, <1>7, EditLawful, Zenon
<1>9. [procs EXCEPT ![t].pgid = IF g > 0 THEN g ELSE t] = Put(procs, t, r)
  BY <1>3, <1>4, <1>6, Zenon DEF Put
<1>10. Lawful(procs, procs)
  BY <1>3, LawfulRefl, Zenon
<1>11. procs' = Respond(procs, p, Done) \/ procs' = Respond(Put(procs, t, r), p, Done)
  BY <1>2, <1>9, Zenon
<1> QED
  BY <1>1, <1>8, <1>10, <1>11, DoneReply, ReplyStep, Zenon

LEMMA SetSidStep ==
  ASSUME IInv, NEW p \in Pid, SetSid(p)
  PROVE  IInv' /\ Told(procs, procs')
<1>1. Dispatched(p) /\ UNCHANGED <<nextPid, spawns, killing>>
  BY Zenon DEF SetSid
<1>2. procs' = Respond(procs, p, Done)
      \/ procs' = Respond([procs EXCEPT ![p].pgid = p, ![p].sid = p], p, Done)
  BY Zenon DEF SetSid
<1>3. procs[p] \in PCB /\ procs \in Tables /\ TableInv(procs)
  BY Unpack, Zenon DEF IInv
<1>4. p \in 0 .. MaxPid /\ p # 0
  BY MaxPidAssumption DEF Pid
<1>5. PICK r : r = [procs[p] EXCEPT !.pgid = p]
  OBVIOUS
<1>6. /\ r \in PCB /\ r.listed = procs[p].listed /\ r.ppid = procs[p].ppid /\ r.pgid = p
      /\ r.children = procs[p].children
      /\ r.rpc = procs[p].rpc /\ r.waiter = procs[p].waiter /\ r.state = procs[p].state
      /\ r.itimer = procs[p].itimer
      /\ r.pendingStop = procs[p].pendingStop /\ r.pendingCont = procs[p].pendingCont
  BY <1>3, <1>4, <1>5, GroupEdit
<1>7. PICK t : t = [r EXCEPT !.sid = p]
  OBVIOUS
<1>8. /\ t \in PCB /\ SameKin(r, t)
      /\ t.rpc = r.rpc /\ t.waiter = r.waiter /\ t.state = r.state
      /\ t.itimer = r.itimer
      /\ t.pendingStop = r.pendingStop /\ t.pendingCont = r.pendingCont
  BY <1>4, <1>6, <1>7, SessionEdit
<1>9. /\ t.listed = procs[p].listed /\ t.ppid = procs[p].ppid /\ t.pgid # 0
      /\ t.children = procs[p].children
      /\ t.rpc = procs[p].rpc /\ t.waiter = procs[p].waiter /\ t.state = procs[p].state
      /\ t.itimer = procs[p].itimer
      /\ t.pendingStop = procs[p].pendingStop /\ t.pendingCont = procs[p].pendingCont
  BY <1>4, <1>6, <1>8, Zenon DEF SameKin
<1>10. Lawful(procs, Put(procs, p, t))
  BY <1>3, <1>8, <1>9, EditLawful, Zenon
<1>11. [procs EXCEPT ![p].pgid = p, ![p].sid = p] = Put(procs, p, t)
  BY <1>3, <1>5, <1>7, Zenon DEF Put
<1>12. Lawful(procs, procs)
  BY <1>3, LawfulRefl, Zenon
<1>13. procs' = Respond(procs, p, Done) \/ procs' = Respond(Put(procs, p, t), p, Done)
  BY <1>2, <1>11, Zenon
<1> QED
  BY <1>1, <1>10, <1>12, <1>13, DoneReply, ReplyStep, Zenon

LEMMA SetTimerStep ==
  ASSUME IInv, NEW p \in Pid, SetTimer(p)
  PROVE  IInv' /\ Told(procs, procs')
<1>1. Dispatched(p) /\ UNCHANGED <<nextPid, spawns, killing>>
  BY Zenon DEF SetTimer
<1>2. PICK kind \in Timers \cup {"off"} :
        procs' = Respond([procs EXCEPT ![p].itimer = kind], p, Done)
  BY Zenon DEF SetTimer
<1>3. procs[p] \in PCB /\ procs \in Tables /\ TableInv(procs) /\ Alive(procs[p])
  BY <1>1, DispatchedFacts, Unpack, Zenon
<1>4. kind \in {"off", "once", "interval"}
  BY ArgsAssumption
<1>5. PICK t : t = [procs[p] EXCEPT !.itimer = kind]
  OBVIOUS
<1>6. /\ t \in PCB /\ SameKin(procs[p], t)
      /\ t.rpc = procs[p].rpc /\ t.waiter = procs[p].waiter /\ t.state = procs[p].state
      /\ t.itimer = kind
      /\ t.pendingStop = procs[p].pendingStop /\ t.pendingCont = procs[p].pendingCont
  BY <1>3, <1>4, <1>5, TimerEdit
<1>7. procs[p].state # "zombie"
  BY <1>3 DEF Alive
<1>8. t.listed = procs[p].listed /\ t.ppid = procs[p].ppid /\ t.pgid = procs[p].pgid
      /\ t.children = procs[p].children
  BY <1>6, Zenon DEF SameKin
<1>9. Lawful(procs, Put(procs, p, t))
  BY <1>3, <1>6, <1>7, <1>8, EditLawful, Zenon
<1>10. [procs EXCEPT ![p].itimer = kind] = Put(procs, p, t)
  BY <1>3, <1>5, Zenon DEF Put
<1>11. procs' = Respond(Put(procs, p, t), p, Done)
  BY <1>2, <1>10, Zenon
<1> QED
  BY <1>1, <1>9, <1>11, DoneReply, ReplyStep, Zenon

-----------------------------------------------------------------------------
(* Group kills.                                                              *)

LEMMA GroupPids == \A g : Group(g) \subseteq Pid
  BY Zenon DEF Group

\* The caller's call is deferred.
LEMMA DeferStep ==
  ASSUME IInv, NEW p \in Pid, Dispatched(p),
         procs' = Paged(procs, p, Rpc("deferred", 0))
  PROVE  /\ TableInv(procs') /\ Told(procs, procs')
         /\ Fresh(procs', nextPid, spawns) /\ Owed(procs', spawns)
         /\ Owed(procs', {p}) /\ p \notin spawns /\ ~(p >= nextPid)
<1>1. ~procs[p].waiter.on /\ TableInv(procs) /\ p \notin spawns /\ procs[p].pgid # 0 /\ ~(p >= nextPid)
  BY DispatchedFacts, Zenon
<1>2. Rpc("deferred", 0) \in Rpcs /\ Rpc("deferred", 0).tag = "deferred"
  BY Constants
<1>3. /\ Turn(procs, procs', p) /\ ~procs'[p].waiter.on /\ procs'[p].rpc = Rpc("deferred", 0)
      /\ procs'[p].pgid = procs[p].pgid
  BY <1>1, <1>2, RpcTurn
<1>4. Owed(procs', {p})
  BY <1>1, <1>2, <1>3, Zenon DEF Owed
<1>5. TableInv(procs') /\ Told(procs, procs')
  BY <1>3, Zenon DEF Turn
<1>6. Fresh(procs', nextPid, spawns)
  BY <1>3, FreshKept, Zenon DEF IInv
<1>7. Owed(procs', spawns)
  BY <1>1, <1>3, OwedKept, Zenon DEF IInv
<1> QED
  BY <1>1, <1>4, <1>5, <1>6, <1>7

LEMMA KillGroupStep ==
  ASSUME IInv, NEW p \in Pid, KillGroup(p)
  PROVE  IInv' /\ Told(procs, procs')
<1>1. Dispatched(p) /\ UNCHANGED <<nextPid, spawns>>
  BY Zenon DEF KillGroup
<1>2. PICK g \in Pid, sig \in Sigs :
        IF Group(g) = {}
          THEN /\ procs' = Respond(procs, p, Done)
               /\ UNCHANGED killing
          ELSE /\ killing' = [sig |-> sig, targets |-> Group(g), sender |-> p]
               /\ procs' = [procs EXCEPT ![p].rpc = Rpc("deferred", 0)]
  BY Zenon DEF KillGroup
<1>3. CASE Group(g) = {}
  <2>1. Lawful(procs, procs)
    BY LawfulRefl, Zenon DEF IInv
  <2>2. procs' = Respond(procs, p, Done) /\ UNCHANGED <<nextPid, spawns, killing>>
    BY <1>1, <1>2, <1>3, Zenon
  <2> QED
    BY <1>1, <2>1, <2>2, DoneReply, ReplyStep, Zenon
<1>4. CASE Group(g) # {}
  <2>1. killing' = [sig |-> sig, targets |-> Group(g), sender |-> p]
        /\ procs' = [procs EXCEPT ![p].rpc = Rpc("deferred", 0)]
    BY <1>2, <1>4, Zenon
  <2>2. /\ TableInv(procs') /\ Told(procs, procs')
        /\ Fresh(procs', nextPid, spawns) /\ Owed(procs', spawns)
        /\ Owed(procs', {p}) /\ p \notin spawns
    BY <1>1, <2>1, DeferStep DEF Paged
  <2>3. killing' \in Kills /\ killing'.sender = p
    BY <2>1, GroupPids, Constants DEF Kills
  <2>4. SenderOwed(procs', killing', spawns)
    BY <2>2, <2>3, Zenon DEF SenderOwed
  <2>5. Books'
    BY <1>1, <2>3, Zenon DEF IInv, Books
  <2> QED
    BY <1>1, <2>2, <2>4, <2>5, Zenon DEF IInv
<1> QED
  BY <1>3, <1>4

LEMMA EmbedderKillStep ==
  ASSUME IInv, EmbedderKillGroup
  PROVE  IInv' /\ Told(procs, procs')
<1>1. UNCHANGED <<procs, nextPid, spawns>>
  BY Zenon DEF EmbedderKillGroup
<1>2. PICK g \in Pid, sig \in Sigs :
        killing' = [sig |-> sig, targets |-> Group(g), sender |-> 0]
  BY Zenon DEF EmbedderKillGroup
<1>3. killing' \in Kills /\ killing'.sender = 0
  BY <1>2, GroupPids, Constants DEF Kills
<1>4. Owed(procs, {0}) /\ 0 \notin spawns \cap Pid
  BY ZeroNotPid, Zenon DEF Owed
<1>5. SenderOwed(procs', killing', spawns')
  BY <1>1, <1>3, <1>4, Zenon DEF SenderOwed
<1>6. Books'
  BY <1>1, <1>3, Zenon DEF IInv, Books
<1>7. TableInv(procs') /\ Fresh(procs', nextPid', spawns') /\ Owed(procs', spawns')
  BY <1>1, Zenon DEF IInv
<1>8. Told(procs, procs')
  BY <1>1, Zenon DEF Told
<1> QED
  BY <1>5, <1>6, <1>7, <1>8, Zenon DEF IInv

\* One delivery of a group kill.
LEMMA KillNextStep ==
  ASSUME IInv, KillNext
  PROVE  IInv' /\ Told(procs, procs')
<1>1. killing.targets # {} /\ UNCHANGED <<nextPid, spawns>>
  BY Zenon DEF KillNext, Quiet
<1>2. /\ killing \in Kills /\ killing.targets \in SUBSET Pid /\ killing.sig \in Sigs
      /\ killing.sender \in 0 .. MaxPid
  BY DEF IInv, Books, Kills
<1>3. PICK t : t = CHOOSE x \in killing.targets : \A y \in killing.targets : x <= y
  OBVIOUS
<1>4. t \in Pid
  BY <1>1, <1>2, <1>3, LeastPid, Zenon
<1>5. PICK done : done = Deliver(procs, t, killing.sig)
  OBVIOUS
<1>6. Lawful(procs, done)
  BY <1>2, <1>4, <1>5, DeliverLawful, Zenon DEF IInv
<1>7. PICK k : k = killing.sender
  OBVIOUS
<1>8. Owed(procs, {k}) /\ (k \in spawns \cap Pid => ~Alive(procs[k]))
  BY <1>1, <1>7, Zenon DEF IInv, SenderOwed
<1>9. \/ /\ procs' = done
         /\ killing' = [killing EXCEPT !.targets = killing.targets \ {t}]
      \/ /\ procs' = IF k = 0 THEN done ELSE Respond(done, k, Done)
         /\ killing' = NoKill
  BY <1>3, <1>5, <1>7, Zenon DEF KillNext
<1>10. ASSUME NEW p, Turn(procs, procs', p), p \in spawns \cap Pid => ~Alive(procs[p])
       PROVE  /\ TableInv(procs') /\ Told(procs, procs')
              /\ Fresh(procs', nextPid', spawns') /\ Owed(procs', spawns')
  <2>1. Fresh(procs', nextPid, spawns)
    BY <1>10, FreshKept, Zenon DEF IInv
  <2>2. Owed(procs', spawns)
    BY <1>10, OwedKept, Zenon DEF IInv
  <2> QED
    BY <1>1, <1>10, <2>1, <2>2, Zenon DEF Turn
<1>11. 0 \notin Pid
  BY ZeroNotPid
<1>12. CASE procs' = done /\ killing' = [killing EXCEPT !.targets = killing.targets \ {t}]
  <2>1. Turn(procs, procs', 0)
    BY <1>6, <1>12, LawfulTurn, Zenon DEF IInv
  <2>2. killing' \in Kills /\ killing'.sender = k
    BY <1>2, <1>7, <1>12 DEF Kills
  <2>3. Owed(procs', {k})
    BY <1>8, <1>11, <2>1, OwedKept, Zenon
  <2>4. k \in spawns \cap Pid => ~Alive(procs'[k])
    BY <1>8, <2>1, Zenon DEF Turn, Bounded
  <2>5. SenderOwed(procs', killing', spawns')
    BY <1>1, <2>2, <2>3, <2>4, Zenon DEF SenderOwed
  <2>6. Books'
    BY <1>1, <2>2, Zenon DEF IInv, Books
  <2>7. /\ TableInv(procs') /\ Told(procs, procs')
        /\ Fresh(procs', nextPid', spawns') /\ Owed(procs', spawns')
    BY <1>10, <1>11, <2>1, Zenon
  <2> QED
    BY <2>5, <2>6, <2>7, Zenon DEF IInv
<1>13. CASE /\ procs' = IF k = 0 THEN done ELSE Respond(done, k, Done)
            /\ killing' = NoKill
  <2>1. killing' \in Kills /\ killing'.targets = {}
    BY <1>13, SigsAssumption, Constants DEF NoKill, Kills
  <2>2. Books' /\ SenderOwed(procs', killing', spawns')
    BY <1>1, <2>1, Zenon DEF IInv, Books, SenderOwed
  <2>3. Turn(procs, procs', k)
    <3>1. CASE k = 0
      BY <1>6, <1>13, <3>1, LawfulTurn, Zenon DEF IInv
    <3>2. CASE k # 0
      <4>1. k \in Pid
        BY <1>2, <1>7, <3>2, MaxPidAssumption DEF Pid
      <4>2. TableInv(procs) /\ Sane(procs[k])
        BY <4>1, Unpack, Zenon DEF IInv
      <4>3. ~procs[k].waiter.on
        BY <1>8, <4>1, <4>2, Zenon DEF Owed, Sane
      <4>4. procs' = Respond(done, k, Done)
        BY <1>13, <3>2, Zenon
      <4> QED
        BY <1>6, <4>1, <4>2, <4>3, <4>4, DoneReply, RespondTurn
    <3> QED
      BY <3>1, <3>2
  <2>4. /\ TableInv(procs') /\ Told(procs, procs')
        /\ Fresh(procs', nextPid', spawns') /\ Owed(procs', spawns')
    BY <1>8, <1>10, <2>3, Zenon
  <2> QED
    BY <2>2, <2>4, Zenon DEF IInv
<1> QED
  BY <1>9, <1>12, <1>13, Zenon

-----------------------------------------------------------------------------
(* Spawns.                                                                   *)

LEMMA SpawnStep ==
  ASSUME IInv, NEW p \in Pid, Spawn(p)
  PROVE  IInv' /\ Told(procs, procs')
<1>1. Dispatched(p) /\ UNCHANGED <<nextPid, killing>>
  BY Zenon DEF Spawn
<1>2. \/ procs' = Respond(procs, p, Done) /\ UNCHANGED spawns
      \/ procs' = [procs EXCEPT ![p].rpc = Rpc("deferred", 0)] /\ spawns' = spawns \cup {p}
  BY Zenon DEF Spawn
<1>3. CASE procs' = Respond(procs, p, Done) /\ UNCHANGED spawns
  <2>1. Lawful(procs, procs)
    BY LawfulRefl, Zenon DEF IInv
  <2>2. UNCHANGED <<nextPid, spawns, killing>>
    BY <1>1, <1>3, Zenon
  <2> QED
    BY <1>1, <1>3, <2>1, <2>2, DoneReply, ReplyStep, Zenon
<1>4. CASE procs' = [procs EXCEPT ![p].rpc = Rpc("deferred", 0)] /\ spawns' = spawns \cup {p}
  <2>1. /\ TableInv(procs') /\ Told(procs, procs')
        /\ Fresh(procs', nextPid, spawns) /\ Owed(procs', spawns)
        /\ Owed(procs', {p}) /\ p \notin spawns /\ ~(p >= nextPid)
    BY <1>1, <1>4, DeferStep DEF Paged
  <2>2. Fresh(procs', nextPid', spawns')
    BY <1>1, <1>4, <2>1, Zenon DEF Fresh
  <2>3. Owed(procs', spawns')
    BY <1>4, <2>1, Zenon DEF Owed
  <2>4. Quiet
    BY <1>1, Zenon DEF Dispatched
  <2>5. SenderOwed(procs', killing', spawns')
    BY <1>1, <2>4, Zenon DEF SenderOwed, Quiet
  <2>6. Books'
    BY <1>1, <1>4, Zenon DEF IInv, Books
  <2> QED
    BY <2>1, <2>2, <2>3, <2>5, <2>6, Zenon DEF IInv
<1> QED
  BY <1>2, <1>3, <1>4

LEMMA EmbedderSpawnStep ==
  ASSUME IInv, EmbedderSpawn
  PROVE  IInv' /\ Told(procs, procs')
<1>1. Quiet /\ spawns' = spawns \cup {0} /\ UNCHANGED <<procs, nextPid, killing>>
  BY Zenon DEF EmbedderSpawn
<1>2. 0 \notin Pid
  BY ZeroNotPid
<1>3. Fresh(procs', nextPid', spawns') /\ Owed(procs', spawns')
  BY <1>1, <1>2, Zenon DEF IInv, Fresh, Owed
<1>4. SenderOwed(procs', killing', spawns')
  BY <1>1, Zenon DEF SenderOwed, Quiet
<1>5. Books'
  BY <1>1, Zenon DEF IInv, Books
<1>6. TableInv(procs') /\ Told(procs, procs')
  BY <1>1, Zenon DEF IInv, Told
<1> QED
  BY <1>3, <1>4, <1>5, <1>6, Zenon DEF IInv

LEMMA NewPcbType ==
  ASSUME NEW q \in 0 .. MaxPid, NEW g \in 0 .. MaxPid, NEW s \in 0 .. MaxPid
  PROVE  /\ NewPcb(q, g, s) \in PCB
         /\ NewPcb(q, g, s).ppid = q /\ NewPcb(q, g, s).pgid = g
         /\ NewPcb(q, g, s).children = {} /\ NewPcb(q, g, s).state = "running"
         /\ NewPcb(q, g, s).itimer = "off" /\ NewPcb(q, g, s).waiter = NoWaiter
         /\ ~NewPcb(q, g, s).pendingStop /\ ~NewPcb(q, g, s).pendingCont
<1>1. PICK w \in Waiters, v \in Rpcs, d \in [Sigs -> Dispositions], yes \in BOOLEAN, no \in BOOLEAN :
        w = NoWaiter /\ v = Done /\ d = [x \in Sigs |-> "dfl"] /\ yes = TRUE /\ no = FALSE
  BY Constants, Zenon
<1>2. PICK none \in SUBSET Pid : none = {}
  OBVIOUS
<1>3. PICK quiet \in SUBSET Sigs : quiet = {}
  OBVIOUS
<1>4. PICK st \in {"unborn", "running", "stopped", "zombie"} : st = "running"
  OBVIOUS
<1>5. PICK ti \in {"off", "once", "interval"} : ti = "off"
  OBVIOUS
<1>6. PICK wo \in {"none", "up", "lost"} : wo = "up"
  OBVIOUS
<1>7. PICK r : r = [state |-> st, listed |-> yes, ppid |-> q, pgid |-> g, sid |-> s,
                    children |-> none, disp |-> d, pend |-> quiet, block |-> quiet,
                    pendingStop |-> no, pendingCont |-> no, waiter |-> w, rpc |-> v,
                    itimer |-> ti, worker |-> wo, missed |-> no]
  OBVIOUS
<1>8. r \in PCB
  BY <1>7, Zenon DEF PCB
<1>9. /\ r.ppid = q /\ r.pgid = g /\ r.children = none /\ r.state = st
      /\ r.itimer = ti /\ r.waiter = w /\ r.pendingStop = no /\ r.pendingCont = no
  BY <1>7, Zenon
<1>10. NewPcb(q, g, s) = r
  BY <1>1, <1>2, <1>3, <1>4, <1>5, <1>6, <1>7, Zenon DEF NewPcb
<1> QED
  BY <1>1, <1>2, <1>4, <1>5, <1>8, <1>9, <1>10, Zenon

LEMMA NewPcbSane ==
  ASSUME NEW q \in 0 .. MaxPid, NEW g \in Pid, NEW s \in 0 .. MaxPid
  PROVE  NewPcb(q, g, s) \in PCB /\ Sane(NewPcb(q, g, s))
<1>1. g \in 0 .. MaxPid /\ g # 0
  BY MaxPidAssumption DEF Pid
<1>2. PICK r : r = NewPcb(q, g, s)
  OBVIOUS
<1>3. r \in PCB /\ r.pgid = g /\ r.state = "running" /\ r.itimer = "off" /\ r.waiter = NoWaiter
      /\ ~r.pendingStop /\ ~r.pendingCont
  BY <1>1, <1>2, NewPcbType
<1>4. ~r.waiter.on
  BY <1>3, Constants, Zenon
<1>5. Sane(r)
  BY <1>1, <1>3, <1>4, Zenon DEF Sane
<1> QED
  BY <1>2, <1>3, <1>5, Zenon

\* A table with one more child of q, or of nobody.
Added(ps, n, q, t) ==
  IF q = 0 THEN Put(ps, n, t)
  ELSE [Put(ps, n, t) EXCEPT ![q].children = @ \cup {n}]

LEMMA AddedStep ==
  ASSUME NEW ps, TableInv(ps), NEW n \in Pid, NEW q \in Pid \cup {0}, q # 0 => q < n,
         \A o \in Pid : n \notin ps[o].children,
         NEW t \in PCB, Sane(t), t.ppid = q, t.children = {},
         NEW qs, qs = Added(ps, n, q, t)
  PROVE  /\ TableInv(qs)
         /\ \A o \in Pid : o # n =>
              /\ SameSelf(ps[o], qs[o]) /\ qs[o].listed = ps[o].listed
              /\ qs[o].children \subseteq ps[o].children \cup {n}
<1>1. ps \in Tables
  BY Zenon DEF TableInv
<1>2. PICK rs : rs = Put(ps, n, t)
  OBVIOUS
<1>3. rs \in Tables /\ rs[n] = t /\ \A o \in Pid : o # n => rs[o] = ps[o]
  BY <1>1, <1>2, Zenon DEF Tables, Put
<1>4. \A o \in Pid : Sane(rs[o])
  BY <1>3, Zenon DEF TableInv
<1>5. 0 \notin Pid
  BY ZeroNotPid
<1>6. \A o \in Pid : rs[o].children \subseteq Pid /\ n \notin rs[o].children
  <2>1. \A o \in Pid : rs[o].children \subseteq Pid
    BY <1>3, Fields, Zenon DEF Tables
  <2> QED
    BY <1>3, <2>1, Zenon
<1>7. ASSUME NEW o \in Pid, NEW c \in rs[o].children
      PROVE  c > o /\ c # n /\ c \in Pid /\ (rs[c].listed => rs[c].ppid = o)
  <2>1. o # n /\ c # n /\ c \in Pid
    BY <1>3, <1>6, <1>7, Zenon
  <2>2. c \in ps[o].children /\ rs[c] = ps[c]
    BY <1>3, <1>7, <2>1, Zenon
  <2> QED
    BY <2>1, <2>2, Zenon DEF TableInv, Linked
<1>8. CASE q = 0
  <2>1. qs = rs
    BY <1>2, <1>8, Zenon DEF Added
  <2>2. TableInv(qs)
    <3>1. Linked(rs)
      BY <1>7, Zenon DEF Linked
    <3> QED
      BY <1>3, <1>4, <2>1, <3>1, Zenon DEF TableInv
  <2>3. \A o \in Pid : o # n =>
          /\ SameSelf(ps[o], qs[o]) /\ qs[o].listed = ps[o].listed
          /\ qs[o].children \subseteq ps[o].children \cup {n}
    BY <1>3, <2>1, Zenon DEF SameSelf
  <2> QED
    BY <2>2, <2>3
<1>9. CASE q # 0
  <2>1. q \in Pid /\ q < n /\ q # n
    BY <1>9, MaxPidAssumption DEF Pid
  <2>2. PICK v : v = rs[q].children \cup {n}
    OBVIOUS
  <2>3. v \in SUBSET Pid /\ rs[q] \in PCB
    BY <1>3, <1>6, <2>1, <2>2, Zenon DEF Tables
  <2>4. PICK r : r = [rs[q] EXCEPT !.children = v]
    OBVIOUS
  <2>5. /\ r \in PCB /\ r.listed = rs[q].listed /\ r.ppid = rs[q].ppid /\ r.pgid = rs[q].pgid
        /\ r.children = v
        /\ r.rpc = rs[q].rpc /\ r.waiter = rs[q].waiter /\ r.state = rs[q].state
        /\ r.itimer = rs[q].itimer
        /\ r.pendingStop = rs[q].pendingStop /\ r.pendingCont = rs[q].pendingCont
    <3>1. r = WithChildren(rs[q], v)
      BY <2>4, Zenon DEF WithChildren
    <3> QED
      BY <2>3, <3>1, AdoptEdit
  <2>6. qs = Put(rs, q, r)
    BY <1>2, <1>3, <1>9, <2>1, <2>2, <2>4, Zenon DEF Added, Put
  <2>7. qs \in Tables /\ qs[q] = r /\ \A o \in Pid : o # q => qs[o] = rs[o]
    BY <1>3, <2>1, <2>5, <2>6, Zenon DEF Tables, Put
  <2>8. Sane(r)
    <3>1. Sane(rs[q])
      BY <1>4, <2>1, Zenon
    <3> QED
      BY <2>5, <3>1, Zenon DEF Sane, Alive
  <2>9. \A o \in Pid : Sane(qs[o])
    BY <1>4, <2>7, <2>8, Zenon
  <2>10. \A o \in Pid : qs[o].listed = rs[o].listed /\ qs[o].ppid = rs[o].ppid
    BY <2>5, <2>7, Zenon
  <2>11. ASSUME NEW o \in Pid, NEW c \in qs[o].children
         PROVE  c > o /\ (qs[c].listed => qs[c].ppid = o)
    <3>1. CASE c \in rs[o].children
      <4>1. c > o /\ c \in Pid /\ (rs[c].listed => rs[c].ppid = o)
        BY <1>7, <3>1, Zenon
      <4> QED
        BY <2>10, <4>1, Zenon
    <3>2. CASE c \notin rs[o].children
      <4>1. o = q /\ c = n
        BY <2>2, <2>5, <2>7, <2>11, <3>2, Zenon
      <4>2. n > q
        BY <2>1 DEF Pid
      <4>3. qs[n].ppid = q
        BY <1>3, <2>10, Zenon
      <4> QED
        BY <4>1, <4>2, <4>3, Zenon
    <3> QED
      BY <3>1, <3>2
  <2>12. TableInv(qs)
    BY <2>7, <2>9, <2>11, Zenon DEF TableInv, Linked
  <2>13. ASSUME NEW o \in Pid, o # n
         PROVE  /\ SameSelf(ps[o], qs[o]) /\ qs[o].listed = ps[o].listed
                /\ qs[o].children \subseteq ps[o].children \cup {n}
    <3>1. rs[o] = ps[o]
      BY <1>3, <2>13, Zenon
    <3>2. CASE o = q
      BY <2>2, <2>5, <2>7, <3>1, <3>2, Zenon DEF SameSelf
    <3>3. CASE o # q
      BY <2>7, <3>1, <3>3, Zenon DEF SameSelf
    <3> QED
      BY <3>2, <3>3
  <2> QED
    BY <2>12, <2>13, Zenon
<1> QED
  BY <1>8, <1>9

\* Who has a spawn in flight has a pid already given out, and is not parked.
LEMMA SpawnerFacts ==
  ASSUME IInv, NEW p \in spawns, p # 0
  PROVE  p \in Pid /\ p < nextPid /\ procs[p].pgid \in Pid /\ ~procs[p].waiter.on
         /\ procs[p].sid \in 0 .. MaxPid
<1>1. p \in Pid /\ nextPid \in Nat
  BY MaxPidAssumption DEF IInv, Books
<1>2. ~(p >= nextPid)
  BY <1>1, Zenon DEF IInv, Fresh
<1>3. procs[p] \in PCB /\ Sane(procs[p])
  BY <1>1, Unpack, Zenon DEF IInv
<1>4. procs[p].pgid \in 0 .. MaxPid /\ procs[p].sid \in 0 .. MaxPid
  BY <1>3, Fields, Zenon
<1>5. procs[p].pgid # 0 /\ (Alive(procs[p]) => ~procs[p].waiter.on)
  BY <1>1, Zenon DEF IInv, Owed
<1>6. ~procs[p].waiter.on
  BY <1>3, <1>5, Zenon DEF Sane
<1>7. procs[p].pgid \in Pid
  BY <1>4, <1>5, MaxPidAssumption DEF Pid
<1>8. p < nextPid
  BY <1>1, <1>2 DEF Pid
<1> QED
  BY <1>1, <1>4, <1>6, <1>7, <1>8

LEMMA FreshLess ==
  ASSUME NEW ps, NEW n \in Nat, NEW m \in Nat, m >= n, NEW S, NEW R, R \subseteq S, Fresh(ps, n, S)
  PROVE  Fresh(ps, m, R)
<1>1. \A c \in Pid : c >= m => c >= n
  BY DEF Pid
<1> QED
  BY <1>1, Zenon DEF Fresh

LEMMA OwedLess ==
  ASSUME NEW ps, NEW S, NEW R, R \subseteq S, Owed(ps, S)
  PROVE  Owed(ps, R)
BY Zenon DEF Owed

\* The continuation of a spawn that succeeded: the table entry, and the answer.
LEMMA SpawnDoneTables ==
  ASSUME IInv, NEW p \in spawns, Quiet, nextPid <= MaxPid,
         NEW t \in PCB, Sane(t), t.ppid = p, t.children = {},
         NEW qs, qs = Added(procs, nextPid, p, t),
         procs' = IF p = 0 THEN qs ELSE Respond(qs, p, Done),
         nextPid' = nextPid + 1, spawns' = spawns \ {p}, UNCHANGED killing
  PROVE  IInv' /\ Told(procs, procs')
<1>1. PICK n : n = nextPid
  OBVIOUS
<1>2. n \in Pid /\ n \in Nat /\ n + 1 \in 2 .. MaxPid + 1
  BY <1>1, MaxPidAssumption DEF IInv, Books, Pid
<1>3. p \in Pid \cup {0} /\ (p # 0 => p < n)
  BY <1>1, SpawnerFacts, Zenon
<1>4. n >= n
  BY <1>2
<1>5. ~procs[n].listed /\ n \notin spawns /\ \A o \in Pid : n \notin procs[o].children
  BY <1>1, <1>2, <1>4, Zenon DEF IInv, Fresh
<1>6. /\ TableInv(qs)
      /\ \A o \in Pid : o # n =>
           /\ SameSelf(procs[o], qs[o]) /\ qs[o].listed = procs[o].listed
           /\ qs[o].children \subseteq procs[o].children \cup {n}
  <2>1. TableInv(procs) /\ qs = Added(procs, n, p, t)
    BY <1>1, Zenon DEF IInv
  <2> QED
    BY <1>2, <1>3, <1>5, <2>1, AddedStep
<1>7. Owed(qs, spawns \ {p})
  <2>1. ASSUME NEW o \in (spawns \ {p}) \cap Pid
        PROVE  /\ qs[o].pgid # 0
               /\ Alive(qs[o]) => ~qs[o].waiter.on /\ qs[o].rpc.tag = "deferred"
    <3>1. o # n /\ o \in Pid /\ o \in spawns
      BY <1>5, Zenon
    <3>2. SameSelf(procs[o], qs[o])
      BY <1>6, <3>1, Zenon
    <3>3. procs[o].pgid # 0 /\ (Alive(procs[o]) => ~procs[o].waiter.on /\ procs[o].rpc.tag = "deferred")
      BY <3>1, Zenon DEF IInv, Owed
    <3> QED
      BY <3>2, <3>3, Zenon DEF SameSelf, Alive
  <2> QED
    BY <2>1, Zenon DEF Owed
<1>8. Fresh(qs, n + 1, spawns \ {p})
  <2>1. ASSUME NEW c \in Pid, c >= n + 1
        PROVE  /\ ~qs[c].listed /\ ~Alive(qs[c]) /\ c \notin spawns
               /\ \A o \in Pid : c \notin qs[o].children
    <3>1. c # n /\ c >= n
      BY <1>2, <2>1 DEF Pid
    <3>2. /\ ~procs[c].listed /\ ~Alive(procs[c]) /\ c \notin spawns
          /\ \A o \in Pid : c \notin procs[o].children
      BY <1>1, <3>1, Zenon DEF IInv, Fresh
    <3>3. SameSelf(procs[c], qs[c]) /\ qs[c].listed = procs[c].listed
      BY <1>6, <3>1, Zenon
    <3>4. ~Alive(qs[c])
      BY <3>2, <3>3, Zenon DEF SameSelf, Alive
    <3>5. ASSUME NEW o \in Pid PROVE c \notin qs[o].children
      <4>1. CASE o # n
        BY <1>6, <3>1, <3>2, <4>1, Zenon
      <4>2. CASE o = n
        <5>1. \A d \in qs[n].children : d \in t.children
          <6>1. CASE p = 0
            <7>1. qs = Put(procs, n, t)
              BY <1>1, <6>1, Zenon DEF Added
            <7>2. qs[n] = t
              BY <1>2, <7>1, Zenon DEF IInv, TableInv, Tables, Put
            <7> QED
              BY <7>2, Zenon
          <6>2. CASE p # 0
            <7>1. p \in Pid /\ p # n
              BY <1>2, <1>3, <6>2 DEF Pid
            <7>2. PICK rs : rs = Put(procs, n, t)
              OBVIOUS
            <7>3. rs \in Tables /\ rs[n] = t
              BY <1>2, <7>2, Zenon DEF IInv, TableInv, Tables, Put
            <7>4. PICK r : r = [rs[p] EXCEPT !.children = rs[p].children \cup {n}]
              OBVIOUS
            <7>5. qs = Put(rs, p, r)
              BY <1>1, <6>2, <7>1, <7>2, <7>3, <7>4, Zenon DEF Added, Put
            <7>6. qs[n] = rs[n]
              BY <1>2, <7>1, <7>3, <7>5, Zenon DEF Tables, Put
            <7> QED
              BY <7>3, <7>6, Zenon
          <6> QED
            BY <6>1, <6>2
        <5> QED
          BY <4>2, <5>1, Zenon
      <4> QED
        BY <4>1, <4>2
    <3> QED
      BY <3>2, <3>3, <3>4, <3>5, Zenon
  <2> QED
    BY <2>1, Zenon DEF Fresh
<1>9. Told(procs, qs)
  BY <1>5, <1>6, Zenon DEF Told
<1>10. Books' /\ SenderOwed(procs', killing', spawns')
  <2>1. Books'
    BY <1>1, <1>2, Zenon DEF IInv, Books
  <2> QED
    BY <2>1, Zenon DEF SenderOwed, Quiet
<1>11. CASE p = 0
  <2>1. procs' = qs /\ nextPid' = n + 1
    BY <1>1, <1>11, Zenon
  <2> QED
    BY <1>6, <1>7, <1>8, <1>9, <1>10, <2>1, Zenon DEF IInv
<1>12. CASE p # 0
  <2>1. p \in Pid /\ p # n
    BY <1>2, <1>3, <1>12 DEF Pid
  <2>2. ~qs[p].waiter.on
    <3>1. ~procs[p].waiter.on
      BY <1>12, SpawnerFacts, Zenon
    <3> QED
      BY <1>6, <2>1, <3>1, Zenon DEF SameSelf
  <2>3. procs' = Respond(qs, p, Done)
    BY <1>12, Zenon
  <2>4. Lawful(qs, qs)
    BY <1>6, LawfulRefl, Zenon
  <2>5. Turn(qs, procs', p)
    BY <1>6, <2>1, <2>2, <2>3, <2>4, DoneReply, RespondTurn
  <2>6. \A o \in Pid : SameKin(qs[o], procs'[o])
    BY <1>6, <2>1, <2>2, <2>3, DoneReply, RespondStep
  <2>7. Told(procs, procs')
    <3>1. \A o \in Pid : procs'[o].listed = qs[o].listed
      BY <2>6, Zenon DEF SameKin
    <3>2. \A o \in Pid : procs[o].listed => procs'[o].listed
      BY <1>5, <1>6, <3>1, Zenon
    <3> QED
      BY <3>2, Zenon DEF Told
  <2>8. Fresh(procs', n + 1, spawns \ {p})
    BY <1>8, <2>5, FreshKept, Zenon
  <2>9. p \notin (spawns \ {p}) \cap Pid
    OBVIOUS
  <2>10. Owed(procs', spawns \ {p})
    BY <1>7, <2>5, <2>9, OwedKept, Zenon
  <2>11. TableInv(procs') /\ nextPid' = n + 1
    BY <1>1, <2>5, Zenon DEF Turn
  <2> QED
    BY <1>10, <2>7, <2>8, <2>10, <2>11, Zenon DEF IInv
<1> QED
  BY <1>11, <1>12

LEMMA SpawnDoneStep ==
  ASSUME IInv, NEW p \in Pid \cup {0}, SpawnDone(p)
  PROVE  IInv' /\ Told(procs, procs')
<1>1. /\ Quiet /\ p \in spawns /\ nextPid <= MaxPid
      /\ nextPid' = nextPid + 1 /\ spawns' = spawns \ {p} /\ UNCHANGED killing
  BY Zenon DEF SpawnDone
<1>2. nextPid \in Pid /\ nextPid \in 0 .. MaxPid /\ 0 \in 0 .. MaxPid
  BY <1>1, MaxPidAssumption DEF IInv, Books, Pid
<1>3. p = 0 => p \notin Pid
  BY ZeroNotPid, Zenon
<1>4. PICK q \in 0 .. MaxPid, g \in Pid, s \in 0 .. MaxPid :
        q = p /\ procs' = AddProcess(procs, p, nextPid, NewPcb(q, g, s))
  <2>1. CASE p = 0
    <3>1. PICK s \in {0, nextPid} :
            procs' = AddProcess(procs, 0, nextPid, NewPcb(0, nextPid, s))
      BY <2>1, Zenon DEF SpawnDone
    <3> QED
      BY <1>2, <2>1, <3>1, Zenon
  <2>2. CASE p # 0
    <3>1. PICK g \in {procs[p].pgid, nextPid} :
            procs' = AddProcess(procs, p, nextPid, NewPcb(p, g, procs[p].sid))
      BY <2>2, Zenon DEF SpawnDone
    <3>2. p \in Pid /\ procs[p].pgid \in Pid /\ procs[p].sid \in 0 .. MaxPid
      BY <1>1, <2>2, SpawnerFacts, Zenon
    <3>3. p \in 0 .. MaxPid
      BY <3>2, Constants, Zenon
    <3> QED
      BY <1>2, <3>1, <3>2, <3>3, Zenon
  <2> QED
    BY <2>1, <2>2
<1>5. PICK t : t = NewPcb(q, g, s)
  OBVIOUS
<1>6. t \in PCB /\ Sane(t)
  BY <1>5, NewPcbSane, Zenon
<1>7. t.ppid = p /\ t.children = {}
  <2>1. g \in 0 .. MaxPid
    BY Constants, Zenon
  <2> QED
    BY <1>4, <1>5, <2>1, NewPcbType
<1>8. PICK qs : qs = Added(procs, nextPid, p, t)
  OBVIOUS
<1>9. procs' = IF p = 0 THEN qs ELSE Respond(qs, p, Done)
  <2>1. procs' = AddProcess(procs, p, nextPid, t)
    BY <1>4, <1>5, Zenon
  <2>2. CASE p = 0
    BY <1>8, <2>1, <2>2, Zenon DEF AddProcess, Added, Put
  <2>3. CASE p # 0
    <3>1. PICK rs : rs = [procs EXCEPT ![nextPid] = t]
      OBVIOUS
    <3>2. procs' = Respond([rs EXCEPT ![p].children = rs[p].children \cup {nextPid}], p, Done)
      BY <2>1, <2>3, <3>1, Zenon DEF AddProcess
    <3>3. qs = [rs EXCEPT ![p].children = rs[p].children \cup {nextPid}]
      BY <1>8, <2>3, <3>1, Zenon DEF Added, Put
    <3> QED
      BY <2>3, <3>2, <3>3, Zenon
  <2> QED
    BY <2>2, <2>3, Zenon
<1> QED
  BY <1>1, <1>6, <1>7, <1>8, <1>9, SpawnDoneTables

LEMMA SpawnFailsStep ==
  ASSUME IInv, NEW p \in Pid \cup {0}, SpawnFails(p)
  PROVE  IInv' /\ Told(procs, procs')
<1>1. /\ Quiet /\ p \in spawns
      /\ spawns' = spawns \ {p} /\ UNCHANGED killing
      /\ procs' = IF p = 0 THEN procs ELSE Respond(procs, p, Done)
  BY Zenon DEF SpawnFails
<1>2. nextPid \in Nat /\ nextPid' \in Nat /\ nextPid' >= nextPid /\ nextPid' \in 2 .. MaxPid + 1
  BY MaxPidAssumption DEF SpawnFails, IInv, Books
<1>3. Turn(procs, procs', p)
  <2>1. Lawful(procs, procs) /\ TableInv(procs)
    BY LawfulRefl, Zenon DEF IInv
  <2>2. CASE p = 0
    BY <1>1, <2>1, <2>2, LawfulTurn, Zenon
  <2>3. CASE p # 0
    <3>1. p \in Pid /\ ~procs[p].waiter.on
      BY <1>1, <2>3, SpawnerFacts, Zenon
    <3>2. procs' = Respond(procs, p, Done)
      BY <1>1, <2>3, Zenon
    <3> QED
      BY <2>1, <3>1, <3>2, DoneReply, RespondTurn
  <2> QED
    BY <2>2, <2>3
<1>4. spawns' \subseteq spawns
  BY <1>1, Zenon
<1>5. Fresh(procs', nextPid', spawns')
  <2>1. Fresh(procs', nextPid, spawns)
    BY <1>3, FreshKept, Zenon DEF IInv
  <2> QED
    BY <1>2, <1>4, <2>1, FreshLess
<1>6. Owed(procs', spawns')
  <2>1. Owed(procs, spawns')
    BY <1>4, OwedLess, Zenon DEF IInv
  <2>2. p \notin spawns' \cap Pid
    BY <1>1, Zenon
  <2> QED
    BY <1>3, <2>1, <2>2, OwedKept, Zenon
<1>7. SenderOwed(procs', killing', spawns')
  BY <1>1, Zenon DEF SenderOwed, Quiet
<1>8. Books'
  BY <1>1, <1>2, <1>4, Zenon DEF IInv, Books
<1>9. TableInv(procs') /\ Told(procs, procs')
  BY <1>3, Zenon DEF Turn
<1> QED
  BY <1>5, <1>6, <1>7, <1>8, <1>9, Zenon DEF IInv

-----------------------------------------------------------------------------
(* The specification.                                                        *)

LEMMA UnbornFacts == Unborn \in PCB /\ Sane(Unborn) /\ ~Unborn.listed /\ ~Alive(Unborn) /\ Unborn.children = {}
<1>1. PICK r : r = NewPcb(0, 0, 0)
  OBVIOUS
<1>2. 0 \in 0 .. MaxPid
  BY Constants, Zenon
<1>3. r \in PCB /\ r.children = {} /\ r.waiter = NoWaiter
  BY <1>1, <1>2, NewPcbType
<1>4. PICK st \in {"unborn", "running", "stopped", "zombie"} : st = "unborn"
  OBVIOUS
<1>5. PICK no \in BOOLEAN : no = FALSE
  OBVIOUS
<1>6. PICK wo \in {"none", "up", "lost"} : wo = "none"
  OBVIOUS
<1>7. PICK r1 : r1 = [r EXCEPT !.state = st]
  OBVIOUS
<1>8. r1 \in PCB /\ SameKin(r, r1) /\ r1.waiter = r.waiter /\ r1.state = st
  BY <1>3, <1>7, StateEdit
<1>9. PICK r2 : r2 = [r1 EXCEPT !.listed = no]
  OBVIOUS
<1>10. /\ r2 \in PCB /\ r2.listed = no /\ r2.children = r1.children
       /\ r2.waiter = r1.waiter /\ r2.state = r1.state
  BY <1>8, <1>9, ListedEdit
<1>11. PICK r3 : r3 = [r2 EXCEPT !.worker = wo]
  OBVIOUS
<1>12. r3 \in PCB /\ SameKin(r2, r3) /\ r3.waiter = r2.waiter /\ r3.state = r2.state
  BY <1>10, <1>11, WorkerEdit
<1>13. Unborn = r3
  BY <1>1, <1>4, <1>5, <1>6, <1>7, <1>9, <1>11, Zenon DEF Unborn
<1>14. r3.listed = FALSE /\ r3.children = {} /\ r3.waiter = NoWaiter /\ r3.state = "unborn"
  BY <1>3, <1>4, <1>5, <1>8, <1>10, <1>12, Zenon DEF SameKin
<1>15. ~r3.listed /\ ~r3.waiter.on /\ ~Alive(r3) /\ r3.state # "zombie"
  BY <1>14, Constants DEF Alive
<1>16. Sane(r3)
  BY <1>15, Zenon DEF Sane
<1> QED
  BY <1>12, <1>13, <1>14, <1>15, <1>16, Zenon

LEMMA InitInv == ASSUME Init PROVE IInv
<1>1. 1 \in Pid /\ 0 \in 0 .. MaxPid /\ 1 \in 0 .. MaxPid
  BY Constants, Zenon
<1>2. PICK r : r = NewPcb(0, 1, 1)
  OBVIOUS
<1>3. r \in PCB /\ Sane(r) /\ r.children = {}
  BY <1>1, <1>2, NewPcbSane, NewPcbType
<1>4. procs = [p \in Pid |-> IF p = 1 THEN r ELSE Unborn]
  BY <1>2, Zenon DEF Init
<1>5. procs \in Tables
  BY <1>3, <1>4, UnbornFacts, Zenon DEF Tables
<1>6. ASSUME NEW p \in Pid
      PROVE  /\ Sane(procs[p]) /\ procs[p].children = {}
             /\ p # 1 => ~procs[p].listed /\ ~Alive(procs[p])
  <2>1. procs[p] = IF p = 1 THEN r ELSE Unborn
    BY <1>4, Zenon
  <2> QED
    BY <1>3, <2>1, UnbornFacts, Zenon
<1>7. TableInv(procs)
  BY <1>5, <1>6, Zenon DEF TableInv, Linked
<1>8. nextPid = 2 /\ spawns = {} /\ killing = NoKill
  BY Zenon DEF Init
<1>9. killing \in Kills /\ killing.targets = {}
  BY <1>8, SigsAssumption, Constants DEF NoKill, Kills
<1>10. nextPid \in 2 .. MaxPid + 1
  BY <1>8, MaxPidAssumption
<1>11. Books
  BY <1>8, <1>9, <1>10, Zenon DEF Books
<1>12. \A c \in Pid : c >= nextPid => c # 1
  BY <1>8 DEF Pid
<1>13. Fresh(procs, nextPid, spawns)
  BY <1>6, <1>8, <1>12, Zenon DEF Fresh
<1>14. Owed(procs, spawns) /\ SenderOwed(procs, killing, spawns)
  BY <1>8, <1>9, Zenon DEF Owed, SenderOwed
<1> QED
  BY <1>7, <1>11, <1>13, <1>14, Zenon DEF IInv

LEMMA ProgramInv ==
  ASSUME IInv, NEW p \in Pid, ProgramNext(p)
  PROVE  IInv' /\ Told(procs, procs')
<1>1. CASE Call(p)
  BY <1>1, CallStep, Zenon
<1>2. CASE SetMask(p)
  BY <1>2, SetMaskStep, Zenon
<1>3. CASE WorkerDies(p)
  BY <1>3, WorkerDiesStep, Zenon
<1>4. CASE \E sig \in Sigs : TakeSignal(p, sig)
  BY <1>4, TakeSignalStep, Zenon
<1> QED
  BY <1>1, <1>2, <1>3, <1>4, Zenon DEF ProgramNext

LEMMA HandlerInv ==
  ASSUME IInv, NEW p \in Pid, HandlerNext(p)
  PROVE  IInv' /\ Told(procs, procs')
<1>1. CASE Exit(p)
  BY <1>1, ExitStepInv, Zenon
<1>2. CASE Wait(p)
  BY <1>2, WaitStep, Zenon
<1>3. CASE Interrupt(p)
  BY <1>3, InterruptStep, Zenon
<1>4. CASE Kill(p)
  BY <1>4, KillStep, Zenon
<1>5. CASE KillGroup(p)
  BY <1>5, KillGroupStep, Zenon
<1>6. CASE SetDisposition(p)
  BY <1>6, SetDispositionStep, Zenon
<1>7. CASE SetPgid(p)
  BY <1>7, SetPgidStep, Zenon
<1>8. CASE SetSid(p)
  BY <1>8, SetSidStep, Zenon
<1>9. CASE SetTimer(p)
  BY <1>9, SetTimerStep, Zenon
<1>10. CASE TimerFires(p)
  BY <1>10, TimerStep, Zenon
<1>11. CASE Spawn(p)
  BY <1>11, SpawnStep, Zenon
<1> QED
  BY <1>1, <1>2, <1>3, <1>4, <1>5, <1>6, <1>7, <1>8, <1>9, <1>10, <1>11, Zenon
  DEF HandlerNext

LEMMA NextInv ==
  ASSUME IInv, [Next]_vars
  PROVE  IInv' /\ Told(procs, procs')
<1>1. CASE EmbedderKillGroup
  BY <1>1, EmbedderKillStep, Zenon
<1>2. CASE KillNext
  BY <1>2, KillNextStep, Zenon
<1>3. CASE EmbedderSpawn
  BY <1>3, EmbedderSpawnStep, Zenon
<1>4. CASE \E p \in Pid \cup {0} : SpawnDone(p) \/ SpawnFails(p)
  BY <1>4, SpawnDoneStep, SpawnFailsStep, Zenon
<1>5. CASE \E p \in Pid : ProgramNext(p) \/ HandlerNext(p)
  BY <1>5, ProgramInv, HandlerInv, Zenon
<1>6. CASE UNCHANGED vars
  <2>1. procs' = procs /\ nextPid' = nextPid /\ spawns' = spawns /\ killing' = killing
    BY <1>6 DEF vars
  <2>2. Books'
    BY <2>1, Zenon DEF IInv, Books
  <2> QED
    BY <2>1, <2>2, Zenon DEF IInv, Told
<1> QED
  BY <1>1, <1>2, <1>3, <1>4, <1>5, <1>6, Zenon DEF Next, KernelNext

LEMMA SpecInv == Spec => []IInv
<1>1. Init => IInv
  BY InitInv
<1>2. IInv /\ [Next]_vars => IInv'
  BY NextInv
<1> QED
  BY <1>1, <1>2, PTL DEF Spec

LEMMA InvTypes == IInv => TypeOK
<1> SUFFICES ASSUME IInv PROVE TypeOK
  OBVIOUS
<1>1. procs \in [Pid -> PCB] /\ \A p \in Pid : procs[p].listed => procs[p].pgid # 0
  BY Zenon DEF IInv, TableInv, Tables, Sane
<1> QED
  BY <1>1, Zenon DEF IInv, Books, TypeOK

\* Types, and the group of a listed process: kill() can always name it.
THEOREM TypeCorrect == Spec => []TypeOK
  BY SpecInv, InvTypes, PTL

\* No exit status is lost: whoever leaves the table leaves it in the step that
\* reports the exit to its parent, if it has one (_reap and its callers).
THEOREM ExitsAreDelivered == Spec => ExitStatusDelivered
<1>1. IInv /\ [Next]_vars => [ExitStep]_vars
  <2>1. ASSUME IInv, [Next]_vars PROVE ExitStep
    <3>1. Told(procs, procs') /\ DOMAIN procs = Pid
      BY <2>1, NextInv, Zenon DEF IInv, TableInv, Tables
    <3>2. \A c \in Pid : Rpc("exit", c).tag = "exit"
      BY Constants, Zenon
    <3> QED
      BY <3>1, <3>2, Zenon DEF Told, ExitStep
  <2> QED
    BY <2>1
<1> QED
  BY <1>1, SpecInv, PTL DEF Spec, ExitStatusDelivered

\* An unreported stop or continue is never stale (_stopProcess, _contProcess).
THEOREM PendingIsCurrent == Spec => []PendingMatchesState
<1>1. IInv => PendingMatchesState
  <2>1. ASSUME IInv, NEW p \in DOMAIN procs
        PROVE  /\ Live(procs, p) /\ procs[p].pendingStop => procs[p].state = "stopped"
               /\ Live(procs, p) /\ procs[p].pendingCont => procs[p].state = "running"
    <3>1. p \in Pid
      BY <2>1, Zenon DEF IInv, TableInv, Tables
    <3>2. Sane(procs[p]) /\ (Live(procs, p) <=> Alive(procs[p]))
      BY <2>1, <3>1, Unpack, Zenon DEF IInv
    <3> QED
      BY <3>2, Zenon DEF Sane
  <2> QED
    BY <2>1, Zenon DEF PendingMatchesState
<1> QED
  BY <1>1, SpecInv, PTL

\* A zombie's timer is off and it waits for nothing (_exitProcess).
THEOREM ZombiesAreQuiescent == Spec => []ZombieQuiescent
<1>1. IInv => ZombieQuiescent
  <2>1. ASSUME IInv, NEW p \in DOMAIN procs, procs[p].state = "zombie"
        PROVE  procs[p].itimer = "off" /\ ~procs[p].waiter.on
    <3>1. p \in Pid
      BY <2>1, Zenon DEF IInv, TableInv, Tables
    <3>2. Sane(procs[p])
      BY <2>1, <3>1, Unpack, Zenon DEF IInv
    <3>3. ~Alive(procs[p])
      BY <2>1 DEF Alive
    <3> QED
      BY <2>1, <3>2, <3>3, Zenon DEF Sane
  <2> QED
    BY <2>1, Zenon DEF ZombieQuiescent
<1> QED
  BY <1>1, SpecInv, PTL

-----------------------------------------------------------------------------
(* Waits and reports: what the parts of handlers do to the fields that the   *)
(* results above do not speak of.                                            *)

\* The fields that most edits leave alone.
Rest(r, t) == t.disp = r.disp /\ t.pend = r.pend /\ t.missed = r.missed

LEMMA RpcRest ==
  ASSUME NEW r \in PCB, NEW v \in Rpcs, NEW t, t = [r EXCEPT !.rpc = v]
  PROVE  Rest(r, t)
  BY SMT DEF PCB, Rest

LEMMA WaiterRest ==
  ASSUME NEW r \in PCB, NEW v \in Waiters, NEW t, t = [r EXCEPT !.waiter = v]
  PROVE  Rest(r, t)
  BY SMT DEF PCB, Rest

LEMMA TimerRest ==
  ASSUME NEW r \in PCB, NEW v \in {"off", "once", "interval"}, NEW t, t = [r EXCEPT !.itimer = v]
  PROVE  Rest(r, t)
  BY SMT DEF PCB, Rest

LEMMA WorkerRest ==
  ASSUME NEW r \in PCB, NEW v \in {"none", "up", "lost"}, NEW t, t = [r EXCEPT !.worker = v]
  PROVE  Rest(r, t)
  BY SMT DEF PCB, Rest

LEMMA PendRest ==
  ASSUME NEW r \in PCB, NEW v \in SUBSET Sigs, NEW t, t = [r EXCEPT !.pend = v]
  PROVE  t.disp = r.disp /\ t.pend = v /\ t.missed = r.missed
  BY SMT DEF PCB

LEMMA BlockRest ==
  ASSUME NEW r \in PCB, NEW v \in SUBSET Sigs, NEW t, t = [r EXCEPT !.block = v]
  PROVE  Rest(r, t)
  BY SMT DEF PCB, Rest

LEMMA DispRest ==
  ASSUME NEW r \in PCB, NEW v \in [Sigs -> Dispositions], NEW t, t = [r EXCEPT !.disp = v]
  PROVE  t.pend = r.pend /\ t.missed = r.missed
  BY SMT DEF PCB

LEMMA StateRest ==
  ASSUME NEW r \in PCB, NEW v \in {"unborn", "running", "stopped", "zombie"}, NEW t, t = [r EXCEPT !.state = v]
  PROVE  Rest(r, t)
  BY SMT DEF PCB, Rest

LEMMA GroupRest ==
  ASSUME NEW r \in PCB, NEW v \in 0 .. MaxPid, NEW t, t = [r EXCEPT !.pgid = v]
  PROVE  Rest(r, t)
  BY SMT DEF PCB, Rest

LEMMA SessionRest ==
  ASSUME NEW r \in PCB, NEW v \in 0 .. MaxPid, NEW t, t = [r EXCEPT !.sid = v]
  PROVE  Rest(r, t)
  BY SMT DEF PCB, Rest

LEMMA ParentRest ==
  ASSUME NEW r \in PCB, NEW v \in 0 .. MaxPid, NEW t, t = [r EXCEPT !.ppid = v]
  PROVE  Rest(r, t)
  BY SMT DEF PCB, Rest

LEMMA ChildrenRest ==
  ASSUME NEW r \in PCB, NEW v \in SUBSET Pid, NEW t, t = [r EXCEPT !.children = v]
  PROVE  Rest(r, t)
  BY SMT DEF PCB, Rest

LEMMA StopFlagRest ==
  ASSUME NEW r \in PCB, NEW v \in BOOLEAN, NEW t, t = [r EXCEPT !.pendingStop = v]
  PROVE  Rest(r, t)
<1>1. r = With(r, r.state, r.listed, r.pendingStop, r.pendingCont, r.missed)
  BY FullForm, Zenon
<1>2. t = With(r, r.state, r.listed, v, r.pendingCont, r.missed)
  BY <1>1, SMT DEF With
<1> QED
  BY <1>2, Zenon DEF With, Rest

LEMMA ContFlagRest ==
  ASSUME NEW r \in PCB, NEW v \in BOOLEAN, NEW t, t = [r EXCEPT !.pendingCont = v]
  PROVE  Rest(r, t)
<1>1. r = With(r, r.state, r.listed, r.pendingStop, r.pendingCont, r.missed)
  BY FullForm, Zenon
<1>2. t = With(r, r.state, r.listed, r.pendingStop, v, r.missed)
  BY <1>1, SMT DEF With
<1> QED
  BY <1>2, Zenon DEF With, Rest

LEMMA MissedRest ==
  ASSUME NEW r \in PCB, NEW v \in BOOLEAN, NEW t, t = [r EXCEPT !.missed = v]
  PROVE  t.disp = r.disp /\ t.pend = r.pend /\ t.missed = v
<1>1. r = With(r, r.state, r.listed, r.pendingStop, r.pendingCont, r.missed)
  BY FullForm, Zenon
<1>2. t = With(r, r.state, r.listed, r.pendingStop, r.pendingCont, v)
  BY <1>1, SMT DEF With
<1> QED
  BY <1>2, Zenon DEF With

LEMMA ListedRest ==
  ASSUME NEW r \in PCB, NEW v \in BOOLEAN, NEW t, t = [r EXCEPT !.listed = v]
  PROVE  Rest(r, t)
<1>1. r = With(r, r.state, r.listed, r.pendingStop, r.pendingCont, r.missed)
  BY FullForm, Zenon
<1>2. t = With(r, r.state, v, r.pendingStop, r.pendingCont, r.missed)
  BY <1>1, SMT DEF With
<1> QED
  BY <1>2, Zenon DEF With, Rest

\* What a handler may do to a process that neither exits nor changes its mind:
\* answer its wait, and post signals.
Soft(r, t) ==
  /\ t.waiter = r.waiter \/ ~t.waiter.on
  /\ t.state = "zombie" => r.state = "zombie"
  /\ t.missed = r.missed /\ t.disp = r.disp /\ r.pend \subseteq t.pend

SoftAll(ps, qs) == \A p \in Pid : Soft(ps[p], qs[p])
SameFlags(ps, qs) ==
  \A p \in Pid : qs[p].pendingStop = ps[p].pendingStop /\ qs[p].pendingCont = ps[p].pendingCont
Mute(ps, qs) == \A p \in Pid : qs[p].rpc = ps[p].rpc

LEMMA SoftTrans == ASSUME NEW ps, NEW qs, NEW rs, SoftAll(ps, qs), SoftAll(qs, rs) PROVE SoftAll(ps, rs)
<1>1. ASSUME NEW p \in Pid PROVE Soft(ps[p], rs[p])
  <2>1. Soft(ps[p], qs[p]) /\ Soft(qs[p], rs[p])
    BY Zenon DEF SoftAll
  <2> QED
    BY <2>1, Zenon DEF Soft
<1> QED
  BY <1>1, Zenon DEF SoftAll

LEMMA SoftRefl == ASSUME NEW ps PROVE SoftAll(ps, ps) /\ SameFlags(ps, ps) /\ Mute(ps, ps)
  BY Zenon DEF SoftAll, Soft, SameFlags, Mute

LEMMA RespondSoft ==
  ASSUME NEW ps, TableInv(ps), NEW p \in Pid, ~ps[p].waiter.on, NEW v \in Rpcs,
         NEW qs, qs = Respond(ps, p, v)
  PROVE  SoftAll(ps, qs) /\ SameFlags(ps, qs)
<1>1. ps[p] \in PCB /\ ps \in Tables
  BY Unpack, Zenon
<1>2. CASE ~Live(ps, p)
  BY <1>2, SoftRefl, Zenon DEF Respond
<1>3. CASE Live(ps, p)
  <2>1. PICK t : t = [ps[p] EXCEPT !.rpc = v]
    OBVIOUS
  <2>2. /\ t.waiter = ps[p].waiter /\ t.state = ps[p].state
        /\ t.pendingStop = ps[p].pendingStop /\ t.pendingCont = ps[p].pendingCont
    BY <1>1, <2>1, RpcEdit
  <2>3. Rest(ps[p], t)
    BY <1>1, <2>1, RpcRest
  <2>4. qs[p] = t /\ \A q \in Pid : q # p => qs[q] = ps[q]
    BY <1>1, <1>3, <2>1, Zenon DEF Respond, Tables
  <2>5. Soft(ps[p], t)
    BY <2>2, <2>3, Zenon DEF Soft, Rest
  <2> QED
    BY <2>2, <2>4, <2>5, Zenon DEF SoftAll, SameFlags, Soft
<1> QED
  BY <1>2, <1>3

LEMMA AnswerSoft ==
  ASSUME NEW ps, TableInv(ps), NEW p \in Pid, ps[p].waiter.on, NEW v \in Rpcs,
         NEW qs, qs = Answer(ps, p, v)
  PROVE  SoftAll(ps, qs) /\ SameFlags(ps, qs)
<1>1. ps[p] \in PCB /\ Sane(ps[p]) /\ ps \in Tables
  BY Unpack, Zenon
<1>2. PICK w \in Waiters : w = NoWaiter
  BY Constants, Zenon
<1>3. PICK t : t = [ps[p] EXCEPT !.waiter = w]
  OBVIOUS
<1>4. /\ t \in PCB /\ SameKin(ps[p], t) /\ t.rpc = ps[p].rpc /\ t.waiter = w
      /\ t.state = ps[p].state /\ t.itimer = ps[p].itimer
      /\ t.pendingStop = ps[p].pendingStop /\ t.pendingCont = ps[p].pendingCont
  BY <1>1, <1>3, WaiterEdit
<1>5. ~w.on
  BY <1>2, Constants, Zenon
<1>6. Rest(ps[p], t)
  BY <1>1, <1>3, WaiterRest
<1>7. Soft(ps[p], t)
  BY <1>4, <1>5, <1>6, Zenon DEF Soft, Rest
<1>8. Sane(t)
  BY <1>1, <1>4, <1>5, Zenon DEF Sane, SameKin, Alive
<1>9. PICK rs : rs = Put(ps, p, t)
  OBVIOUS
<1>10. TableInv(rs) /\ rs[p] = t /\ \A q \in Pid : q # p => rs[q] = ps[q]
  BY <1>4, <1>8, <1>9, PutInv
<1>11. SoftAll(ps, rs) /\ SameFlags(ps, rs)
  BY <1>4, <1>7, <1>10, Zenon DEF SoftAll, SameFlags, Soft
<1>12. rs = [ps EXCEPT ![p].waiter = NoWaiter]
  BY <1>1, <1>2, <1>3, <1>9, Zenon DEF Tables, Put
<1>13. qs = Respond(rs, p, v)
  BY <1>12, Zenon DEF Answer
<1>14. ~rs[p].waiter.on
  BY <1>4, <1>5, <1>10, Zenon
<1>15. SoftAll(rs, qs) /\ SameFlags(rs, qs)
  BY <1>10, <1>13, <1>14, RespondSoft
<1>16. SameFlags(ps, qs)
  BY <1>11, <1>15, Zenon DEF SameFlags
<1> QED
  BY <1>11, <1>15, <1>16, SoftTrans, Zenon

LEMMA PostSoft ==
  ASSUME NEW ps, TableInv(ps), NEW p \in Pid, NEW sig \in Sigs, NEW qs, qs = Post(ps, p, sig)
  PROVE  SoftAll(ps, qs) /\ SameFlags(ps, qs) /\ Mute(ps, qs) /\ sig \in qs[p].pend
<1>1. ps[p] \in PCB /\ ps \in Tables
  BY Unpack, Zenon
<1>2. PICK v : v = ps[p].pend \cup {sig}
  OBVIOUS
<1>3. v \in SUBSET Sigs
  BY <1>1, <1>2, Fields
<1>4. PICK t : t = [ps[p] EXCEPT !.pend = v]
  OBVIOUS
<1>5. /\ t.rpc = ps[p].rpc /\ t.waiter = ps[p].waiter /\ t.state = ps[p].state
      /\ t.pendingStop = ps[p].pendingStop /\ t.pendingCont = ps[p].pendingCont
  BY <1>1, <1>3, <1>4, PendEdit
<1>6. t.disp = ps[p].disp /\ t.pend = v /\ t.missed = ps[p].missed
  BY <1>1, <1>3, <1>4, PendRest
<1>7. qs[p] = t /\ \A q \in Pid : q # p => qs[q] = ps[q]
  BY <1>1, <1>2, <1>4, Zenon DEF Post, Tables
<1>8. Soft(ps[p], t) /\ sig \in t.pend
  BY <1>2, <1>5, <1>6, Zenon DEF Soft
<1> QED
  BY <1>5, <1>7, <1>8, Zenon DEF SoftAll, SameFlags, Mute, Soft

LEMMA ChldSoft ==
  ASSUME NEW ps, TableInv(ps), NEW p \in Pid, NEW qs, qs = DeliverChld(ps, p)
  PROVE  /\ SoftAll(ps, qs) /\ SameFlags(ps, qs) /\ Mute(ps, qs)
         /\ ps[p].disp["CHLD"] = "handler" => "CHLD" \in qs[p].pend
<1>1. CASE ps[p].disp["CHLD"] = "handler"
  <2>1. "CHLD" \in Sigs
    BY SigsAssumption
  <2>2. qs = Post(ps, p, "CHLD")
    BY <1>1, Zenon DEF DeliverChld
  <2> QED
    BY <2>1, <2>2, PostSoft
<1>2. CASE ps[p].disp["CHLD"] # "handler"
  <2>1. qs = ps
    BY <1>2, Zenon DEF DeliverChld
  <2> QED
    BY <1>2, <2>1, SoftRefl, Zenon
<1> QED
  BY <1>1, <1>2

\* The flag that says a stop, or a continue, is unreported.
Flag(kind, r) == IF kind = "stop" THEN r.pendingStop ELSE r.pendingCont

Cleared(ps, p, kind) ==
  IF kind = "stop" THEN [ps EXCEPT ![p].pendingStop = FALSE]
                   ELSE [ps EXCEPT ![p].pendingCont = FALSE]

LEMMA ClearSoft ==
  ASSUME NEW ps, TableInv(ps), NEW p \in Pid, NEW kind, NEW qs, qs = Cleared(ps, p, kind)
  PROVE  SoftAll(ps, qs) /\ Mute(ps, qs) /\ ~Flag(kind, qs[p]) /\ Mild(ps, qs)
<1>1. ps[p] \in PCB /\ ps \in Tables
  BY Unpack, Zenon
<1>2. PICK no \in BOOLEAN : no = FALSE
  OBVIOUS
<1>3. PICK t : t = IF kind = "stop" THEN [ps[p] EXCEPT !.pendingStop = no]
                                    ELSE [ps[p] EXCEPT !.pendingCont = no]
  OBVIOUS
<1>4. /\ t.rpc = ps[p].rpc /\ t.waiter = ps[p].waiter /\ t.state = ps[p].state
      /\ Rest(ps[p], t) /\ ~Flag(kind, t)
  <2>1. CASE kind = "stop"
    <3>1. t = [ps[p] EXCEPT !.pendingStop = no]
      BY <1>3, <2>1
    <3>2. /\ t.rpc = ps[p].rpc /\ t.waiter = ps[p].waiter /\ t.state = ps[p].state /\ t.pendingStop = no
      BY <1>1, <3>1, StopFlagEdit
    <3>3. Rest(ps[p], t)
      BY <1>1, <3>1, StopFlagRest
    <3> QED
      BY <1>2, <2>1, <3>2, <3>3, Zenon DEF Flag
  <2>2. CASE kind # "stop"
    <3>1. t = [ps[p] EXCEPT !.pendingCont = no]
      BY <1>3, <2>2
    <3>2. /\ t.rpc = ps[p].rpc /\ t.waiter = ps[p].waiter /\ t.state = ps[p].state /\ t.pendingCont = no
      BY <1>1, <3>1, ContFlagEdit
    <3>3. Rest(ps[p], t)
      BY <1>1, <3>1, ContFlagRest
    <3> QED
      BY <1>2, <2>2, <3>2, <3>3, Zenon DEF Flag
  <2> QED
    BY <2>1, <2>2
<1>5. qs[p] = t /\ \A q \in Pid : q # p => qs[q] = ps[q]
  BY <1>1, <1>2, <1>3, Zenon DEF Cleared, Tables
<1>6. Soft(ps[p], t)
  BY <1>4, Zenon DEF Soft, Rest
<1>7. Mild(ps, qs)
  <2>1. qs = [ps EXCEPT ![p].pendingStop = FALSE] \/ qs = [ps EXCEPT ![p].pendingCont = FALSE]
    BY Zenon DEF Cleared
  <2> QED
    BY <2>1, ClearMild
<1> QED
  BY <1>4, <1>5, <1>6, <1>7, Zenon DEF SoftAll, Mute, Soft

-----------------------------------------------------------------------------
(* What a part of a handler reports, and what it leaves unserved.            *)

\* A new report of a stop or a continue is the parent's, and the last.
Rep(ps, qs) ==
  \A p \in Pid :
    \/ qs[p].rpc = ps[p].rpc
    \/ qs[p].rpc.tag \notin {"stop", "cont"}
    \/ \E kind \in {"stop", "cont"}, c \in Pid :
         qs[p].rpc = Rpc(kind, c) /\ qs[c].ppid = p /\ ~Flag(kind, qs[c])

\* A parked process with a handler that is told of a child has SIGCHLD pending.
Chl(ps, qs) ==
  \A p, c \in Pid :
    /\ Alive(qs[p]) /\ ps[p].waiter.on /\ ps[p].disp["CHLD"] = "handler"
    /\ ps[c].ppid = p /\ qs[p].rpc.pid = c /\ qs[p].rpc.tag \in {"exit", "stop", "cont"}
    => "CHLD" \in qs[p].pend

\* c is a zombie for which its parent's wait should have been answered.
Due(ps, p, c) ==
  /\ Alive(ps[p]) /\ ps[p].waiter.sel # 0 /\ WaitsFor(ps, p, c)
  /\ c \in ps[p].children /\ ps[c].state = "zombie" /\ ~ps[c].missed

\* A live process is in the table, and so are its children.
Kids(ps) ==
  \A p \in Pid : Alive(ps[p]) => ps[p].listed /\ \A c \in ps[p].children : ps[c].listed

\* Nobody is due, but x perhaps.
Served(ps, x) == \A p, c \in Pid : Due(ps, p, c) => c = x
Safe(ps) == Kids(ps) /\ Served(ps, 0)

Good(ps, qs) == Rep(ps, qs) /\ Chl(ps, qs) /\ (Safe(ps) => Safe(qs))

LEMMA KidsKept ==
  ASSUME NEW ps, NEW qs, Mild(ps, qs), Kids(ps)
  PROVE  Kids(qs)
<1>1. \A p \in Pid : /\ Alive(qs[p]) => Alive(ps[p])
                     /\ qs[p].listed = ps[p].listed /\ qs[p].children = ps[p].children
  BY Zenon DEF Mild, Kept, SameKin
<1>2. \A p \in Pid : qs[p].children \subseteq Pid
  BY Unpack, Fields, Zenon DEF Mild
<1> QED
  BY <1>1, <1>2, Zenon DEF Kids

\* Who waits for whom depends on the wait and the group of the child only.
LEMMA SameWait ==
  ASSUME NEW ps, NEW qs, NEW p, NEW c, qs[p].waiter = ps[p].waiter, qs[c].pgid = ps[c].pgid,
         ps[p].waiter.sel # 0 \/ qs[p].pgid = ps[p].pgid
  PROVE  WaitsFor(qs, p, c) <=> WaitsFor(ps, p, c)
BY Zenon DEF WaitsFor, WaitSelectorMatch

LEMMA DueBefore ==
  ASSUME NEW ps, NEW qs, NEW p, NEW c, Due(qs, p, c),
         Alive(ps[p]), qs[p].waiter = ps[p].waiter, qs[c].pgid = ps[c].pgid,
         c \in ps[p].children, ps[c].state = "zombie", ~ps[c].missed
  PROVE  Due(ps, p, c)
<1>1. ps[p].waiter.sel # 0 /\ WaitsFor(qs, p, c)
  BY Zenon DEF Due
<1>2. WaitsFor(ps, p, c)
  BY <1>1, SameWait, Zenon
<1> QED
  BY <1>1, <1>2, Zenon DEF Due

\* Waits that end, and nobody dies or changes kin.
LEMMA ServedKept ==
  ASSUME NEW ps, NEW qs, Mild(ps, qs), NEW x, Served(ps, x),
         \A p \in Pid : /\ (qs[p].waiter = ps[p].waiter \/ ~qs[p].waiter.on)
                        /\ qs[p].state = "zombie" => ps[p].state = "zombie"
                        /\ qs[p].missed = ps[p].missed
  PROVE  Served(qs, x)
<1>1. ASSUME NEW p \in Pid, NEW c \in Pid, Due(qs, p, c)
      PROVE  c = x
  <2>1. /\ Alive(qs[p]) /\ qs[p].waiter.on /\ c \in qs[p].children
        /\ qs[c].state = "zombie" /\ ~qs[c].missed
    BY <1>1, Zenon DEF Due, WaitsFor
  <2>2. /\ Alive(ps[p]) /\ qs[p].waiter = ps[p].waiter /\ qs[c].pgid = ps[c].pgid
        /\ c \in ps[p].children /\ ps[c].state = "zombie" /\ ~ps[c].missed
    BY <2>1, Zenon DEF Mild, Kept, SameKin
  <2>3. Due(ps, p, c)
    BY <1>1, <2>2, DueBefore, Zenon
  <2> QED
    BY <2>3, Zenon DEF Served
<1> QED
  BY <1>1, Zenon DEF Served

LEMMA SoftSafe ==
  ASSUME NEW ps, NEW qs, Mild(ps, qs), SoftAll(ps, qs), Safe(ps)
  PROVE  Safe(qs)
<1>1. \A p \in Pid : /\ (qs[p].waiter = ps[p].waiter \/ ~qs[p].waiter.on)
                     /\ qs[p].state = "zombie" => ps[p].state = "zombie"
                     /\ qs[p].missed = ps[p].missed
  BY Zenon DEF SoftAll, Soft
<1>2. Served(ps, 0)
  BY Zenon DEF Safe
<1>3. Served(qs, 0)
  BY <1>1, <1>2, ServedKept
<1> QED
  BY <1>3, KidsKept, Zenon DEF Safe

LEMMA GoodRefl == ASSUME NEW ps, TableInv(ps) PROVE Good(ps, ps)
<1>1. Rep(ps, ps)
  BY Zenon DEF Rep
<1>2. ASSUME NEW p \in Pid, ps[p].waiter.on PROVE ps[p].rpc.tag \notin {"exit", "stop", "cont"}
  <2>1. ps[p].rpc.tag = "deferred"
    BY <1>2, Zenon DEF TableInv, Sane
  <2> QED
    BY <2>1
<1> QED
  BY <1>1, <1>2, Zenon DEF Good, Chl

\* A part that touches nothing of this.
Plain(ps, qs) ==
  /\ Mild(ps, qs)
  /\ \A p \in Pid : /\ qs[p].waiter = ps[p].waiter /\ qs[p].rpc = ps[p].rpc
                    /\ qs[p].state = "zombie" => ps[p].state = "zombie"
                    /\ qs[p].missed = ps[p].missed /\ qs[p].disp = ps[p].disp

LEMMA PlainThen ==
  ASSUME NEW ps, NEW ms, NEW qs, Plain(ps, ms), Good(ms, qs)
  PROVE  Good(ps, qs)
<1>1. \A p \in Pid : /\ ms[p].waiter = ps[p].waiter /\ ms[p].rpc = ps[p].rpc
                     /\ ms[p].disp = ps[p].disp /\ ms[p].ppid = ps[p].ppid
  BY Zenon DEF Plain, Mild, SameKin
<1>2. Rep(ps, qs)
  BY <1>1, Zenon DEF Good, Rep
<1>3. Chl(ps, qs)
  <2>1. Chl(ms, qs)
    BY Zenon DEF Good
  <2> QED
    BY <1>1, <2>1 DEF Chl
<1>4. ASSUME Safe(ps) PROVE Safe(ms)
  <2>1. \A p \in Pid : /\ (ms[p].waiter = ps[p].waiter \/ ~ms[p].waiter.on)
                       /\ ms[p].state = "zombie" => ps[p].state = "zombie"
                       /\ ms[p].missed = ps[p].missed
    BY Zenon DEF Plain
  <2>2. Mild(ps, ms) /\ Served(ps, 0)
    BY <1>4, Zenon DEF Plain, Safe
  <2>3. Served(ms, 0)
    BY <2>1, <2>2, ServedKept
  <2> QED
    BY <1>4, <2>2, <2>3, KidsKept, Zenon DEF Safe
<1> QED
  BY <1>2, <1>3, <1>4, Zenon DEF Good

\* Reports stand when nothing is said after them.
LEMMA RepThen ==
  ASSUME NEW ps, NEW ms, NEW qs, Rep(ps, ms),
         \A p \in Pid : /\ (qs[p].rpc = ms[p].rpc \/ qs[p].rpc.tag \notin {"stop", "cont"})
                        /\ qs[p].ppid = ms[p].ppid
                        /\ \A kind : ~Flag(kind, ms[p]) => ~Flag(kind, qs[p])
  PROVE  Rep(ps, qs)
<1>1. ASSUME NEW p \in Pid, qs[p].rpc # ps[p].rpc, qs[p].rpc.tag \in {"stop", "cont"}
      PROVE  \E kind \in {"stop", "cont"}, c \in Pid :
               qs[p].rpc = Rpc(kind, c) /\ qs[c].ppid = p /\ ~Flag(kind, qs[c])
  <2>1. qs[p].rpc = ms[p].rpc
    BY <1>1, Zenon
  <2>2. ms[p].rpc # ps[p].rpc /\ ~(ms[p].rpc.tag \notin {"stop", "cont"})
    BY <1>1, <2>1, Zenon
  <2>3. PICK kind \in {"stop", "cont"}, c \in Pid :
               ms[p].rpc = Rpc(kind, c) /\ ms[c].ppid = p /\ ~Flag(kind, ms[c])
    BY <2>2, Zenon DEF Rep
  <2>4. qs[p].rpc = Rpc(kind, c) /\ qs[c].ppid = p /\ ~Flag(kind, qs[c])
    BY <2>1, <2>3, Zenon
  <2> QED
    BY <2>4, Zenon
<1> QED
  BY <1>1, Zenon DEF Rep

\* A part after which nothing is said.
LEMMA ThenQuiet ==
  ASSUME NEW ps, NEW ms, NEW qs, Good(ps, ms), Mild(ms, qs), SoftAll(ms, qs), SameFlags(ms, qs),
         Mute(ms, qs)
  PROVE  Good(ps, qs)
<1>1. \A p \in Pid : /\ qs[p].rpc = ms[p].rpc /\ qs[p].ppid = ms[p].ppid
                     /\ ms[p].pend \subseteq qs[p].pend /\ (Alive(qs[p]) => Alive(ms[p]))
                     /\ \A kind : ~Flag(kind, ms[p]) => ~Flag(kind, qs[p])
  BY Zenon DEF Mute, Mild, SameKin, Kept, SoftAll, Soft, SameFlags, Flag
<1>2. Rep(ps, qs)
  BY <1>1, RepThen, ZenonT(60) DEF Good
<1>3. Chl(ps, qs)
  <2>1. Chl(ps, ms)
    BY Zenon DEF Good
  <2> QED
    BY <1>1, <2>1 DEF Chl
<1> QED
  BY <1>2, <1>3, SoftSafe, Zenon DEF Good

\* An answer to a process that is not parked leaves nobody unserved.
LEMMA RespondSafe ==
  ASSUME NEW ms, TableInv(ms), NEW p \in Pid, ~ms[p].waiter.on, NEW v \in Rpcs,
         NEW qs, qs = Respond(ms, p, v), Safe(ms)
  PROVE  Safe(qs)
<1>0a. /\ TableInv(qs) /\ \A q \in Pid : q # p => qs[q] = ms[q]
       /\ \A q \in Pid : SameKin(ms[q], qs[q])
       /\ qs[p].state = ms[p].state /\ ~qs[p].waiter.on
       /\ IF Alive(ms[p]) THEN qs[p].rpc = v ELSE qs = ms
  BY RespondStep
<1>0b. SoftAll(ms, qs)
  BY RespondSoft
<1>1. \A q \in Pid : qs[q].state = ms[q].state /\ qs[q].listed = ms[q].listed
                     /\ qs[q].children = ms[q].children /\ qs[q].pgid = ms[q].pgid
                     /\ qs[q].children \subseteq Pid
  BY <1>0a, Unpack, Fields, Zenon DEF SameKin
<1>2. \A q \in Pid : Alive(qs[q]) => Alive(ms[q])
  BY <1>1, Zenon DEF Alive
<1>3. Kids(qs)
  BY <1>1, <1>2, Zenon DEF Safe, Kids
<1>4. ASSUME NEW q \in Pid, NEW c \in Pid, Due(qs, q, c)
      PROVE  FALSE
  <2>1. /\ Alive(qs[q]) /\ qs[q].waiter.on /\ c \in qs[q].children
        /\ qs[c].state = "zombie" /\ ~qs[c].missed
    BY <1>4, Zenon DEF Due, WaitsFor
  <2>2. qs[q].waiter = ms[q].waiter /\ ~ms[c].missed
    BY <1>0b, <2>1, Zenon DEF SoftAll, Soft
  <2>3. Due(ms, q, c)
    BY <1>1, <1>2, <1>4, <2>1, <2>2, DueBefore, Zenon
  <2>4. c = 0
    BY <2>3, Zenon DEF Safe, Served
  <2> QED
    BY <2>4 DEF Pid
<1> QED
  BY <1>3, <1>4, Zenon DEF Safe, Served

\* An answer to the caller after the parts of its handler.
LEMMA ThenRespond ==
  ASSUME NEW ps, NEW ms, Good(ps, ms), TableInv(ms), NEW p \in Pid,
         ~ps[p].waiter.on, ~ms[p].waiter.on,
         NEW v \in Rpcs, v.tag \notin {"stop", "cont"}, NEW qs, qs = Respond(ms, p, v)
  PROVE  Good(ps, qs)
<1>1. /\ \A q \in Pid : q # p => qs[q] = ms[q]
      /\ \A q \in Pid : SameKin(ms[q], qs[q])
      /\ qs[p].state = ms[p].state
      /\ IF Alive(ms[p]) THEN qs[p].rpc = v ELSE qs = ms
      /\ TableInv(qs) /\ ~qs[p].waiter.on
  BY RespondStep
<1>2. SoftAll(ms, qs) /\ SameFlags(ms, qs)
  BY RespondSoft
<1>3. \A q \in Pid : qs[q].ppid = ms[q].ppid /\ \A kind : ~Flag(kind, ms[q]) => ~Flag(kind, qs[q])
  BY <1>1, <1>2, Zenon DEF SameKin, SameFlags, Flag
<1>4. Rep(ps, qs)
  <2>1. \A q \in Pid : qs[q].rpc = ms[q].rpc \/ qs[q].rpc.tag \notin {"stop", "cont"}
    BY <1>1, Zenon
  <2> QED
    BY <1>3, <2>1, RepThen, Zenon DEF Good
<1>5. Chl(ps, qs)
  <2>1. Chl(ps, ms)
    BY Zenon DEF Good
  <2>2. \A q \in Pid : ps[q].waiter.on => qs[q] = ms[q]
    BY <1>1, Zenon
  <2> QED
    BY <2>1, <2>2 DEF Chl
<1>7. Safe(ms) => Safe(qs)
  BY RespondSafe
<1> QED
  BY <1>4, <1>5, <1>7, Zenon DEF Good

\* The parent is told of a stop or a continue.
LEMMA JobGood ==
  ASSUME NEW ps, TableInv(ps), NEW p \in Pid, NEW kind \in {"stop", "cont"},
         NEW qs, qs = JobNotifyParent(ps, p, kind)
  PROVE  SoftAll(ps, qs) /\ Good(ps, qs)
<1>0. PICK parent : parent = ps[p].ppid
  OBVIOUS
<1>1. PICK told : told = DeliverChld(ps, parent)
  OBVIOUS
<1>2. PICK need : need = IF kind = "stop" THEN "untraced" ELSE "continued"
  OBVIOUS
<1>3. PICK cs : cs = Cleared(told, p, kind)
  OBVIOUS
<1>4. qs = IF ~Live(ps, parent) THEN ps
           ELSE IF WaitsFor(told, parent, p) /\ need \in told[parent].waiter.opts
             THEN Answer(cs, parent, Rpc(kind, p))
             ELSE told
  BY <1>0, <1>1, <1>2, <1>3, Zenon DEF JobNotifyParent, Cleared
<1>5. CASE ~Live(ps, parent)
  <2>1. qs = ps
    BY <1>4, <1>5, Zenon
  <2> QED
    BY <2>1, SoftRefl, GoodRefl, Zenon
<1>6. CASE Live(ps, parent)
  <2>1. parent \in Pid
    BY <1>6, Zenon DEF Live
  <2>2. Mild(ps, told) /\ TableInv(told)
    BY <1>1, <2>1, ChldMild, Zenon DEF Mild
  <2>3. /\ SoftAll(ps, told) /\ SameFlags(ps, told) /\ Mute(ps, told)
        /\ ps[parent].disp["CHLD"] = "handler" => "CHLD" \in told[parent].pend
    BY <1>1, <2>1, ChldSoft
  <2>4. Good(ps, told)
    BY <2>2, <2>3, GoodRefl, ThenQuiet, Zenon
  <2>5. CASE ~(WaitsFor(told, parent, p) /\ need \in told[parent].waiter.opts)
    <3>1. qs = told
      BY <1>4, <1>6, <2>5, Zenon
    <3> QED
      BY <2>3, <2>4, <3>1, Zenon
  <2>6. CASE WaitsFor(told, parent, p) /\ need \in told[parent].waiter.opts
    <3>1. qs = Answer(cs, parent, Rpc(kind, p))
      BY <1>4, <1>6, <2>6, Zenon
    <3>2. SoftAll(told, cs) /\ Mute(told, cs) /\ ~Flag(kind, cs[p]) /\ Mild(told, cs)
      BY <1>3, <2>2, ClearSoft
    <3>3. TableInv(cs)
      BY <3>2, Zenon DEF Mild
    <3>4. cs[parent].waiter.on
      <4>1. cs = Cleared(told, p, kind)
        BY <1>3
      <4>2. cs = [told EXCEPT ![p].pendingStop = FALSE] \/ cs = [told EXCEPT ![p].pendingCont = FALSE]
        BY <4>1, Zenon DEF Cleared
      <4>3. cs[parent].waiter = told[parent].waiter
        BY <2>1, <2>2, <4>2, ClearMild
      <4> QED
        BY <2>6, <4>3, Zenon DEF WaitsFor
    <3>5. Rpc(kind, p) \in Rpcs /\ Rpc(kind, p).tag = kind /\ Rpc(kind, p).pid = p
      BY Constants
    <3>6. /\ Mild(cs, qs) /\ qs[parent].rpc = Rpc(kind, p)
          /\ \A q \in Pid : q # parent => qs[q] = cs[q]
      BY <2>1, <3>1, <3>3, <3>4, <3>5, AnswerMild
    <3>7. SoftAll(cs, qs) /\ SameFlags(cs, qs)
      BY <2>1, <3>1, <3>3, <3>4, <3>5, AnswerSoft
    <3>8. SoftAll(told, qs) /\ SoftAll(ps, qs)
      BY <2>3, <3>2, <3>7, SoftTrans, Zenon
    <3>9. Mild(ps, qs)
      BY <2>2, <3>2, <3>6, MildTrans, Zenon
    <3>10. qs[p].ppid = parent /\ ~Flag(kind, qs[p])
      BY <1>0, <3>2, <3>7, <3>9, Zenon DEF Mild, SameKin, SameFlags, Flag
    <3>11. \A q \in Pid : q # parent => qs[q].rpc = ps[q].rpc
      BY <2>3, <3>2, <3>6, Zenon DEF Mute
    <3>12. Rep(ps, qs)
      BY <3>6, <3>10, <3>11, Zenon DEF Rep
    <3>13. Chl(ps, qs)
      <4>1. ASSUME NEW q \in Pid, NEW c \in Pid, Alive(qs[q]), ps[q].waiter.on,
                   ps[q].disp["CHLD"] = "handler", qs[q].rpc.tag \in {"exit", "stop", "cont"}
            PROVE  "CHLD" \in qs[q].pend
        <5>1. CASE q = parent
          BY <2>3, <3>8, <4>1, <5>1, Zenon DEF SoftAll, Soft
        <5>2. CASE q # parent
          <6>1. qs[q].rpc = ps[q].rpc
            BY <3>11, <5>2, Zenon
          <6>2. ps[q].rpc.tag = "deferred"
            BY <4>1, Zenon DEF TableInv, Sane
          <6> QED
            BY <4>1, <6>1, <6>2
        <5> QED
          BY <5>1, <5>2
      <4> QED
        BY <4>1, Zenon DEF Chl
    <3>14. Safe(ps) => Safe(qs)
      BY <3>8, <3>9, SoftSafe, Zenon
    <3> QED
      BY <3>8, <3>12, <3>13, <3>14, Zenon DEF Good
  <2> QED
    BY <2>5, <2>6
<1> QED
  BY <1>5, <1>6

LEMMA PutPlain ==
  ASSUME NEW ps, TableInv(ps), NEW p \in Pid, NEW t \in PCB, Sane(t), Kept(ps[p], t),
         SameKin(ps[p], t), t.waiter = ps[p].waiter, t.rpc = ps[p].rpc,
         t.state = "zombie" => ps[p].state = "zombie",
         t.missed = ps[p].missed, t.disp = ps[p].disp
  PROVE  Plain(ps, Put(ps, p, t))
<1>1. Mild(ps, Put(ps, p, t))
  BY PutMild, Zenon
<1>2. /\ Put(ps, p, t)[p] = t
      /\ \A q \in Pid : q # p => Put(ps, p, t)[q] = ps[q]
  BY PutInv
<1>3. PICK qs : qs = Put(ps, p, t)
  OBVIOUS
<1>4. ASSUME NEW q \in Pid
      PROVE  /\ qs[q].waiter = ps[q].waiter /\ qs[q].rpc = ps[q].rpc
             /\ qs[q].state = "zombie" => ps[q].state = "zombie"
             /\ qs[q].missed = ps[q].missed /\ qs[q].disp = ps[q].disp
  <2>1. CASE q = p
    BY <1>2, <1>3, <2>1, Zenon
  <2>2. CASE q # p
    BY <1>2, <1>3, <2>2, Zenon
  <2> QED
    BY <2>1, <2>2
<1> QED
  BY <1>1, <1>3, <1>4, Zenon DEF Plain

LEMMA JobEditPlain ==
  ASSUME NEW ps, TableInv(ps), NEW p \in Pid, Alive(ps[p]),
         NEW v \in {"running", "stopped"}, NEW a \in BOOLEAN, NEW b \in BOOLEAN,
         a => v = "stopped", b => v = "running",
         NEW qs, qs = [ps EXCEPT ![p].state = v, ![p].pendingStop = a, ![p].pendingCont = b]
  PROVE  Plain(ps, qs)
<1>1. ps[p] \in PCB /\ Sane(ps[p]) /\ ps \in Tables
  BY Unpack, Zenon
<1>2. PICK t : t = [ps[p] EXCEPT !.state = v, !.pendingStop = a, !.pendingCont = b]
  OBVIOUS
<1>3. /\ t \in PCB /\ SameKin(ps[p], t) /\ t.rpc = ps[p].rpc /\ t.waiter = ps[p].waiter
      /\ t.state = v /\ t.itimer = ps[p].itimer /\ t.pendingStop = a /\ t.pendingCont = b
      /\ t.disp = ps[p].disp /\ t.missed = ps[p].missed
  <2>1. PICK r1 : r1 = [ps[p] EXCEPT !.state = v]
    OBVIOUS
  <2>2. PICK r2 : r2 = [r1 EXCEPT !.pendingStop = a]
    OBVIOUS
  <2>3. v \in {"unborn", "running", "stopped", "zombie"}
    OBVIOUS
  <2>4. /\ r1 \in PCB /\ SameKin(ps[p], r1) /\ r1.rpc = ps[p].rpc /\ r1.waiter = ps[p].waiter
        /\ r1.state = v /\ r1.itimer = ps[p].itimer
    BY <1>1, <2>1, <2>3, StateEdit
  <2>5. /\ r2 \in PCB /\ SameKin(r1, r2) /\ r2.rpc = r1.rpc /\ r2.waiter = r1.waiter
        /\ r2.state = r1.state /\ r2.itimer = r1.itimer /\ r2.pendingStop = a
    BY <2>2, <2>4, StopFlagEdit
  <2>6. t = [r2 EXCEPT !.pendingCont = b]
    BY <1>2, <2>1, <2>2, Zenon
  <2>7. /\ t \in PCB /\ SameKin(r2, t) /\ t.rpc = r2.rpc /\ t.waiter = r2.waiter
        /\ t.state = r2.state /\ t.itimer = r2.itimer /\ t.pendingStop = r2.pendingStop
        /\ t.pendingCont = b
    BY <2>5, <2>6, ContFlagEdit
  <2>8. Rest(ps[p], r1)
    BY <1>1, <2>1, <2>3, StateRest
  <2>9. Rest(r1, r2)
    BY <2>2, <2>4, StopFlagRest
  <2>10. Rest(r2, t)
    BY <2>5, <2>6, ContFlagRest
  <2> QED
    BY <2>4, <2>5, <2>7, <2>8, <2>9, <2>10, Zenon DEF SameKin, Rest
<1>4. qs = Put(ps, p, t)
  BY <1>1, <1>2, Zenon DEF Put
<1>5. Alive(t) /\ t.state # "zombie"
  BY <1>3 DEF Alive
<1>6. Sane(t) /\ Kept(ps[p], t)
  BY <1>1, <1>3, <1>5, Zenon DEF Sane, SameKin, Kept
<1>7. Plain(ps, Put(ps, p, t))
  BY <1>3, <1>5, <1>6, PutPlain, Zenon
<1> QED
  BY <1>4, <1>7, Zenon

LEMMA StopGood ==
  ASSUME NEW ps, TableInv(ps), NEW p \in Pid
  PROVE  Good(ps, StopProcess(ps, p))
<1>1. CASE ps[p].state # "running"
  BY <1>1, GoodRefl, Zenon DEF StopProcess
<1>2. CASE ps[p].state = "running"
  <2>1. PICK v \in {"running", "stopped"}, a \in BOOLEAN, b \in BOOLEAN :
          v = "stopped" /\ a = TRUE /\ b = FALSE
    OBVIOUS
  <2>2. PICK ms : ms = [ps EXCEPT ![p].state = v, ![p].pendingStop = a, ![p].pendingCont = b]
    OBVIOUS
  <2>3. Alive(ps[p])
    BY <1>2 DEF Alive
  <2>4a. (a => v = "stopped") /\ (b => v = "running")
    BY <2>1
  <2>4b. Plain(ps, ms)
    BY <2>2, <2>3, <2>4a, JobEditPlain
  <2>4. Plain(ps, ms) /\ TableInv(ms)
    BY <2>4b, Zenon DEF Plain, Mild
  <2>5. StopProcess(ps, p) = JobNotifyParent(ms, p, "stop")
    BY <1>2, <2>1, <2>2, Zenon DEF StopProcess
  <2> QED
    BY <2>4, <2>5, JobGood, PlainThen, Zenon
<1> QED
  BY <1>1, <1>2

LEMMA ContGood ==
  ASSUME NEW ps, TableInv(ps), NEW p \in Pid
  PROVE  Good(ps, ContProcess(ps, p))
<1>1. CASE ps[p].state # "stopped"
  BY <1>1, GoodRefl, Zenon DEF ContProcess
<1>2. CASE ps[p].state = "stopped"
  <2>1. PICK v \in {"running", "stopped"}, a \in BOOLEAN, b \in BOOLEAN :
          v = "running" /\ a = FALSE /\ b = TRUE
    OBVIOUS
  <2>2. PICK ms : ms = [ps EXCEPT ![p].state = v, ![p].pendingStop = a, ![p].pendingCont = b]
    OBVIOUS
  <2>3. Alive(ps[p])
    BY <1>2 DEF Alive
  <2>4a. (a => v = "stopped") /\ (b => v = "running")
    BY <2>1
  <2>4b. Plain(ps, ms)
    BY <2>2, <2>3, <2>4a, JobEditPlain
  <2>4. Plain(ps, ms) /\ TableInv(ms)
    BY <2>4b, Zenon DEF Plain, Mild
  <2>5. ContProcess(ps, p) = JobNotifyParent(ms, p, "cont")
    BY <1>2, <2>1, <2>2, Zenon DEF ContProcess
  <2> QED
    BY <2>4, <2>5, JobGood, PlainThen, Zenon
<1> QED
  BY <1>1, <1>2

-----------------------------------------------------------------------------
(* What an exit reports, and whom it leaves unserved.                        *)

LEMMA TeardownFacts ==
  ASSUME NEW ps, TableInv(ps), NEW p \in Pid, NEW ts, ts = Teardown(ps, p)
  PROVE  /\ \A q \in Pid : q # p => ts[q] = ps[q]
         /\ ts[p].state = "zombie" /\ ts[p].rpc = Done
<1>1. ps[p] \in PCB /\ ps \in Tables
  BY Unpack, Zenon
<1>2. PICK w \in Waiters, v \in Rpcs, d \in [Sigs -> Dispositions] :
        w = NoWaiter /\ v = Done /\ d = [s \in Sigs |-> "dfl"]
  BY Constants, Zenon
<1>3. PICK r : r = ps[p]
  OBVIOUS
<1>4. PICK t : t = Buried(r, w, v, d)
  OBVIOUS
<1>5. t.rpc = v /\ t.state = "zombie"
  BY <1>1, <1>3, <1>4, ZombieEdit
<1>6. ts = [ps EXCEPT ![p] = t]
  BY <1>1, <1>2, <1>3, <1>4, ZenonT(60) DEF Teardown, Buried
<1> QED
  BY <1>1, <1>2, <1>5, <1>6, Zenon DEF Tables

LEMMA GoneFacts ==
  ASSUME NEW ps, TableInv(ps), NEW z \in Pid, NEW qs, qs = Gone(ps, z)
  PROVE  qs[z].disp = ps[z].disp /\ qs[z].pend = ps[z].pend /\ qs[z].children = ps[z].children
<1>1. ps[z] \in PCB /\ ps \in Tables
  BY Unpack, Zenon
<1>2. PICK no \in BOOLEAN : no = FALSE
  OBVIOUS
<1>3. PICK r : r = [ps[z] EXCEPT !.listed = no]
  OBVIOUS
<1>4. r \in PCB /\ r.children = ps[z].children
  BY <1>1, <1>3, ListedEdit
<1>5. Rest(ps[z], r)
  BY <1>1, <1>3, ListedRest
<1>6. PICK t : t = [r EXCEPT !.missed = no]
  OBVIOUS
<1>7. t.disp = r.disp /\ t.pend = r.pend
  BY <1>4, <1>6, MissedRest
<1>8. t.children = r.children
  BY <1>4, <1>6, MissedEdit DEF SameKin
<1>9. qs = [ps EXCEPT ![z] = t]
  BY <1>1, <1>2, <1>3, <1>6, Zenon DEF Gone
<1>10. qs[z] = t
  BY <1>1, <1>9, Zenon DEF Tables
<1> QED
  BY <1>4, <1>5, <1>7, <1>8, <1>10, Zenon DEF Rest

\* A reap takes the child from its parent and touches nothing else.
LEMMA ReapFacts ==
  ASSUME NEW ps, TableInv(ps), NEW z \in Pid, NEW qs, qs = Reap(ps, z)
  PROVE  /\ \A q \in Pid : qs[q].disp = ps[q].disp /\ qs[q].pend = ps[q].pend
         /\ \A q \in Pid : q # z => qs[q].missed = ps[q].missed
         /\ \A q \in Pid : ps[q].listed /\ q # z /\ ps[z].ppid = q => z \notin qs[q].children
         /\ \A q \in Pid : q # ps[z].ppid => qs[q].children = ps[q].children
<1>1. PICK gone : gone = Gone(ps, z)
  OBVIOUS
<1>2. /\ Thin(ps, gone) /\ ~gone[z].listed
      /\ \A q \in Pid : q # z => gone[q] = ps[q]
  BY <1>1, GoneThin
<1>3. gone[z].disp = ps[z].disp /\ gone[z].pend = ps[z].pend /\ gone[z].children = ps[z].children
  BY <1>1, GoneFacts
<1>4. TableInv(gone)
  BY <1>2, ThinTame, Zenon DEF Tame
<1>5. PICK parent : parent = ps[z].ppid
  OBVIOUS
<1>6. qs = IF InTable(gone, parent)
             THEN [gone EXCEPT ![parent].children = @ \ {z}] ELSE gone
  BY <1>1, <1>5, Zenon DEF Reap, Gone
<1>7. CASE ~InTable(gone, parent)
  <2>1. qs = gone
    BY <1>6, <1>7, Zenon
  <2>2. \A q \in Pid : ps[q].listed /\ q # z => q # parent
    BY <1>2, <1>7, Zenon DEF InTable
  <2> QED
    BY <1>2, <1>3, <1>5, <2>1, <2>2, Zenon
<1>8. CASE InTable(gone, parent)
  <2>1. parent \in Pid
    BY <1>8, Zenon DEF InTable
  <2>2. PICK v : v = gone[parent].children \ {z}
    OBVIOUS
  <2>3. gone[parent] \in PCB /\ gone \in Tables
    BY <1>4, <2>1, Unpack, Zenon
  <2>4. v \in SUBSET Pid
    BY <2>2, <2>3, Fields, Zenon
  <2>5. PICK t : t = [gone[parent] EXCEPT !.children = v]
    OBVIOUS
  <2>6. t.children = v
    BY <2>3, <2>4, <2>5, ChildrenEdit
  <2>7. Rest(gone[parent], t)
    BY <2>3, <2>4, <2>5, ChildrenRest
  <2>8. qs = [gone EXCEPT ![parent] = t]
    BY <1>6, <1>8, <2>1, <2>2, <2>3, <2>5, Zenon
  <2>9. qs[parent] = t /\ \A q \in Pid : q # parent => qs[q] = gone[q]
    BY <2>1, <2>3, <2>8, Zenon DEF Tables
  <2>10. \A q \in Pid : Rest(gone[q], qs[q])
    BY <2>7, <2>9, Zenon DEF Rest
  <2>11. \A q \in Pid : qs[q].disp = ps[q].disp /\ qs[q].pend = ps[q].pend
    BY <1>2, <1>3, <2>10, Zenon DEF Rest
  <2>12. \A q \in Pid : q # z => qs[q].missed = ps[q].missed
    BY <1>2, <2>10, Zenon DEF Rest
  <2>13. z \notin qs[parent].children
    BY <2>2, <2>6, <2>9, Zenon
  <2>14. \A q \in Pid : q # parent => qs[q].children = ps[q].children
    BY <1>2, <1>3, <2>9, Zenon
  <2> QED
    BY <1>5, <2>11, <2>12, <2>13, <2>14, Zenon
<1> QED
  BY <1>7, <1>8

\* A reaped zombie is nobody's child any more.
LEMMA ReapDue ==
  ASSUME NEW ps, TableInv(ps), Kids(ps), NEW z \in Pid, ~Alive(ps[z]), NEW qs, qs = Reap(ps, z)
  PROVE  /\ Kids(qs)
         /\ \A p, c \in Pid : Due(qs, p, c) => c # z /\ Due(ps, p, c)
<1>1. /\ Thin(ps, qs) /\ ~qs[z].listed
      /\ \A q \in Pid : q # z => qs[q].listed = ps[q].listed
  BY ReapThin
<1>2. /\ \A q \in Pid : q # z => qs[q].missed = ps[q].missed
      /\ \A q \in Pid : ps[q].listed /\ q # z /\ ps[z].ppid = q => z \notin qs[q].children
  BY ReapFacts
<1>3. \A q \in Pid : /\ SameSelf(ps[q], qs[q]) /\ qs[q].children \subseteq ps[q].children
                     /\ ps[q].children \subseteq Pid
  BY <1>1, Unpack, Fields, Zenon DEF Thin
<1>4. \A q \in Pid : Alive(qs[q]) => Alive(ps[q])
  BY <1>3, Zenon DEF SameSelf, Alive
<1>5. ASSUME NEW p \in Pid, Alive(qs[p])
      PROVE  z \notin qs[p].children
  <2>1. Alive(ps[p]) /\ ps[p].listed /\ p # z
    BY <1>4, <1>5, Zenon DEF Kids
  <2>2. ASSUME z \in ps[p].children PROVE ps[z].ppid = p
    BY <2>1, <2>2, Zenon DEF Kids, TableInv, Linked
  <2> QED
    BY <1>2, <1>3, <2>1, <2>2, Zenon
<1>6. ASSUME NEW p \in Pid, Alive(qs[p])
      PROVE  qs[p].listed /\ \A c \in qs[p].children : qs[c].listed
  <2>1. Alive(ps[p]) /\ ps[p].listed /\ p # z /\ \A c \in ps[p].children : ps[c].listed
    BY <1>4, <1>6, Zenon DEF Kids
  <2> QED
    BY <1>1, <1>3, <1>5, <1>6, <2>1, Zenon
<1>7. ASSUME NEW p \in Pid, NEW c \in Pid, Due(qs, p, c)
      PROVE  c # z /\ Due(ps, p, c)
  <2>1. /\ Alive(qs[p]) /\ c \in qs[p].children /\ qs[c].state = "zombie" /\ ~qs[c].missed
    BY <1>7, Zenon DEF Due
  <2>2. c # z
    BY <1>5, <2>1, Zenon
  <2>3. /\ Alive(ps[p]) /\ qs[p].waiter = ps[p].waiter /\ qs[c].pgid = ps[c].pgid
        /\ c \in ps[p].children /\ ps[c].state = "zombie" /\ ~ps[c].missed
    BY <1>2, <1>3, <1>4, <2>1, <2>2, Zenon DEF SameSelf
  <2>4. Due(ps, p, c)
    BY <1>7, <2>3, DueBefore, Zenon
  <2> QED
    BY <2>2, <2>4
<1> QED
  BY <1>6, <1>7, Zenon DEF Kids

LEMMA MovedRest ==
  ASSUME NEW ps, TableInv(ps), NEW p \in Pid, NEW qs, qs = Moved(ps, p)
  PROVE  \A c \in Pid : Rest(ps[c], qs[c])
<1>1. ASSUME NEW c \in Pid PROVE Rest(ps[c], qs[c])
  <2>1. ps[c] \in PCB
    BY Unpack, Zenon
  <2>2. CASE c \in Orphans(ps, p)
    <3>1. PICK t : t = [ps[c] EXCEPT !.ppid = 1]
      OBVIOUS
    <3>2. 1 \in 0 .. MaxPid
      BY Constants, Zenon
    <3>3. Rest(ps[c], t)
      BY <2>1, <3>1, <3>2, ParentRest
    <3>4. qs[c] = t
      BY <2>2, <3>1, Zenon DEF Moved
    <3> QED
      BY <3>3, <3>4, Zenon
  <2>3. CASE c \notin Orphans(ps, p) /\ c = p
    <3>1. PICK t : t = [ps[c] EXCEPT !.children = {}]
      OBVIOUS
    <3>2. {} \in SUBSET Pid
      OBVIOUS
    <3>3. Rest(ps[c], t)
      BY <2>1, <3>1, <3>2, ChildrenRest
    <3>4. qs[c] = t
      BY <2>3, <3>1, Zenon DEF Moved
    <3> QED
      BY <3>3, <3>4, Zenon
  <2>4. CASE c \notin Orphans(ps, p) /\ c # p
    <3>1. qs[c] = ps[c]
      BY <2>4, Zenon DEF Moved
    <3> QED
      BY <3>1, Zenon DEF Rest
  <2> QED
    BY <2>2, <2>3, <2>4
<1> QED
  BY <1>1

LEMMA AdoptedRest ==
  ASSUME NEW ps, TableInv(ps), NEW p \in Pid, p # 1, NEW qs, qs = Adopted(ps, p)
  PROVE  /\ \A c \in Pid : Rest(ps[c], qs[c])
         /\ qs[1].children = ps[1].children \cup Orphans(ps, p)
         /\ \A c \in Pid : c # 1 => qs[c].children \subseteq ps[c].children
<1>1. PICK ms : ms = Moved(ps, p)
  OBVIOUS
<1>2. /\ ms \in Tables
      /\ \A c \in Pid : ms[c].children = IF c = p THEN {} ELSE ps[c].children
  BY <1>1, MovedStep
<1>3. \A c \in Pid : Rest(ps[c], ms[c])
  BY <1>1, MovedRest
<1>4. 1 \in Pid
  BY Constants, Zenon
<1>5. TableInv(ms)
  BY <1>1, MovedTame, Zenon DEF Tame
<1>6. PICK v : v = ms[1].children \cup Orphans(ps, p)
  OBVIOUS
<1>7. ms[1] \in PCB /\ ms[1].children \subseteq Pid
  BY <1>4, <1>5, Unpack, Fields, Zenon
<1>8. v \in SUBSET Pid
  <2>1. \A c \in Orphans(ps, p) : c \in Pid
    BY OrphanFacts, Zenon
  <2> QED
    BY <1>6, <1>7, <2>1, Zenon
<1>9. PICK t : t = [ms[1] EXCEPT !.children = v]
  OBVIOUS
<1>10. t.children = v
  BY <1>7, <1>8, <1>9, ChildrenEdit
<1>11. Rest(ms[1], t)
  BY <1>7, <1>8, <1>9, ChildrenRest
<1>12. qs = [ms EXCEPT ![1] = t]
  BY <1>1, <1>2, <1>4, <1>6, <1>9, Zenon DEF Adopted
<1>13. qs[1] = t /\ \A q \in Pid : q # 1 => qs[q] = ms[q]
  BY <1>2, <1>4, <1>12, Zenon DEF Tables
<1>14. \A c \in Pid : Rest(ps[c], qs[c])
  BY <1>3, <1>11, <1>13, ZenonT(60) DEF Rest
<1>15. ms[1].children = ps[1].children
  BY <1>2, <1>4, Zenon
<1>16. qs[1].children = ps[1].children \cup Orphans(ps, p)
  BY <1>6, <1>10, <1>13, <1>15, Zenon
<1>17. \A c \in Pid : c # 1 => qs[c].children \subseteq ps[c].children
  BY <1>2, <1>13, Zenon
<1> QED
  BY <1>14, <1>16, <1>17

LEMMA SoftDue ==
  ASSUME NEW ps, NEW qs, Mild(ps, qs), SoftAll(ps, qs), NEW p \in Pid, NEW c \in Pid, Due(qs, p, c)
  PROVE  Due(ps, p, c)
<1>1. /\ Alive(qs[p]) /\ qs[p].waiter.on /\ c \in qs[p].children
      /\ qs[c].state = "zombie" /\ ~qs[c].missed
  BY Zenon DEF Due, WaitsFor
<1>2. /\ Alive(ps[p]) /\ qs[p].waiter = ps[p].waiter /\ qs[c].pgid = ps[c].pgid
      /\ c \in ps[p].children /\ ps[c].state = "zombie" /\ ~ps[c].missed
  BY <1>1, Zenon DEF Mild, Kept, SameKin, SoftAll, Soft
<1> QED
  BY <1>2, DueBefore, Zenon

\* Edits that keep each process itself and give it no new child.
LEMMA SelfDue ==
  ASSUME NEW ps, NEW qs, NEW p \in Pid, NEW c \in Pid, SameSelf(ps[p], qs[p]), SameSelf(ps[c], qs[c]),
         Rest(ps[c], qs[c]), c \in ps[p].children, Due(qs, p, c)
  PROVE  Due(ps, p, c)
<1>1. Alive(qs[p]) /\ qs[c].state = "zombie" /\ ~qs[c].missed
  BY Zenon DEF Due
<1>2. /\ Alive(ps[p]) /\ qs[p].waiter = ps[p].waiter /\ qs[c].pgid = ps[c].pgid
      /\ ps[c].state = "zombie" /\ ~ps[c].missed
  BY <1>1, Zenon DEF SameSelf, Rest, Alive
<1> QED
  BY <1>2, DueBefore, Zenon

\* Reparenting leaves no zombie beside init's wait.
LEMMA ReparentSafe ==
  ASSUME NEW ps, TableInv(ps), NEW p \in Pid, ~Alive(ps[p]), Kids(ps), Served(ps, p),
         NEW qs, qs = Reparent(ps, p)
  PROVE  Kids(qs) /\ Served(qs, p)
<1>0. 1 \in Pid
  BY Constants, Zenon
<1>2. PICK due : due = AdoptedZombies(ps, p)
  OBVIOUS
<1>3. PICK ads : ads = Adopted(ps, p)
  OBVIOUS
<1>4. PICK z : z = CHOOSE c \in due : \A d \in due : c <= d
  OBVIOUS
<1>5. qs = IF p = 1 \/ ~ps[1].listed THEN Moved(ps, p)
           ELSE IF due = {} THEN ads
           ELSE Answer(Reap(ads, z), 1, Rpc("exit", z))
  BY <1>2, <1>3, <1>4 DEF Reparent, Moved, Adopted, Orphans
<1>6. CASE p = 1 \/ ~ps[1].listed
  <2>1. qs = Moved(ps, p)
    BY <1>5, <1>6, Zenon
  <2>2. /\ \A c \in Pid : SameSelf(ps[c], qs[c]) /\ qs[c].listed = ps[c].listed
        /\ \A c \in Pid : qs[c].children = IF c = p THEN {} ELSE ps[c].children
    BY <2>1, MovedStep
  <2>3. \A c \in Pid : Rest(ps[c], qs[c])
    BY <2>1, MovedRest
  <2>4. \A c \in Pid : qs[c].children \subseteq ps[c].children
    BY <2>2, Zenon
  <2>5. Kids(qs)
    <3>1. \A c \in Pid : Alive(qs[c]) => Alive(ps[c])
      BY <2>2, Zenon DEF SameSelf, Alive
    <3>2. \A c \in Pid : ps[c].children \subseteq Pid
      BY Unpack, Fields, Zenon
    <3> QED
      BY <2>2, <2>4, <3>1, <3>2, Zenon DEF Kids
  <2>6. ASSUME NEW q \in Pid, NEW c \in Pid, Due(qs, q, c) PROVE c = p
    <3>1. c \in qs[q].children
      BY <2>6, Zenon DEF Due
    <3>2. c \in ps[q].children
      BY <2>4, <3>1, Zenon
    <3>3. Due(ps, q, c)
      BY <2>2, <2>3, <2>6, <3>2, SelfDue, Zenon
    <3> QED
      BY <3>3, Zenon DEF Served
  <2> QED
    BY <2>5, <2>6, Zenon DEF Served
<1>7. CASE ~(p = 1 \/ ~ps[1].listed)
  <2>1. /\ Tame(ps, ads)
        /\ \A c \in Pid : SameSelf(ps[c], ads[c]) /\ ads[c].listed = ps[c].listed
        /\ \A c \in Orphans(ps, p) : ads[c].ppid = 1
    BY <1>3, <1>7, AdoptedTame
  <2>2. /\ \A c \in Pid : Rest(ps[c], ads[c])
        /\ ads[1].children = ps[1].children \cup Orphans(ps, p)
        /\ \A c \in Pid : c # 1 => ads[c].children \subseteq ps[c].children
    BY <1>3, <1>7, AdoptedRest
  <2>3. TableInv(ads)
    BY <2>1, Zenon DEF Tame
  <2>4. \A c \in Orphans(ps, p) : c \in Pid /\ ps[c].listed /\ c \in ps[p].children
    BY OrphanFacts, Zenon DEF Orphans
  <2>5. Kids(ads)
    <3>1. \A c \in Pid : Alive(ads[c]) => Alive(ps[c])
      BY <2>1, Zenon DEF SameSelf, Alive
    <3>2. \A c \in Pid : ps[c].children \subseteq Pid
      BY Unpack, Fields, Zenon
    <3>3. ASSUME NEW q \in Pid, NEW c \in ads[q].children PROVE c \in Orphans(ps, p) \/ c \in ps[q].children
      BY <2>2, <3>3, Zenon
    <3> QED
      BY <2>1, <2>4, <3>1, <3>2, <3>3, Zenon DEF Kids
  <2>6. ASSUME NEW q \in Pid, NEW c \in Pid, Due(ads, q, c), q # 1 \/ due = {} PROVE c = p
    <3>1. c \in ads[q].children /\ ads[c].state = "zombie" /\ WaitsFor(ads, q, c)
      BY <2>6, Zenon DEF Due
    <3>2. CASE c \in ps[q].children
      <4>1. Due(ps, q, c)
        BY <2>1, <2>2, <2>6, <3>2, SelfDue, Zenon
      <4> QED
        BY <4>1, Zenon DEF Served
    <3>3. CASE c \notin ps[q].children
      <4>1. q = 1 /\ c \in Orphans(ps, p)
        BY <2>2, <3>1, <3>3, Zenon
      <4>2. ads[q].waiter = ps[q].waiter /\ ads[q].pgid = ps[q].pgid /\ ads[c].pgid = ps[c].pgid
            /\ ads[c].state = ps[c].state
        BY <2>1, Zenon DEF SameSelf
      <4>3. WaitsFor(ps, q, c)
        BY <3>1, <4>2, SameWait, Zenon
      <4>4. c \in due
        BY <1>2, <2>4, <3>1, <4>1, <4>2, <4>3, Zenon DEF AdoptedZombies
      <4> QED
        BY <2>6, <4>1, <4>4
    <3> QED
      BY <3>2, <3>3
  <2>7. CASE due = {}
    <3>1. qs = ads
      BY <1>5, <1>7, <2>7, Zenon
    <3> QED
      BY <2>5, <2>6, <2>7, <3>1, Zenon DEF Served
  <2>8. CASE due # {}
    <3>1. due \subseteq Orphans(ps, p) /\ due \subseteq Pid
      BY <1>2, <2>4, Zenon DEF AdoptedZombies, Orphans
    <3>2. z \in due
      BY <1>4, <2>8, <3>1, LeastPid, Zenon
    <3>3. z \in Pid /\ ps[1].waiter.on /\ ps[z].state = "zombie"
      BY <1>2, <3>1, <3>2, Zenon DEF AdoptedZombies, WaitsFor
    <3>4. ~Alive(ads[z]) /\ ads[1].waiter.on
      <4>1. ads[z].state = "zombie" /\ ads[1].waiter.on
        BY <1>0, <2>1, <3>3, Zenon DEF SameSelf
      <4> QED
        BY <4>1 DEF Alive
    <3>5. PICK rs : rs = Reap(ads, z)
      OBVIOUS
    <3>6. /\ Kids(rs)
          /\ \A q, c \in Pid : Due(rs, q, c) => c # z /\ Due(ads, q, c)
      BY <2>3, <2>5, <3>3, <3>4, <3>5, ReapDue
    <3>7. Thin(ads, rs) /\ TableInv(rs)
      BY <2>3, <3>3, <3>5, ReapThin, ThinTame, Zenon DEF Tame
    <3>8. rs[1].waiter.on
      BY <1>0, <3>4, <3>7, Zenon DEF Thin, SameSelf
    <3>9. Rpc("exit", z) \in Rpcs
      BY <3>3, Constants, Zenon
    <3>10. qs = Answer(rs, 1, Rpc("exit", z))
      BY <1>5, <1>7, <2>8, <3>5, Zenon
    <3>11. Mild(rs, qs) /\ ~qs[1].waiter.on
      BY <1>0, <3>7, <3>8, <3>9, <3>10, AnswerMild
    <3>12. SoftAll(rs, qs)
      BY <1>0, <3>7, <3>8, <3>9, <3>10, AnswerSoft
    <3>13. Kids(qs)
      BY <3>6, <3>11, KidsKept, Zenon
    <3>14. ASSUME NEW q \in Pid, NEW c \in Pid, Due(qs, q, c) PROVE c = p
      <4>1. q # 1
        BY <3>11, <3>14, Zenon DEF Due, WaitsFor
      <4>2. Due(rs, q, c)
        BY <3>11, <3>12, <3>14, SoftDue
      <4>3. Due(ads, q, c)
        BY <3>6, <4>2, Zenon
      <4> QED
        BY <2>6, <4>1, <4>3
    <3> QED
      BY <3>13, <3>14, Zenon DEF Served
  <2> QED
    BY <2>7, <2>8
<1> QED
  BY <1>6, <1>7

LEMMA MissedFacts ==
  ASSUME NEW ps, TableInv(ps), NEW p \in Pid, NEW qs, qs = [ps EXCEPT ![p].missed = TRUE]
  PROVE  Mild(ps, qs) /\ Mute(ps, qs) /\ qs[p].missed /\ \A q \in Pid : q # p => qs[q] = ps[q]
<1>1. ps[p] \in PCB /\ Sane(ps[p]) /\ ps \in Tables
  BY Unpack, Zenon
<1>2. PICK yes \in BOOLEAN : yes = TRUE
  OBVIOUS
<1>3. PICK t : t = [ps[p] EXCEPT !.missed = yes]
  OBVIOUS
<1>4. /\ t \in PCB /\ SameKin(ps[p], t)
      /\ t.rpc = ps[p].rpc /\ t.waiter = ps[p].waiter /\ t.state = ps[p].state
      /\ t.itimer = ps[p].itimer
      /\ t.pendingStop = ps[p].pendingStop /\ t.pendingCont = ps[p].pendingCont
  BY <1>1, <1>3, MissedEdit
<1>5. t.missed = yes
  BY <1>1, <1>3, MissedRest
<1>6. qs = Put(ps, p, t)
  BY <1>1, <1>2, <1>3, Zenon DEF Put
<1>7. Mild(ps, Put(ps, p, t))
  BY <1>4, LowerMild, Zenon
<1>8. qs[p] = t /\ \A q \in Pid : q # p => qs[q] = ps[q]
  BY <1>1, <1>4, <1>6, Zenon DEF Put, Tables
<1> QED
  BY <1>2, <1>4, <1>5, <1>6, <1>7, <1>8, Zenon DEF Mute

LEMMA UnlistedFacts ==
  ASSUME NEW ps, TableInv(ps), NEW p \in Pid, NEW qs, qs = Unlisted(ps, p)
  PROVE  Rest(ps[p], qs[p]) /\ qs[p].children = ps[p].children /\ qs[p].rpc = ps[p].rpc
<1>1. ps[p] \in PCB /\ ps \in Tables
  BY Unpack, Zenon
<1>2. PICK no \in BOOLEAN : no = FALSE
  OBVIOUS
<1>3. PICK t : t = [ps[p] EXCEPT !.listed = no]
  OBVIOUS
<1>4. t \in PCB /\ t.children = ps[p].children /\ t.rpc = ps[p].rpc
  BY <1>1, <1>3, ListedEdit
<1>5. Rest(ps[p], t)
  BY <1>1, <1>3, ListedRest
<1>6. qs[p] = t
  BY <1>1, <1>2, <1>3, Zenon DEF Unlisted, Tables
<1> QED
  BY <1>4, <1>5, <1>6, Zenon

\* Init is nobody's child.
LEMMA InitIsNoChild ==
  ASSUME NEW ps, TableInv(ps), NEW p \in Pid
  PROVE  1 \notin ps[p].children
<1>1. ASSUME 1 \in ps[p].children PROVE 1 > p
  BY <1>1, Zenon DEF TableInv, Linked
<1> QED
  BY <1>1 DEF Pid

\* Reaping the one child that was due.
LEMMA ReapServes ==
  ASSUME NEW ps, TableInv(ps), Kids(ps), NEW p \in Pid, ~Alive(ps[p]), Served(ps, p),
         NEW qs, qs = Reap(ps, p)
  PROVE  Safe(qs) /\ Thin(ps, qs) /\ TableInv(qs)
<1>1. /\ Kids(qs)
      /\ \A q, c \in Pid : Due(qs, q, c) => c # p /\ Due(ps, q, c)
  BY ReapDue
<1>2. Thin(ps, qs) /\ TableInv(qs)
  BY ReapThin, ThinTame, Zenon DEF Tame
<1>3. \A q, c \in Pid : ~Due(qs, q, c)
  BY <1>1, Zenon DEF Served
<1> QED
  BY <1>1, <1>2, <1>3, Zenon DEF Safe, Served

\* A parent that does not wait for its child is not owed an answer about it.
LEMMA UnwaitedServed ==
  ASSUME NEW ps, TableInv(ps), Kids(ps), NEW p \in Pid, Served(ps, p),
         ~WaitsFor(ps, ps[p].ppid, p)
  PROVE  Safe(ps)
<1>1. ASSUME NEW q \in Pid, NEW c \in Pid, Due(ps, q, c) PROVE FALSE
  <2>1. Alive(ps[q]) /\ c \in ps[q].children /\ WaitsFor(ps, q, c)
    BY <1>1, Zenon DEF Due
  <2>2. c = p
    BY <1>1, Zenon DEF Served
  <2>3. ps[c].listed
    BY <2>1, Zenon DEF Kids
  <2>4. ps[c].ppid = q
    BY <2>1, <2>3, Zenon DEF TableInv, Linked
  <2> QED
    BY <2>1, <2>2, <2>4, Zenon
<1> QED
  BY <1>1, Zenon DEF Safe, Served

\* Telling the parent answers the wait, or marks the zombie as one whose
\* parent was not running.
LEMMA NotifySafe ==
  ASSUME NEW ps, TableInv(ps), NEW p \in Pid, ~Alive(ps[p]), Kids(ps), Served(ps, p),
         NEW qs, qs = NotifyExit(ps, p)
  PROVE  Safe(qs)
<1>0. PICK parent : parent = ps[p].ppid
  OBVIOUS
<1>1. PICK told : told = DeliverChld(ps, parent)
  OBVIOUS
<1>2. qs = IF p = 1 THEN [ps EXCEPT ![1].listed = FALSE]
           ELSE IF InTable(ps, parent) /\ ps[parent].state = "running"
             THEN IF WaitsFor(told, parent, p)
                    THEN Answer(Reap(told, p), parent, Rpc("exit", p))
                    ELSE told
           ELSE IF ~ps[1].listed \/ parent = 0 THEN Reap(ps, p)
           ELSE [ps EXCEPT ![p].missed = TRUE]
  BY <1>0, <1>1, Zenon DEF NotifyExit
<1>3. CASE p = 1
  <2>1. qs = Unlisted(ps, p)
    BY <1>2, <1>3, Zenon DEF Unlisted
  <2>2. Thin(ps, qs) /\ \A q \in Pid : q # p => qs[q] = ps[q]
    BY <2>1, UnlistThin
  <2>3. Rest(ps[p], qs[p]) /\ qs[p].children = ps[p].children
    BY <2>1, UnlistedFacts
  <2>4. /\ \A q \in Pid : SameSelf(ps[q], qs[q]) /\ Rest(ps[q], qs[q]) /\ qs[q].children = ps[q].children
        /\ \A q \in Pid : Alive(qs[q]) => Alive(ps[q]) /\ q # p
    <3>1. \A q \in Pid : SameSelf(ps[q], qs[q])
      BY <2>2, Zenon DEF Thin
    <3>2. \A q \in Pid : Rest(ps[q], qs[q]) /\ qs[q].children = ps[q].children
      BY <2>2, <2>3, Zenon DEF Rest
    <3> QED
      BY <3>1, <3>2, Zenon DEF SameSelf, Alive
  <2>5. ASSUME NEW q \in Pid, NEW c \in ps[q].children PROVE c \in Pid /\ c # p
    <3>1. c \in Pid
      BY <2>5, Unpack, Fields, Zenon
    <3> QED
      BY <1>3, <2>5, <3>1, InitIsNoChild, Zenon
  <2>6. Kids(qs)
    BY <2>2, <2>4, <2>5, Zenon DEF Kids
  <2>7. ASSUME NEW q \in Pid, NEW c \in Pid, Due(qs, q, c) PROVE FALSE
    <3>1. c \in ps[q].children
      BY <2>4, <2>7, Zenon DEF Due
    <3>2. Due(ps, q, c)
      BY <2>4, <2>7, <3>1, SelfDue, Zenon
    <3> QED
      BY <2>5, <3>1, <3>2, Zenon DEF Served
  <2> QED
    BY <2>6, <2>7, Zenon DEF Safe, Served
<1>4. CASE p # 1 /\ ~(InTable(ps, parent) /\ ps[parent].state = "running")
           /\ (~ps[1].listed \/ parent = 0)
  <2>1. qs = Reap(ps, p)
    BY <1>2, <1>4, Zenon
  <2> QED
    BY <2>1, ReapServes
<1>5. CASE p # 1 /\ ~(InTable(ps, parent) /\ ps[parent].state = "running")
           /\ ~(~ps[1].listed \/ parent = 0)
  <2>1. qs = [ps EXCEPT ![p].missed = TRUE]
    BY <1>2, <1>5, Zenon
  <2>2a. Mild(ps, qs) /\ qs[p].missed
    BY <2>1, MissedFacts
  <2>2b. \A q \in Pid : q # p => qs[q] = ps[q]
    BY <2>1, MissedFacts
  <2>2. Mild(ps, qs) /\ qs[p].missed /\ \A q \in Pid : q # p => qs[q] = ps[q]
    BY <2>2a, <2>2b
  <2>3. Kids(qs)
    BY <2>2, KidsKept, Zenon
  <2>4. ASSUME NEW q \in Pid, NEW c \in Pid, Due(qs, q, c) PROVE FALSE
    <3>1. c # p /\ Alive(qs[q]) /\ c \in qs[q].children /\ qs[c].state = "zombie" /\ ~qs[c].missed
      BY <2>2, <2>4, Zenon DEF Due
    <3>2. CASE q = p
      <4>1. Alive(ps[p])
        BY <2>2, <3>1, <3>2, Zenon DEF Mild, Kept
      <4> QED
        BY <4>1
    <3>3. CASE q # p
      <4>1. qs[q] = ps[q] /\ qs[c] = ps[c]
        BY <2>2, <3>1, <3>3, Zenon
      <4>2. Due(ps, q, c)
        BY <2>4, <3>1, <4>1, DueBefore, Zenon
      <4> QED
        BY <3>1, <4>2, Zenon DEF Served
    <3> QED
      BY <3>2, <3>3
  <2> QED
    BY <2>3, <2>4, Zenon DEF Safe, Served
<1>6. CASE p # 1 /\ InTable(ps, parent) /\ ps[parent].state = "running"
  <2>1. parent \in Pid
    BY <1>6, Zenon DEF InTable
  <2>2. Mild(ps, told) /\ TableInv(told)
    BY <1>1, <2>1, ChldMild, Zenon DEF Mild
  <2>3. SoftAll(ps, told)
    BY <1>1, <2>1, ChldSoft
  <2>4. Kids(told)
    BY <2>2, KidsKept, Zenon
  <2>5. Served(told, p)
    <3>1. \A q \in Pid : /\ (told[q].waiter = ps[q].waiter \/ ~told[q].waiter.on)
                         /\ told[q].state = "zombie" => ps[q].state = "zombie"
                         /\ told[q].missed = ps[q].missed
      BY <2>3, Zenon DEF SoftAll, Soft
    <3> QED
      BY <2>2, <3>1, ServedKept
  <2>6. ~Alive(told[p]) /\ told[p].ppid = parent
    BY <1>0, <2>2, Zenon DEF Mild, Kept, SameKin
  <2>7. CASE ~WaitsFor(told, parent, p)
    <3>1. qs = told
      BY <1>2, <1>6, <2>7, Zenon
    <3> QED
      BY <2>2, <2>4, <2>5, <2>6, <2>7, <3>1, UnwaitedServed, Zenon
  <2>8. CASE WaitsFor(told, parent, p)
    <3>1. PICK rs : rs = Reap(told, p)
      OBVIOUS
    <3>2. Safe(rs) /\ Thin(told, rs) /\ TableInv(rs)
      BY <2>2, <2>4, <2>5, <2>6, <3>1, ReapServes
    <3>3. rs[parent].waiter.on
      BY <2>1, <2>8, <3>2, Zenon DEF WaitsFor, Thin, SameSelf
    <3>4. qs = Answer(rs, parent, Rpc("exit", p))
      BY <1>2, <1>6, <2>8, <3>1, Zenon
    <3>5. Rpc("exit", p) \in Rpcs
      BY Constants, Zenon
    <3>6. Mild(rs, qs)
      BY <2>1, <3>2, <3>3, <3>4, <3>5, AnswerMild
    <3>7. SoftAll(rs, qs)
      BY <2>1, <3>2, <3>3, <3>4, <3>5, AnswerSoft
    <3> QED
      BY <3>2, <3>6, <3>7, SoftSafe, Zenon
  <2> QED
    BY <2>7, <2>8
<1> QED
  BY <1>3, <1>4, <1>5, <1>6

-----------------------------------------------------------------------------
(* Who is answered by an exit.                                               *)

LEMMA ReparentRpc ==
  ASSUME NEW ps, TableInv(ps), NEW p \in Pid, NEW qs, qs = Reparent(ps, p)
  PROVE  \A q \in Pid :
           /\ qs[q].disp = ps[q].disp
           /\ \/ qs[q].rpc = ps[q].rpc
              \/ /\ q = 1 /\ p # 1 /\ ~qs[q].waiter.on
                 /\ \E z \in Orphans(ps, p) : qs[q].rpc = Rpc("exit", z)
<1>0. 1 \in Pid
  BY Constants, Zenon
<1>2. PICK due : due = AdoptedZombies(ps, p)
  OBVIOUS
<1>3. PICK ads : ads = Adopted(ps, p)
  OBVIOUS
<1>4. PICK z : z = CHOOSE c \in due : \A d \in due : c <= d
  OBVIOUS
<1>5. qs = IF p = 1 \/ ~ps[1].listed THEN Moved(ps, p)
           ELSE IF due = {} THEN ads
           ELSE Answer(Reap(ads, z), 1, Rpc("exit", z))
  BY <1>2, <1>3, <1>4 DEF Reparent, Moved, Adopted, Orphans
<1>6. CASE p = 1 \/ ~ps[1].listed
  <2>1. qs = Moved(ps, p)
    BY <1>5, <1>6, Zenon
  <2>2. \A c \in Pid : SameSelf(ps[c], qs[c])
    BY <2>1, MovedStep
  <2>3. \A c \in Pid : Rest(ps[c], qs[c])
    BY <2>1, MovedRest
  <2> QED
    BY <2>2, <2>3, Zenon DEF SameSelf, Rest
<1>7. CASE ~(p = 1 \/ ~ps[1].listed)
  <2>1. /\ Tame(ps, ads)
        /\ \A c \in Pid : SameSelf(ps[c], ads[c]) /\ ads[c].listed = ps[c].listed
        /\ \A c \in Orphans(ps, p) : ads[c].ppid = 1
    BY <1>3, <1>7, AdoptedTame
  <2>2. \A c \in Pid : Rest(ps[c], ads[c])
    BY <1>3, <1>7, AdoptedRest
  <2>3. CASE due = {}
    <3>1. qs = ads
      BY <1>5, <1>7, <2>3, Zenon
    <3> QED
      BY <2>1, <2>2, <3>1, Zenon DEF SameSelf, Rest
  <2>4. CASE due # {}
    <3>1. due \subseteq Orphans(ps, p)
      BY <1>2, Zenon DEF AdoptedZombies, Orphans
    <3>2. due \subseteq Pid
      BY <3>1, OrphanFacts, Zenon
    <3>3. z \in due
      BY <1>4, <2>4, <3>2, LeastPid, Zenon
    <3>4. z \in Pid /\ ps[1].waiter.on
      BY <1>2, <3>2, <3>3, Zenon DEF AdoptedZombies, WaitsFor
    <3>5. PICK rs : rs = Reap(ads, z)
      OBVIOUS
    <3>6. TableInv(ads)
      BY <2>1, Zenon DEF Tame
    <3>7. Thin(ads, rs) /\ TableInv(rs)
      BY <3>4, <3>5, <3>6, ReapThin, ThinTame, Zenon DEF Tame
    <3>8. \A q \in Pid : rs[q].disp = ads[q].disp
      BY <3>4, <3>5, <3>6, ReapFacts
    <3>9. rs[1].waiter.on
      BY <1>0, <2>1, <3>4, <3>7, Zenon DEF Thin, SameSelf
    <3>10. Rpc("exit", z) \in Rpcs
      BY <3>4, Constants, Zenon
    <3>11. qs = Answer(rs, 1, Rpc("exit", z))
      BY <1>5, <1>7, <2>4, <3>5, Zenon
    <3>12. /\ qs[1].rpc = Rpc("exit", z) /\ ~qs[1].waiter.on
           /\ \A q \in Pid : q # 1 => qs[q] = rs[q]
      BY <1>0, <3>7, <3>9, <3>10, <3>11, AnswerMild
    <3>13. SoftAll(rs, qs)
      BY <1>0, <3>7, <3>9, <3>10, <3>11, AnswerSoft
    <3>14. \A q \in Pid : qs[q].disp = ps[q].disp
      BY <2>2, <3>8, <3>13, Zenon DEF SoftAll, Soft, Rest
    <3>15. \A q \in Pid : rs[q].rpc = ps[q].rpc
      BY <2>1, <3>7, Zenon DEF Thin, SameSelf
    <3> QED
      BY <1>7, <3>1, <3>3, <3>12, <3>14, <3>15, Zenon
  <2> QED
    BY <2>3, <2>4
<1> QED
  BY <1>6, <1>7

LEMMA NotifyRpc ==
  ASSUME NEW ps, TableInv(ps), NEW p \in Pid, NEW qs, qs = NotifyExit(ps, p)
  PROVE  \A q \in Pid :
           \/ qs[q].rpc = ps[q].rpc
           \/ /\ qs[q].rpc = Rpc("exit", p) /\ ps[q].waiter.on
              /\ ps[q].disp["CHLD"] = "handler" => "CHLD" \in qs[q].pend
<1>0. PICK parent : parent = ps[p].ppid
  OBVIOUS
<1>1. PICK told : told = DeliverChld(ps, parent)
  OBVIOUS
<1>2. qs = IF p = 1 THEN [ps EXCEPT ![1].listed = FALSE]
           ELSE IF InTable(ps, parent) /\ ps[parent].state = "running"
             THEN IF WaitsFor(told, parent, p)
                    THEN Answer(Reap(told, p), parent, Rpc("exit", p))
                    ELSE told
           ELSE IF ~ps[1].listed \/ parent = 0 THEN Reap(ps, p)
           ELSE [ps EXCEPT ![p].missed = TRUE]
  BY <1>0, <1>1, Zenon DEF NotifyExit
<1>3. CASE p = 1
  <2>1. qs = Unlisted(ps, p)
    BY <1>2, <1>3, Zenon DEF Unlisted
  <2>2. Thin(ps, qs)
    BY <2>1, UnlistThin
  <2> QED
    BY <2>2, Zenon DEF Thin, SameSelf
<1>4. CASE p # 1 /\ ~(InTable(ps, parent) /\ ps[parent].state = "running")
           /\ (~ps[1].listed \/ parent = 0)
  <2>1. qs = Reap(ps, p)
    BY <1>2, <1>4, Zenon
  <2>2. Thin(ps, qs)
    BY <2>1, ReapThin, Zenon
  <2> QED
    BY <2>2, Zenon DEF Thin, SameSelf
<1>5. CASE p # 1 /\ ~(InTable(ps, parent) /\ ps[parent].state = "running")
           /\ ~(~ps[1].listed \/ parent = 0)
  <2>1. qs = [ps EXCEPT ![p].missed = TRUE]
    BY <1>2, <1>5, Zenon
  <2>2. Mute(ps, qs)
    BY <2>1, MissedFacts
  <2> QED
    BY <2>2, Zenon DEF Mute
<1>6. CASE p # 1 /\ InTable(ps, parent) /\ ps[parent].state = "running"
  <2>1. parent \in Pid
    BY <1>6, Zenon DEF InTable
  <2>2. TableInv(told) /\ \A q \in Pid : told[q].waiter = ps[q].waiter
    BY <1>1, <2>1, ChldMild, Zenon DEF Mild
  <2>3. /\ Mute(ps, told)
        /\ ps[parent].disp["CHLD"] = "handler" => "CHLD" \in told[parent].pend
    BY <1>1, <2>1, ChldSoft
  <2>4. CASE ~WaitsFor(told, parent, p)
    <3>1. qs = told
      BY <1>2, <1>6, <2>4, Zenon
    <3> QED
      BY <2>3, <3>1, Zenon DEF Mute
  <2>5. CASE WaitsFor(told, parent, p)
    <3>1. PICK rs : rs = Reap(told, p)
      OBVIOUS
    <3>2. Thin(told, rs) /\ TableInv(rs)
      BY <2>2, <3>1, ReapThin, ThinTame, Zenon DEF Tame
    <3>3. \A q \in Pid : rs[q].pend = told[q].pend
      BY <2>2, <3>1, ReapFacts
    <3>4. rs[parent].waiter.on /\ ps[parent].waiter.on
      BY <2>1, <2>2, <2>5, <3>2, Zenon DEF WaitsFor, Thin, SameSelf
    <3>5. qs = Answer(rs, parent, Rpc("exit", p))
      BY <1>2, <1>6, <2>5, <3>1, Zenon
    <3>6. Rpc("exit", p) \in Rpcs
      BY Constants, Zenon
    <3>7. /\ qs[parent].rpc = Rpc("exit", p)
          /\ \A q \in Pid : q # parent => qs[q] = rs[q]
      BY <2>1, <3>2, <3>4, <3>5, <3>6, AnswerMild
    <3>8. SoftAll(rs, qs)
      BY <2>1, <3>2, <3>4, <3>5, <3>6, AnswerSoft
    <3>9. ps[parent].disp["CHLD"] = "handler" => "CHLD" \in qs[parent].pend
      BY <2>1, <2>3, <3>3, <3>8, Zenon DEF SoftAll, Soft
    <3>10. \A q \in Pid : q # parent => qs[q].rpc = ps[q].rpc
      BY <2>3, <3>2, <3>7, Zenon DEF Thin, SameSelf, Mute
    <3> QED
      BY <3>4, <3>7, <3>9, <3>10, Zenon
  <2> QED
    BY <2>4, <2>5
<1> QED
  BY <1>3, <1>4, <1>5, <1>6

\* An exit: nobody is told of a stop, and who is told of a death has SIGCHLD.
LEMMA ExitGood ==
  ASSUME NEW ps, TableInv(ps), NEW p \in Pid
  PROVE  Good(ps, ExitProcess(ps, p))
<1>1. CASE ps[p].state = "zombie"
  <2>1. ExitProcess(ps, p) = ps
    BY <1>1, Zenon DEF ExitProcess
  <2> QED
    BY <2>1, GoodRefl, Zenon
<1>2. CASE ps[p].state # "zombie"
  <2>1. PICK ts : ts = Teardown(ps, p)
    OBVIOUS
  <2>2. PICK rs : rs = Reparent(ts, p)
    OBVIOUS
  <2>3. PICK qs : qs = NotifyExit(rs, p)
    OBVIOUS
  <2>4. qs = ExitProcess(ps, p)
    BY <1>2, <2>1, <2>2, <2>3, Zenon DEF ExitProcess
  <2>5. Mild(ps, ts) /\ TableInv(ts)
    BY <2>1, TeardownMild, Zenon DEF Mild
  <2>6. /\ \A q \in Pid : q # p => ts[q] = ps[q]
        /\ ts[p].state = "zombie" /\ ts[p].rpc = Done
    BY <2>1, TeardownFacts
  <2>7. /\ Tame(ts, rs)
        /\ \A q \in Pid : rs[q].state = ts[q].state
        /\ ts[1].listed => rs[1].listed
        /\ \A c \in Pid : ts[c].listed /\ ~rs[c].listed =>
             /\ rs[c].ppid = 1 /\ rs[1].rpc = Rpc("exit", c)
             /\ ts[1].waiter.on /\ ~rs[1].waiter.on
    BY <2>2, <2>5, ReparentStep
  <2>8. TableInv(rs)
    BY <2>7, Zenon DEF Tame
  <2>9. /\ Lawful(rs, qs)
        /\ \A q \in Pid : qs[q].state = rs[q].state /\ qs[q].ppid = rs[q].ppid
    BY <2>3, <2>8, NotifyStep
  <2>10. \A q \in Pid :
           /\ rs[q].disp = ts[q].disp
           /\ \/ rs[q].rpc = ts[q].rpc
              \/ /\ q = 1 /\ p # 1 /\ ~rs[q].waiter.on
                 /\ \E z \in Orphans(ts, p) : rs[q].rpc = Rpc("exit", z)
    BY <2>2, <2>5, ReparentRpc
  <2>11. \A q \in Pid :
           \/ qs[q].rpc = rs[q].rpc
           \/ /\ qs[q].rpc = Rpc("exit", p) /\ rs[q].waiter.on
              /\ rs[q].disp["CHLD"] = "handler" => "CHLD" \in qs[q].pend
    BY <2>3, <2>8, NotifyRpc
  <2>12. \A c \in Pid : Rpc("exit", c).tag = "exit" /\ Rpc("exit", c).pid = c
    BY Constants, Zenon
  <2>13. Done.tag = "done"
    BY DEF Done, Rpc
  <2>14. \A c \in Orphans(ts, p) : c \in Pid /\ c # p /\ ts[c].ppid = p
    BY <2>5, OrphanFacts, Zenon
  <2>15. ~Alive(ts[p]) /\ ~Alive(rs[p]) /\ ~Alive(qs[p])
    <3>1. ts[p].state = "zombie" /\ rs[p].state = "zombie" /\ qs[p].state = "zombie"
      BY <2>6, <2>7, <2>9, Zenon
    <3> QED
      BY <3>1 DEF Alive
  <2>16. ASSUME NEW q \in Pid, qs[q].rpc # ps[q].rpc PROVE qs[q].rpc.tag \in {"done", "exit"}
    <3>1. CASE qs[q].rpc # rs[q].rpc
      <4>1. qs[q].rpc = Rpc("exit", p)
        BY <2>11, <3>1
      <4> QED
        BY <2>12, <4>1
    <3>2. CASE qs[q].rpc = rs[q].rpc /\ rs[q].rpc # ts[q].rpc
      <4>1. PICK z \in Orphans(ts, p) : rs[q].rpc = Rpc("exit", z)
        BY <2>10, <3>2, Zenon
      <4>2. z \in Pid
        BY <2>14, <4>1, Zenon
      <4>3. rs[q].rpc.tag = "exit"
        BY <2>12, <4>1, <4>2, Zenon
      <4> QED
        BY <3>2, <4>3
    <3>3. CASE qs[q].rpc = rs[q].rpc /\ rs[q].rpc = ts[q].rpc
      <4>1. q = p
        BY <2>6, <2>16, <3>3, Zenon
      <4> QED
        BY <2>6, <2>13, <3>3, <4>1, Zenon
    <3> QED
      BY <3>1, <3>2, <3>3
  <2>17. Rep(ps, qs)
    <3>1. ASSUME NEW q \in Pid PROVE qs[q].rpc = ps[q].rpc \/ qs[q].rpc.tag \notin {"stop", "cont"}
      BY <2>16
    <3> QED
      BY <3>1, Zenon DEF Rep
  <2>18. Chl(ps, qs)
    <3>1. ASSUME NEW q \in Pid, NEW c \in Pid, Alive(qs[q]), ps[q].waiter.on,
                 ps[q].disp["CHLD"] = "handler", ps[c].ppid = q, qs[q].rpc.pid = c,
                 qs[q].rpc.tag \in {"exit", "stop", "cont"}
          PROVE  "CHLD" \in qs[q].pend
      <4>1. q # p /\ ts[q] = ps[q]
        BY <2>6, <2>15, <3>1, Zenon
      <4>2. ps[q].rpc.tag = "deferred"
        BY <3>1, Zenon DEF TableInv, Sane
      <4>3. CASE qs[q].rpc # rs[q].rpc
        <5>1. rs[q].disp["CHLD"] = "handler"
          BY <2>10, <3>1, <4>1, Zenon
        <5> QED
          BY <2>11, <4>3, <5>1, Zenon
      <4>4. CASE qs[q].rpc = rs[q].rpc /\ rs[q].rpc # ts[q].rpc
        <5>1. PICK z \in Orphans(ts, p) : rs[q].rpc = Rpc("exit", z)
          BY <2>10, <4>4, Zenon
        <5>2. z \in Pid /\ z # p /\ ts[z].ppid = p
          BY <2>14, <5>1, Zenon
        <5>3. c = z
          <6>1. rs[q].rpc.pid = z
            BY <2>12, <5>1, <5>2, Zenon
          <6> QED
            BY <3>1, <4>4, <6>1, Zenon
        <5>4. ps[c].ppid = p
          BY <2>6, <5>2, <5>3, Zenon
        <5> QED
          BY <3>1, <4>1, <5>4, Zenon
      <4>5. CASE qs[q].rpc = rs[q].rpc /\ rs[q].rpc = ts[q].rpc
        <5>1. qs[q].rpc.tag = "deferred"
          BY <4>1, <4>2, <4>5, Zenon
        <5> QED
          BY <3>1, <5>1
      <4> QED
        BY <4>3, <4>4, <4>5
    <3> QED
      BY <3>1, Zenon DEF Chl
  <2>19. ASSUME Safe(ps) PROVE Safe(qs)
    <3>1. Kids(ts)
      BY <2>5, <2>19, KidsKept, Zenon DEF Safe
    <3>2. ASSUME NEW q \in Pid, NEW c \in Pid, Due(ts, q, c), c # p PROVE FALSE
      <4>1. Alive(ts[q])
        BY <3>2, Zenon DEF Due
      <4>2. q # p
        BY <2>15, <4>1, Zenon
      <4>3. ts[q] = ps[q] /\ ts[c] = ps[c]
        BY <2>6, <3>2, <4>2, Zenon
      <4>4. c \in ps[q].children /\ ps[c].state = "zombie" /\ ~ps[c].missed
        BY <3>2, <4>3, Zenon DEF Due
      <4>5. Due(ps, q, c)
        BY <3>2, <4>1, <4>3, <4>4, DueBefore, Zenon
      <4>6. c = 0
        BY <2>19, <4>5, Zenon DEF Safe, Served
      <4> QED
        BY <4>6, ZeroNotPid, Zenon
    <3>3. Served(ts, p)
      BY <3>2, Zenon DEF Served
    <3>4. Kids(rs) /\ Served(rs, p)
      BY <2>2, <2>5, <2>15, <3>1, <3>3, ReparentSafe
    <3> QED
      BY <2>3, <2>8, <2>15, <3>4, NotifySafe
  <2> QED
    BY <2>4, <2>17, <2>18, <2>19, Zenon DEF Good
<1> QED
  BY <1>1, <1>2

LEMMA PostGood ==
  ASSUME NEW ps, NEW ms, Good(ps, ms), TableInv(ms), NEW p \in Pid, NEW sig \in Sigs,
         NEW qs, qs = Post(ms, p, sig)
  PROVE  Good(ps, qs)
<1>1. Mild(ms, qs)
  BY PostMild, Zenon
<1>2. SoftAll(ms, qs) /\ SameFlags(ms, qs) /\ Mute(ms, qs)
  BY PostSoft
<1> QED
  BY <1>1, <1>2, ThenQuiet, Zenon

LEMMA DefaultGood ==
  ASSUME NEW ps, TableInv(ps), NEW p \in Pid, NEW sig \in Sigs
  PROVE  Good(ps, DefaultAction(ps, p, sig))
<1>1. CASE sig \in Terminating
  <2>1. DefaultAction(ps, p, sig) = IF sig \in ps[p].block THEN Post(ps, p, sig) ELSE ExitProcess(ps, p)
    BY <1>1 DEF DefaultAction, Terminating
  <2>2. Good(ps, ps)
    BY GoodRefl
  <2> QED
    BY <2>1, <2>2, PostGood, ExitGood, Zenon
<1>2. CASE sig = "TSTP"
  <2>1. DefaultAction(ps, p, sig) = StopProcess(ps, p)
    BY <1>2 DEF DefaultAction, Terminating
  <2> QED
    BY <2>1, StopGood, Zenon
<1>3. CASE sig \notin Terminating /\ sig # "TSTP"
  <2>1. DefaultAction(ps, p, sig) = ps
    BY <1>3 DEF DefaultAction
  <2> QED
    BY <2>1, GoodRefl, Zenon
<1> QED
  BY <1>1, <1>2, <1>3

LEMMA DeliverGood ==
  ASSUME NEW ps, TableInv(ps), NEW p \in Pid, NEW sig \in Sigs
  PROVE  Good(ps, Deliver(ps, p, sig))
<1>1. PICK woken : woken = IF sig = "CONT" THEN ContProcess(ps, p) ELSE ps
  OBVIOUS
<1>2. Good(ps, woken) /\ TableInv(woken)
  BY <1>1, ContGood, ContMild, GoodRefl, Zenon DEF Mild
<1>3. CASE sig = "KILL"
  <2>1. Deliver(ps, p, sig) = ExitProcess(ps, p)
    BY <1>3 DEF Deliver
  <2> QED
    BY <2>1, ExitGood, Zenon
<1>4. CASE sig = "STOP"
  <2>1. Deliver(ps, p, sig) = StopProcess(ps, p)
    BY <1>4 DEF Deliver
  <2> QED
    BY <2>1, StopGood, Zenon
<1>5. CASE sig # "KILL" /\ sig # "STOP"
  <2>1. Deliver(ps, p, sig) =
          CASE woken[p].disp[sig] = "ign"     -> woken
            [] woken[p].disp[sig] = "handler" -> Post(woken, p, sig)
            [] OTHER                          -> DefaultAction(woken, p, sig)
    BY <1>1, <1>5 DEF Deliver
  <2>2. \/ Deliver(ps, p, sig) = woken
        \/ Deliver(ps, p, sig) = Post(woken, p, sig)
        \/ Deliver(ps, p, sig) = DefaultAction(woken, p, sig)
    BY <2>1
  <2>3. Good(ps, Post(woken, p, sig))
    BY <1>2, PostGood, Zenon
  <2>4. Good(ps, DefaultAction(woken, p, sig))
    <3>1. CASE sig = "CONT"
      <4>1. DefaultAction(woken, p, sig) = woken
        BY <3>1 DEF DefaultAction, Terminating
      <4> QED
        BY <1>2, <4>1, Zenon
    <3>2. CASE sig # "CONT"
      <4>1. woken = ps
        BY <1>1, <3>2, Zenon
      <4> QED
        BY <4>1, DefaultGood, Zenon
    <3> QED
      BY <3>1, <3>2
  <2> QED
    BY <1>2, <2>2, <2>3, <2>4, Zenon
<1> QED
  BY <1>3, <1>4, <1>5

LEMMA FireGood ==
  ASSUME NEW ps, TableInv(ps), NEW p \in Pid, "ALRM" \in Sigs
  PROVE  Good(ps, FireTimer(ps, p))
<1>1. ps[p] \in PCB /\ Sane(ps[p]) /\ ps \in Tables
  BY Unpack, Zenon
<1>2. PICK kind : kind = IF ps[p].itimer = "interval" THEN ps[p].itimer ELSE "off"
  OBVIOUS
<1>3. kind \in {"off", "once", "interval"} /\ (ps[p].itimer = "off" => kind = "off")
  BY <1>2
<1>4. PICK t : t = [ps[p] EXCEPT !.itimer = kind]
  OBVIOUS
<1>5. /\ t \in PCB /\ SameKin(ps[p], t)
      /\ t.rpc = ps[p].rpc /\ t.waiter = ps[p].waiter /\ t.state = ps[p].state
      /\ t.itimer = kind
      /\ t.pendingStop = ps[p].pendingStop /\ t.pendingCont = ps[p].pendingCont
  BY <1>1, <1>3, <1>4, TimerEdit
<1>6. Rest(ps[p], t)
  BY <1>1, <1>3, <1>4, TimerRest
<1>7. PICK ms : ms = Put(ps, p, t)
  OBVIOUS
<1>8. Sane(t) /\ Kept(ps[p], t)
  BY <1>1, <1>3, <1>5, Zenon DEF Sane, SameKin, Kept, Alive
<1>9. Plain(ps, ms)
  BY <1>5, <1>6, <1>7, <1>8, PutPlain, Zenon DEF Rest
<1>10. FireTimer(ps, p) = Deliver(ms, p, "ALRM")
  BY <1>1, <1>2, <1>4, <1>7, Zenon DEF FireTimer, Put
<1>11. TableInv(ms)
  BY <1>9, Zenon DEF Plain, Mild
<1> QED
  BY <1>9, <1>10, <1>11, DeliverGood, PlainThen, Zenon

-----------------------------------------------------------------------------
(* Edits of one process, and reaps, as steps.                                *)

\* Who is parked has an answer outstanding.
LEMMA ParkedOwed ==
  ASSUME NEW ps, TableInv(ps), NEW q \in Pid, ps[q].waiter.on
  PROVE  ps[q].rpc.tag = "deferred" /\ ps[q].rpc.tag \notin {"exit", "stop", "cont"}
<1>1. ps[q].rpc.tag = "deferred"
  BY Zenon DEF TableInv, Sane
<1> QED
  BY <1>1

LEMMA ChlQuiet ==
  ASSUME NEW ps, TableInv(ps), NEW qs,
         \A q \in Pid : ps[q].waiter.on =>
           qs[q].rpc = ps[q].rpc \/ qs[q].rpc.tag \notin {"exit", "stop", "cont"}
  PROVE  Chl(ps, qs)
<1>1. ASSUME NEW q \in Pid, ps[q].waiter.on
      PROVE  qs[q].rpc.tag \notin {"exit", "stop", "cont"}
  <2>1. ps[q].rpc.tag \notin {"exit", "stop", "cont"}
    BY <1>1, ParkedOwed, Zenon
  <2> QED
    BY <1>1, <2>1, Zenon
<1> QED
  BY <1>1, Zenon DEF Chl

\* An edit of one process that answers nobody.
LEMMA EditGood ==
  ASSUME NEW ps, TableInv(ps), NEW p \in Pid, NEW qs,
         \A q \in Pid : q # p => qs[q] = ps[q],
         qs[p].listed = ps[p].listed, qs[p].ppid = ps[p].ppid, qs[p].children = ps[p].children,
         qs[p].waiter = ps[p].waiter, qs[p].state = ps[p].state, qs[p].missed = ps[p].missed,
         qs[p].pgid = ps[p].pgid \/ ps[p].state # "zombie",
         qs[p].rpc = ps[p].rpc \/ (~ps[p].waiter.on /\ qs[p].rpc.tag \notin {"stop", "cont"})
  PROVE  Good(ps, qs)
<1>1. \A q \in Pid : /\ qs[q].listed = ps[q].listed /\ qs[q].children = ps[q].children
                     /\ qs[q].waiter = ps[q].waiter /\ qs[q].state = ps[q].state
                     /\ qs[q].missed = ps[q].missed
                     /\ (qs[q].pgid = ps[q].pgid \/ ps[q].state # "zombie")
                     /\ (qs[q].rpc = ps[q].rpc \/ qs[q].rpc.tag \notin {"stop", "cont"})
                     /\ (ps[q].waiter.on => qs[q].rpc = ps[q].rpc)
                     /\ qs[q].children \subseteq Pid
  <2>1. \A q \in Pid : ps[q].children \subseteq Pid
    BY Unpack, Fields, Zenon
  <2> QED
    BY <2>1, Zenon
<1>2. \A q \in Pid : Alive(qs[q]) <=> Alive(ps[q])
  BY <1>1, Zenon DEF Alive
<1>3. Rep(ps, qs)
  BY <1>1, Zenon DEF Rep
<1>4. Chl(ps, qs)
  <2>1. \A q \in Pid : ps[q].waiter.on =>
           qs[q].rpc = ps[q].rpc \/ qs[q].rpc.tag \notin {"exit", "stop", "cont"}
    BY <1>1, Zenon
  <2> QED
    BY <2>1, ChlQuiet, Zenon
<1>5. ASSUME Safe(ps) PROVE Safe(qs)
  <2>1. Kids(qs)
    BY <1>1, <1>2, <1>5, Zenon DEF Safe, Kids
  <2>2. ASSUME NEW q \in Pid, NEW c \in Pid, Due(qs, q, c)
        PROVE  FALSE
    <3>1. /\ Alive(qs[q]) /\ c \in qs[q].children
          /\ qs[c].state = "zombie" /\ ~qs[c].missed
      BY <2>2, Zenon DEF Due
    <3>2. qs[q].waiter = ps[q].waiter /\ ~ps[c].missed /\ qs[c].pgid = ps[c].pgid
          /\ ps[c].state = "zombie" /\ c \in ps[q].children /\ Alive(ps[q])
      BY <1>1, <1>2, <3>1, Zenon
    <3>3. Due(ps, q, c)
      BY <2>2, <3>2, DueBefore, Zenon
    <3>4. c = 0
      BY <1>5, <3>3, Zenon DEF Safe, Served
    <3> QED
      BY <3>4, ZeroNotPid, Zenon
  <2> QED
    BY <2>1, <2>2, Zenon DEF Safe, Served
<1> QED
  BY <1>3, <1>4, <1>5, Zenon DEF Good

\* The same for an edit of a field that none of this reads.
LEMMA FieldGood ==
  ASSUME NEW ps, TableInv(ps), NEW p \in Pid, NEW t,
         SameKin(ps[p], t), t.rpc = ps[p].rpc, t.waiter = ps[p].waiter, t.state = ps[p].state,
         t.missed = ps[p].missed,
         NEW qs, qs = Put(ps, p, t)
  PROVE  Good(ps, qs)
<1>1. qs[p] = t
  BY Zenon DEF TableInv, Tables, Put
<1>2. \A q \in Pid : q # p => qs[q] = ps[q]
  BY Zenon DEF TableInv, Tables, Put
<1>3. /\ qs[p].listed = ps[p].listed /\ qs[p].ppid = ps[p].ppid /\ qs[p].children = ps[p].children
      /\ qs[p].pgid = ps[p].pgid /\ qs[p].rpc = ps[p].rpc /\ qs[p].waiter = ps[p].waiter
      /\ qs[p].state = ps[p].state /\ qs[p].missed = ps[p].missed
  BY <1>1, Zenon DEF SameKin
<1> QED
  BY <1>2, <1>3, EditGood

LEMMA ReapGood ==
  ASSUME NEW ps, TableInv(ps), NEW z \in Pid, ~Alive(ps[z]), NEW qs, qs = Reap(ps, z)
  PROVE  Good(ps, qs) /\ Thin(ps, qs) /\ TableInv(qs)
<1>1. Thin(ps, qs) /\ TableInv(qs)
  BY ReapThin, ThinTame, Zenon DEF Tame
<1>2. \A q \in Pid : qs[q].rpc = ps[q].rpc
  BY <1>1, Zenon DEF Thin, SameSelf
<1>3. Rep(ps, qs)
  BY <1>2, Zenon DEF Rep
<1>4. Chl(ps, qs)
  <2>1. \A q \in Pid : ps[q].waiter.on =>
           qs[q].rpc = ps[q].rpc \/ qs[q].rpc.tag \notin {"exit", "stop", "cont"}
    BY <1>2, Zenon
  <2> QED
    BY <2>1, ChlQuiet, Zenon
<1>5. ASSUME Safe(ps) PROVE Safe(qs)
  <2>1. Kids(ps) /\ Served(ps, 0)
    BY <1>5, Zenon DEF Safe
  <2>2. /\ Kids(qs)
        /\ \A p, c \in Pid : Due(qs, p, c) => c # z /\ Due(ps, p, c)
    BY <2>1, ReapDue
  <2> QED
    BY <2>1, <2>2, Zenon DEF Safe, Served
<1> QED
  BY <1>1, <1>3, <1>4, <1>5, Zenon DEF Good

\* A wait that finds a stop or a continue unreported.
LEMMA ReportGood ==
  ASSUME NEW ps, TableInv(ps), NEW p \in Pid, ~ps[p].waiter.on,
         NEW c \in ps[p].children, ps[c].listed, NEW kind \in {"stop", "cont"},
         NEW ms, ms = Cleared(ps, c, kind), NEW qs, qs = Respond(ms, p, Rpc(kind, c))
  PROVE  Good(ps, qs)
<1>1. c \in Pid /\ ps[c].ppid = p
  BY Unpack, Fields, Zenon DEF TableInv, Linked
<1>2. SoftAll(ps, ms) /\ Mute(ps, ms) /\ ~Flag(kind, ms[c]) /\ Mild(ps, ms)
  BY <1>1, ClearSoft
<1>3. TableInv(ms) /\ ms[c].ppid = p /\ ~ms[p].waiter.on
  BY <1>1, <1>2, Zenon DEF Mild, SameKin, SoftAll, Soft
<1>4. Rpc(kind, c) \in Rpcs
  BY <1>1, Constants
<1>5. /\ TableInv(qs) /\ \A q \in Pid : q # p => qs[q] = ms[q]
      /\ \A q \in Pid : SameKin(ms[q], qs[q])
      /\ qs[p].state = ms[p].state /\ ~qs[p].waiter.on
      /\ IF Alive(ms[p]) THEN qs[p].rpc = Rpc(kind, c) ELSE qs = ms
  BY <1>3, <1>4, RespondStep
<1>6. SoftAll(ms, qs) /\ SameFlags(ms, qs)
  BY <1>3, <1>4, RespondSoft
<1>7. qs[c].ppid = p /\ ~Flag(kind, qs[c])
  BY <1>1, <1>2, <1>3, <1>5, <1>6, Zenon DEF SameKin, SameFlags, Flag
<1>8. \A q \in Pid : qs[q].rpc = ps[q].rpc \/ (q = p /\ qs[q].rpc = Rpc(kind, c))
  BY <1>2, <1>5, Zenon DEF Mute
<1>9. Rep(ps, qs)
  BY <1>1, <1>7, <1>8, ZenonT(60) DEF Rep
<1>10. Chl(ps, qs)
  <2>1. \A q \in Pid : ps[q].waiter.on =>
           qs[q].rpc = ps[q].rpc \/ qs[q].rpc.tag \notin {"exit", "stop", "cont"}
    BY <1>8, Zenon
  <2> QED
    BY <2>1, ChlQuiet, Zenon
<1>11. ASSUME Safe(ps) PROVE Safe(qs)
  <2>1. Safe(ms)
    BY <1>2, <1>11, SoftSafe, Zenon
  <2> QED
    BY <1>3, <1>4, <2>1, RespondSafe
<1> QED
  BY <1>9, <1>10, <1>11, Zenon DEF Good

\* A wait that parks beside no zombie it selects.
LEMMA ParkGood ==
  ASSUME NEW ps, TableInv(ps), NEW p \in Pid, ~ps[p].waiter.on, NEW qs,
         \A q \in Pid : q # p => qs[q] = ps[q],
         qs[p].listed = ps[p].listed, qs[p].ppid = ps[p].ppid, qs[p].children = ps[p].children,
         qs[p].pgid = ps[p].pgid, qs[p].state = ps[p].state, qs[p].missed = ps[p].missed,
         qs[p].rpc.tag = "deferred",
         \A c \in ps[p].children :
           ps[c].listed /\ WaitSelectorMatch(ps, qs[p].waiter.sel, p, c) => ps[c].state # "zombie"
  PROVE  Good(ps, qs)
<1>1. \A q \in Pid : /\ qs[q].listed = ps[q].listed /\ qs[q].children = ps[q].children
                     /\ qs[q].state = ps[q].state /\ qs[q].pgid = ps[q].pgid
                     /\ qs[q].missed = ps[q].missed
                     /\ (ps[q].waiter.on => qs[q].rpc = ps[q].rpc)
                     /\ qs[q].children \subseteq Pid
  <2>1. \A q \in Pid : ps[q].children \subseteq Pid
    BY Unpack, Fields, Zenon
  <2> QED
    BY <2>1, Zenon
<1>2. \A q \in Pid : Alive(qs[q]) <=> Alive(ps[q])
  BY <1>1, Zenon DEF Alive
<1>3. Rep(ps, qs)
  <2>1. qs[p].rpc.tag \notin {"stop", "cont"}
    OBVIOUS
  <2> QED
    BY <2>1, Zenon DEF Rep
<1>4. Chl(ps, qs)
  <2>1. \A q \in Pid : ps[q].waiter.on =>
           qs[q].rpc = ps[q].rpc \/ qs[q].rpc.tag \notin {"exit", "stop", "cont"}
    BY <1>1, Zenon
  <2> QED
    BY <2>1, ChlQuiet, Zenon
<1>5. ASSUME Safe(ps) PROVE Safe(qs)
  <2>1. Kids(qs)
    BY <1>1, <1>2, <1>5, Zenon DEF Safe, Kids
  <2>2. ASSUME NEW q \in Pid, NEW c \in Pid, Due(qs, q, c)
        PROVE  FALSE
    <3>1. /\ Alive(ps[q]) /\ c \in ps[q].children /\ WaitsFor(qs, q, c)
          /\ ps[c].state = "zombie" /\ ~ps[c].missed
      BY <1>1, <1>2, <2>2, Zenon DEF Due
    <3>2. CASE q # p
      <4>1. qs[q].waiter = ps[q].waiter /\ qs[c].pgid = ps[c].pgid
        BY <1>1, <3>2, Zenon
      <4>2. Due(ps, q, c)
        BY <2>2, <3>1, <4>1, DueBefore, Zenon
      <4>3. c = 0
        BY <1>5, <4>2, Zenon DEF Safe, Served
      <4> QED
        BY <4>3, ZeroNotPid, Zenon
    <3>3. CASE q = p
      <4>1. ps[c].listed
        BY <1>5, <3>1, Zenon DEF Safe, Kids
      <4>2. WaitSelectorMatch(ps, qs[p].waiter.sel, p, c)
        BY <1>1, <3>1, <3>3, Zenon DEF WaitsFor, WaitSelectorMatch
      <4> QED
        BY <3>1, <3>3, <4>1, <4>2, Zenon
    <3> QED
      BY <3>2, <3>3
  <2> QED
    BY <2>1, <2>2, Zenon DEF Safe, Served
<1> QED
  BY <1>3, <1>4, <1>5, Zenon DEF Good

\* A new entry in the table.
LEMMA AddedRest ==
  ASSUME NEW ps, TableInv(ps), NEW n \in Pid, NEW q \in Pid \cup {0}, q # n, NEW t \in PCB,
         NEW qs, qs = Added(ps, n, q, t)
  PROVE  qs[n] = t /\ \A o \in Pid : o # n => Rest(ps[o], qs[o])
<1>1. PICK rs : rs = Put(ps, n, t)
  OBVIOUS
<1>2. rs \in Tables /\ rs[n] = t /\ \A o \in Pid : o # n => rs[o] = ps[o]
  BY <1>1, Zenon DEF TableInv, Tables, Put
<1>3. CASE q = 0
  <2>1. qs = rs
    BY <1>1, <1>3, Zenon DEF Added
  <2> QED
    BY <1>2, <2>1, Zenon DEF Rest
<1>4. CASE q # 0
  <2>1. q \in Pid
    BY <1>4
  <2>2. PICK v : v = rs[q].children \cup {n}
    OBVIOUS
  <2>3. rs[q] \in PCB
    BY <1>2, <2>1, Zenon DEF Tables
  <2>4. v \in SUBSET Pid
    <3>1. rs[q].children \subseteq Pid
      BY <2>3, Fields, Zenon
    <3> QED
      BY <2>2, <3>1, Zenon
  <2>5. PICK r : r = [rs[q] EXCEPT !.children = v]
    OBVIOUS
  <2>6. Rest(rs[q], r)
    BY <2>3, <2>4, <2>5, ChildrenRest
  <2>7. qs = [rs EXCEPT ![q] = r]
    BY <1>1, <1>2, <1>4, <2>1, <2>2, <2>5, Zenon DEF Added
  <2>8. qs[q] = r /\ \A o \in Pid : o # q => qs[o] = rs[o]
    BY <1>2, <2>1, <2>7, Zenon DEF Tables
  <2> QED
    BY <1>2, <2>1, <2>6, <2>8, Zenon DEF Rest
<1> QED
  BY <1>3, <1>4

LEMMA AddedGood ==
  ASSUME NEW ps, TableInv(ps), NEW n \in Pid, NEW q \in Pid \cup {0}, q # 0 => q < n, q # n,
         \A o \in Pid : n \notin ps[o].children, ~Alive(ps[n]),
         NEW t \in PCB, Sane(t), t.ppid = q, t.children = {},
         t.listed, t.state = "running", t.waiter = NoWaiter, t.rpc = Done,
         NEW qs, qs = Added(ps, n, q, t)
  PROVE  Good(ps, qs) /\ TableInv(qs)
<1>1. /\ TableInv(qs)
      /\ \A o \in Pid : o # n =>
           /\ SameSelf(ps[o], qs[o]) /\ qs[o].listed = ps[o].listed
           /\ qs[o].children \subseteq ps[o].children \cup {n}
  BY AddedStep
<1>2. qs[n] = t /\ \A o \in Pid : o # n => Rest(ps[o], qs[o])
  BY AddedRest
<1>3. t.rpc.tag = "done" /\ ~t.waiter.on
  <2>1. Done.tag = "done"
    BY DEF Done, Rpc
  <2> QED
    BY <2>1, Constants, Zenon
<1>4. \A o \in Pid : o # n => qs[o].rpc = ps[o].rpc
  BY <1>1, Zenon DEF SameSelf
<1>5. Rep(ps, qs)
  <2>1. qs[n].rpc.tag \notin {"stop", "cont"}
    BY <1>2, <1>3
  <2> QED
    BY <1>4, <2>1, Zenon DEF Rep
<1>6. Chl(ps, qs)
  <2>1. qs[n].rpc.tag \notin {"exit", "stop", "cont"}
    BY <1>2, <1>3
  <2> QED
    <3>1. \A o \in Pid : ps[o].waiter.on =>
             qs[o].rpc = ps[o].rpc \/ qs[o].rpc.tag \notin {"exit", "stop", "cont"}
      BY <1>4, <2>1, Zenon
    <3> QED
      BY <3>1, ChlQuiet, Zenon
<1>7. ASSUME Safe(ps) PROVE Safe(qs)
  <2>1. \A o \in Pid : o # n => (Alive(qs[o]) => Alive(ps[o]))
    BY <1>1, Zenon DEF SameSelf, Alive
  <2>2. Kids(qs)
    <3>1. ASSUME NEW o \in Pid, Alive(qs[o]), o # n, NEW c \in qs[o].children
          PROVE  qs[c].listed
      <4>1. c = n \/ c \in ps[o].children
        BY <1>1, <3>1, Zenon
      <4>2. c \in Pid
        BY <1>1, <3>1, Unpack, Fields, Zenon
      <4>3. CASE c = n
        BY <1>2, <4>3, Zenon
      <4>4. CASE c # n
        <5>1. ps[c].listed
          BY <1>7, <2>1, <3>1, <4>1, <4>4, Zenon DEF Safe, Kids
        <5> QED
          BY <1>1, <4>2, <4>4, <5>1, Zenon
      <4> QED
        BY <4>3, <4>4
    <3>2. ASSUME NEW o \in Pid, Alive(qs[o]), o # n PROVE qs[o].listed
      BY <1>1, <1>7, <2>1, <3>2, Zenon DEF Safe, Kids
    <3>3. qs[n].listed /\ qs[n].children = {}
      BY <1>2, Zenon
    <3> QED
      BY <3>1, <3>2, <3>3, Zenon DEF Kids
  <2>3. ASSUME NEW o \in Pid, NEW c \in Pid, Due(qs, o, c)
        PROVE  FALSE
    <3>1. qs[o].waiter.on /\ c \in qs[o].children /\ qs[c].state = "zombie"
      BY <2>3, Zenon DEF Due, WaitsFor
    <3>2. o # n /\ c # n
      BY <1>2, <1>3, <3>1
    <3>3. c \in ps[o].children /\ SameSelf(ps[o], qs[o]) /\ SameSelf(ps[c], qs[c]) /\ Rest(ps[c], qs[c])
      BY <1>1, <1>2, <3>1, <3>2, Zenon
    <3>4. Due(ps, o, c)
      BY <2>3, <3>3, SelfDue, Zenon
    <3>5. c = 0
      BY <1>7, <3>4, Zenon DEF Safe, Served
    <3> QED
      BY <3>5, ZeroNotPid, Zenon
  <2> QED
    BY <2>2, <2>3, Zenon DEF Safe, Served
<1> QED
  BY <1>1, <1>5, <1>6, <1>7, Zenon DEF Good

-----------------------------------------------------------------------------
(* Each step is good.                                                        *)

LEMMA DoneSilent == Done \in Rpcs /\ Done.tag \notin {"stop", "cont"}
<1>1. Done.tag = "done"
  BY DEF Done, Rpc
<1> QED
  BY <1>1, DoneReply

\* The answer at the end of a handler.
LEMMA ReplyGood ==
  ASSUME NEW ps, TableInv(ps), NEW p \in Pid, ~ps[p].waiter.on,
         NEW ms, Lawful(ps, ms), Good(ps, ms),
         NEW v \in Rpcs, v.tag \notin {"stop", "cont"}, NEW qs, qs = Respond(ms, p, v)
  PROVE  Good(ps, qs)
<1>1. Tame(ps, ms) /\ TableInv(ms)
  BY Zenon DEF Lawful, Tame
<1>2. ~ms[p].waiter.on
  BY <1>1, ParkedBefore, Zenon
<1> QED
  BY <1>1, <1>2, ThenRespond

LEMMA DoneGood ==
  ASSUME NEW ps, TableInv(ps), NEW p \in Pid, ~ps[p].waiter.on,
         NEW ms, Lawful(ps, ms), Good(ps, ms), NEW qs, qs = Respond(ms, p, Done)
  PROVE  Good(ps, qs)
BY DoneSilent, ReplyGood

LEMMA PageGood ==
  ASSUME NEW ps, TableInv(ps), NEW p \in Pid, ~ps[p].waiter.on,
         NEW v \in Rpcs, v.tag \notin {"stop", "cont"}, NEW qs, qs = Paged(ps, p, v)
  PROVE  Good(ps, qs)
<1>1. ps[p] \in PCB /\ ps \in Tables
  BY Unpack, Zenon
<1>2. PICK t : t = [ps[p] EXCEPT !.rpc = v]
  OBVIOUS
<1>3. SameKin(ps[p], t) /\ t.rpc = v /\ t.waiter = ps[p].waiter /\ t.state = ps[p].state
  BY <1>1, <1>2, RpcEdit
<1>4. t.missed = ps[p].missed
  BY <1>1, <1>2, RpcRest, SMTT(30) DEF Rest
<1>5. qs[p] = t
  BY <1>1, <1>2, Zenon DEF Paged, Tables
<1>6. \A q \in Pid : q # p => qs[q] = ps[q]
  BY <1>1, <1>2, Zenon DEF Paged, Tables
<1>7. /\ qs[p].listed = ps[p].listed /\ qs[p].ppid = ps[p].ppid /\ qs[p].children = ps[p].children
      /\ qs[p].pgid = ps[p].pgid /\ qs[p].rpc = v /\ qs[p].waiter = ps[p].waiter
      /\ qs[p].state = ps[p].state /\ qs[p].missed = ps[p].missed
  BY <1>3, <1>4, <1>5, Zenon DEF SameKin
<1> QED
  BY <1>6, <1>7, EditGood

LEMMA CallGood ==
  ASSUME IInv, NEW p \in Pid, Call(p)
  PROVE  Good(procs, procs')
<1>1. AtSafePoint(p) /\ procs' = [procs EXCEPT ![p].rpc = Rpc("posted", 0)]
  BY Zenon DEF Call
<1>2. ~procs[p].waiter.on /\ TableInv(procs)
  BY <1>1, SafeFacts, Zenon
<1>3. Rpc("posted", 0) \in Rpcs /\ Rpc("posted", 0).tag = "posted"
  BY Constants
<1>4. Rpc("posted", 0).tag \notin {"stop", "cont"}
  BY <1>3
<1>5. procs' = Paged(procs, p, Rpc("posted", 0))
  BY <1>1, Zenon DEF Paged
<1> QED
  BY <1>2, <1>3, <1>4, <1>5, PageGood

LEMMA TakeSignalGood ==
  ASSUME IInv, NEW p \in Pid, NEW sig \in Sigs, TakeSignal(p, sig)
  PROVE  Good(procs, procs')
<1>1. PICK taken : taken = [procs EXCEPT ![p].pend = procs[p].pend \ {sig}]
  OBVIOUS
<1>2. AtSafePoint(p) /\ (procs' = taken \/ procs' = ExitProcess(taken, p))
  BY <1>1, Zenon DEF TakeSignal
<1>3. TableInv(procs) /\ procs[p] \in PCB /\ procs \in Tables /\ Sane(procs[p])
  BY <1>2, SafeFacts, Unpack, Zenon
<1>3a. procs[p] \in PCB
  BY <1>3
<1>4. PICK v : v = procs[p].pend \ {sig}
  OBVIOUS
<1>5. v \in SUBSET Sigs
  BY <1>3, <1>4, Fields, Zenon
<1>6. PICK t : t = [procs[p] EXCEPT !.pend = v]
  OBVIOUS
<1>7. /\ t \in PCB /\ SameKin(procs[p], t)
      /\ t.rpc = procs[p].rpc /\ t.waiter = procs[p].waiter /\ t.state = procs[p].state
      /\ t.itimer = procs[p].itimer
      /\ t.pendingStop = procs[p].pendingStop /\ t.pendingCont = procs[p].pendingCont
  BY <1>3a, <1>5, <1>6, PendEdit
<1>8. t.disp = procs[p].disp /\ t.missed = procs[p].missed
  BY <1>3, <1>5, <1>6, PendRest
<1>9. Sane(t) /\ Kept(procs[p], t)
  BY <1>3, <1>7, Zenon DEF Sane, SameKin, Kept, Alive
<1>10. Plain(procs, Put(procs, p, t))
  BY <1>3, <1>7, <1>8, <1>9, PutPlain, Zenon
<1>11. taken = Put(procs, p, t)
  BY <1>1, <1>3, <1>4, <1>6, Zenon DEF Put
<1>12. Plain(procs, taken) /\ TableInv(taken)
  BY <1>10, <1>11, Zenon DEF Plain, Mild
<1>13. Good(taken, taken) /\ Good(taken, ExitProcess(taken, p))
  BY <1>12, GoodRefl, ExitGood, Zenon
<1> QED
  BY <1>2, <1>12, <1>13, PlainThen, Zenon

LEMMA SetMaskGood ==
  ASSUME IInv, NEW p \in Pid, SetMask(p)
  PROVE  Good(procs, procs')
<1>1. PICK v \in SUBSET Maskable : procs' = [procs EXCEPT ![p].block = v]
  BY Zenon DEF SetMask
<1>2. TableInv(procs) /\ procs[p] \in PCB /\ procs \in Tables
  BY Unpack, Zenon DEF IInv
<1>3. v \in SUBSET Sigs
  BY SigsAssumption
<1>4. PICK t : t = [procs[p] EXCEPT !.block = v]
  OBVIOUS
<1>5. /\ SameKin(procs[p], t)
      /\ t.rpc = procs[p].rpc /\ t.waiter = procs[p].waiter /\ t.state = procs[p].state
  BY <1>2, <1>3, <1>4, BlockEdit, ZenonT(60)
<1>6. t.missed = procs[p].missed
  BY <1>2, <1>3, <1>4, BlockRest, SMTT(30) DEF Rest
<1>7. procs' = Put(procs, p, t)
  BY <1>1, <1>2, <1>4, Zenon DEF Put
<1> QED
  BY <1>2, <1>5, <1>6, <1>7, FieldGood

LEMMA WorkerDiesGood ==
  ASSUME IInv, NEW p \in Pid, WorkerDies(p)
  PROVE  Good(procs, procs')
<1>1. PICK lost : lost = [procs EXCEPT ![p].worker = "lost"]
  OBVIOUS
<1>2. procs' = lost \/ procs' = ExitProcess(lost, p)
  BY <1>1, Zenon DEF WorkerDies
<1>3. TableInv(procs) /\ procs[p] \in PCB /\ procs \in Tables /\ Sane(procs[p])
  BY Unpack, Zenon DEF IInv
<1>4. PICK v \in {"none", "up", "lost"} : v = "lost"
  OBVIOUS
<1>5. PICK t : t = [procs[p] EXCEPT !.worker = v]
  OBVIOUS
<1>6. /\ t \in PCB /\ SameKin(procs[p], t)
      /\ t.rpc = procs[p].rpc /\ t.waiter = procs[p].waiter /\ t.state = procs[p].state
      /\ t.itimer = procs[p].itimer
      /\ t.pendingStop = procs[p].pendingStop /\ t.pendingCont = procs[p].pendingCont
  BY <1>3, <1>5, WorkerEdit
<1>7. t.disp = procs[p].disp /\ t.missed = procs[p].missed
  BY <1>3, <1>5, WorkerRest, Zenon DEF Rest
<1>8. Sane(t) /\ Kept(procs[p], t)
  BY <1>3, <1>6, Zenon DEF Sane, SameKin, Kept, Alive
<1>9. Plain(procs, Put(procs, p, t))
  BY <1>3, <1>6, <1>7, <1>8, PutPlain, Zenon
<1>10. lost = Put(procs, p, t)
  BY <1>1, <1>3, <1>4, <1>5, Zenon DEF Put
<1>11. Plain(procs, lost) /\ TableInv(lost)
  BY <1>9, <1>10, Zenon DEF Plain, Mild
<1>12. Good(lost, lost) /\ Good(lost, ExitProcess(lost, p))
  BY <1>11, GoodRefl, ExitGood, Zenon
<1> QED
  BY <1>2, <1>11, <1>12, PlainThen, Zenon

LEMMA InterruptGood ==
  ASSUME IInv, NEW p \in Pid, Interrupt(p)
  PROVE  Good(procs, procs')
<1>1. procs' = Answer(procs, p, Done) /\ procs[p].waiter.on /\ TableInv(procs)
  BY Zenon DEF Interrupt, IInv
<1>2. Mild(procs, procs') /\ procs'[p].rpc = Done
  BY <1>1, DoneReply, AnswerMild
<1>3. \A q \in Pid : q # p => procs'[q] = procs[q]
  BY <1>1, DoneReply, AnswerMild
<1>4. SoftAll(procs, procs')
  BY <1>1, DoneReply, AnswerSoft
<1>5. procs'[p].rpc.tag \notin {"exit", "stop", "cont"}
  BY <1>2 DEF Done, Rpc
<1>6. Rep(procs, procs')
  <2>1. procs'[p].rpc.tag \notin {"stop", "cont"}
    BY <1>5
  <2> QED
    BY <1>3, <2>1, Zenon DEF Rep
<1>7. Chl(procs, procs')
  <2>1. \A q \in Pid : procs[q].waiter.on =>
           procs'[q].rpc = procs[q].rpc \/ procs'[q].rpc.tag \notin {"exit", "stop", "cont"}
    BY <1>3, <1>5, Zenon
  <2> QED
    BY <1>1, <2>1, ChlQuiet, Zenon
<1> QED
  BY <1>2, <1>4, <1>6, <1>7, SoftSafe, Zenon DEF Good

LEMMA WaitGood ==
  ASSUME IInv, NEW p \in Pid, Wait(p)
  PROVE  Good(procs, procs')
<1>1. Dispatched(p)
  BY Zenon DEF Wait
<1>2. Alive(procs[p]) /\ ~procs[p].waiter.on /\ TableInv(procs)
  BY <1>1, DispatchedFacts, Zenon
<1>3. PICK sel \in Sels, opts \in OptSets :
        \/ procs' = Respond(procs, p, Done)
        \/ \E z \in Candidates(p, sel) :
             /\ procs[z].state = "zombie"
             /\ procs' = Respond(Reap(procs, z), p, Rpc("exit", z))
        \/ \E c \in Candidates(p, sel) :
             procs' = Respond([procs EXCEPT ![c].pendingStop = FALSE], p, Rpc("stop", c))
        \/ \E c \in Candidates(p, sel) :
             procs' = Respond([procs EXCEPT ![c].pendingCont = FALSE], p, Rpc("cont", c))
        \/ /\ \A c \in Candidates(p, sel) : procs[c].state # "zombie"
           /\ procs' = [procs EXCEPT ![p].rpc = Rpc("deferred", 0),
                                     ![p].waiter = [on |-> TRUE, sel |-> sel, opts |-> opts]]
  <2>1. PICK sel \in Sels, opts \in OptSets, nohang \in BOOLEAN :
        LET cands == Candidates(p, sel)
            zombies == {c \in cands : procs[c].state = "zombie"}
            stops == {c \in cands : "untraced" \in opts /\ procs[c].pendingStop
                                    /\ procs[c].state = "stopped"}
            conts == {c \in cands : "continued" \in opts /\ procs[c].pendingCont}
        IN \/ /\ cands = {}
              /\ procs' = Respond(procs, p, Done)
           \/ \E z \in zombies :
                procs' = Respond(Reap(procs, z), p, Rpc("exit", z))
           \/ /\ zombies = {}
              /\ \E c \in stops :
                   procs' = Respond([procs EXCEPT ![c].pendingStop = FALSE],
                                    p, Rpc("stop", c))
           \/ /\ zombies = {}
              /\ \E c \in conts :
                   procs' = Respond([procs EXCEPT ![c].pendingCont = FALSE],
                                    p, Rpc("cont", c))
           \/ /\ cands # {} /\ zombies = {} /\ stops = {} /\ conts = {}
              /\ procs' = IF nohang THEN Respond(procs, p, Done)
                          ELSE [procs EXCEPT
                                  ![p].rpc = Rpc("deferred", 0),
                                  ![p].waiter = [on |-> TRUE, sel |-> sel,
                                                 opts |-> opts]]
    BY Zenon DEF Wait
  <2> QED
    BY <2>1, Zenon
<1>4. \A c \in Candidates(p, sel) : c \in procs[p].children /\ procs[c].listed /\ c \in Pid
  <2>1. procs[p].children \subseteq Pid
    BY <1>2, Unpack, Fields, Zenon
  <2> QED
    BY <2>1, Zenon DEF Candidates
<1>5. CASE procs' = Respond(procs, p, Done)
  <2>1. Lawful(procs, procs) /\ Good(procs, procs)
    BY <1>2, LawfulRefl, GoodRefl, Zenon
  <2> QED
    BY <1>2, <1>5, <2>1, DoneGood
<1>6. CASE \E z \in Candidates(p, sel) :
             /\ procs[z].state = "zombie"
             /\ procs' = Respond(Reap(procs, z), p, Rpc("exit", z))
  <2>1. PICK z \in Candidates(p, sel) :
             /\ procs[z].state = "zombie"
             /\ procs' = Respond(Reap(procs, z), p, Rpc("exit", z))
    BY <1>6
  <2>2. z \in Pid /\ ~Alive(procs[z])
    <3>1. z \in Pid
      BY <1>4, Zenon
    <3> QED
      BY <2>1, <3>1 DEF Alive
  <2>3. PICK ms : ms = Reap(procs, z)
    OBVIOUS
  <2>4. Good(procs, ms) /\ Thin(procs, ms) /\ TableInv(ms)
    BY <1>2, <2>2, <2>3, ReapGood
  <2>5. ~ms[p].waiter.on
    BY <1>2, <2>4, Zenon DEF Thin, SameSelf
  <2>6. Rpc("exit", z) \in Rpcs /\ Rpc("exit", z).tag = "exit"
    BY <2>2, Constants
  <2>7. Rpc("exit", z).tag \notin {"stop", "cont"}
    BY <2>6
  <2>8. procs' = Respond(ms, p, Rpc("exit", z))
    BY <2>1, <2>3, Zenon
  <2> QED
    BY <1>2, <2>4, <2>5, <2>6, <2>7, <2>8, ThenRespond
<1>7. CASE \E c \in Candidates(p, sel) :
             procs' = Respond([procs EXCEPT ![c].pendingStop = FALSE], p, Rpc("stop", c))
  <2>1. PICK c \in Candidates(p, sel) :
          procs' = Respond([procs EXCEPT ![c].pendingStop = FALSE], p, Rpc("stop", c))
    BY <1>7
  <2>2. PICK kind \in {"stop", "cont"} : kind = "stop"
    OBVIOUS
  <2>3. PICK ms : ms = Cleared(procs, c, kind)
    OBVIOUS
  <2>4. procs' = Respond(ms, p, Rpc(kind, c))
    BY <2>1, <2>2, <2>3, Zenon DEF Cleared
  <2>5. c \in procs[p].children /\ procs[c].listed
    BY <1>4, Zenon
  <2> QED
    BY <1>2, <2>3, <2>4, <2>5, ReportGood
<1>8. CASE \E c \in Candidates(p, sel) :
             procs' = Respond([procs EXCEPT ![c].pendingCont = FALSE], p, Rpc("cont", c))
  <2>1. PICK c \in Candidates(p, sel) :
          procs' = Respond([procs EXCEPT ![c].pendingCont = FALSE], p, Rpc("cont", c))
    BY <1>8
  <2>2. PICK kind \in {"stop", "cont"} : kind = "cont"
    OBVIOUS
  <2>3. PICK ms : ms = Cleared(procs, c, kind)
    OBVIOUS
  <2>4. kind # "stop"
    BY <2>2
  <2>5. procs' = Respond(ms, p, Rpc(kind, c))
    BY <2>1, <2>2, <2>3, <2>4, Zenon DEF Cleared
  <2>6. c \in procs[p].children /\ procs[c].listed
    BY <1>4, Zenon
  <2> QED
    BY <1>2, <2>3, <2>5, <2>6, ReportGood
<1>9. CASE /\ \A c \in Candidates(p, sel) : procs[c].state # "zombie"
           /\ procs' = [procs EXCEPT ![p].rpc = Rpc("deferred", 0),
                                     ![p].waiter = [on |-> TRUE, sel |-> sel, opts |-> opts]]
  <2>1. PICK w : w = [on |-> TRUE, sel |-> sel, opts |-> opts]
    OBVIOUS
  <2>2. w \in Waiters /\ w.sel = sel
    <3>1. opts \in SUBSET WaitOptions
      BY ArgsAssumption
    <3> QED
      BY <2>1, <3>1, Zenon DEF Waiters
  <2>3. procs[p] \in PCB /\ procs \in Tables
    BY <1>2, Unpack, Zenon
  <2>4. PICK v \in Rpcs : v = Rpc("deferred", 0) /\ v.tag = "deferred"
    <3>1. Rpc("deferred", 0) \in Rpcs /\ Rpc("deferred", 0).tag = "deferred"
      BY Constants
    <3> QED
      BY <3>1, Zenon
  <2>5. PICK r : r = [procs[p] EXCEPT !.rpc = v]
    OBVIOUS
  <2>6. r \in PCB /\ SameKin(procs[p], r) /\ r.rpc = v /\ r.state = procs[p].state
    BY <2>3, <2>5, RpcEdit
  <2>7. Rest(procs[p], r)
    BY <2>3, <2>5, RpcRest
  <2>8. PICK t : t = [r EXCEPT !.waiter = w]
    OBVIOUS
  <2>9. SameKin(r, t) /\ t.rpc = r.rpc /\ t.waiter = w /\ t.state = r.state
    BY <2>2, <2>6, <2>8, WaiterEdit
  <2>10. Rest(r, t)
    BY <2>2, <2>6, <2>8, WaiterRest
  <2>11. procs' = [procs EXCEPT ![p] = t]
    BY <1>9, <2>1, <2>3, <2>4, <2>5, <2>8, Zenon
  <2>12. procs'[p] = t
    BY <2>3, <2>11, Zenon DEF Tables
  <2>13. \A q \in Pid : q # p => procs'[q] = procs[q]
    BY <2>3, <2>11, Zenon DEF Tables
  <2>14. /\ procs'[p].listed = procs[p].listed /\ procs'[p].ppid = procs[p].ppid
         /\ procs'[p].children = procs[p].children
         /\ procs'[p].pgid = procs[p].pgid /\ procs'[p].state = procs[p].state
         /\ procs'[p].missed = procs[p].missed
         /\ procs'[p].rpc.tag = "deferred" /\ procs'[p].waiter.sel = sel
    BY <2>2, <2>4, <2>6, <2>7, <2>9, <2>10, <2>12, Zenon DEF SameKin, Rest
  <2>15. \A c \in procs[p].children :
           procs[c].listed /\ WaitSelectorMatch(procs, procs'[p].waiter.sel, p, c) =>
             procs[c].state # "zombie"
    BY <1>9, <2>14, Zenon DEF Candidates
  <2> QED
    BY <1>2, <2>13, <2>14, <2>15, ParkGood
<1> QED
  BY <1>3, <1>5, <1>6, <1>7, <1>8, <1>9, Zenon

LEMMA ExitActGood ==
  ASSUME IInv, NEW p \in Pid, Exit(p)
  PROVE  Good(procs, procs')
<1>1. procs' = ExitProcess(procs, p)
  BY Zenon DEF Exit
<1> QED
  BY <1>1, ExitGood, Zenon DEF IInv

LEMMA TimerGood ==
  ASSUME IInv, NEW p \in Pid, TimerFires(p)
  PROVE  Good(procs, procs')
<1>1. procs' = FireTimer(procs, p) /\ "ALRM" \in Sigs
  BY Zenon DEF TimerFires
<1> QED
  BY <1>1, FireGood, Zenon DEF IInv

LEMMA StillGood == ASSUME IInv PROVE Good(procs, procs) /\ Lawful(procs, procs) /\ TableInv(procs)
BY GoodRefl, LawfulRefl, Zenon DEF IInv

LEMMA KillGood ==
  ASSUME IInv, NEW p \in Pid, Kill(p)
  PROVE  Good(procs, procs')
<1>1. ~procs[p].waiter.on /\ TableInv(procs)
  BY DispatchedFacts, Zenon DEF Kill
<1>2. PICK t \in Pid, sig \in Sigs :
        procs' = Respond(procs, p, Done) \/ procs' = Respond(Deliver(procs, t, sig), p, Done)
  BY Zenon DEF Kill
<1>3. Lawful(procs, Deliver(procs, t, sig)) /\ Good(procs, Deliver(procs, t, sig))
  BY <1>1, DeliverLawful, DeliverGood, Zenon
<1> QED
  BY <1>1, <1>2, <1>3, StillGood, DoneGood, Zenon

LEMMA DeferGood ==
  ASSUME IInv, NEW p \in Pid, Dispatched(p),
         procs' = Respond(procs, p, Done) \/ procs' = [procs EXCEPT ![p].rpc = Rpc("deferred", 0)]
  PROVE  Good(procs, procs')
<1>1. ~procs[p].waiter.on /\ TableInv(procs)
  BY DispatchedFacts, Zenon
<1>2. Rpc("deferred", 0) \in Rpcs /\ Rpc("deferred", 0).tag = "deferred"
  BY Constants
<1>3. Rpc("deferred", 0).tag \notin {"stop", "cont"}
  BY <1>2
<1>4. CASE procs' = Respond(procs, p, Done)
  BY <1>1, <1>4, StillGood, DoneGood, Zenon
<1>5. CASE procs' = [procs EXCEPT ![p].rpc = Rpc("deferred", 0)]
  <2>1. procs' = Paged(procs, p, Rpc("deferred", 0))
    BY <1>5, Zenon DEF Paged
  <2> QED
    BY <1>1, <1>2, <1>3, <2>1, PageGood
<1> QED
  BY <1>4, <1>5

LEMMA KillGroupGood ==
  ASSUME IInv, NEW p \in Pid, KillGroup(p)
  PROVE  Good(procs, procs')
<1>1. /\ Dispatched(p)
      /\ procs' = Respond(procs, p, Done) \/ procs' = [procs EXCEPT ![p].rpc = Rpc("deferred", 0)]
  BY Zenon DEF KillGroup
<1> QED
  BY <1>1, DeferGood, Zenon

LEMMA SpawnGood ==
  ASSUME IInv, NEW p \in Pid, Spawn(p)
  PROVE  Good(procs, procs')
<1>1. /\ Dispatched(p)
      /\ procs' = Respond(procs, p, Done) \/ procs' = [procs EXCEPT ![p].rpc = Rpc("deferred", 0)]
  BY Zenon DEF Spawn
<1> QED
  BY <1>1, DeferGood, Zenon

LEMMA KillNextGood ==
  ASSUME IInv, KillNext
  PROVE  Good(procs, procs')
<1>1. killing.targets # {}
  BY Zenon DEF KillNext, Quiet
<1>2. /\ killing.targets \in SUBSET Pid /\ killing.sig \in Sigs
      /\ killing.sender \in 0 .. MaxPid
  BY DEF IInv, Books, Kills
<1>3. PICK t : t = CHOOSE x \in killing.targets : \A y \in killing.targets : x <= y
  OBVIOUS
<1>4. t \in Pid
  BY <1>1, <1>2, <1>3, LeastPid, Zenon
<1>5. PICK done : done = Deliver(procs, t, killing.sig)
  OBVIOUS
<1>6. TableInv(procs) /\ Lawful(procs, done) /\ Good(procs, done)
  BY <1>2, <1>4, <1>5, DeliverLawful, DeliverGood, Zenon DEF IInv
<1>7. PICK k : k = killing.sender
  OBVIOUS
<1>8. Owed(procs, {k})
  BY <1>1, <1>7, Zenon DEF IInv, SenderOwed
<1>9. procs' = done \/ procs' = IF k = 0 THEN done ELSE Respond(done, k, Done)
  BY <1>3, <1>5, <1>7, Zenon DEF KillNext
<1>10. CASE procs' = done
  BY <1>6, <1>10, Zenon
<1>11. CASE k # 0 /\ procs' = Respond(done, k, Done)
  <2>1. k \in Pid
    BY <1>2, <1>7, <1>11, MaxPidAssumption DEF Pid
  <2>2. Sane(procs[k])
    BY <1>6, <2>1, Unpack, Zenon
  <2>3. ~procs[k].waiter.on
    BY <1>8, <2>1, <2>2, Zenon DEF Owed, Sane
  <2> QED
    BY <1>6, <1>11, <2>1, <2>3, DoneGood, Zenon
<1> QED
  BY <1>9, <1>10, <1>11, Zenon

LEMMA SetDispositionGood ==
  ASSUME IInv, NEW p \in Pid, SetDisposition(p)
  PROVE  Good(procs, procs')
<1>1. ~procs[p].waiter.on
  BY DispatchedFacts, Zenon DEF SetDisposition
<1>2. PICK sig \in Handled, kind \in Kinds :
        procs' = Respond([procs EXCEPT ![p].disp[sig] = kind], p, Done)
  BY Zenon DEF SetDisposition
<1>3. sig \in Sigs /\ kind \in Dispositions
  BY SigsAssumption
<1>4. procs[p] \in PCB /\ procs \in Tables /\ TableInv(procs)
  BY Unpack, Zenon DEF IInv
<1>5. PICK v : v = [procs[p].disp EXCEPT ![sig] = kind]
  OBVIOUS
<1>6. v \in [Sigs -> Dispositions]
  <2>1. procs[p].disp \in [Sigs -> Dispositions]
    BY <1>4, Fields, Zenon
  <2> QED
    BY <1>3, <1>5, <2>1, Zenon
<1>7. PICK t : t = [procs[p] EXCEPT !.disp = v]
  OBVIOUS
<1>8. /\ t \in PCB /\ SameKin(procs[p], t)
      /\ t.rpc = procs[p].rpc /\ t.waiter = procs[p].waiter /\ t.state = procs[p].state
      /\ t.itimer = procs[p].itimer
      /\ t.pendingStop = procs[p].pendingStop /\ t.pendingCont = procs[p].pendingCont
  BY <1>4, <1>6, <1>7, DispEdit
<1>9. t.missed = procs[p].missed
  BY <1>4, <1>6, <1>7, DispRest
<1>10. PICK ms : ms = Put(procs, p, t)
  OBVIOUS
<1>11. Good(procs, ms)
  BY <1>4, <1>8, <1>9, <1>10, FieldGood
<1>12. Lawful(procs, ms)
  BY <1>4, <1>8, <1>10, LowerMild, MildLawful
<1>13. procs' = Respond(ms, p, Done)
  BY <1>2, <1>4, <1>5, <1>7, <1>10, Zenon DEF Put
<1> QED
  BY <1>1, <1>4, <1>11, <1>12, <1>13, DoneGood, Zenon

LEMMA SetPgidGood ==
  ASSUME IInv, NEW p \in Pid, SetPgid(p)
  PROVE  Good(procs, procs')
<1>1. ~procs[p].waiter.on
  BY DispatchedFacts, Zenon DEF SetPgid
<1>2. PICK t \in Pid, g \in PgidArgs :
        \/ procs' = Respond(procs, p, Done)
        \/ /\ procs[t].state # "zombie"
           /\ procs' = Respond([procs EXCEPT ![t].pgid = IF g > 0 THEN g ELSE t], p, Done)
  BY Zenon DEF SetPgid
<1>3. procs[t] \in PCB /\ procs \in Tables /\ TableInv(procs)
  BY Unpack, Zenon DEF IInv
<1>4. PICK v : v = IF g > 0 THEN g ELSE t
  OBVIOUS
<1>5. v \in 0 .. MaxPid /\ v # 0
  BY <1>4, ArgsAssumption, MaxPidAssumption DEF Pid
<1>6. PICK r : r = [procs[t] EXCEPT !.pgid = v]
  OBVIOUS
<1>7. /\ r \in PCB /\ r.listed = procs[t].listed /\ r.ppid = procs[t].ppid /\ r.pgid = v
      /\ r.children = procs[t].children
      /\ r.rpc = procs[t].rpc /\ r.waiter = procs[t].waiter /\ r.state = procs[t].state
      /\ r.itimer = procs[t].itimer
      /\ r.pendingStop = procs[t].pendingStop /\ r.pendingCont = procs[t].pendingCont
  BY <1>3, <1>5, <1>6, GroupEdit
<1>8. r.missed = procs[t].missed
  <2>1. Rest(procs[t], r)
    BY <1>3, <1>5, <1>6, GroupRest, ZenonT(60)
  <2> QED
    BY <2>1 DEF Rest
<1>9. PICK ms : ms = Put(procs, t, r)
  OBVIOUS
<1>10. Lawful(procs, ms)
  BY <1>3, <1>5, <1>7, <1>9, EditLawful, Zenon
<1>11. ms[t] = r
  BY <1>3, <1>9, Zenon DEF Put, Tables
<1>12. \A q \in Pid : q # t => ms[q] = procs[q]
  BY <1>3, <1>9, Zenon DEF Put, Tables
<1>13. ASSUME procs[t].state # "zombie" PROVE Good(procs, ms)
  BY <1>3, <1>7, <1>8, <1>11, <1>12, <1>13, EditGood
<1>14. [procs EXCEPT ![t].pgid = IF g > 0 THEN g ELSE t] = ms
  BY <1>3, <1>4, <1>6, <1>9, Zenon DEF Put
<1>15. \/ procs' = Respond(procs, p, Done)
       \/ procs[t].state # "zombie" /\ procs' = Respond(ms, p, Done)
  BY <1>2, <1>14, Zenon
<1> QED
  BY <1>1, <1>3, <1>10, <1>13, <1>15, StillGood, DoneGood, Zenon

LEMMA SetSidGood ==
  ASSUME IInv, NEW p \in Pid, SetSid(p)
  PROVE  Good(procs, procs')
<1>1. ~procs[p].waiter.on /\ Alive(procs[p])
  BY DispatchedFacts, Zenon DEF SetSid
<1>2. procs' = Respond(procs, p, Done)
      \/ procs' = Respond([procs EXCEPT ![p].pgid = p, ![p].sid = p], p, Done)
  BY Zenon DEF SetSid
<1>3. procs[p] \in PCB /\ procs \in Tables /\ TableInv(procs)
  BY Unpack, Zenon DEF IInv
<1>4. p \in 0 .. MaxPid /\ p # 0
  BY MaxPidAssumption DEF Pid
<1>5. PICK r : r = [procs[p] EXCEPT !.pgid = p]
  OBVIOUS
<1>6. /\ r \in PCB /\ r.listed = procs[p].listed /\ r.ppid = procs[p].ppid /\ r.pgid = p
      /\ r.children = procs[p].children
      /\ r.rpc = procs[p].rpc /\ r.waiter = procs[p].waiter /\ r.state = procs[p].state
      /\ r.itimer = procs[p].itimer
      /\ r.pendingStop = procs[p].pendingStop /\ r.pendingCont = procs[p].pendingCont
  BY <1>3, <1>4, <1>5, GroupEdit
<1>7. PICK t : t = [r EXCEPT !.sid = p]
  OBVIOUS
<1>8. /\ t \in PCB /\ SameKin(r, t)
      /\ t.rpc = r.rpc /\ t.waiter = r.waiter /\ t.state = r.state
      /\ t.itimer = r.itimer
      /\ t.pendingStop = r.pendingStop /\ t.pendingCont = r.pendingCont
  BY <1>4, <1>6, <1>7, SessionEdit
<1>9. t.missed = procs[p].missed
  <2>1. r.missed = procs[p].missed
    BY <1>3, <1>4, <1>5, GroupRest, ZenonT(60) DEF Rest
  <2>2. t.missed = r.missed
    BY <1>4, <1>6, <1>7, SessionRest, SMTT(30) DEF Rest
  <2> QED
    BY <2>1, <2>2
<1>10. /\ t.listed = procs[p].listed /\ t.ppid = procs[p].ppid /\ t.pgid # 0
       /\ t.children = procs[p].children
       /\ t.rpc = procs[p].rpc /\ t.waiter = procs[p].waiter /\ t.state = procs[p].state
       /\ t.itimer = procs[p].itimer
       /\ t.pendingStop = procs[p].pendingStop /\ t.pendingCont = procs[p].pendingCont
  BY <1>4, <1>6, <1>8, Zenon DEF SameKin
<1>11. PICK ms : ms = Put(procs, p, t)
  OBVIOUS
<1>12. Lawful(procs, ms)
  BY <1>3, <1>8, <1>10, <1>11, EditLawful, Zenon
<1>13. ms[p] = t
  BY <1>3, <1>11, Zenon DEF Put, Tables
<1>14. \A q \in Pid : q # p => ms[q] = procs[q]
  BY <1>3, <1>11, Zenon DEF Put, Tables
<1>15. procs[p].state # "zombie"
  BY <1>1 DEF Alive
<1>16. Good(procs, ms)
  BY <1>3, <1>9, <1>10, <1>13, <1>14, <1>15, EditGood
<1>17. procs' = Respond(procs, p, Done) \/ procs' = Respond(ms, p, Done)
  BY <1>2, <1>3, <1>5, <1>7, <1>11, Zenon DEF Put
<1> QED
  BY <1>1, <1>3, <1>12, <1>16, <1>17, StillGood, DoneGood, Zenon

LEMMA SetTimerGood ==
  ASSUME IInv, NEW p \in Pid, SetTimer(p)
  PROVE  Good(procs, procs')
<1>1. ~procs[p].waiter.on /\ Alive(procs[p])
  BY DispatchedFacts, Zenon DEF SetTimer
<1>2. PICK kind \in Timers \cup {"off"} :
        procs' = Respond([procs EXCEPT ![p].itimer = kind], p, Done)
  BY Zenon DEF SetTimer
<1>3. procs[p] \in PCB /\ procs \in Tables /\ TableInv(procs)
  BY Unpack, Zenon DEF IInv
<1>4. kind \in {"off", "once", "interval"}
  BY ArgsAssumption
<1>5. PICK t : t = [procs[p] EXCEPT !.itimer = kind]
  OBVIOUS
<1>6. /\ t \in PCB /\ SameKin(procs[p], t)
      /\ t.rpc = procs[p].rpc /\ t.waiter = procs[p].waiter /\ t.state = procs[p].state
      /\ t.itimer = kind
      /\ t.pendingStop = procs[p].pendingStop /\ t.pendingCont = procs[p].pendingCont
  BY <1>3, <1>4, <1>5, TimerEdit
<1>7. t.missed = procs[p].missed
  BY <1>3, <1>4, <1>5, TimerRest, Zenon DEF Rest
<1>8. procs[p].state # "zombie"
  BY <1>1 DEF Alive
<1>9. PICK ms : ms = Put(procs, p, t)
  OBVIOUS
<1>10. Good(procs, ms)
  BY <1>3, <1>6, <1>7, <1>9, FieldGood
<1>11. Lawful(procs, ms)
  <2>1. t.listed = procs[p].listed /\ t.ppid = procs[p].ppid /\ t.pgid = procs[p].pgid
        /\ t.children = procs[p].children
    BY <1>6, Zenon DEF SameKin
  <2> QED
    BY <1>3, <1>6, <1>8, <1>9, <2>1, EditLawful, Zenon
<1>12. procs' = Respond(ms, p, Done)
  BY <1>2, <1>3, <1>5, <1>9, Zenon DEF Put
<1> QED
  BY <1>1, <1>3, <1>10, <1>11, <1>12, DoneGood, Zenon

LEMMA NewPcbAnswered ==
  ASSUME NEW q, NEW g, NEW s
  PROVE  NewPcb(q, g, s).listed /\ NewPcb(q, g, s).rpc = Done
BY DEF NewPcb

LEMMA SpawnDoneGood ==
  ASSUME IInv, NEW p \in Pid \cup {0}, SpawnDone(p)
  PROVE  Good(procs, procs')
<1>1. p \in spawns /\ nextPid <= MaxPid
  BY Zenon DEF SpawnDone
<1>2. PICK n : n = nextPid
  OBVIOUS
<1>3. n \in Pid /\ n \in 0 .. MaxPid /\ 0 \in 0 .. MaxPid /\ n >= n
  BY <1>1, <1>2, MaxPidAssumption DEF IInv, Books, Pid
<1>4. PICK q \in 0 .. MaxPid, g \in Pid, s \in 0 .. MaxPid :
        q = p /\ procs' = AddProcess(procs, p, n, NewPcb(q, g, s))
  <2>1. CASE p = 0
    <3>1. PICK s \in {0, n} :
            procs' = AddProcess(procs, 0, n, NewPcb(0, n, s))
      BY <1>2, <2>1, Zenon DEF SpawnDone
    <3> QED
      BY <1>3, <2>1, <3>1, Zenon
  <2>2. CASE p # 0
    <3>1. PICK g \in {procs[p].pgid, n} :
            procs' = AddProcess(procs, p, n, NewPcb(p, g, procs[p].sid))
      BY <1>2, <2>2, Zenon DEF SpawnDone
    <3>2. p \in Pid /\ procs[p].pgid \in Pid /\ procs[p].sid \in 0 .. MaxPid
      BY <1>1, <2>2, SpawnerFacts, Zenon
    <3>3. p \in 0 .. MaxPid
      BY <3>2, Constants, Zenon
    <3> QED
      BY <1>3, <3>1, <3>2, <3>3, Zenon
  <2> QED
    BY <2>1, <2>2
<1>5. PICK t : t = NewPcb(q, g, s)
  OBVIOUS
<1>6. t \in PCB /\ Sane(t) /\ t.listed /\ t.rpc = Done
  BY <1>5, NewPcbSane, NewPcbAnswered, Zenon
<1>7. t.ppid = p /\ t.children = {} /\ t.state = "running" /\ t.waiter = NoWaiter
  <2>1. g \in 0 .. MaxPid
    BY Constants, Zenon
  <2> QED
    BY <1>4, <1>5, <2>1, NewPcbType
<1>8. PICK qs : qs = Added(procs, n, p, t)
  OBVIOUS
<1>9. procs' = IF p = 0 THEN qs ELSE Respond(qs, p, Done)
  <2>1. procs' = AddProcess(procs, p, n, t)
    BY <1>4, <1>5, Zenon
  <2>2. CASE p = 0
    BY <1>8, <2>1, <2>2, Zenon DEF AddProcess, Added, Put
  <2>3. CASE p # 0
    <3>1. PICK rs : rs = [procs EXCEPT ![n] = t]
      OBVIOUS
    <3>2. procs' = Respond([rs EXCEPT ![p].children = rs[p].children \cup {n}], p, Done)
      BY <2>1, <2>3, <3>1, Zenon DEF AddProcess
    <3>3. qs = [rs EXCEPT ![p].children = rs[p].children \cup {n}]
      BY <1>8, <2>3, <3>1, Zenon DEF Added, Put
    <3> QED
      BY <2>3, <3>2, <3>3, Zenon
  <2> QED
    BY <2>2, <2>3, Zenon
<1>10. TableInv(procs) /\ (p # 0 => p < n) /\ p # n
  <2>1. p # 0 => p < n
    BY <1>1, <1>2, SpawnerFacts, Zenon
  <2>2. p # n
    BY <1>3, <2>1 DEF Pid
  <2> QED
    BY <2>1, <2>2, Zenon DEF IInv
<1>11. ~Alive(procs[n])
  BY <1>2, <1>3, Zenon DEF IInv, Fresh
<1>12. \A o \in Pid : n \notin procs[o].children
  BY <1>2, <1>3, Zenon DEF IInv, Fresh
<1>13. Good(procs, qs) /\ TableInv(qs)
  BY <1>3, <1>6, <1>7, <1>8, <1>10, <1>11, <1>12, AddedGood
<1>14. CASE p = 0
  BY <1>9, <1>13, <1>14, Zenon
<1>15. CASE p # 0
  <2>1. p \in Pid /\ ~procs[p].waiter.on
    BY <1>1, <1>15, SpawnerFacts, Zenon
  <2>2. \A o \in Pid : o # n =>
           /\ SameSelf(procs[o], qs[o]) /\ qs[o].listed = procs[o].listed
           /\ qs[o].children \subseteq procs[o].children \cup {n}
    BY <1>3, <1>6, <1>7, <1>8, <1>10, <1>12, AddedStep
  <2>3. ~qs[p].waiter.on
    BY <1>10, <2>1, <2>2, Zenon DEF SameSelf
  <2>4. procs' = Respond(qs, p, Done)
    BY <1>9, <1>15, Zenon
  <2> QED
    BY <1>13, <2>1, <2>3, <2>4, DoneSilent, ThenRespond
<1> QED
  BY <1>14, <1>15

LEMMA SpawnFailsGood ==
  ASSUME IInv, NEW p \in Pid \cup {0}, SpawnFails(p)
  PROVE  Good(procs, procs')
<1>1. p \in spawns /\ procs' = IF p = 0 THEN procs ELSE Respond(procs, p, Done)
  BY Zenon DEF SpawnFails
<1>2. CASE p = 0
  BY <1>1, <1>2, StillGood, Zenon
<1>3. CASE p # 0
  <2>1. p \in Pid /\ ~procs[p].waiter.on
    BY <1>1, <1>3, SpawnerFacts, Zenon
  <2>2. procs' = Respond(procs, p, Done)
    BY <1>1, <1>3, Zenon
  <2> QED
    BY <2>1, <2>2, StillGood, DoneGood, Zenon
<1> QED
  BY <1>2, <1>3

LEMMA NextGood ==
  ASSUME IInv, [Next]_vars
  PROVE  Good(procs, procs')
<1>1. ASSUME NEW p \in Pid, ProgramNext(p) PROVE Good(procs, procs')
  BY <1>1, CallGood, SetMaskGood, WorkerDiesGood, TakeSignalGood, Zenon DEF ProgramNext
<1>2. ASSUME NEW p \in Pid, HandlerNext(p) PROVE Good(procs, procs')
  BY <1>2, ExitActGood, WaitGood, InterruptGood, KillGood, KillGroupGood, SetDispositionGood,
     SetPgidGood, SetSidGood, SetTimerGood, TimerGood, SpawnGood, Zenon DEF HandlerNext
<1>3. CASE EmbedderKillGroup \/ EmbedderSpawn \/ UNCHANGED vars
  <2>1. procs' = procs
    BY <1>3 DEF EmbedderKillGroup, EmbedderSpawn, vars
  <2> QED
    BY <2>1, StillGood, Zenon
<1>4. CASE KillNext
  BY <1>4, KillNextGood, Zenon
<1>5. CASE \E p \in Pid \cup {0} : SpawnDone(p) \/ SpawnFails(p)
  BY <1>5, SpawnDoneGood, SpawnFailsGood, Zenon
<1> QED
  BY <1>1, <1>2, <1>3, <1>4, <1>5, Zenon DEF Next, KernelNext

LEMMA InitSafe == ASSUME Init PROVE Safe(procs)
<1>1. PICK r : r = NewPcb(0, 1, 1)
  OBVIOUS
<1>2. r.children = {} /\ r.listed
  BY <1>1, Constants, NewPcbType, NewPcbAnswered
<1>3. procs = [p \in Pid |-> IF p = 1 THEN r ELSE Unborn]
  BY <1>1, Zenon DEF Init
<1>4. ASSUME NEW p \in Pid
      PROVE  procs[p].children = {} /\ (Alive(procs[p]) => procs[p].listed)
  <2>1. procs[p] = IF p = 1 THEN r ELSE Unborn
    BY <1>3, Zenon
  <2> QED
    BY <1>2, <2>1, UnbornFacts, Zenon
<1>5. Kids(procs)
  BY <1>4, Zenon DEF Kids
<1>6. Served(procs, 0)
  BY <1>4, Zenon DEF Served, Due
<1> QED
  BY <1>5, <1>6, Zenon DEF Safe

LEMMA SpecSafe == Spec => [](IInv /\ Safe(procs))
<1>1. Init => IInv /\ Safe(procs)
  BY InitInv, InitSafe
<1>2. IInv /\ Safe(procs) /\ [Next]_vars => (IInv /\ Safe(procs))'
  <2>1. ASSUME IInv, Safe(procs), [Next]_vars PROVE IInv' /\ Safe(procs')
    BY <2>1, NextInv, NextGood, Zenon DEF Good
  <2> QED
    BY <2>1
<1> QED
  BY <1>1, <1>2, PTL DEF Spec

\* No zombie lies beside a parked wait that selects it unless it died while its
\* parent was not running (_exitProcess, _wait, _reparent, _setpgid).
THEOREM ParkedWaitsAreServed == Spec => []ParkedWaitServed
<1>1. IInv /\ Safe(procs) => ParkedWaitServed
  <2>1. ASSUME IInv, Safe(procs), NEW p \in DOMAIN procs, NEW c \in DOMAIN procs,
               Live(procs, p), procs[p].waiter.sel # 0, WaitsFor(procs, p, c),
               c \in procs[p].children, procs[c].state = "zombie"
        PROVE  procs[c].missed
    <3>1. p \in Pid /\ c \in Pid
      BY <2>1, Zenon DEF IInv, TableInv, Tables
    <3>2. Alive(procs[p])
      BY <2>1, <3>1, Unpack, Zenon DEF IInv
    <3>3. ASSUME ~procs[c].missed PROVE FALSE
      <4>1. Due(procs, p, c)
        BY <2>1, <3>2, <3>3, Zenon DEF Due
      <4>2. c = 0
        BY <2>1, <3>1, <4>1, Zenon DEF Safe, Served
      <4> QED
        BY <3>1, <4>2, ZeroNotPid, Zenon
    <3> QED
      BY <3>3
  <2> QED
    BY <2>1, Zenon DEF ParkedWaitServed
<1> QED
  BY <1>1, SpecSafe, PTL

\* A wait that a child's change answers finds SIGCHLD posted already
\* (_deliver before _respond in _exitProcess and _jobNotifyParent).
THEOREM ChldComesFirst == Spec => ChldBeforeReport
<1>1. IInv /\ [Next]_vars => [ChldStep]_vars
  <2>1. ASSUME IInv, [Next]_vars PROVE ChldStep
    <3>1. Chl(procs, procs') /\ DOMAIN procs = Pid
      BY <2>1, NextGood, Zenon DEF Good, IInv, TableInv, Tables
    <3>2. \A p \in Pid : Live(procs', p) => Alive(procs'[p])
      BY Zenon DEF Live, Alive
    <3> QED
      BY <3>1, <3>2, Zenon DEF Chl, ChldStep
  <2> QED
    BY <2>1
<1> QED
  BY <1>1, SpecInv, PTL DEF Spec, ChldBeforeReport

\* A stop or a continue is reported to the child's parent, and is then no
\* longer unreported (_jobNotifyParent, _wait).
THEOREM ReportsAreTrue == Spec => TransitionReportedOnce
<1>1. IInv /\ [Next]_vars => [ReportStep]_vars
  <2>1. ASSUME IInv, [Next]_vars PROVE ReportStep
    <3>1. Rep(procs, procs') /\ DOMAIN procs = Pid
      BY <2>1, NextGood, Zenon DEF Good, IInv, TableInv, Tables
    <3>2. \A kind \in {"stop", "cont"}, c \in Pid :
            Rpc(kind, c).tag = kind /\ Rpc(kind, c).pid = c
      BY Constants
    <3>3. ASSUME NEW p \in Pid, NEW c \in Pid, NEW kind \in {"stop", "cont"},
                 procs[p].rpc # procs'[p].rpc, procs'[p].rpc = Rpc(kind, c)
          PROVE  procs'[c].ppid = p /\ ~Flag(kind, procs'[c])
      <4>0. Rpc(kind, c).tag = kind /\ Rpc(kind, c).pid = c
        BY <3>2, Zenon
      <4>1. procs'[p].rpc.tag \in {"stop", "cont"}
        BY <3>3, <4>0
      <4>2. PICK k \in {"stop", "cont"}, d \in Pid :
              procs'[p].rpc = Rpc(k, d) /\ procs'[d].ppid = p /\ ~Flag(k, procs'[d])
        BY <3>1, <3>3, <4>1, Zenon DEF Rep
      <4>3. Rpc(k, d).tag = k /\ Rpc(k, d).pid = d
        BY <3>2, Zenon
      <4>4. k = kind /\ d = c
        BY <3>3, <4>0, <4>2, <4>3, Zenon
      <4> QED
        BY <4>2, <4>4
    <3>4. \A p, c \in Pid : procs[p].rpc # procs'[p].rpc =>
            /\ procs'[p].rpc = Rpc("stop", c) => procs'[c].ppid = p /\ ~procs'[c].pendingStop
            /\ procs'[p].rpc = Rpc("cont", c) => procs'[c].ppid = p /\ ~procs'[c].pendingCont
      BY <3>3 DEF Flag
    <3> QED
      BY <3>1, <3>4, Zenon DEF ReportStep
  <2> QED
    BY <2>1
<1> QED
  BY <1>1, SpecInv, PTL DEF Spec, TransitionReportedOnce

-----------------------------------------------------------------------------
(* Without job control, what a parked process waits for is still its child.  *)

\* No signal in play stops a process.
NoJobControl == {"STOP", "TSTP"} \cap Sigs = {}

\* Who is parked was parked before, in the same wait, with no fewer children.
StillWaits(r, t) ==
  /\ t.state = "stopped" => r.state = "stopped"
  /\ t.waiter.on => t.waiter = r.waiter /\ r.children \subseteq t.children

Steady(ps, qs) == \A p \in Pid : StillWaits(ps[p], qs[p])

NoneStopped(ps) == \A p \in Pid : ps[p].state # "stopped"

\* The selector is for any child, or names c.
Named(sel, c) == sel = -1 \/ c = sel

\* A wait for any child, or for one child, has a child to wait for.
Hopeful(ps) ==
  \A p \in Pid :
    ps[p].waiter.on /\ (ps[p].waiter.sel = -1 \/ ps[p].waiter.sel > 0)
      => \E c \in ps[p].children : Named(ps[p].waiter.sel, c)

LEMMA SteadyRefl == ASSUME NEW ps PROVE Steady(ps, ps)
  BY Zenon DEF Steady, StillWaits

LEMMA SteadyTrans ==
  ASSUME NEW ps, NEW qs, NEW rs, Steady(ps, qs), Steady(qs, rs)
  PROVE  Steady(ps, rs)
<1>1. ASSUME NEW p \in Pid PROVE StillWaits(ps[p], rs[p])
  <2>1. StillWaits(ps[p], qs[p]) /\ StillWaits(qs[p], rs[p])
    BY Zenon DEF Steady
  <2> QED
    BY <2>1, Zenon DEF StillWaits
<1> QED
  BY <1>1, Zenon DEF Steady

LEMMA SteadyKeeps ==
  ASSUME NEW ps, NEW qs, Steady(ps, qs), NoneStopped(ps), Hopeful(ps)
  PROVE  NoneStopped(qs) /\ Hopeful(qs)
<1>1. NoneStopped(qs)
  BY Zenon DEF Steady, StillWaits, NoneStopped
<1>2. ASSUME NEW p \in Pid, qs[p].waiter.on, qs[p].waiter.sel = -1 \/ qs[p].waiter.sel > 0
      PROVE  \E c \in qs[p].children : Named(qs[p].waiter.sel, c)
  <2>1. qs[p].waiter = ps[p].waiter /\ ps[p].children \subseteq qs[p].children
    BY <1>2, Zenon DEF Steady, StillWaits
  <2>2. PICK c \in ps[p].children : Named(ps[p].waiter.sel, c)
    BY <1>2, <2>1, Zenon DEF Hopeful
  <2> QED
    BY <2>1, <2>2
<1> QED
  BY <1>1, <1>2, Zenon DEF Hopeful

\* A change of one process that leaves its wait, its children and its state.
LEMMA EditSteady ==
  ASSUME NEW ps, NEW p \in Pid, NEW qs, \A q \in Pid : q # p => qs[q] = ps[q],
         qs[p].waiter = ps[p].waiter \/ ~qs[p].waiter.on,
         qs[p].children = ps[p].children, qs[p].state = ps[p].state
  PROVE  Steady(ps, qs)
<1>1. ASSUME NEW q \in Pid PROVE StillWaits(ps[q], qs[q])
  <2>1. CASE q = p
    BY <2>1, Zenon DEF StillWaits
  <2>2. CASE q # p
    <3>1. qs[q] = ps[q]
      BY <2>2, Zenon
    <3> QED
      BY <3>1, Zenon DEF StillWaits
  <2> QED
    BY <2>1, <2>2
<1> QED
  BY <1>1, Zenon DEF Steady

LEMMA PutSteady ==
  ASSUME NEW ps, TableInv(ps), NEW p \in Pid, NEW t,
         t.waiter = ps[p].waiter, t.children = ps[p].children, t.state = ps[p].state,
         NEW qs, qs = Put(ps, p, t)
  PROVE  Steady(ps, qs)
<1>1. qs[p] = t
  BY Zenon DEF TableInv, Tables, Put
<1>2. \A q \in Pid : q # p => qs[q] = ps[q]
  BY Zenon DEF TableInv, Tables, Put
<1>3. qs[p].waiter = ps[p].waiter /\ qs[p].children = ps[p].children /\ qs[p].state = ps[p].state
  BY <1>1, Zenon
<1> QED
  BY <1>2, <1>3, EditSteady

LEMMA RespondSteady ==
  ASSUME NEW ps, TableInv(ps), NEW p \in Pid, ~ps[p].waiter.on, NEW v \in Rpcs,
         NEW qs, qs = Respond(ps, p, v)
  PROVE  Steady(ps, qs)
<1>1. \A q \in Pid : q # p => qs[q] = ps[q]
  BY RespondStep
<1>2. qs[p].state = ps[p].state /\ ~qs[p].waiter.on
  BY RespondStep
<1>3. SameKin(ps[p], qs[p])
  BY RespondStep
<1>4. qs[p].children = ps[p].children
  BY <1>3, Zenon DEF SameKin
<1> QED
  BY <1>1, <1>2, <1>4, EditSteady

LEMMA AnswerSteady ==
  ASSUME NEW ps, TableInv(ps), NEW p \in Pid, ps[p].waiter.on, NEW v \in Rpcs,
         NEW qs, qs = Answer(ps, p, v)
  PROVE  Steady(ps, qs)
<1>1. Mild(ps, qs) /\ qs[p].state = ps[p].state /\ ~qs[p].waiter.on
  BY AnswerMild
<1>2. \A q \in Pid : q # p => qs[q] = ps[q]
  BY AnswerMild
<1>3. qs[p].children = ps[p].children
  BY <1>1, Zenon DEF Mild, SameKin
<1> QED
  BY <1>1, <1>2, <1>3, EditSteady

LEMMA PostSteady ==
  ASSUME NEW ps, TableInv(ps), NEW p \in Pid, NEW sig \in Sigs
  PROVE  Steady(ps, Post(ps, p, sig))
<1>1. ps[p] \in PCB /\ ps \in Tables
  BY Unpack, Zenon
<1>2. PICK v : v = ps[p].pend \cup {sig}
  OBVIOUS
<1>3. v \in SUBSET Sigs
  BY <1>1, <1>2, Fields
<1>4. PICK t : t = [ps[p] EXCEPT !.pend = v]
  OBVIOUS
<1>5. SameKin(ps[p], t) /\ t.waiter = ps[p].waiter /\ t.state = ps[p].state
  BY <1>1, <1>3, <1>4, PendEdit
<1>6. t.children = ps[p].children
  BY <1>5, Zenon DEF SameKin
<1>7. Post(ps, p, sig) = Put(ps, p, t)
  BY <1>1, <1>2, <1>4, Zenon DEF Post, Put
<1> QED
  BY <1>5, <1>6, <1>7, PutSteady

LEMMA ChldSteady ==
  ASSUME NEW ps, TableInv(ps), NEW p \in Pid
  PROVE  Steady(ps, DeliverChld(ps, p))
<1>1. "CHLD" \in Sigs
  BY SigsAssumption
<1> QED
  BY <1>1, PostSteady, SteadyRefl, Zenon DEF DeliverChld

-----------------------------------------------------------------------------
(* Exits.                                                                    *)

\* A reap shortens the list of one process.
LEMMA ReapChildren ==
  ASSUME NEW ps, TableInv(ps), NEW z \in Pid, NEW qs, qs = Reap(ps, z), NEW q \in Pid,
         q # ps[z].ppid \/ (q # z /\ ~ps[q].listed)
  PROVE  StillWaits(ps[q], qs[q])
<1>1. Thin(ps, qs)
  BY ReapThin, Zenon
<1>2. SameSelf(ps[q], qs[q])
  BY <1>1, Zenon DEF Thin
<1>3. CASE q # ps[z].ppid
  <2>1. qs[q].children = ps[q].children
    BY <1>3, ReapFacts
  <2> QED
    BY <1>2, <2>1, Zenon DEF SameSelf, StillWaits
<1>4. CASE q = ps[z].ppid /\ q # z /\ ~ps[q].listed
  <2>1. PICK gone : gone = Gone(ps, z)
    OBVIOUS
  <2>2. gone[q] = ps[q]
    BY <1>4, <2>1, GoneThin, Zenon
  <2>3. ~InTable(gone, q)
    BY <1>4, <2>2, Zenon DEF InTable
  <2>4. qs = gone
    BY <1>4, <2>1, <2>3, Zenon DEF Reap, Gone
  <2>5. qs[q].children = ps[q].children
    BY <2>2, <2>4, Zenon
  <2> QED
    BY <1>2, <2>5, Zenon DEF SameSelf, StillWaits
<1> QED
  BY <1>3, <1>4

LEMMA TeardownSteady ==
  ASSUME NEW ps, TableInv(ps), NEW p \in Pid, NEW qs, qs = Teardown(ps, p)
  PROVE  Steady(ps, qs) /\ TableInv(qs) /\ qs[p].state = "zombie" /\ ~qs[p].waiter.on
<1>1. TableInv(qs) /\ qs[p].state = "zombie"
  BY TeardownMild, Zenon DEF Mild
<1>2. \A q \in Pid : q # p => qs[q] = ps[q]
  BY TeardownFacts
<1>3. ~Alive(qs[p]) /\ qs[p].state # "stopped"
  BY <1>1 DEF Alive
<1>4. ~qs[p].waiter.on
  BY <1>1, <1>3, Zenon DEF TableInv, Sane
<1>5. ASSUME NEW q \in Pid PROVE StillWaits(ps[q], qs[q])
  <2>1. CASE q = p
    BY <1>3, <1>4, <2>1, Zenon DEF StillWaits
  <2>2. CASE q # p
    <3>1. qs[q] = ps[q]
      BY <1>2, <2>2, Zenon
    <3> QED
      BY <3>1, Zenon DEF StillWaits
  <2> QED
    BY <2>1, <2>2
<1> QED
  BY <1>1, <1>4, <1>5, Zenon DEF Steady

LEMMA MovedSteady ==
  ASSUME NEW ps, TableInv(ps), NEW p \in Pid, ~ps[p].waiter.on, NEW qs, qs = Moved(ps, p)
  PROVE  Steady(ps, qs)
<1>1. \A c \in Pid : SameSelf(ps[c], qs[c])
  BY MovedStep
<1>2. \A c \in Pid : qs[c].children = IF c = p THEN {} ELSE ps[c].children
  BY MovedStep
<1>3. ASSUME NEW c \in Pid PROVE StillWaits(ps[c], qs[c])
  <2>1. qs[c].state = ps[c].state /\ qs[c].waiter = ps[c].waiter
    BY <1>1, Zenon DEF SameSelf
  <2>2. CASE c = p
    BY <2>1, <2>2, Zenon DEF StillWaits
  <2>3. CASE c # p
    <3>1. qs[c].children = ps[c].children
      BY <1>2, <2>3, Zenon
    <3> QED
      BY <2>1, <3>1, Zenon DEF StillWaits
  <2> QED
    BY <2>2, <2>3
<1> QED
  BY <1>3, Zenon DEF Steady

LEMMA AdoptedSteady ==
  ASSUME NEW ps, TableInv(ps), NEW p \in Pid, p # 1, ~ps[p].waiter.on,
         NEW qs, qs = Adopted(ps, p)
  PROVE  Steady(ps, qs)
<1>1. PICK ms : ms = Moved(ps, p)
  OBVIOUS
<1>2. Steady(ps, ms) /\ ms \in Tables
  BY <1>1, MovedSteady, MovedStep
<1>3. \A c \in Pid : SameSelf(ps[c], qs[c])
  BY AdoptedTame
<1>4. ps[1].children \subseteq qs[1].children
  BY AdoptedRest
<1>5. ASSUME NEW c \in Pid PROVE StillWaits(ps[c], qs[c])
  <2>1. CASE c = 1
    BY <1>3, <1>4, <2>1, Zenon DEF SameSelf, StillWaits
  <2>2. CASE c # 1
    <3>1. qs[c] = ms[c]
      BY <1>1, <1>2, <2>2, Zenon DEF Adopted, Tables
    <3> QED
      BY <1>2, <3>1, Zenon DEF Steady
  <2> QED
    BY <2>1, <2>2
<1> QED
  BY <1>5, Zenon DEF Steady

\* A zombie is reaped and its parent, who was parked, is answered.
LEMMA ReapAnswerSteady ==
  ASSUME NEW ps, TableInv(ps), NEW z \in Pid, NEW p \in Pid, ps[z].ppid = p, ps[p].waiter.on,
         NEW qs, qs = Answer(Reap(ps, z), p, Rpc("exit", z))
  PROVE  Steady(ps, qs)
<1>1. PICK rs : rs = Reap(ps, z)
  OBVIOUS
<1>2. Thin(ps, rs)
  BY <1>1, ReapThin, Zenon
<1>3. TableInv(rs)
  BY <1>2, ThinTame, Zenon DEF Tame
<1>4. rs[p].waiter.on /\ rs[p].state = ps[p].state
  BY <1>2, Zenon DEF Thin, SameSelf
<1>5. Rpc("exit", z) \in Rpcs
  BY Constants, Zenon
<1>6. qs = Answer(rs, p, Rpc("exit", z))
  BY <1>1, Zenon
<1>7. qs[p].state = rs[p].state /\ ~qs[p].waiter.on
  BY <1>3, <1>4, <1>5, <1>6, AnswerMild
<1>8. \A q \in Pid : q # p => qs[q] = rs[q]
  BY <1>3, <1>4, <1>5, <1>6, AnswerMild
<1>9. ASSUME NEW q \in Pid PROVE StillWaits(ps[q], qs[q])
  <2>1. CASE q = p
    BY <1>4, <1>7, <2>1, Zenon DEF StillWaits
  <2>2. CASE q # p
    <3>1. StillWaits(ps[q], rs[q])
      BY <1>1, <2>2, ReapChildren
    <3> QED
      BY <1>8, <2>2, <3>1, Zenon
  <2> QED
    BY <2>1, <2>2
<1> QED
  BY <1>9, Zenon DEF Steady

LEMMA ReparentSteady ==
  ASSUME NEW ps, TableInv(ps), NEW p \in Pid, ~ps[p].waiter.on, NEW qs, qs = Reparent(ps, p)
  PROVE  Steady(ps, qs)
<1>0. 1 \in Pid
  BY Constants, Zenon
<1>1. PICK due : due = AdoptedZombies(ps, p)
  OBVIOUS
<1>2. PICK ads : ads = Adopted(ps, p)
  OBVIOUS
<1>3. PICK z : z = CHOOSE c \in due : \A d \in due : c <= d
  OBVIOUS
<1>4. qs = IF p = 1 \/ ~ps[1].listed THEN Moved(ps, p)
           ELSE IF due = {} THEN ads
           ELSE Answer(Reap(ads, z), 1, Rpc("exit", z))
  BY <1>1, <1>2, <1>3 DEF Reparent, Moved, Adopted, Orphans
<1>5. CASE p = 1 \/ ~ps[1].listed
  <2>1. qs = Moved(ps, p)
    BY <1>4, <1>5, Zenon
  <2> QED
    BY <2>1, MovedSteady
<1>6. CASE p # 1 /\ due = {} /\ ps[1].listed
  <2>1. qs = ads
    BY <1>4, <1>6, Zenon
  <2> QED
    BY <1>2, <1>6, <2>1, AdoptedSteady
<1>7. CASE p # 1 /\ due # {} /\ ps[1].listed
  <2>1. Steady(ps, ads)
    BY <1>2, <1>7, AdoptedSteady
  <2>2. Tame(ps, ads) /\ \A c \in Orphans(ps, p) : ads[c].ppid = 1
    BY <1>2, <1>7, AdoptedTame
  <2>3. SameSelf(ps[1], ads[1])
    BY <1>0, <1>2, <1>7, AdoptedTame
  <2>4. due \subseteq Orphans(ps, p) /\ \A c \in due : ps[1].waiter.on
    BY <1>1, Zenon DEF AdoptedZombies, Orphans, WaitsFor
  <2>5. due \subseteq Pid
    BY <2>4, OrphanFacts, Zenon
  <2>6. z \in due
    BY <1>3, <1>7, <2>5, LeastPid, Zenon
  <2>7. z \in Pid /\ ads[z].ppid = 1 /\ ads[1].waiter.on /\ TableInv(ads)
    BY <2>2, <2>3, <2>4, <2>5, <2>6, Zenon DEF Tame, SameSelf
  <2>8. qs = Answer(Reap(ads, z), 1, Rpc("exit", z))
    BY <1>4, <1>7, Zenon
  <2>9. Steady(ads, qs)
    BY <1>0, <2>7, <2>8, ReapAnswerSteady
  <2> QED
    BY <2>1, <2>9, SteadyTrans
<1> QED
  BY <1>5, <1>6, <1>7

LEMMA NotifySteady ==
  ASSUME NEW ps, TableInv(ps), NoneStopped(ps), NEW p \in Pid, ~ps[p].waiter.on,
         NEW qs, qs = NotifyExit(ps, p)
  PROVE  Steady(ps, qs)
<1>0. PICK parent : parent = ps[p].ppid
  OBVIOUS
<1>1. PICK told : told = DeliverChld(ps, parent)
  OBVIOUS
<1>2. qs = IF p = 1 THEN [ps EXCEPT ![1].listed = FALSE]
           ELSE IF InTable(ps, parent) /\ ps[parent].state = "running"
             THEN IF WaitsFor(told, parent, p)
                    THEN Answer(Reap(told, p), parent, Rpc("exit", p))
                    ELSE told
           ELSE IF ~ps[1].listed \/ parent = 0 THEN Reap(ps, p)
           ELSE [ps EXCEPT ![p].missed = TRUE]
  BY <1>0, <1>1, Zenon DEF NotifyExit
<1>3. CASE p = 1
  <2>1. qs = Unlisted(ps, p)
    BY <1>2, <1>3, Zenon DEF Unlisted
  <2>2. Thin(ps, qs)
    BY <2>1, UnlistThin
  <2>3. \A q \in Pid : q # p => qs[q] = ps[q]
    BY <2>1, UnlistThin
  <2>4. SameSelf(ps[p], qs[p])
    BY <2>2, Zenon DEF Thin
  <2>5. ASSUME NEW q \in Pid PROVE StillWaits(ps[q], qs[q])
    <3>1. CASE q = p
      BY <2>4, <3>1, Zenon DEF SameSelf, StillWaits
    <3>2. CASE q # p
      <4>1. qs[q] = ps[q]
        BY <2>3, <3>2, Zenon
      <4> QED
        BY <4>1, Zenon DEF StillWaits
    <3> QED
      BY <3>1, <3>2
  <2> QED
    BY <2>5, Zenon DEF Steady
<1>4. CASE p # 1 /\ ~(InTable(ps, parent) /\ ps[parent].state = "running")
           /\ (~ps[1].listed \/ parent = 0)
  <2>1. qs = Reap(ps, p)
    BY <1>2, <1>4, Zenon
  <2>2. Thin(ps, qs)
    BY <2>1, ReapThin, Zenon
  <2>3. ASSUME NEW q \in Pid PROVE StillWaits(ps[q], qs[q])
    <3>1. SameSelf(ps[q], qs[q])
      BY <2>2, Zenon DEF Thin
    <3>2. CASE ~ps[q].waiter.on
      BY <3>1, <3>2, Zenon DEF SameSelf, StillWaits
    <3>3. CASE ps[q].waiter.on
      <4>1. Alive(ps[q])
        BY <3>3, Zenon DEF TableInv, Sane
      <4>2. ps[q].state = "running"
        BY <4>1 DEF Alive, NoneStopped
      <4>3. q # p
        BY <3>3
      <4>4. q # parent \/ ~ps[q].listed
        BY <1>4, <4>2, Zenon DEF InTable
      <4>5. q # ps[p].ppid \/ (q # p /\ ~ps[q].listed)
        BY <1>0, <4>3, <4>4
      <4> QED
        BY <2>1, <4>5, ReapChildren
    <3> QED
      BY <3>2, <3>3
  <2> QED
    BY <2>3, Zenon DEF Steady
<1>5. CASE p # 1 /\ ~(InTable(ps, parent) /\ ps[parent].state = "running")
           /\ ~(~ps[1].listed \/ parent = 0)
  <2>1. qs = [ps EXCEPT ![p].missed = TRUE]
    BY <1>2, <1>5, Zenon
  <2>2. ps[p] \in PCB /\ ps \in Tables
    BY Unpack, Zenon
  <2>3. PICK yes \in BOOLEAN : yes = TRUE
    OBVIOUS
  <2>4. PICK t : t = [ps[p] EXCEPT !.missed = yes]
    OBVIOUS
  <2>5. SameKin(ps[p], t) /\ t.waiter = ps[p].waiter /\ t.state = ps[p].state
    BY <2>2, <2>4, MissedEdit
  <2>6. t.children = ps[p].children
    BY <2>5, Zenon DEF SameKin
  <2>7. qs = Put(ps, p, t)
    BY <2>1, <2>2, <2>3, <2>4, Zenon DEF Put
  <2> QED
    BY <2>5, <2>6, <2>7, PutSteady
<1>6. CASE p # 1 /\ InTable(ps, parent) /\ ps[parent].state = "running"
  <2>1. parent \in Pid
    BY <1>6, Zenon DEF InTable
  <2>2. Steady(ps, told)
    BY <1>1, <2>1, ChldSteady
  <2>3. Mild(ps, told)
    BY <1>1, <2>1, ChldMild
  <2>4. TableInv(told) /\ told[p].ppid = parent
    BY <1>0, <2>3, Zenon DEF Mild, SameKin
  <2>5. CASE ~WaitsFor(told, parent, p)
    <3>1. qs = told
      BY <1>2, <1>6, <2>5, Zenon
    <3> QED
      BY <2>2, <3>1
  <2>6. CASE WaitsFor(told, parent, p)
    <3>1. qs = Answer(Reap(told, p), parent, Rpc("exit", p))
      BY <1>2, <1>6, <2>6, Zenon
    <3>2. told[parent].waiter.on
      BY <2>6, Zenon DEF WaitsFor
    <3>3. Steady(told, qs)
      BY <2>1, <2>4, <3>1, <3>2, ReapAnswerSteady
    <3> QED
      BY <2>2, <3>3, SteadyTrans
  <2> QED
    BY <2>5, <2>6
<1> QED
  BY <1>3, <1>4, <1>5, <1>6

LEMMA ExitSteady ==
  ASSUME NEW ps, TableInv(ps), NoneStopped(ps), NEW p \in Pid
  PROVE  Steady(ps, ExitProcess(ps, p))
<1>1. CASE ps[p].state = "zombie"
  BY <1>1, SteadyRefl, Zenon DEF ExitProcess
<1>2. CASE ps[p].state # "zombie"
  <2>1. PICK ts : ts = Teardown(ps, p)
    OBVIOUS
  <2>2. PICK rs : rs = Reparent(ts, p)
    OBVIOUS
  <2>3. PICK qs : qs = NotifyExit(rs, p)
    OBVIOUS
  <2>4. Steady(ps, ts) /\ TableInv(ts) /\ ~ts[p].waiter.on
    BY <2>1, TeardownSteady
  <2>5. Steady(ts, rs)
    BY <2>2, <2>4, ReparentSteady
  <2>6. Tame(ts, rs)
    BY <2>2, <2>4, ReparentStep
  <2>7. TableInv(rs) /\ ~rs[p].waiter.on
    BY <2>4, <2>6, ParkedBefore, Zenon DEF Tame
  <2>8. Steady(ps, rs)
    BY <2>4, <2>5, SteadyTrans
  <2>9. NoneStopped(rs)
    BY <2>8, Zenon DEF Steady, StillWaits, NoneStopped
  <2>10. Steady(rs, qs)
    BY <2>3, <2>7, <2>9, NotifySteady
  <2>11. ExitProcess(ps, p) = qs
    BY <1>2, <2>1, <2>2, <2>3, Zenon DEF ExitProcess
  <2> QED
    BY <2>8, <2>10, <2>11, SteadyTrans
<1> QED
  BY <1>1, <1>2

-----------------------------------------------------------------------------
(* Deliveries and steps.                                                     *)

LEMMA DeliverSteady ==
  ASSUME NoJobControl, NEW ps, TableInv(ps), NoneStopped(ps), NEW p \in Pid, NEW sig \in Sigs
  PROVE  Steady(ps, Deliver(ps, p, sig))
<1>1. sig # "STOP" /\ sig # "TSTP"
  BY DEF NoJobControl
<1>2. ps[p].state # "stopped"
  BY Zenon DEF NoneStopped
<1>3. ContProcess(ps, p) = ps
  BY <1>2, Zenon DEF ContProcess
<1>4. Steady(ps, ps) /\ Steady(ps, ExitProcess(ps, p)) /\ Steady(ps, Post(ps, p, sig))
  BY SteadyRefl, ExitSteady, PostSteady
<1>5. CASE sig = "KILL"
  <2>1. Deliver(ps, p, sig) = ExitProcess(ps, p)
    BY <1>5 DEF Deliver
  <2> QED
    BY <1>4, <2>1
<1>6. CASE sig # "KILL"
  <2>1. Deliver(ps, p, sig) =
          CASE ps[p].disp[sig] = "ign"     -> ps
            [] ps[p].disp[sig] = "handler" -> Post(ps, p, sig)
            [] OTHER                       -> DefaultAction(ps, p, sig)
    BY <1>1, <1>3, <1>6 DEF Deliver
  <2>2. \/ Deliver(ps, p, sig) = ps
        \/ Deliver(ps, p, sig) = Post(ps, p, sig)
        \/ Deliver(ps, p, sig) = DefaultAction(ps, p, sig)
    BY <2>1
  <2>3. \/ DefaultAction(ps, p, sig) = ps
        \/ DefaultAction(ps, p, sig) = Post(ps, p, sig)
        \/ DefaultAction(ps, p, sig) = ExitProcess(ps, p)
    BY <1>1 DEF DefaultAction
  <2> QED
    BY <1>4, <2>2, <2>3
<1> QED
  BY <1>5, <1>6

LEMMA FireSteady ==
  ASSUME NoJobControl, NEW ps, TableInv(ps), NoneStopped(ps), NEW p \in Pid, "ALRM" \in Sigs
  PROVE  Steady(ps, FireTimer(ps, p))
<1>1. ps[p] \in PCB /\ ps \in Tables
  BY Unpack, Zenon
<1>2. PICK kind : kind = IF ps[p].itimer = "interval" THEN ps[p].itimer ELSE "off"
  OBVIOUS
<1>3. kind \in {"off", "once", "interval"} /\ (ps[p].itimer = "off" => kind = "off")
  BY <1>2
<1>4. PICK t : t = [ps[p] EXCEPT !.itimer = kind]
  OBVIOUS
<1>5. /\ t \in PCB /\ SameKin(ps[p], t)
      /\ t.rpc = ps[p].rpc /\ t.waiter = ps[p].waiter /\ t.state = ps[p].state
      /\ t.itimer = kind
      /\ t.pendingStop = ps[p].pendingStop /\ t.pendingCont = ps[p].pendingCont
  BY <1>1, <1>3, <1>4, TimerEdit
<1>6. Sane(t) /\ Kept(ps[p], t)
  <2>1. Sane(ps[p])
    BY Unpack, Zenon
  <2> QED
    BY <1>3, <1>5, <2>1, Zenon DEF Sane, SameKin, Kept, Alive
<1>7. PICK ms : ms = Put(ps, p, t)
  OBVIOUS
<1>8. TableInv(ms)
  BY <1>5, <1>6, <1>7, PutMild, Zenon DEF Mild
<1>9. t.children = ps[p].children
  BY <1>5, Zenon DEF SameKin
<1>10. Steady(ps, ms)
  BY <1>5, <1>7, <1>9, PutSteady
<1>11. FireTimer(ps, p) = Deliver(ms, p, "ALRM")
  BY <1>1, <1>2, <1>4, <1>7, Zenon DEF FireTimer, Put
<1>12. NoneStopped(ms)
  BY <1>10, Zenon DEF Steady, StillWaits, NoneStopped
<1>13. Steady(ms, Deliver(ms, p, "ALRM"))
  BY <1>8, <1>12, DeliverSteady
<1> QED
  BY <1>10, <1>11, <1>13, SteadyTrans

\* A part of a handler and the answer to its caller.
LEMMA ReplySteady ==
  ASSUME NEW ps, TableInv(ps), NEW p \in Pid, ~ps[p].waiter.on,
         NEW ms, Tame(ps, ms), Steady(ps, ms), NEW v \in Rpcs, NEW qs, qs = Respond(ms, p, v)
  PROVE  Steady(ps, qs)
<1>1. TableInv(ms) /\ ~ms[p].waiter.on
  BY ParkedBefore, Zenon DEF Tame
<1>2. Steady(ms, qs)
  BY <1>1, RespondSteady
<1> QED
  BY <1>2, SteadyTrans

\* A field of the caller, or of another process, is set and the caller answered.
LEMMA SetSteady ==
  ASSUME NEW ps, TableInv(ps), NEW p \in Pid, ~ps[p].waiter.on, NEW t \in Pid, NEW r,
         r.waiter = ps[t].waiter, r.children = ps[t].children, r.state = ps[t].state,
         NEW ms, ms = Put(ps, t, r), Lawful(ps, ms), NEW qs, qs = Respond(ms, p, Done)
  PROVE  Steady(ps, qs)
<1>1. Steady(ps, ms)
  BY PutSteady
<1>2. TableInv(ms) /\ ~ms[p].waiter.on
  BY ParkedBefore, Zenon DEF Lawful, Tame
<1>3. Steady(ms, qs)
  BY <1>2, DoneReply, RespondSteady
<1> QED
  BY <1>1, <1>3, SteadyTrans

LEMMA PagedSteady ==
  ASSUME NEW ps, TableInv(ps), NEW p \in Pid, NEW v \in Rpcs, NEW qs, qs = Paged(ps, p, v)
  PROVE  Steady(ps, qs)
<1>1. ps[p] \in PCB /\ ps \in Tables
  BY Unpack, Zenon
<1>2. PICK t : t = [ps[p] EXCEPT !.rpc = v]
  OBVIOUS
<1>3. SameKin(ps[p], t) /\ t.waiter = ps[p].waiter /\ t.state = ps[p].state
  BY <1>1, <1>2, RpcEdit
<1>4. t.children = ps[p].children
  BY <1>3, Zenon DEF SameKin
<1>5. qs = Put(ps, p, t)
  BY <1>1, <1>2, Zenon DEF Paged, Put
<1> QED
  BY <1>3, <1>4, <1>5, PutSteady

-----------------------------------------------------------------------------
(* The actions.                                                              *)

LEMMA CallSteady ==
  ASSUME IInv, NEW p \in Pid, Call(p)
  PROVE  Steady(procs, procs')
<1>1. procs' = Paged(procs, p, Rpc("posted", 0)) /\ TableInv(procs)
  BY Zenon DEF Call, Paged, IInv
<1>2. Rpc("posted", 0) \in Rpcs
  BY Constants, Zenon
<1> QED
  BY <1>1, <1>2, PagedSteady

LEMMA TakeSignalSteady ==
  ASSUME IInv, NoneStopped(procs), NEW p \in Pid, NEW sig \in Sigs, TakeSignal(p, sig)
  PROVE  Steady(procs, procs')
<1>1. PICK taken : taken = [procs EXCEPT ![p].pend = procs[p].pend \ {sig}]
  OBVIOUS
<1>2. procs' = taken \/ procs' = ExitProcess(taken, p)
  BY <1>1, Zenon DEF TakeSignal
<1>3. TableInv(procs) /\ procs[p] \in PCB /\ procs \in Tables
  BY Unpack, Zenon DEF IInv
<1>4. PICK v : v = procs[p].pend \ {sig}
  OBVIOUS
<1>5. v \in SUBSET Sigs
  BY <1>3, <1>4, Fields, Zenon
<1>6. PICK t : t = [procs[p] EXCEPT !.pend = v]
  OBVIOUS
<1>7. /\ t \in PCB /\ SameKin(procs[p], t)
      /\ t.rpc = procs[p].rpc /\ t.waiter = procs[p].waiter /\ t.state = procs[p].state
      /\ t.itimer = procs[p].itimer
      /\ t.pendingStop = procs[p].pendingStop /\ t.pendingCont = procs[p].pendingCont
  BY <1>3, <1>5, <1>6, PendEdit, SMTT(30)
<1>8. taken = Put(procs, p, t)
  BY <1>1, <1>3, <1>4, <1>6, Zenon DEF Put
<1>9. TableInv(taken)
  BY <1>3, <1>7, <1>8, LowerMild DEF Mild
<1>10. t.children = procs[p].children
  BY <1>7, Zenon DEF SameKin
<1>11. Steady(procs, taken)
  BY <1>3, <1>7, <1>8, <1>10, PutSteady
<1>12. NoneStopped(taken)
  BY <1>11, Zenon DEF Steady, StillWaits, NoneStopped
<1>13. Steady(taken, ExitProcess(taken, p))
  BY <1>9, <1>12, ExitSteady
<1> QED
  BY <1>2, <1>11, <1>13, SteadyTrans

LEMMA SetMaskSteady ==
  ASSUME IInv, NEW p \in Pid, SetMask(p)
  PROVE  Steady(procs, procs')
<1>1. PICK v \in SUBSET Maskable : procs' = [procs EXCEPT ![p].block = v]
  BY Zenon DEF SetMask
<1>2. TableInv(procs) /\ procs[p] \in PCB /\ procs \in Tables
  BY Unpack, Zenon DEF IInv
<1>3. v \in SUBSET Sigs
  BY SigsAssumption
<1>4. PICK t : t = [procs[p] EXCEPT !.block = v]
  OBVIOUS
<1>5. SameKin(procs[p], t) /\ t.waiter = procs[p].waiter /\ t.state = procs[p].state
  BY <1>2, <1>3, <1>4, BlockEdit, ZenonT(60)
<1>6. t.children = procs[p].children
  BY <1>5, Zenon DEF SameKin
<1>7. procs' = Put(procs, p, t)
  BY <1>1, <1>2, <1>4, Zenon DEF Put
<1> QED
  BY <1>2, <1>5, <1>6, <1>7, PutSteady

LEMMA WorkerDiesSteady ==
  ASSUME IInv, NoneStopped(procs), NEW p \in Pid, WorkerDies(p)
  PROVE  Steady(procs, procs')
<1>1. PICK lost : lost = [procs EXCEPT ![p].worker = "lost"]
  OBVIOUS
<1>2. procs' = lost \/ procs' = ExitProcess(lost, p)
  BY <1>1, Zenon DEF WorkerDies
<1>3. TableInv(procs) /\ procs[p] \in PCB /\ procs \in Tables
  BY Unpack, Zenon DEF IInv
<1>4. PICK v \in {"none", "up", "lost"} : v = "lost"
  OBVIOUS
<1>5. PICK t : t = [procs[p] EXCEPT !.worker = v]
  OBVIOUS
<1>6. /\ t \in PCB /\ SameKin(procs[p], t)
      /\ t.rpc = procs[p].rpc /\ t.waiter = procs[p].waiter /\ t.state = procs[p].state
      /\ t.itimer = procs[p].itimer
      /\ t.pendingStop = procs[p].pendingStop /\ t.pendingCont = procs[p].pendingCont
  BY <1>3, <1>5, WorkerEdit
<1>7. lost = Put(procs, p, t)
  BY <1>1, <1>3, <1>4, <1>5, Zenon DEF Put
<1>8. TableInv(lost)
  BY <1>3, <1>6, <1>7, LowerMild DEF Mild
<1>9. t.children = procs[p].children
  BY <1>6, Zenon DEF SameKin
<1>10. Steady(procs, lost)
  BY <1>3, <1>6, <1>7, <1>9, PutSteady
<1>11. NoneStopped(lost)
  BY <1>10, Zenon DEF Steady, StillWaits, NoneStopped
<1>12. Steady(lost, ExitProcess(lost, p))
  BY <1>8, <1>11, ExitSteady
<1> QED
  BY <1>2, <1>10, <1>12, SteadyTrans

LEMMA InterruptSteady ==
  ASSUME IInv, NEW p \in Pid, Interrupt(p)
  PROVE  Steady(procs, procs')
<1>1. procs' = Answer(procs, p, Done) /\ procs[p].waiter.on /\ TableInv(procs)
  BY Zenon DEF Interrupt, IInv
<1> QED
  BY <1>1, DoneReply, AnswerSteady

\* A wait answers its caller, or parks him beside a child he may wait for.
LEMMA WaitKeeps ==
  ASSUME IInv, NoneStopped(procs), Hopeful(procs), NEW p \in Pid, Wait(p)
  PROVE  NoneStopped(procs') /\ Hopeful(procs')
<1>1. Dispatched(p)
  BY Zenon DEF Wait
<1>2. Alive(procs[p]) /\ ~procs[p].waiter.on /\ TableInv(procs)
  BY <1>1, DispatchedFacts, Zenon
<1>3. PICK sel \in Sels, opts \in OptSets :
        \/ procs' = Respond(procs, p, Done)
        \/ \E z \in Candidates(p, sel) :
             procs' = Respond(Reap(procs, z), p, Rpc("exit", z))
        \/ \E c \in Candidates(p, sel) :
             procs' = Respond([procs EXCEPT ![c].pendingStop = FALSE], p, Rpc("stop", c))
        \/ \E c \in Candidates(p, sel) :
             procs' = Respond([procs EXCEPT ![c].pendingCont = FALSE], p, Rpc("cont", c))
        \/ /\ Candidates(p, sel) # {}
           /\ procs' = [procs EXCEPT ![p].rpc = Rpc("deferred", 0),
                                     ![p].waiter = [on |-> TRUE, sel |-> sel, opts |-> opts]]
  <2>1. PICK sel \in Sels, opts \in OptSets, nohang \in BOOLEAN :
        LET cands == Candidates(p, sel)
            zombies == {c \in cands : procs[c].state = "zombie"}
            stops == {c \in cands : "untraced" \in opts /\ procs[c].pendingStop
                                    /\ procs[c].state = "stopped"}
            conts == {c \in cands : "continued" \in opts /\ procs[c].pendingCont}
        IN \/ /\ cands = {}
              /\ procs' = Respond(procs, p, Done)
           \/ \E z \in zombies :
                procs' = Respond(Reap(procs, z), p, Rpc("exit", z))
           \/ /\ zombies = {}
              /\ \E c \in stops :
                   procs' = Respond([procs EXCEPT ![c].pendingStop = FALSE],
                                    p, Rpc("stop", c))
           \/ /\ zombies = {}
              /\ \E c \in conts :
                   procs' = Respond([procs EXCEPT ![c].pendingCont = FALSE],
                                    p, Rpc("cont", c))
           \/ /\ cands # {} /\ zombies = {} /\ stops = {} /\ conts = {}
              /\ procs' = IF nohang THEN Respond(procs, p, Done)
                          ELSE [procs EXCEPT
                                  ![p].rpc = Rpc("deferred", 0),
                                  ![p].waiter = [on |-> TRUE, sel |-> sel,
                                                 opts |-> opts]]
    BY Zenon DEF Wait
  <2> QED
    BY <2>1, Zenon
<1>4. \A c \in Candidates(p, sel) :
        /\ c \in procs[p].children /\ c \in Pid /\ procs[c].ppid = p
        /\ WaitSelectorMatch(procs, sel, p, c)
  <2>1. procs[p].children \subseteq Pid
    BY <1>2, Unpack, Fields, Zenon
  <2> QED
    BY <1>2, <2>1, Zenon DEF Candidates, TableInv, Linked
<1>5. ASSUME Steady(procs, procs') PROVE NoneStopped(procs') /\ Hopeful(procs')
  BY <1>5, SteadyKeeps
<1>6. CASE procs' = Respond(procs, p, Done)
  BY <1>2, <1>5, <1>6, DoneReply, RespondSteady
<1>7. CASE \E z \in Candidates(p, sel) : procs' = Respond(Reap(procs, z), p, Rpc("exit", z))
  <2>1. PICK z \in Candidates(p, sel) : procs' = Respond(Reap(procs, z), p, Rpc("exit", z))
    BY <1>7
  <2>2. z \in Pid /\ procs[z].ppid = p
    BY <1>4, Zenon
  <2>3. PICK ms : ms = Reap(procs, z)
    OBVIOUS
  <2>4. Thin(procs, ms)
    BY <1>2, <2>2, <2>3, ReapThin
  <2>5. TableInv(ms) /\ ~ms[p].waiter.on /\ ms[p].state = procs[p].state
    BY <1>2, <2>4, ThinTame, Zenon DEF Tame, Thin, SameSelf
  <2>6. ASSUME NEW q \in Pid PROVE StillWaits(procs[q], ms[q])
    <3>1. CASE q = p
      BY <2>5, <3>1, Zenon DEF StillWaits
    <3>2. CASE q # p
      <4>1. q # procs[z].ppid
        BY <2>2, <3>2
      <4> QED
        BY <1>2, <2>2, <2>3, <4>1, ReapChildren
    <3> QED
      BY <3>1, <3>2
  <2>7. Steady(procs, ms)
    BY <2>6, Zenon DEF Steady
  <2>8. Rpc("exit", z) \in Rpcs
    BY <2>2, Constants, Zenon
  <2>9. procs' = Respond(ms, p, Rpc("exit", z))
    BY <2>1, <2>3, Zenon
  <2>10. Steady(ms, procs')
    BY <2>5, <2>8, <2>9, RespondSteady
  <2> QED
    BY <1>5, <2>7, <2>10, SteadyTrans
<1>8. ASSUME NEW c \in Candidates(p, sel), NEW kind \in {"stop", "cont"},
             procs' = Respond(Cleared(procs, c, kind), p, Rpc(kind, c))
      PROVE  NoneStopped(procs') /\ Hopeful(procs')
  <2>1. c \in Pid
    BY <1>4, Zenon
  <2>2. PICK ms : ms = Cleared(procs, c, kind)
    OBVIOUS
  <2>3. procs[c] \in PCB /\ procs \in Tables
    BY <1>2, <2>1, Unpack, Zenon
  <2>4. PICK no \in BOOLEAN : no = FALSE
    OBVIOUS
  <2>5. PICK t : t = IF kind = "stop" THEN [procs[c] EXCEPT !.pendingStop = no]
                                      ELSE [procs[c] EXCEPT !.pendingCont = no]
    OBVIOUS
  <2>6. SameKin(procs[c], t) /\ t.waiter = procs[c].waiter /\ t.state = procs[c].state
    <3>1. CASE kind = "stop"
      <4>1. t = [procs[c] EXCEPT !.pendingStop = no]
        BY <2>5, <3>1
      <4> QED
        BY <2>3, <4>1, StopFlagEdit
    <3>2. CASE kind # "stop"
      <4>1. t = [procs[c] EXCEPT !.pendingCont = no]
        BY <2>5, <3>2
      <4> QED
        BY <2>3, <4>1, ContFlagEdit
    <3> QED
      BY <3>1, <3>2
  <2>7. ms = Put(procs, c, t)
    BY <2>1, <2>2, <2>3, <2>4, <2>5, Zenon DEF Cleared, Put
  <2>8. t.children = procs[c].children
    BY <2>6, Zenon DEF SameKin
  <2>9. Steady(procs, ms)
    BY <1>2, <2>1, <2>6, <2>7, <2>8, PutSteady
  <2>10. Mild(procs, ms)
    BY <1>2, <2>1, <2>2, ClearSoft
  <2>11. Tame(procs, ms)
    BY <2>10, MildLawful, Zenon DEF Lawful
  <2>12. Rpc(kind, c) \in Rpcs
    <3>1. c \in 0 .. MaxPid
      BY <2>1, Constants, Zenon
    <3> QED
      BY <3>1, Constants
  <2>13. procs' = Respond(ms, p, Rpc(kind, c))
    BY <1>8, <2>2, Zenon
  <2>14. Steady(procs, procs')
    BY <1>2, <2>9, <2>11, <2>12, <2>13, ReplySteady
  <2> QED
    BY <1>5, <2>14
<1>9. CASE \E c \in Candidates(p, sel) :
             procs' = Respond([procs EXCEPT ![c].pendingStop = FALSE], p, Rpc("stop", c))
  <2>1. PICK c \in Candidates(p, sel) :
          procs' = Respond([procs EXCEPT ![c].pendingStop = FALSE], p, Rpc("stop", c))
    BY <1>9
  <2>2. procs' = Respond(Cleared(procs, c, "stop"), p, Rpc("stop", c))
    BY <2>1, Zenon DEF Cleared
  <2> QED
    BY <1>8, <2>2
<1>10. CASE \E c \in Candidates(p, sel) :
             procs' = Respond([procs EXCEPT ![c].pendingCont = FALSE], p, Rpc("cont", c))
  <2>1. PICK c \in Candidates(p, sel) :
          procs' = Respond([procs EXCEPT ![c].pendingCont = FALSE], p, Rpc("cont", c))
    BY <1>10
  <2>2. procs' = Respond(Cleared(procs, c, "cont"), p, Rpc("cont", c))
    BY <2>1 DEF Cleared
  <2> QED
    BY <1>8, <2>2
<1>11. CASE /\ Candidates(p, sel) # {}
            /\ procs' = [procs EXCEPT ![p].rpc = Rpc("deferred", 0),
                                      ![p].waiter = [on |-> TRUE, sel |-> sel, opts |-> opts]]
  <2>1. PICK w : w = [on |-> TRUE, sel |-> sel, opts |-> opts]
    OBVIOUS
  <2>2. w \in Waiters /\ w.sel = sel
    <3>1. opts \in SUBSET WaitOptions
      BY ArgsAssumption
    <3> QED
      BY <2>1, <3>1, Zenon DEF Waiters
  <2>3. procs[p] \in PCB /\ procs \in Tables
    BY <1>2, Unpack, Zenon
  <2>4. PICK v \in Rpcs : v = Rpc("deferred", 0)
    BY Constants, Zenon
  <2>5. PICK r : r = [procs[p] EXCEPT !.rpc = v]
    OBVIOUS
  <2>6. r \in PCB /\ SameKin(procs[p], r) /\ r.state = procs[p].state
    BY <2>3, <2>5, RpcEdit
  <2>7. PICK t : t = [r EXCEPT !.waiter = w]
    OBVIOUS
  <2>8. SameKin(r, t) /\ t.waiter = w /\ t.state = r.state
    BY <2>2, <2>6, <2>7, WaiterEdit
  <2>9. procs' = [procs EXCEPT ![p] = t]
    BY <1>11, <2>1, <2>3, <2>4, <2>5, <2>7, Zenon
  <2>10. procs'[p] = t
    BY <2>3, <2>9, Zenon DEF Tables
  <2>11. \A q \in Pid : q # p => procs'[q] = procs[q]
    BY <2>3, <2>9, Zenon DEF Tables
  <2>12. /\ procs'[p].children = procs[p].children /\ procs'[p].state = procs[p].state
         /\ procs'[p].waiter.sel = sel
    BY <2>2, <2>6, <2>8, <2>10, Zenon DEF SameKin
  <2>13. NoneStopped(procs')
    BY <2>11, <2>12, Zenon DEF NoneStopped
  <2>14. ASSUME NEW q \in Pid, procs'[q].waiter.on,
                procs'[q].waiter.sel = -1 \/ procs'[q].waiter.sel > 0
         PROVE  \E c \in procs'[q].children : Named(procs'[q].waiter.sel, c)
    <3>1. CASE q = p
      <4>1. PICK c : c \in Candidates(p, sel)
        BY <1>11
      <4>2. c \in procs[p].children /\ WaitSelectorMatch(procs, sel, p, c)
        BY <1>4, <4>1, Zenon
      <4>3. sel \in Int /\ (sel = -1 \/ sel > 0)
        BY <2>12, <2>14, <3>1, ArgsAssumption
      <4>4. Named(sel, c)
        BY <4>2, <4>3 DEF WaitSelectorMatch, Named
      <4> QED
        BY <2>12, <3>1, <4>2, <4>4, Zenon
    <3>2. CASE q # p
      <4>1. procs'[q] = procs[q]
        BY <2>11, <3>2, Zenon
      <4> QED
        BY <2>14, <4>1, Zenon DEF Hopeful
    <3> QED
      BY <3>1, <3>2
  <2> QED
    BY <2>13, <2>14, Zenon DEF Hopeful
<1> QED
  BY <1>3, <1>6, <1>7, <1>9, <1>10, <1>11, Zenon

LEMMA ExitActSteady ==
  ASSUME IInv, NoneStopped(procs), NEW p \in Pid, Exit(p)
  PROVE  Steady(procs, procs')
<1>1. procs' = ExitProcess(procs, p)
  BY Zenon DEF Exit
<1> QED
  BY <1>1, ExitSteady, Zenon DEF IInv

LEMMA TimerSteady ==
  ASSUME NoJobControl, IInv, NoneStopped(procs), NEW p \in Pid, TimerFires(p)
  PROVE  Steady(procs, procs')
<1>1. procs' = FireTimer(procs, p) /\ "ALRM" \in Sigs
  BY Zenon DEF TimerFires
<1> QED
  BY <1>1, FireSteady, Zenon DEF IInv

LEMMA KillSteady ==
  ASSUME NoJobControl, IInv, NoneStopped(procs), NEW p \in Pid, Kill(p)
  PROVE  Steady(procs, procs')
<1>1. ~procs[p].waiter.on /\ TableInv(procs)
  BY DispatchedFacts, Zenon DEF Kill
<1>2. PICK t \in Pid, sig \in Sigs :
        procs' = Respond(procs, p, Done) \/ procs' = Respond(Deliver(procs, t, sig), p, Done)
  BY Zenon DEF Kill
<1>3. Steady(procs, Deliver(procs, t, sig)) /\ Tame(procs, Deliver(procs, t, sig))
  BY <1>1, DeliverSteady, DeliverLawful, Zenon DEF Lawful
<1>4. Steady(procs, Respond(procs, p, Done))
  BY <1>1, DoneReply, RespondSteady
<1>5. Steady(procs, Respond(Deliver(procs, t, sig), p, Done))
  BY <1>1, <1>3, DoneReply, ReplySteady
<1> QED
  BY <1>2, <1>4, <1>5, Zenon

\* The caller is answered at once, or owed its answer.
LEMMA DeferSteady ==
  ASSUME IInv, NEW p \in Pid, Dispatched(p),
         procs' = Respond(procs, p, Done) \/ procs' = [procs EXCEPT ![p].rpc = Rpc("deferred", 0)]
  PROVE  Steady(procs, procs')
<1>1. ~procs[p].waiter.on /\ TableInv(procs)
  BY DispatchedFacts, Zenon
<1>2. CASE procs' = Respond(procs, p, Done)
  BY <1>1, <1>2, DoneReply, RespondSteady
<1>3. CASE procs' = [procs EXCEPT ![p].rpc = Rpc("deferred", 0)]
  <2>1. procs' = Paged(procs, p, Rpc("deferred", 0)) /\ Rpc("deferred", 0) \in Rpcs
    BY <1>3, Constants, Zenon DEF Paged
  <2> QED
    BY <1>1, <2>1, PagedSteady
<1> QED
  BY <1>2, <1>3

LEMMA KillGroupSteady ==
  ASSUME IInv, NEW p \in Pid, KillGroup(p) \/ Spawn(p)
  PROVE  Steady(procs, procs')
<1>1. /\ Dispatched(p)
      /\ procs' = Respond(procs, p, Done) \/ procs' = [procs EXCEPT ![p].rpc = Rpc("deferred", 0)]
  BY Zenon DEF KillGroup, Spawn
<1> QED
  BY <1>1, DeferSteady, Zenon

LEMMA KillNextSteady ==
  ASSUME NoJobControl, IInv, NoneStopped(procs), KillNext
  PROVE  Steady(procs, procs')
<1>1. killing.targets # {}
  BY Zenon DEF KillNext, Quiet
<1>2. /\ killing.targets \in SUBSET Pid /\ killing.sig \in Sigs
      /\ killing.sender \in 0 .. MaxPid
  BY DEF IInv, Books, Kills
<1>3. PICK t : t = CHOOSE x \in killing.targets : \A y \in killing.targets : x <= y
  OBVIOUS
<1>4. t \in Pid
  BY <1>1, <1>2, <1>3, LeastPid, Zenon
<1>5. PICK done : done = Deliver(procs, t, killing.sig)
  OBVIOUS
<1>6. TableInv(procs) /\ Tame(procs, done) /\ Steady(procs, done)
  BY <1>2, <1>4, <1>5, DeliverLawful, DeliverSteady, Zenon DEF IInv, Lawful
<1>7. PICK k : k = killing.sender
  OBVIOUS
<1>8. Owed(procs, {k})
  BY <1>1, <1>7, Zenon DEF IInv, SenderOwed
<1>9. procs' = done \/ procs' = IF k = 0 THEN done ELSE Respond(done, k, Done)
  BY <1>3, <1>5, <1>7, Zenon DEF KillNext
<1>10. CASE procs' = done
  BY <1>6, <1>10, Zenon
<1>11. CASE k # 0 /\ procs' = Respond(done, k, Done)
  <2>1. k \in Pid
    BY <1>2, <1>7, <1>11, MaxPidAssumption DEF Pid
  <2>2. Sane(procs[k])
    BY <1>6, <2>1, Unpack, Zenon
  <2>3. ~procs[k].waiter.on
    BY <1>8, <2>1, <2>2, Zenon DEF Owed, Sane
  <2> QED
    BY <1>6, <1>11, <2>1, <2>3, DoneReply, ReplySteady
<1> QED
  BY <1>9, <1>10, <1>11, Zenon

LEMMA SetDispositionSteady ==
  ASSUME IInv, NEW p \in Pid, SetDisposition(p)
  PROVE  Steady(procs, procs')
<1>1. ~procs[p].waiter.on
  BY DispatchedFacts, Zenon DEF SetDisposition
<1>2. PICK sig \in Handled, kind \in Kinds :
        procs' = Respond([procs EXCEPT ![p].disp[sig] = kind], p, Done)
  BY Zenon DEF SetDisposition
<1>3. sig \in Sigs /\ kind \in Dispositions
  BY SigsAssumption
<1>4. procs[p] \in PCB /\ procs \in Tables /\ TableInv(procs)
  BY Unpack, Zenon DEF IInv
<1>5. PICK v : v = [procs[p].disp EXCEPT ![sig] = kind]
  OBVIOUS
<1>6. v \in [Sigs -> Dispositions]
  <2>1. procs[p].disp \in [Sigs -> Dispositions]
    BY <1>4, Fields, Zenon
  <2> QED
    BY <1>3, <1>5, <2>1, Zenon
<1>7. PICK t : t = [procs[p] EXCEPT !.disp = v]
  OBVIOUS
<1>8. /\ t \in PCB /\ SameKin(procs[p], t)
      /\ t.rpc = procs[p].rpc /\ t.waiter = procs[p].waiter /\ t.state = procs[p].state
      /\ t.itimer = procs[p].itimer
      /\ t.pendingStop = procs[p].pendingStop /\ t.pendingCont = procs[p].pendingCont
  BY <1>4, <1>6, <1>7, DispEdit
<1>9. PICK ms : ms = Put(procs, p, t)
  OBVIOUS
<1>10. Lawful(procs, ms)
  BY <1>4, <1>8, <1>9, LowerMild, MildLawful
<1>11. procs' = Respond(ms, p, Done)
  BY <1>2, <1>4, <1>5, <1>7, <1>9, Zenon DEF Put
<1>12. t.children = procs[p].children
  BY <1>8, Zenon DEF SameKin
<1> QED
  BY <1>1, <1>4, <1>8, <1>9, <1>10, <1>11, <1>12, SetSteady

LEMMA SetPgidSteady ==
  ASSUME IInv, NEW p \in Pid, SetPgid(p)
  PROVE  Steady(procs, procs')
<1>1. ~procs[p].waiter.on
  BY DispatchedFacts, Zenon DEF SetPgid
<1>2. PICK t \in Pid, g \in PgidArgs :
        \/ procs' = Respond(procs, p, Done)
        \/ procs' = Respond([procs EXCEPT ![t].pgid = IF g > 0 THEN g ELSE t], p, Done)
  BY Zenon DEF SetPgid
<1>3. procs[t] \in PCB /\ procs \in Tables /\ TableInv(procs)
  BY Unpack, Zenon DEF IInv
<1>4. PICK v : v = IF g > 0 THEN g ELSE t
  OBVIOUS
<1>5. v \in 0 .. MaxPid /\ v # 0
  BY <1>4, ArgsAssumption, MaxPidAssumption DEF Pid
<1>6. PICK r : r = [procs[t] EXCEPT !.pgid = v]
  OBVIOUS
<1>7. /\ r \in PCB /\ r.listed = procs[t].listed /\ r.ppid = procs[t].ppid /\ r.pgid = v
      /\ r.children = procs[t].children
      /\ r.rpc = procs[t].rpc /\ r.waiter = procs[t].waiter /\ r.state = procs[t].state
      /\ r.itimer = procs[t].itimer
      /\ r.pendingStop = procs[t].pendingStop /\ r.pendingCont = procs[t].pendingCont
  BY <1>3, <1>5, <1>6, GroupEdit
<1>8. PICK ms : ms = Put(procs, t, r)
  OBVIOUS
<1>9. Lawful(procs, ms)
  BY <1>3, <1>5, <1>7, <1>8, EditLawful, Zenon
<1>10. [procs EXCEPT ![t].pgid = IF g > 0 THEN g ELSE t] = ms
  BY <1>3, <1>4, <1>6, <1>8, Zenon DEF Put
<1>11. CASE procs' = Respond(procs, p, Done)
  BY <1>1, <1>3, <1>11, DoneReply, RespondSteady
<1>12. CASE procs' = Respond(ms, p, Done)
  BY <1>1, <1>3, <1>7, <1>8, <1>9, <1>12, SetSteady
<1> QED
  BY <1>2, <1>10, <1>11, <1>12, Zenon

LEMMA SetSidSteady ==
  ASSUME IInv, NEW p \in Pid, SetSid(p)
  PROVE  Steady(procs, procs')
<1>1. ~procs[p].waiter.on
  BY DispatchedFacts, Zenon DEF SetSid
<1>2. procs' = Respond(procs, p, Done)
      \/ procs' = Respond([procs EXCEPT ![p].pgid = p, ![p].sid = p], p, Done)
  BY Zenon DEF SetSid
<1>3. procs[p] \in PCB /\ procs \in Tables /\ TableInv(procs)
  BY Unpack, Zenon DEF IInv
<1>4. p \in 0 .. MaxPid /\ p # 0
  BY MaxPidAssumption DEF Pid
<1>5. PICK r : r = [procs[p] EXCEPT !.pgid = p]
  OBVIOUS
<1>6. /\ r \in PCB /\ r.listed = procs[p].listed /\ r.ppid = procs[p].ppid /\ r.pgid = p
      /\ r.children = procs[p].children
      /\ r.rpc = procs[p].rpc /\ r.waiter = procs[p].waiter /\ r.state = procs[p].state
      /\ r.itimer = procs[p].itimer
      /\ r.pendingStop = procs[p].pendingStop /\ r.pendingCont = procs[p].pendingCont
  BY <1>3, <1>4, <1>5, GroupEdit
<1>7. PICK t : t = [r EXCEPT !.sid = p]
  OBVIOUS
<1>8. /\ t \in PCB /\ SameKin(r, t)
      /\ t.rpc = r.rpc /\ t.waiter = r.waiter /\ t.state = r.state
      /\ t.itimer = r.itimer
      /\ t.pendingStop = r.pendingStop /\ t.pendingCont = r.pendingCont
  BY <1>4, <1>6, <1>7, SessionEdit
<1>9. /\ t.listed = procs[p].listed /\ t.ppid = procs[p].ppid /\ t.pgid # 0
      /\ t.children = procs[p].children
      /\ t.rpc = procs[p].rpc /\ t.waiter = procs[p].waiter /\ t.state = procs[p].state
      /\ t.itimer = procs[p].itimer
      /\ t.pendingStop = procs[p].pendingStop /\ t.pendingCont = procs[p].pendingCont
  BY <1>4, <1>6, <1>8, Zenon DEF SameKin
<1>10. PICK ms : ms = Put(procs, p, t)
  OBVIOUS
<1>11. Lawful(procs, ms)
  BY <1>3, <1>8, <1>9, <1>10, EditLawful, Zenon
<1>12. procs' = Respond(procs, p, Done) \/ procs' = Respond(ms, p, Done)
  BY <1>2, <1>3, <1>5, <1>7, <1>10, Zenon DEF Put
<1>13. CASE procs' = Respond(procs, p, Done)
  BY <1>1, <1>3, <1>13, DoneReply, RespondSteady
<1>14. CASE procs' = Respond(ms, p, Done)
  BY <1>1, <1>3, <1>9, <1>10, <1>11, <1>14, SetSteady
<1> QED
  BY <1>12, <1>13, <1>14

LEMMA SetTimerSteady ==
  ASSUME IInv, NEW p \in Pid, SetTimer(p)
  PROVE  Steady(procs, procs')
<1>1. ~procs[p].waiter.on /\ Alive(procs[p])
  BY DispatchedFacts, Zenon DEF SetTimer
<1>2. PICK kind \in Timers \cup {"off"} :
        procs' = Respond([procs EXCEPT ![p].itimer = kind], p, Done)
  BY Zenon DEF SetTimer
<1>3. procs[p] \in PCB /\ procs \in Tables /\ TableInv(procs)
  BY Unpack, Zenon DEF IInv
<1>4. kind \in {"off", "once", "interval"}
  BY ArgsAssumption
<1>5. PICK t : t = [procs[p] EXCEPT !.itimer = kind]
  OBVIOUS
<1>6. /\ t \in PCB /\ SameKin(procs[p], t)
      /\ t.rpc = procs[p].rpc /\ t.waiter = procs[p].waiter /\ t.state = procs[p].state
      /\ t.itimer = kind
      /\ t.pendingStop = procs[p].pendingStop /\ t.pendingCont = procs[p].pendingCont
  BY <1>3, <1>4, <1>5, TimerEdit
<1>7. procs[p].state # "zombie"
  BY <1>1 DEF Alive
<1>8. t.listed = procs[p].listed /\ t.ppid = procs[p].ppid /\ t.pgid = procs[p].pgid
      /\ t.children = procs[p].children
  BY <1>6, Zenon DEF SameKin
<1>9. PICK ms : ms = Put(procs, p, t)
  OBVIOUS
<1>10. Lawful(procs, ms)
  BY <1>3, <1>6, <1>7, <1>8, <1>9, EditLawful, Zenon
<1>11. procs' = Respond(ms, p, Done)
  BY <1>2, <1>3, <1>5, <1>9, Zenon DEF Put
<1> QED
  BY <1>1, <1>3, <1>6, <1>8, <1>9, <1>10, <1>11, SetSteady

\* A new process waits for nothing, and its parent has one child more.
LEMMA AddedSteady ==
  ASSUME NEW ps, TableInv(ps), NEW n \in Pid, NEW q \in Pid \cup {0}, q # n,
         NEW t \in PCB, ~t.waiter.on, t.state # "stopped",
         NEW qs, qs = Added(ps, n, q, t)
  PROVE  Steady(ps, qs)
<1>1. PICK rs : rs = Put(ps, n, t)
  OBVIOUS
<1>2. rs \in Tables /\ rs[n] = t /\ \A o \in Pid : o # n => rs[o] = ps[o]
  BY <1>1, Zenon DEF TableInv, Tables, Put
<1>3. ASSUME NEW o \in Pid PROVE StillWaits(ps[o], rs[o])
  <2>1. CASE o = n
    BY <1>2, <2>1, Zenon DEF StillWaits
  <2>2. CASE o # n
    <3>1. rs[o] = ps[o]
      BY <1>2, <2>2, Zenon
    <3> QED
      BY <3>1, Zenon DEF StillWaits
  <2> QED
    BY <2>1, <2>2
<1>4. Steady(ps, rs)
  BY <1>3, Zenon DEF Steady
<1>5. CASE q = 0
  <2>1. qs = rs
    BY <1>1, <1>5, Zenon DEF Added
  <2> QED
    BY <1>4, <2>1
<1>6. CASE q # 0
  <2>1. q \in Pid
    BY <1>6
  <2>2. PICK v : v = rs[q].children \cup {n}
    OBVIOUS
  <2>3. rs[q] \in PCB
    BY <1>2, <2>1, Zenon DEF Tables
  <2>4. v \in SUBSET Pid /\ rs[q].children \subseteq v
    <3>1. rs[q].children \subseteq Pid
      BY <2>3, Fields, Zenon
    <3> QED
      BY <2>2, <3>1, Zenon
  <2>5. PICK r : r = [rs[q] EXCEPT !.children = v]
    OBVIOUS
  <2>6. r.children = v /\ r.waiter = rs[q].waiter /\ r.state = rs[q].state
    BY <2>3, <2>4, <2>5, ChildrenEdit
  <2>7. qs = [rs EXCEPT ![q] = r]
    BY <1>1, <1>2, <1>6, <2>1, <2>2, <2>5, Zenon DEF Added
  <2>8. qs[q] = r /\ \A o \in Pid : o # q => qs[o] = rs[o]
    BY <1>2, <2>1, <2>7, Zenon DEF Tables
  <2>9. ASSUME NEW o \in Pid PROVE StillWaits(rs[o], qs[o])
    <3>1. CASE o = q
      BY <2>4, <2>6, <2>8, <3>1, Zenon DEF StillWaits
    <3>2. CASE o # q
      <4>1. qs[o] = rs[o]
        BY <2>8, <3>2, Zenon
      <4> QED
        BY <4>1, Zenon DEF StillWaits
    <3> QED
      BY <3>1, <3>2
  <2>10. Steady(rs, qs)
    BY <2>9, Zenon DEF Steady
  <2> QED
    BY <1>4, <2>10, SteadyTrans
<1> QED
  BY <1>5, <1>6

LEMMA SpawnDoneSteady ==
  ASSUME IInv, NEW p \in Pid \cup {0}, SpawnDone(p)
  PROVE  Steady(procs, procs')
<1>1. p \in spawns /\ nextPid <= MaxPid
  BY Zenon DEF SpawnDone
<1>2. PICK n : n = nextPid
  OBVIOUS
<1>3. n \in Pid /\ n \in 0 .. MaxPid /\ 0 \in 0 .. MaxPid /\ n >= n
  BY <1>1, <1>2, MaxPidAssumption DEF IInv, Books, Pid
<1>4. PICK q \in 0 .. MaxPid, g \in Pid, s \in 0 .. MaxPid :
        q = p /\ procs' = AddProcess(procs, p, n, NewPcb(q, g, s))
  <2>1. CASE p = 0
    <3>1. PICK s \in {0, n} :
            procs' = AddProcess(procs, 0, n, NewPcb(0, n, s))
      BY <1>2, <2>1, Zenon DEF SpawnDone
    <3> QED
      BY <1>3, <2>1, <3>1, Zenon
  <2>2. CASE p # 0
    <3>1. PICK g \in {procs[p].pgid, n} :
            procs' = AddProcess(procs, p, n, NewPcb(p, g, procs[p].sid))
      BY <1>2, <2>2, Zenon DEF SpawnDone
    <3>2. p \in Pid /\ procs[p].pgid \in Pid /\ procs[p].sid \in 0 .. MaxPid
      BY <1>1, <2>2, SpawnerFacts, Zenon
    <3>3. p \in 0 .. MaxPid
      BY <3>2, Constants, Zenon
    <3> QED
      BY <1>3, <3>1, <3>2, <3>3, Zenon
  <2> QED
    BY <2>1, <2>2
<1>5. PICK t : t = NewPcb(q, g, s)
  OBVIOUS
<1>6. t \in PCB /\ Sane(t) /\ t.listed
  BY <1>5, NewPcbSane, NewPcbAnswered, Zenon
<1>7. t.ppid = p /\ t.children = {} /\ t.state = "running" /\ t.waiter = NoWaiter
  <2>1. g \in 0 .. MaxPid
    BY Constants, Zenon
  <2> QED
    BY <1>4, <1>5, <2>1, NewPcbType
<1>8. ~t.waiter.on /\ t.state # "stopped"
  BY <1>7, Constants
<1>9. PICK qs : qs = Added(procs, n, p, t)
  OBVIOUS
<1>10. procs' = IF p = 0 THEN qs ELSE Respond(qs, p, Done)
  <2>1. procs' = AddProcess(procs, p, n, t)
    BY <1>4, <1>5, Zenon
  <2>2. CASE p = 0
    BY <1>9, <2>1, <2>2, Zenon DEF AddProcess, Added, Put
  <2>3. CASE p # 0
    <3>1. PICK rs : rs = [procs EXCEPT ![n] = t]
      OBVIOUS
    <3>2. procs' = Respond([rs EXCEPT ![p].children = rs[p].children \cup {n}], p, Done)
      BY <2>1, <2>3, <3>1, Zenon DEF AddProcess
    <3>3. qs = [rs EXCEPT ![p].children = rs[p].children \cup {n}]
      BY <1>9, <2>3, <3>1, Zenon DEF Added, Put
    <3> QED
      BY <2>3, <3>2, <3>3, Zenon
  <2> QED
    BY <2>2, <2>3, Zenon
<1>11. TableInv(procs) /\ (p # 0 => p < n) /\ p # n
  <2>1. p # 0 => p < n
    BY <1>1, <1>2, SpawnerFacts, Zenon
  <2>2. p # n
    BY <1>3, <2>1 DEF Pid
  <2> QED
    BY <2>1, <2>2, Zenon DEF IInv
<1>12. \A o \in Pid : n \notin procs[o].children
  BY <1>2, <1>3, Zenon DEF IInv, Fresh
<1>13. Steady(procs, qs)
  BY <1>3, <1>6, <1>8, <1>9, <1>11, AddedSteady
<1>14. TableInv(qs)
  BY <1>3, <1>6, <1>7, <1>9, <1>11, <1>12, AddedStep
<1>15. CASE p = 0
  BY <1>10, <1>13, <1>15
<1>16. CASE p # 0
  <2>1. p \in Pid /\ ~procs[p].waiter.on
    BY <1>1, <1>16, SpawnerFacts, Zenon
  <2>2. ~qs[p].waiter.on
    BY <1>13, <2>1, Zenon DEF Steady, StillWaits
  <2>3. procs' = Respond(qs, p, Done)
    BY <1>10, <1>16
  <2>4. Steady(qs, procs')
    BY <1>14, <2>1, <2>2, <2>3, DoneReply, RespondSteady
  <2> QED
    BY <1>13, <2>4, SteadyTrans
<1> QED
  BY <1>15, <1>16

LEMMA SpawnFailsSteady ==
  ASSUME IInv, NEW p \in Pid \cup {0}, SpawnFails(p)
  PROVE  Steady(procs, procs')
<1>1. p \in spawns /\ procs' = IF p = 0 THEN procs ELSE Respond(procs, p, Done)
  BY Zenon DEF SpawnFails
<1>2. CASE p = 0
  BY <1>1, <1>2, SteadyRefl, Zenon
<1>3. CASE p # 0
  <2>1. p \in Pid /\ ~procs[p].waiter.on /\ TableInv(procs)
    BY <1>1, <1>3, SpawnerFacts, Zenon DEF IInv
  <2>2. procs' = Respond(procs, p, Done)
    BY <1>1, <1>3, Zenon
  <2> QED
    BY <2>1, <2>2, DoneReply, RespondSteady
<1> QED
  BY <1>2, <1>3

LEMMA NextKeeps ==
  ASSUME NoJobControl, IInv, NoneStopped(procs), Hopeful(procs), [Next]_vars
  PROVE  NoneStopped(procs') /\ Hopeful(procs')
<1>1. ASSUME Steady(procs, procs') PROVE NoneStopped(procs') /\ Hopeful(procs')
  BY <1>1, SteadyKeeps
<1>2. ASSUME NEW p \in Pid, ProgramNext(p) PROVE Steady(procs, procs')
  BY <1>2, CallSteady, SetMaskSteady, WorkerDiesSteady, TakeSignalSteady, Zenon DEF ProgramNext
<1>3. ASSUME NEW p \in Pid, HandlerNext(p) PROVE Steady(procs, procs') \/ Wait(p)
  BY <1>3, ExitActSteady, InterruptSteady, KillSteady, KillGroupSteady, SetDispositionSteady,
     SetPgidSteady, SetSidSteady, SetTimerSteady, TimerSteady, Zenon DEF HandlerNext
<1>4. CASE EmbedderKillGroup \/ EmbedderSpawn \/ UNCHANGED vars
  <2>1. procs' = procs
    BY <1>4 DEF EmbedderKillGroup, EmbedderSpawn, vars
  <2> QED
    BY <1>1, <2>1, SteadyRefl, Zenon
<1>5. CASE KillNext
  BY <1>1, <1>5, KillNextSteady, Zenon
<1>6. CASE \E p \in Pid \cup {0} : SpawnDone(p) \/ SpawnFails(p)
  BY <1>1, <1>6, SpawnDoneSteady, SpawnFailsSteady, Zenon
<1>7. ASSUME NEW p \in Pid, ProgramNext(p) \/ HandlerNext(p)
      PROVE  NoneStopped(procs') /\ Hopeful(procs')
  BY <1>1, <1>2, <1>3, <1>7, WaitKeeps, Zenon
<1> QED
  BY <1>4, <1>5, <1>6, <1>7, Zenon DEF Next, KernelNext

LEMMA InitHopeful == ASSUME Init PROVE NoneStopped(procs) /\ Hopeful(procs)
<1>1. PICK r : r = NewPcb(0, 1, 1)
  OBVIOUS
<1>2. r.state = "running" /\ r.waiter = NoWaiter
  BY <1>1, Constants, NewPcbType
<1>3. procs = [p \in Pid |-> IF p = 1 THEN r ELSE Unborn]
  BY <1>1, Zenon DEF Init
<1>4. ASSUME NEW p \in Pid PROVE procs[p].state # "stopped" /\ ~procs[p].waiter.on
  <2>1. procs[p] = IF p = 1 THEN r ELSE Unborn
    BY <1>3, Zenon
  <2>2. ~Alive(Unborn) /\ Sane(Unborn)
    BY UnbornFacts
  <2>3. Unborn.state # "stopped" /\ ~Unborn.waiter.on
    BY <2>2, Zenon DEF Sane, Alive
  <2>4. r.state # "stopped" /\ ~r.waiter.on
    BY <1>2, Constants
  <2> QED
    BY <2>1, <2>3, <2>4
<1> QED
  BY <1>4, Zenon DEF NoneStopped, Hopeful

LEMMA HopefulCandidates == ASSUME IInv, Hopeful(procs) PROVE WaiterHasCandidate
<1>1. DOMAIN procs = Pid
  BY Zenon DEF IInv, TableInv, Tables
<1>2. ASSUME NEW p \in Pid, procs[p].waiter.on,
             procs[p].waiter.sel = -1 \/ procs[p].waiter.sel > 0
      PROVE  \E c \in procs[p].children : WaitsFor(procs, p, c)
  <2>1. PICK c \in procs[p].children : Named(procs[p].waiter.sel, c)
    BY <1>2, Zenon DEF Hopeful
  <2> QED
    BY <1>2, <2>1 DEF Named, WaitsFor, WaitSelectorMatch
<1> QED
  BY <1>1, <1>2, Zenon DEF WaiterHasCandidate

\* Without job control a wait for any child, or for one child, always has a
\* child it may still be answered for (_wait, _exitProcess, _reparent).
THEOREM WaitersHaveCandidates == NoJobControl => (Spec => []WaiterHasCandidate)
<1> SUFFICES ASSUME NoJobControl PROVE Spec => []WaiterHasCandidate
  OBVIOUS
<1>1. Init => IInv /\ NoneStopped(procs) /\ Hopeful(procs)
  BY InitInv, InitHopeful
<1>2. IInv /\ NoneStopped(procs) /\ Hopeful(procs) /\ [Next]_vars
        => (IInv /\ NoneStopped(procs) /\ Hopeful(procs))'
  <2>1. ASSUME IInv, NoneStopped(procs), Hopeful(procs), [Next]_vars
        PROVE  IInv' /\ NoneStopped(procs') /\ Hopeful(procs')
    BY <2>1, NextInv, NextKeeps, Zenon
  <2> QED
    BY <2>1
<1>3. IInv /\ NoneStopped(procs) /\ Hopeful(procs) => WaiterHasCandidate
  BY HopefulCandidates
<1> QED
  BY <1>1, <1>2, <1>3, PTL DEF Spec

==============================================================================
