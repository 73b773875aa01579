----------------------------- MODULE ProcTable -----------------------------
(***************************************************************************)
(* The process table of the gucOS kernel (src/guc/kernel.js): spawn, wait, *)
(* exit, kill, process groups, job control and interval timers.            *)
(*                                                                         *)
(* The kernel is one JavaScript thread, so a message handler, a timer      *)
(* callback and a promise continuation each run to completion: each is one *)
(* action.  Two things are not atomic in the code and are not atomic here: *)
(* SPAWN, which awaits the image read and the compile between the request  *)
(* and the new table entry (`spawns` holds the callers in flight), and a   *)
(* program, which runs on its own worker between its system calls.         *)
(* Delivering a signal to a process group is a loop inside one handler; it *)
(* is unrolled here, one member a step, with every other action disabled   *)
(* while `killing` is not done.                                            *)
(*                                                                         *)
(* Handlers are operators from a table to a table, composed in the order   *)
(* in which the code calls them.                                           *)
(***************************************************************************)
EXTENDS Integers, FiniteSets

CONSTANTS MaxPid,     \* pids are 1..MaxPid (bounds _nextPid)
          Sigs,       \* the signals in play
          Handled,    \* the signals whose disposition programs change
          Maskable,   \* the signals programs block
          Kinds,      \* the dispositions they change to
          Sels,       \* the wait() selectors programs use
          OptSets,    \* the wait() option sets programs use
          PgidArgs,   \* the pgid arguments of setpgid (0 = the target's own)
          Timers,     \* the kinds of interval timer armed
          Embedder,   \* TRUE: the embedder starts services and terminals
          WorkerLoss  \* TRUE: a worker may die without a message

Pid == 1 .. MaxPid

AllSigs == {"HUP", "KILL", "TERM", "ALRM", "CHLD", "STOP", "TSTP", "CONT"}
Dispositions == {"dfl", "ign", "handler"}
WaitOptions == {"untraced", "continued"}

ASSUME MaxPidAssumption == MaxPid \in Nat /\ MaxPid >= 1
ASSUME SigsAssumption ==
  /\ Sigs \subseteq AllSigs
  /\ "CHLD" \in Sigs
  /\ Handled \subseteq Sigs
  /\ Kinds \subseteq Dispositions
  /\ Maskable \subseteq Sigs \ {"KILL", "STOP"}
ASSUME ArgsAssumption ==
  /\ Sels \subseteq Int
  /\ OptSets \subseteq SUBSET WaitOptions
  /\ PgidArgs \subseteq 0 .. MaxPid
  /\ Timers \subseteq {"once", "interval"}
  /\ Embedder \in BOOLEAN
  /\ WorkerLoss \in BOOLEAN

VARIABLES procs,    \* every PCB ever made; `listed` is membership in _procs
          nextPid,  \* _nextPid
          spawns,   \* callers with a SPAWN in flight (0 = the embedder)
          killing   \* the rest of a _killPgid loop

vars == <<procs, nextPid, spawns, killing>>

NoWaiter == [on |-> FALSE, sel |-> 0, opts |-> {}]
Waiters == [on : BOOLEAN, sel : Sels \cup {0}, opts : SUBSET WaitOptions]

\* The kernel page's RPC state.  "posted": krpc sent; "deferred": the handler
\* ran and owes an answer; any other tag is the last answer, left there until
\* the next call.  Answers other than a child's status are all "done".
Rpcs == [tag : {"done", "posted", "deferred", "exit", "stop", "cont"},
         pid : 0 .. MaxPid]
Rpc(tag, p) == [tag |-> tag, pid |-> p]
Done == Rpc("done", 0)

PCB == [state : {"unborn", "running", "stopped", "zombie"},
        listed : BOOLEAN,
        ppid : 0 .. MaxPid, pgid : 0 .. MaxPid, sid : 0 .. MaxPid,
        children : SUBSET Pid,
        disp : [Sigs -> Dispositions], pend : SUBSET Sigs, block : SUBSET Sigs,
        pendingStop : BOOLEAN, pendingCont : BOOLEAN,
        waiter : Waiters, rpc : Rpcs,
        itimer : {"off", "once", "interval"},
        worker : {"none", "up", "lost"},
        missed : BOOLEAN]   \* history: died while its parent was not running

NewPcb(parent, group, session) ==
  [state |-> "running", listed |-> TRUE,
   ppid |-> parent, pgid |-> group, sid |-> session,
   children |-> {},
   disp |-> [s \in Sigs |-> "dfl"], pend |-> {}, block |-> {},
   pendingStop |-> FALSE, pendingCont |-> FALSE,
   waiter |-> NoWaiter, rpc |-> Done,
   itimer |-> "off", worker |-> "up", missed |-> FALSE]

Unborn == [NewPcb(0, 0, 0) EXCEPT !.state = "unborn", !.listed = FALSE,
                                  !.worker = "none"]

NoKill == [sig |-> "CHLD", targets |-> {}, sender |-> 0]
Kills == [sig : Sigs, targets : SUBSET Pid, sender : 0 .. MaxPid]

-----------------------------------------------------------------------------
(* Lookups.  `ps` is a table: the current one or one an operator made.     *)

InTable(ps, p) == p \in Pid /\ ps[p].listed
Live(ps, p) == p \in Pid /\ ps[p].state \in {"running", "stopped"}

WaitSelectorMatch(ps, sel, p, c) ==
  \/ sel > 0 /\ c = sel
  \/ sel = -1
  \/ sel = 0 /\ ps[c].pgid = ps[p].pgid
  \/ sel < -1 /\ ps[c].pgid = -sel

\* p is parked in a wait that c satisfies.
WaitsFor(ps, p, c) ==
  ps[p].waiter.on /\ WaitSelectorMatch(ps, ps[p].waiter.sel, p, c)

-----------------------------------------------------------------------------
(* The parts handlers are made of.                                         *)

\* _respond: an answer to a dead process lands on a page nobody reads.
Respond(ps, p, reply) ==
  IF Live(ps, p) THEN [ps EXCEPT ![p].rpc = reply] ELSE ps

\* _cancelWaiter followed by _respond.
Answer(ps, p, reply) ==
  Respond([ps EXCEPT ![p].waiter = NoWaiter], p, reply)

Reap(ps, z) ==
  LET gone == [ps EXCEPT ![z].listed = FALSE, ![z].missed = FALSE]
      parent == ps[z].ppid
  IN  IF InTable(gone, parent)
        THEN [gone EXCEPT ![parent].children = @ \ {z}]
        ELSE gone

Post(ps, p, sig) == [ps EXCEPT ![p].pend = @ \cup {sig}]

\* Fault: no SIGCHLD for a parent that is about to be answered.
DeliverChldUnlessParked(ps, p) ==
  IF ps[p].disp["CHLD"] = "handler" /\ ~ps[p].waiter.on
    THEN Post(ps, p, "CHLD") ELSE ps

\* _deliver(p, SIGCHLD), whose default is to be ignored.
DeliverChld(ps, p) ==
  IF ps[p].disp["CHLD"] = "handler" THEN Post(ps, p, "CHLD") ELSE ps

\* Fault: reported, and left unreported.
JobNotifyParentAgain(ps, p, kind) ==
  LET parent == ps[p].ppid
      need == IF kind = "stop" THEN "untraced" ELSE "continued"
  IN  IF ~Live(ps, parent) THEN ps
      ELSE IF WaitsFor(ps, parent, p) /\ need \in ps[parent].waiter.opts
        THEN Answer(DeliverChld(ps, parent), parent, Rpc(kind, p))
        ELSE DeliverChld(ps, parent)

\* _jobNotifyParent
JobNotifyParent(ps, p, kind) ==
  LET parent == ps[p].ppid
      need == IF kind = "stop" THEN "untraced" ELSE "continued"
      told == DeliverChld(ps, parent)
  IN  IF ~Live(ps, parent) THEN ps
      ELSE IF WaitsFor(told, parent, p) /\ need \in told[parent].waiter.opts
        THEN Answer(IF kind = "stop"
                      THEN [told EXCEPT ![p].pendingStop = FALSE]
                      ELSE [told EXCEPT ![p].pendingCont = FALSE],
                    parent, Rpc(kind, p))
        ELSE told

\* _stopProcess
StopProcess(ps, p) ==
  IF ps[p].state # "running" THEN ps
  ELSE JobNotifyParent([ps EXCEPT ![p].state = "stopped",
                                  ![p].pendingStop = TRUE,
                                  ![p].pendingCont = FALSE], p, "stop")

\* Fault: the unreported stop outlives the stop.
ContProcessKeepingStop(ps, p) ==
  IF ps[p].state # "stopped" THEN ps
  ELSE JobNotifyParent([ps EXCEPT ![p].state = "running",
                                  ![p].pendingCont = TRUE], p, "cont")

\* _contProcess
ContProcess(ps, p) ==
  IF ps[p].state # "stopped" THEN ps
  ELSE JobNotifyParent([ps EXCEPT ![p].state = "running",
                                  ![p].pendingStop = FALSE,
                                  ![p].pendingCont = TRUE], p, "cont")

-----------------------------------------------------------------------------
(* _exitProcess, in its three parts.                                       *)

\* The process's own teardown.  What nothing reads once it is a zombie is put
\* back to its first value: dispositions, masks, unreported changes, the page.
Teardown(ps, p) ==
  [ps EXCEPT ![p].state = "zombie",
             ![p].waiter = NoWaiter, ![p].itimer = "off", ![p].worker = "none",
             ![p].disp = [s \in Sigs |-> "dfl"], ![p].pend = {}, ![p].block = {},
             ![p].pendingStop = FALSE, ![p].pendingCont = FALSE,
             ![p].rpc = Done]

\* Children go to init; one of them may be the zombie init waits for.
AdoptedZombies(ps, p) ==
  {c \in ps[p].children : ps[c].listed /\ ps[c].state = "zombie"
                          /\ WaitsFor(ps, 1, c)}

\* Fault: init's parked wait is not looked at.
ReparentUnserved(ps, p) ==
  LET orphans == {c \in ps[p].children : ps[c].listed}
      moved == [c \in Pid |-> IF c \in orphans THEN [ps[c] EXCEPT !.ppid = 1]
                              ELSE IF c = p THEN [ps[c] EXCEPT !.children = {}]
                              ELSE ps[c]]
  IN  IF p = 1 \/ ~ps[1].listed THEN moved
      ELSE [moved EXCEPT ![1].children = @ \cup orphans]

Reparent(ps, p) ==
  LET orphans == {c \in ps[p].children : ps[c].listed}
      moved == [c \in Pid |-> IF c \in orphans THEN [ps[c] EXCEPT !.ppid = 1]
                              ELSE IF c = p THEN [ps[c] EXCEPT !.children = {}]
                              ELSE ps[c]]
      adopted == [moved EXCEPT ![1].children = @ \cup orphans]
      due == AdoptedZombies(ps, p)
  IN  IF p = 1 \/ ~ps[1].listed THEN moved
      ELSE IF due = {} THEN adopted
      ELSE LET z == CHOOSE c \in due : \A d \in due : c <= d
           IN  Answer(Reap(adopted, z), 1, Rpc("exit", z))

\* Fault: a child whose parent does not wait for it now is reaped at once.
NotifyExitAutoReap(ps, p) ==
  LET parent == ps[p].ppid
  IN  IF p = 1 THEN [ps EXCEPT ![1].listed = FALSE]
      ELSE IF InTable(ps, parent) /\ ps[parent].state = "running"
        THEN Reap(DeliverChld(ps, parent), p)
        ELSE Reap(ps, p)

\* init's death empties the table of it; otherwise a running parent is told,
\* and answered if it is parked; otherwise the zombie stays for its parent.
NotifyExit(ps, p) ==
  LET parent == ps[p].ppid
      told == DeliverChld(ps, parent)
  IN  IF p = 1 THEN [ps EXCEPT ![1].listed = FALSE]
      ELSE IF InTable(ps, parent) /\ ps[parent].state = "running"
        THEN IF WaitsFor(told, parent, p)
               THEN Answer(Reap(told, p), parent, Rpc("exit", p))
               ELSE told
      ELSE IF ~ps[1].listed \/ parent = 0
        THEN Reap(ps, p)
        ELSE [ps EXCEPT ![p].missed = TRUE]

ExitProcess(ps, p) ==
  IF ps[p].state = "zombie" THEN ps
  ELSE NotifyExit(Reparent(Teardown(ps, p), p), p)

-----------------------------------------------------------------------------
(* _deliver                                                                *)

Terminating == {"HUP", "TERM", "ALRM"}

DefaultAction(ps, p, sig) ==
  CASE sig \in Terminating ->
         IF sig \in ps[p].block THEN Post(ps, p, sig) ELSE ExitProcess(ps, p)
    [] sig = "TSTP" -> StopProcess(ps, p)
    [] OTHER -> ps

Deliver(ps, p, sig) ==
  LET woken == IF sig = "CONT" THEN ContProcess(ps, p) ELSE ps
  IN  CASE sig = "KILL" -> ExitProcess(ps, p)
        [] sig = "STOP" -> StopProcess(ps, p)
        [] OTHER ->
             CASE woken[p].disp[sig] = "ign"     -> woken
               [] woken[p].disp[sig] = "handler" -> Post(woken, p, sig)
               [] OTHER                          -> DefaultAction(woken, p, sig)

-----------------------------------------------------------------------------
(* Programs.                                                               *)

Replied(p) == procs[p].rpc.tag \notin {"posted", "deferred"}
Quiet == killing.targets = {}

\* A program runs, and calls, only while the STOP flag is clear (_stopWait).
\* An answer is read before the next call.
AtSafePoint(p) == Replied(p) /\ procs[p].state = "running"
                  /\ procs[p].worker = "up"

Call(p) ==
  /\ Quiet
  /\ AtSafePoint(p)
  /\ procs' = [procs EXCEPT ![p].rpc = Rpc("posted", 0)]
  /\ UNCHANGED <<nextPid, spawns, killing>>

\* KernelClient.sigpoll claims the deliverable bits; libc runs the handler,
\* or applies a default that was blocked when the signal came.
TakeSignal(p, sig) ==
  /\ Quiet
  /\ AtSafePoint(p)
  /\ sig \in procs[p].pend \ procs[p].block
  /\ LET taken == [procs EXCEPT ![p].pend = @ \ {sig}]
     IN  procs' = IF procs[p].disp[sig] = "dfl" /\ sig \in Terminating
                    THEN ExitProcess(taken, p) ELSE taken
  /\ UNCHANGED <<nextPid, spawns, killing>>

\* KernelClient.sigmask: one store by the program, no call.
SetMask(p) ==
  /\ Quiet
  /\ AtSafePoint(p)
  /\ \E mask \in SUBSET Maskable :
       procs' = [procs EXCEPT ![p].block = mask]
  /\ UNCHANGED <<nextPid, spawns, killing>>

\* The worker dies without 'exited' or 'crashed' (onExit).
WorkerDies(p) ==
  /\ WorkerLoss
  /\ Quiet
  /\ Live(procs, p)
  /\ procs[p].worker = "up"
  /\ LET lost == [procs EXCEPT ![p].worker = "lost"]
     IN  procs' = IF procs[p].state = "running" THEN ExitProcess(lost, p)
                                                ELSE lost
  /\ UNCHANGED <<nextPid, spawns, killing>>

-----------------------------------------------------------------------------
(* The kernel's handlers.  Dispatched(p): p's krpc message is taken; a     *)
(* stopped process's message is taken too.                                 *)

Dispatched(p) ==
  /\ Quiet
  /\ Live(procs, p)
  /\ procs[p].rpc.tag = "posted"

\* 'exited', 'crashed' and OP.EXIT.
Exit(p) ==
  /\ Quiet
  /\ Live(procs, p)
  /\ procs[p].worker = "up"
  /\ procs[p].rpc.tag # "deferred"
  /\ procs' = ExitProcess(procs, p)
  /\ UNCHANGED <<nextPid, spawns, killing>>

\* _wait
Candidates(p, sel) ==
  {c \in procs[p].children : procs[c].listed /\ WaitSelectorMatch(procs, sel, p, c)}

Wait(p) ==
  /\ Dispatched(p)
  /\ \E sel \in Sels, opts \in OptSets, nohang \in BOOLEAN :
       LET cands == Candidates(p, sel)
           zombies == {c \in cands : procs[c].state = "zombie"}
           stops == {c \in cands : "untraced" \in opts /\ procs[c].pendingStop
                                   /\ procs[c].state = "stopped"}
           conts == {c \in cands : "continued" \in opts /\ procs[c].pendingCont}
       IN \/ /\ cands = {}
             /\ procs' = Respond(procs, p, Done)
          \/ \E z \in zombies :
               procs' = Respond(Reap(procs, z), p, Rpc("exit", z))
          \/ /\ zombies = {}
             /\ \E c \in stops :
                  procs' = Respond([procs EXCEPT ![c].pendingStop = FALSE],
                                   p, Rpc("stop", c))
          \/ /\ zombies = {}
             /\ \E c \in conts :
                  procs' = Respond([procs EXCEPT ![c].pendingCont = FALSE],
                                   p, Rpc("cont", c))
          \/ /\ cands # {} /\ zombies = {} /\ stops = {} /\ conts = {}
             /\ procs' = IF nohang THEN Respond(procs, p, Done)
                         ELSE [procs EXCEPT
                                 ![p].rpc = Rpc("deferred", 0),
                                 ![p].waiter = [on |-> TRUE, sel |-> sel,
                                                opts |-> opts]]
  /\ UNCHANGED <<nextPid, spawns, killing>>

\* 'krpc-intr': the parked client saw a deliverable signal.
Interrupt(p) ==
  /\ Quiet
  /\ Live(procs, p)
  /\ procs[p].worker = "up"
  /\ procs[p].waiter.on
  /\ procs[p].pend \ procs[p].block # {}
  /\ procs' = Answer(procs, p, Done)
  /\ UNCHANGED <<nextPid, spawns, killing>>

\* Kernel.kill with pid > 0.
Kill(p) ==
  /\ Dispatched(p)
  /\ \E t \in Pid, sig \in Sigs :
       procs' = IF ~InTable(procs, t) \/ ~Live(procs, t)
                  THEN Respond(procs, p, Done)
                  ELSE Respond(Deliver(procs, t, sig), p, Done)
  /\ UNCHANGED <<nextPid, spawns, killing>>

\* Kernel.kill with pid <= 0: the targets are fixed before the first delivery.
Group(g) == {t \in Pid : procs[t].listed /\ Live(procs, t) /\ procs[t].pgid = g}

KillGroup(p) ==
  /\ Dispatched(p)
  /\ \E g \in Pid, sig \in Sigs :
       IF Group(g) = {}
         THEN /\ procs' = Respond(procs, p, Done)
              /\ UNCHANGED killing
         ELSE /\ killing' = [sig |-> sig, targets |-> Group(g), sender |-> p]
              /\ procs' = [procs EXCEPT ![p].rpc = Rpc("deferred", 0)]
  /\ UNCHANGED <<nextPid, spawns>>

\* The same loop started by the tty (^Z) or by closeTerminal (SIGHUP).
EmbedderKillGroup ==
  /\ Embedder
  /\ Quiet
  /\ \E g \in Pid, sig \in Sigs \cap {"TSTP", "HUP"} :
       /\ Group(g) # {}
       /\ killing' = [sig |-> sig, targets |-> Group(g), sender |-> 0]
  /\ UNCHANGED <<procs, nextPid, spawns>>

\* One turn of the loop in _killPgid; _procs iterates in pid order.  The
\* sender's answer follows the last delivery.
KillNext ==
  /\ ~Quiet
  /\ LET t == CHOOSE t \in killing.targets : \A u \in killing.targets : t <= u
         rest == killing.targets \ {t}
     IN  IF rest # {}
           THEN /\ procs' = Deliver(procs, t, killing.sig)
                /\ killing' = [killing EXCEPT !.targets = rest]
           ELSE /\ procs' = LET done == Deliver(procs, t, killing.sig)
                            IN  IF killing.sender = 0 THEN done
                                ELSE Respond(done, killing.sender, Done)
                /\ killing' = NoKill
  /\ UNCHANGED <<nextPid, spawns>>

\* OP.SIGDISP
SetDisposition(p) ==
  /\ Dispatched(p)
  /\ \E sig \in Handled, kind \in Kinds :
       procs' = Respond([procs EXCEPT ![p].disp[sig] = kind], p, Done)
  /\ UNCHANGED <<nextPid, spawns, killing>>

\* Fault: pgid 0 is stored as given.
SetPgidRaw(p) ==
  /\ Dispatched(p)
  /\ \E g \in PgidArgs :
       procs' = Respond([procs EXCEPT ![p].pgid = g], p, Done)
  /\ UNCHANGED <<nextPid, spawns, killing>>

\* _setpgid
SetPgid(p) ==
  /\ Dispatched(p)
  /\ \E t \in Pid, g \in PgidArgs :
       procs' = IF /\ InTable(procs, t) /\ procs[t].state # "zombie"
                   /\ t = p \/ t \in procs[p].children
                   /\ procs[t].sid = procs[p].sid
                  THEN Respond([procs EXCEPT ![t].pgid = IF g > 0 THEN g ELSE t],
                               p, Done)
                  ELSE Respond(procs, p, Done)
  /\ UNCHANGED <<nextPid, spawns, killing>>

\* OP.SETSID
SetSid(p) ==
  /\ Dispatched(p)
  /\ procs' = IF procs[p].pgid = p
                THEN Respond(procs, p, Done)
                ELSE Respond([procs EXCEPT ![p].pgid = p, ![p].sid = p],
                             p, Done)
  /\ UNCHANGED <<nextPid, spawns, killing>>

\* _setitimer
SetTimer(p) ==
  /\ Dispatched(p)
  /\ \E kind \in Timers \cup {"off"} :
       procs' = Respond([procs EXCEPT ![p].itimer = kind], p, Done)
  /\ UNCHANGED <<nextPid, spawns, killing>>

\* Fault: delivered first, rearmed second.
FireTimerLate(ps, p) ==
  LET hit == Deliver(ps, p, "ALRM")
  IN  [hit EXCEPT ![p].itimer = IF ps[p].itimer = "interval" THEN "interval" ELSE "off"]

\* _itimerFire: reloaded or disarmed first, delivered second.
FireTimer(ps, p) ==
  Deliver([ps EXCEPT ![p].itimer = IF @ = "interval" THEN @ ELSE "off"],
          p, "ALRM")

TimerFires(p) ==
  /\ Quiet
  /\ "ALRM" \in Sigs
  /\ procs[p].itimer # "off"
  /\ procs' = FireTimer(procs, p)
  /\ UNCHANGED <<nextPid, spawns, killing>>

-----------------------------------------------------------------------------
(* Spawn, in two steps: the request, and the promise's continuation.       *)

Halted == ~procs[1].listed

\* _spawn refuses once init is gone.
Spawn(p) ==
  /\ Dispatched(p)
  /\ IF Halted
       THEN /\ procs' = Respond(procs, p, Done)
            /\ UNCHANGED spawns
       ELSE /\ procs' = [procs EXCEPT ![p].rpc = Rpc("deferred", 0)]
            /\ spawns' = spawns \cup {p}
  /\ UNCHANGED <<nextPid, killing>>

\* Kernel.service and openTerminal.
EmbedderSpawn ==
  /\ Embedder
  /\ Quiet
  /\ ~Halted
  /\ 0 \notin spawns
  /\ spawns' = spawns \cup {0}
  /\ UNCHANGED <<procs, nextPid, killing>>

\* _spawnImage: the caller may have died since.
AddProcess(ps, parent, pid, child) ==
  LET added == [ps EXCEPT ![pid] = child]
  IN  IF parent = 0 THEN added
      ELSE Respond([added EXCEPT ![parent].children = @ \cup {pid}],
                   parent, Done)

SpawnDone(p) ==
  /\ Quiet
  /\ p \in spawns
  /\ nextPid <= MaxPid
  /\ IF p = 0
       THEN \E session \in {0, nextPid} :   \* a terminal's, a service's
              procs' = AddProcess(procs, 0, nextPid,
                                  NewPcb(0, nextPid, session))
       ELSE \E group \in {procs[p].pgid, nextPid} :
              procs' = AddProcess(procs, p, nextPid,
                                  NewPcb(p, group, procs[p].sid))
  /\ nextPid' = nextPid + 1
  /\ spawns' = spawns \ {p}
  /\ UNCHANGED killing

\* ENOENT, ENOEXEC ...: no pid is used.  EBADF, EAGAIN: one is.
SpawnFails(p) ==
  /\ Quiet
  /\ p \in spawns
  /\ procs' = IF p = 0 THEN procs ELSE Respond(procs, p, Done)
  /\ nextPid' \in {nextPid, nextPid + 1} \cap 1 .. MaxPid + 1
  /\ spawns' = spawns \ {p}
  /\ UNCHANGED killing

-----------------------------------------------------------------------------

\* The state boot leaves: init is running.
Init ==
  /\ procs = [p \in Pid |-> IF p = 1 THEN NewPcb(0, 1, 1) ELSE Unborn]
  /\ nextPid = 2
  /\ spawns = {}
  /\ killing = NoKill

ProgramNext(p) ==
  Call(p) \/ SetMask(p) \/ WorkerDies(p) \/ \E sig \in Sigs : TakeSignal(p, sig)

HandlerNext(p) ==
  \/ Exit(p) \/ Wait(p) \/ Interrupt(p) \/ Kill(p) \/ KillGroup(p)
  \/ SetDisposition(p) \/ SetPgid(p) \/ SetSid(p)
  \/ SetTimer(p) \/ TimerFires(p) \/ Spawn(p)

KernelNext ==
  \/ EmbedderKillGroup \/ KillNext \/ EmbedderSpawn
  \/ \E p \in Pid \cup {0} : SpawnDone(p) \/ SpawnFails(p)

Next == KernelNext \/ \E p \in Pid : ProgramNext(p) \/ HandlerNext(p)

Spec == Init /\ [][Next]_vars

-----------------------------------------------------------------------------
(* Properties.                                                             *)

\* The state's types; a listed process is in a group that kill() can name
\* (0 means the caller's own).
TypeOK ==
  /\ procs \in [Pid -> PCB]
  /\ \A p \in Pid : procs[p].listed => procs[p].pgid # 0
  /\ nextPid \in 2 .. MaxPid + 1
  /\ spawns \subseteq Pid \cup {0}
  /\ killing \in Kills

\* No zombie child waits beside a parked wait that selects it, unless it died
\* while its parent was not running.  (sel = 0 is left out: it follows the
\* caller's own group, which another process may change.)
ParkedWaitServed ==
  \A p, c \in DOMAIN procs :
    /\ Live(procs, p) /\ procs[p].waiter.sel # 0 /\ WaitsFor(procs, p, c)
    /\ c \in procs[p].children /\ procs[c].state = "zombie"
    => procs[c].missed

\* A wait for any child, or for one child, is never left parked with no child
\* that could still satisfy it: it would never be answered.
WaiterHasCandidate ==
  \A p \in DOMAIN procs :
    Live(procs, p) /\ procs[p].waiter.on /\ (procs[p].waiter.sel = -1 \/ procs[p].waiter.sel > 0)
      => \E c \in procs[p].children : WaitsFor(procs, p, c)

\* Nothing can still happen to a zombie on its own account: its timer is off
\* (a timer that fired into it would be armed again) and it waits for nothing.
ZombieQuiescent ==
  \A p \in DOMAIN procs : procs[p].state = "zombie" =>
    procs[p].itimer = "off" /\ ~procs[p].waiter.on

\* An unreported stop belongs to a stopped process and an unreported continue
\* to a running one: a stale one would report a transition already undone.
PendingMatchesState ==
  \A p \in DOMAIN procs :
    /\ Live(procs, p) /\ procs[p].pendingStop => procs[p].state = "stopped"
    /\ Live(procs, p) /\ procs[p].pendingCont => procs[p].state = "running"

\* A process leaves the table only in the step that reports its exit to its
\* parent, unless no parent is there to report to.
ExitStep ==
  \A c \in DOMAIN procs :
    procs[c].listed /\ ~procs'[c].listed =>
      \/ c = 1 \/ ~procs[1].listed \/ procs'[c].ppid = 0
      \/ /\ procs'[procs'[c].ppid].rpc = Rpc("exit", c)
         /\ procs[procs'[c].ppid].rpc # Rpc("exit", c)
ExitStatusDelivered == [][ExitStep]_vars

\* A stop or continue is reported to the parent, and reported once.
ReportStep ==
  \A p, c \in DOMAIN procs :
    procs[p].rpc # procs'[p].rpc =>
      /\ procs'[p].rpc = Rpc("stop", c) => procs'[c].ppid = p /\ ~procs'[c].pendingStop
      /\ procs'[p].rpc = Rpc("cont", c) => procs'[c].ppid = p /\ ~procs'[c].pendingCont
TransitionReportedOnce == [][ReportStep]_vars

\* A parked wait that a child's change answers finds SIGCHLD already posted:
\* the handler runs before waitpid returns.
ChldStep ==
  \A p, c \in DOMAIN procs :
    /\ Live(procs, p) /\ Live(procs', p)
    /\ procs[p].waiter.on /\ procs[p].disp["CHLD"] = "handler"
    /\ procs[c].ppid = p /\ procs'[p].rpc.pid = c
    /\ procs'[p].rpc.tag \in {"exit", "stop", "cont"}
    => "CHLD" \in procs'[p].pend
ChldBeforeReport == [][ChldStep]_vars

\* The comments' claims, which the code does not keep: a parked wait "is
\* answered by _exitProcess", and a zombie whose parent is gone is init's.
NoLostChildExit ==
  \A p, c \in Pid :
    /\ procs[p].state = "running" /\ procs[p].waiter.sel # 0 /\ WaitsFor(procs, p, c)
    => ~(c \in procs[p].children /\ procs[c].state = "zombie")

ZombieHasReaper ==
  \A c \in Pid :
    procs[1].listed /\ procs[c].listed /\ procs[c].state = "zombie"
      => Live(procs, procs[c].ppid)

=============================================================================
