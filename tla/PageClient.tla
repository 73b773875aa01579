------------------------------ MODULE PageClient ------------------------------
(* The page's KernelClient beside the kernel worker's executions: the        *)
(* client's state machine, its pending requests and its table of runs, the   *)
(* two message channels (FIFO, as postMessage gives them), the worker's      *)
(* boot, its log lines, a crash event and a storage reset.                   *)
EXTENDS Execution, Sequences

CONSTANTS MaxLogs, MaxBoots     \* bounds: log lines, boot attempts

ASSUME PageAssumption == Streams = {"stdout", "stderr"}

VARIABLES
  state,     \* KernelClient.state.status
  worker,    \* the Worker: "absent", "booting", "refused" (locked), "broken",
             \* "up" or "terminated"
  start,     \* the exec-start request of each execution
  runs,      \* the page's executions map and what became of its entries
  got,       \* bytes handed to each run's onOutput
  toWorker, toPage,
  logs, boots, crashed,          \* counters of the bounded events
  everUp                         \* history: ready was handled

pageVars == <<state, start, runs, got, everUp>>
bound == <<logs, boots, crashed>>
chans == <<toWorker, toPage>>
all == <<vars, pageVars, worker, chans, bound>>

PageInit ==
  /\ Init
  /\ state = "booting" /\ worker = "absent"
  /\ start = [i \in Ids |-> "none"] /\ runs = [i \in Ids |-> "none"]
  /\ got = [i \in Ids |-> Zero]
  /\ toWorker = <<>> /\ toPage = <<>>
  /\ logs = 0 /\ boots = 0 /\ crashed = FALSE
  /\ everUp = FALSE

Tell(m) == toPage' = Append(toPage, m)
Event(t) == [type |-> t]

-----------------------------------------------------------------------------
(* The worker's side of the channels. *)

\* What a step of the worker posts for execution i, in the code's order.
Posted(i) ==
  LET outs(s) == IF sent'[i][s] > sent[i][s]
                 THEN <<[type |-> "output", id |-> i, fd |-> s,
                         bytes |-> sent'[i][s] - sent[i][s]]>>
                 ELSE <<>>
      reply == IF phase[i] = "opening" /\ phase'[i] # "opening"
               THEN <<[type |-> "reply", id |-> i, ok |-> phase'[i] = "live"]>>
               ELSE <<>>
      exit == IF exits'[i] # exits[i] THEN <<[type |-> "exit", id |-> i]>>
              ELSE <<>>
  IN outs("stdout") \o outs("stderr") \o reply \o exit

WorkerStep(i) ==
  /\ worker = "up" /\ Worker(i)
  /\ toPage' = toPage \o Posted(i)
  /\ UNCHANGED <<pageVars, worker, toWorker, bound>>

GroupStep(i) ==
  /\ worker = "up" /\ Group(i)
  /\ UNCHANGED <<pageVars, worker, chans, bound>>

Clock == worker = "up" /\ Tick /\ UNCHANGED <<pageVars, worker, chans, bound>>

\* handleRpc and boot-retry.
WorkerReceives ==
  /\ toWorker # <<>> /\ worker \notin {"absent", "terminated"}
  /\ toWorker' = Tail(toWorker)
  /\ LET m == Head(toWorker) IN
       CASE m.type = "start" -> Start(m.id) /\ UNCHANGED worker
         [] m.type = "abort" -> Abort(m.id) /\ UNCHANGED worker
         [] m.type = "boot-retry" ->
              /\ worker' = IF worker = "refused" THEN "booting" ELSE worker
              /\ UNCHANGED vars
  /\ UNCHANGED <<pageVars, toPage, bound>>

\* startBoot: the lock is held elsewhere, the boot throws, or it succeeds.
BootEnds ==
  /\ worker = "booting" /\ boots < MaxBoots
  /\ boots' = boots + 1
  /\ \/ worker' = "refused" /\ Tell(Event("boot-locked"))
     \/ worker' = "broken" /\ Tell(Event("boot-error"))
     \/ worker' = "up" /\ Tell(Event("ready"))
  /\ UNCHANGED <<vars, pageVars, toWorker, logs, crashed>>

\* The kernel's log hook, the pool's, the drop's and the paste's notes, while
\* booting and ever after.
Logs ==
  /\ worker \in {"booting", "broken", "up"} /\ logs < MaxLogs
  /\ logs' = logs + 1 /\ Tell(Event("boot-log"))
  /\ UNCHANGED <<vars, pageVars, worker, toWorker, boots, crashed>>

-----------------------------------------------------------------------------
(* The page. *)

Boot ==
  /\ worker = "absent"
  /\ worker' = "booting"
  /\ UNCHANGED <<vars, pageVars, chans, bound>>

\* Without cross-origin isolation no worker is made.
BootRefused ==
  /\ worker = "absent" /\ state = "booting"
  /\ state' = "fatal"
  /\ UNCHANGED <<vars, worker, start, runs, got, chans, bound, everUp>>

RetryBoot ==
  /\ worker = "refused" /\ toWorker = <<>>
  /\ toWorker' = Append(toWorker, Event("boot-retry"))
  /\ UNCHANGED <<vars, pageVars, worker, toPage, bound>>

Message(t, i) == [type |-> t, id |-> i]

\* exec(): with a signal that is aborted already, the abort goes first.
Exec(i, early) ==
  /\ start[i] = "none"
  /\ IF worker = "absent" \/ worker = "terminated" \/ state # "ready"
     THEN start' = [start EXCEPT ![i] = "rejected"] /\ UNCHANGED toWorker
     ELSE /\ start' = [start EXCEPT ![i] = "sent"]
          /\ toWorker' = toWorker \o
               (IF early THEN <<Message("abort", i)>> ELSE <<>>)
               \o <<Message("start", i)>>
  /\ UNCHANGED <<vars, worker, state, runs, got, toPage, bound, everUp>>

\* The abort signal or run.abort(): once per execution here; an abort that is
\* refused because the client is not ready is swallowed.
AbortRun(i) ==
  /\ start[i] = "sent" \/ runs[i] = "open"
  /\ aborted[i] = "no" /\ ~ \E k \in DOMAIN toWorker : toWorker[k] = Message("abort", i)
  /\ state = "ready"
  /\ toWorker' = Append(toWorker, Message("abort", i))
  /\ UNCHANGED <<vars, pageVars, worker, toPage, bound>>

\* Fault: only the requests are rejected.
RejectedCallsOnly ==
  /\ start' = [i \in Ids |-> IF start[i] = "sent" THEN "rejected" ELSE start[i]]
  /\ UNCHANGED runs

\* fail(): every pending request and every run is rejected.
Rejected == /\ start' = [i \in Ids |-> IF start[i] = "sent" THEN "rejected"
                                       ELSE start[i]]
            /\ runs' = [i \in Ids |-> IF runs[i] = "open" THEN "rejected"
                                      ELSE runs[i]]

\* The reply resolves the pending request, and exec's continuation registers
\* the run before the next message is handled.
Replied(m) ==
  IF start[m.id] # "sent" THEN UNCHANGED <<start, runs>>
  ELSE /\ start' = [start EXCEPT ![m.id] = IF m.ok THEN "answered" ELSE "rejected"]
       /\ runs' = [runs EXCEPT ![m.id] = IF m.ok THEN "open" ELSE @]

PageReceives ==
  /\ toPage # <<>> /\ toPage' = Tail(toPage)
  /\ LET m == Head(toPage) IN
       /\ IF m.type = "reply" THEN Replied(m)
          ELSE IF m.type = "exit"
          THEN /\ runs' = [runs EXCEPT ![m.id] = IF @ = "open" THEN "resolved"
                                                 ELSE @]
               /\ UNCHANGED start
          ELSE UNCHANGED <<start, runs>>
       /\ got' = IF m.type = "output" /\ runs[m.id] = "open"
                 THEN [got EXCEPT ![m.id][m.fd] = @ + m.bytes] ELSE got
       /\ state' = CASE m.type = "boot-log" -> "booting"
                     [] m.type = "ready" -> "ready"
                     [] m.type = "boot-locked" -> "locked"
                     [] m.type = "boot-error" -> "fatal"
                     [] OTHER -> state
       /\ everUp' = (everUp \/ m.type = "ready")
  /\ UNCHANGED <<vars, worker, toWorker, bound>>

\* worker.onerror: an exception nobody caught; the worker lives on.
Crash ==
  /\ ~crashed /\ worker = "up"
  /\ crashed' = TRUE
  /\ Rejected /\ state' = "fatal"
  /\ UNCHANGED <<vars, worker, got, chans, logs, boots, everUp>>

\* prepareStorageReset: the worker and everything in flight are gone.
Reset ==
  /\ worker \notin {"absent", "terminated"}
  /\ worker' = "terminated"
  /\ Rejected /\ state' = "booting"
  /\ toWorker' = <<>> /\ toPage' = <<>>
  /\ UNCHANGED <<vars, got, bound, everUp>>

PageNext ==
  \/ Boot \/ BootRefused \/ BootEnds \/ Logs \/ RetryBoot \/ Crash \/ Reset \/ Clock
  \/ WorkerReceives \/ PageReceives
  \/ \E i \in Ids : \/ WorkerStep(i) \/ GroupStep(i) \/ AbortRun(i)
                    \/ \E early \in BOOLEAN : Exec(i, early)

PageSpec == PageInit /\ [][PageNext]_all

-----------------------------------------------------------------------------
\* What the caller of exec sees.
Call == [i \in Ids |->
  CASE runs[i] = "open" -> "running"
    [] runs[i] \in {"resolved", "rejected"} -> runs[i]
    [] OTHER -> CASE start[i] = "none" -> "idle"
                  [] start[i] = "rejected" -> "refused"
                  [] OTHER -> "starting"]
Life == INSTANCE ExecLife WITH call <- Call, out <- got

(* A caller of exec is refused or gets a run; its output callback is called  *)
(* only while the run is open, its completion settles once, and it always    *)
(* settles: by the exit, or by the client's failure or reset.                *)
ExecImplemented == Life!Spec

(* The status line carries the worker's notes (drops, pastes, kernel log); a *)
(* note must not take a booted client out of "ready" and have its requests   *)
(* refused.                                                                  *)
ReadyStays == everUp /\ worker = "up" => state # "booting"
=============================================================================
