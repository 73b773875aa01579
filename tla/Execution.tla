------------------------------ MODULE Execution ------------------------------
(* Captured executions of the embedder's kernel worker: a shell is spawned  *)
(* as the leader of a process group of its own, its two output pipes are    *)
(* drained on a timer, and it is ended by its exit, an abort or a timeout   *)
(* that escalates from TERM to KILL to giving the group up as leaked.       *)
(* The group runs under the kernel's process table (ProcTable); only its    *)
(* membership, its output and its reaction to signals are kept here.        *)
(* Timers count down in ticks; one that is due runs before time passes.     *)
EXTENDS Integers

CONSTANTS
  Ids,           \* execution ids
  Streams,       \* captured streams
  Chunk,         \* bytes taken from a pipe at once (64 KiB)
  Cap,           \* EXEC_OUTPUT_CAP, bytes of a stream sent to the page
  PipeCap,       \* capacity of a captured pipe
  MaxBytes,      \* bound: bytes a group writes to a stream
  MaxForks,      \* bound: children the shell of a group starts
  KillTicks, LeakTicks, ForgetTicks,   \* 500 ms, 2 s, 30 s
  Timeouts       \* timeouts callers ask for

ASSUME ExecutionAssumption ==
  /\ {Chunk, Cap, PipeCap, KillTicks, LeakTicks, ForgetTicks} \subseteq Nat \ {0}
  /\ MaxBytes \in Nat /\ MaxForks \in Nat /\ Timeouts \subseteq Nat \ {0}

VARIABLES
  phase,     \* "idle", "opening", "failed", "live" (in executions) or "done"
  stopping,  \* x.stopping: why the group is being ended, or None
  root,      \* x.rootStatus: None until the shell has exited
  timer,     \* the countdowns of x's four timers, Off when not armed
  forget,    \* pendingExecutionAborts: ticks until an early abort is dropped
  sent, total,   \* bytes of each stream posted, and taken from the pipe
  group,     \* live members of the process group
  forking,   \* the shell has a spawn in flight
  forks,     \* children started so far
  buf, wrote,    \* bytes in each pipe, and ever written to it
  aborted,   \* history: "no", an abort was acknowledged ("yes"), or "dropped"
  exits      \* history: the exec-exit events posted

vars == <<phase, stopping, root, timer, forget, sent, total, group, forking,
          forks, buf, wrote, aborted, exits>>
groupVars == <<forking, forks, wrote>>

None == "none"
Off == -1
Kinds == {"timeout", "kill", "leak", "drain"}
Members == {"shell", "child"}
Least(a, b) == IF a < b THEN a ELSE b
Idle == [k \in Kinds |-> Off]
Zero == [s \in Streams |-> 0]

Init ==
  /\ phase = [i \in Ids |-> "idle"]
  /\ stopping = [i \in Ids |-> None] /\ root = [i \in Ids |-> None]
  /\ timer = [i \in Ids |-> Idle] /\ forget = [i \in Ids |-> Off]
  /\ sent = [i \in Ids |-> Zero] /\ total = [i \in Ids |-> Zero]
  /\ group = [i \in Ids |-> {}]
  /\ forking = [i \in Ids |-> FALSE] /\ forks = [i \in Ids |-> 0]
  /\ buf = [i \in Ids |-> Zero] /\ wrote = [i \in Ids |-> Zero]
  /\ aborted = [i \in Ids |-> "no"] /\ exits = [i \in Ids |-> {}]

-----------------------------------------------------------------------------
(* The process group. *)

\* The members in gone have died; the shell's death is reported to x.
Reaped(i, gone, how) ==
  /\ group' = [group EXCEPT ![i] = @ \ gone]
  /\ root' = IF "shell" \in gone THEN [root EXCEPT ![i] = how] ELSE root

\* kernel.kill(-pgid, TERM): each member dies at once unless it has a handler
\* or ignores the signal; kernel.kill(-pgid, KILL) takes every member.
Term(i) == \E gone \in SUBSET group[i] : Reaped(i, gone, "signal")
Kill(i) == Reaped(i, group[i], "signal")

Write(i, s) ==
  /\ group[i] # {} /\ buf[i][s] < PipeCap /\ wrote[i][s] < MaxBytes
  /\ phase[i] # "done"
  /\ buf' = [buf EXCEPT ![i][s] = @ + 1]
  /\ wrote' = [wrote EXCEPT ![i][s] = @ + 1]
  /\ UNCHANGED <<phase, stopping, root, timer, forget, sent, total, group,
                 forking, forks, aborted, exits>>

Exit(i, p) ==
  /\ p \in group[i] /\ (p = "shell" => ~forking[i])
  /\ Reaped(i, {p}, "exit")
  /\ UNCHANGED <<phase, stopping, timer, forget, sent, total, forking, forks,
                 buf, wrote, aborted, exits>>

Fork(i) ==
  /\ "shell" \in group[i] /\ ~forking[i] /\ forks[i] < MaxForks
  /\ "child" \notin group[i]
  /\ forking' = [forking EXCEPT ![i] = TRUE]
  /\ forks' = [forks EXCEPT ![i] = @ + 1]
  /\ UNCHANGED <<phase, stopping, root, timer, forget, sent, total, group,
                 buf, wrote, aborted, exits>>

\* The spawn's promises settle whatever happened to the shell meanwhile.
Forked(i, ok) ==
  /\ forking[i]
  /\ forking' = [forking EXCEPT ![i] = FALSE]
  /\ group' = IF ok THEN [group EXCEPT ![i] = @ \cup {"child"}] ELSE group
  /\ UNCHANGED <<phase, stopping, root, timer, forget, sent, total, forks,
                 buf, wrote, aborted, exits>>

-----------------------------------------------------------------------------
(* drainExecution and finishExecution. *)

Taken(i) == [s \in Streams |-> Least(Chunk, buf[i][s])]
Totals(i) == [s \in Streams |-> total[i][s] + Taken(i)[s]]
SentNow(i) == [s \in Streams |-> Least(Cap, sent[i][s] + Taken(i)[s])]
Rest(i) == [s \in Streams |-> buf[i][s] - Taken(i)[s]]

\* The exec-exit event; alive (the group) and lost (the streams with bytes
\* never taken) are what it does not say.
ExitEvent(i, status, override, left) ==
  [left |-> left, alive |-> group[i], aborted |-> aborted[i] = "yes",
   cause |-> IF override # None THEN override
             ELSE IF stopping[i] # None THEN stopping[i] ELSE status,
   truncated |-> \E s \in Streams : Totals(i)[s] > SentNow(i)[s],
   lost |-> {s \in Streams : wrote[i][s] > Totals(i)[s]}]

\* One more chunk of each stream, then the read ends close: what is left in
\* the pipes goes with them.
Finish(i, status, override, left) ==
  /\ phase' = [phase EXCEPT ![i] = "done"]
  /\ timer' = [timer EXCEPT ![i] = Idle]
  /\ sent' = [sent EXCEPT ![i] = SentNow(i)]
  /\ total' = [total EXCEPT ![i] = Totals(i)]
  /\ buf' = [buf EXCEPT ![i] = Zero]
  /\ exits' = [exits EXCEPT ![i] = @ \cup
                {ExitEvent(i, status, override, left)}]

\* Fault: only the shell is waited for.
OverIgnoringGroup(i) == root[i] # None /\ Rest(i) = Zero

\* A drain finds the shell reaped, the group empty and both pipes dry.
Over(i) == root[i] # None /\ group[i] = {} /\ Rest(i) = Zero

Drain(i) ==
  /\ phase[i] = "live" /\ timer[i]["drain"] = 0
  /\ IF Over(i)
     THEN Finish(i, root[i], None, {})
     ELSE /\ sent' = [sent EXCEPT ![i] = SentNow(i)]
          /\ total' = [total EXCEPT ![i] = Totals(i)]
          /\ buf' = [buf EXCEPT ![i] = Rest(i)]
          /\ timer' = [timer EXCEPT ![i]["drain"] = 1]
          /\ UNCHANGED <<phase, exits>>
  /\ UNCHANGED <<stopping, root, forget, group, groupVars, aborted>>

-----------------------------------------------------------------------------
(* startExecution, signalExecution, the abort request and the timers. *)

Start(i) ==
  /\ phase[i] = "idle"
  /\ phase' = [phase EXCEPT ![i] = "opening"]
  /\ UNCHANGED <<stopping, root, timer, forget, sent, total, group, groupVars,
                 buf, aborted, exits>>

StartFails(i) ==
  /\ phase[i] = "opening"
  /\ phase' = [phase EXCEPT ![i] = "failed"]
  /\ UNCHANGED <<stopping, root, timer, forget, sent, total, group, groupVars,
                 buf, aborted, exits>>

\* Fault: an abort that came before the shell ran is not looked up.
OpenedForgetful(i, t) ==
  /\ phase[i] = "opening"
  /\ phase' = [phase EXCEPT ![i] = "live"]
  /\ timer' = [timer EXCEPT ![i] = [Idle EXCEPT !["timeout"] = t, !["drain"] = 1]]
  /\ group' = [group EXCEPT ![i] = {"shell"}]
  /\ UNCHANGED <<stopping, root, forget, sent, total, groupVars, buf, aborted,
                 exits>>

\* openCaptured's continuation, in the same turn as the shell's creation: no
\* process runs in between, so the first drain finds nothing.
Opened(i, t) ==
  /\ phase[i] = "opening"
  /\ phase' = [phase EXCEPT ![i] = "live"]
  /\ forget' = [forget EXCEPT ![i] = Off]
  /\ IF forget[i] # Off
     THEN /\ stopping' = [stopping EXCEPT ![i] = "abort"]
          /\ timer' = [timer EXCEPT ![i] = [Idle EXCEPT !["timeout"] = t,
                         !["drain"] = 1, !["kill"] = KillTicks]]
          /\ \E gone \in SUBSET {"shell"} :
               /\ group' = [group EXCEPT ![i] = {"shell"} \ gone]
               /\ root' = IF gone = {} THEN root
                          ELSE [root EXCEPT ![i] = "signal"]
     ELSE /\ timer' = [timer EXCEPT ![i] = [Idle EXCEPT !["timeout"] = t,
                         !["drain"] = 1]]
          /\ group' = [group EXCEPT ![i] = {"shell"}]
          /\ UNCHANGED <<stopping, root>>
  /\ UNCHANGED <<sent, total, groupVars, buf, aborted, exits>>

\* signalExecution of a live execution with its timers as in ts; a second
\* cause changes nothing.
Signal(i, cause, ts) ==
  IF stopping[i] # None
  THEN timer' = [timer EXCEPT ![i] = ts] /\ UNCHANGED <<stopping, group, root>>
  ELSE /\ stopping' = [stopping EXCEPT ![i] = cause]
       /\ timer' = [timer EXCEPT ![i] = [ts EXCEPT !["kill"] = KillTicks]]
       /\ Term(i)

Abort(i) ==
  /\ aborted' = [aborted EXCEPT ![i] = "yes"]
  /\ IF phase[i] = "live"
     THEN Signal(i, "abort", timer[i]) /\ UNCHANGED forget
     ELSE /\ forget' = [forget EXCEPT ![i] = ForgetTicks]
          /\ UNCHANGED <<stopping, timer, group, root>>
  /\ UNCHANGED <<phase, sent, total, groupVars, buf, exits>>

Timeout(i) ==
  /\ timer[i]["timeout"] = 0
  /\ Signal(i, "timeout", [timer[i] EXCEPT !["timeout"] = Off])
  /\ UNCHANGED <<phase, forget, sent, total, groupVars, buf, aborted, exits>>

\* Fault: nobody looks at the group again after KILL.
KillTimerOnce(i) ==
  /\ timer[i]["kill"] = 0
  /\ timer' = [timer EXCEPT ![i]["kill"] = Off]
  /\ Kill(i)
  /\ UNCHANGED <<phase, stopping, forget, sent, total, groupVars, buf, aborted,
                 exits>>

KillTimer(i) ==
  /\ timer[i]["kill"] = 0
  /\ timer' = [timer EXCEPT ![i]["kill"] = Off, ![i]["leak"] = LeakTicks]
  /\ Kill(i)
  /\ UNCHANGED <<phase, stopping, forget, sent, total, groupVars, buf, aborted,
                 exits>>

LeakTimer(i) ==
  /\ timer[i]["leak"] = 0
  /\ IF group[i] # {}
     THEN Finish(i, None, "leaked-group", group[i])
     ELSE /\ timer' = [timer EXCEPT ![i]["leak"] = Off]
          /\ UNCHANGED <<phase, sent, total, buf, exits>>
  /\ UNCHANGED <<stopping, root, forget, group, groupVars, aborted>>

Forget(i) ==
  /\ forget[i] = 0
  /\ forget' = [forget EXCEPT ![i] = Off]
  /\ aborted' = [aborted EXCEPT ![i] = "dropped"]
  /\ UNCHANGED <<phase, stopping, root, timer, sent, total, group, groupVars,
                 buf, exits>>

Down(n) == IF n > 0 THEN n - 1 ELSE n
Due(i) == forget[i] = 0 \/ \E k \in Kinds : timer[i][k] = 0

Tick ==
  /\ ~ \E i \in Ids : Due(i)
  /\ timer' = [i \in Ids |-> [k \in Kinds |-> Down(timer[i][k])]]
  /\ forget' = [i \in Ids |-> Down(forget[i])]
  /\ UNCHANGED <<phase, stopping, root, sent, total, group, groupVars, buf,
                 aborted, exits>>

Worker(i) == \/ \E t \in Timeouts : Opened(i, t)
             \/ StartFails(i) \/ Drain(i) \/ Timeout(i) \/ KillTimer(i)
             \/ LeakTimer(i) \/ Forget(i)
Group(i) == \/ \E s \in Streams : Write(i, s)
            \/ \E p \in Members : Exit(i, p)
            \/ Fork(i) \/ \E ok \in BOOLEAN : Forked(i, ok)

Next == \/ \E i \in Ids : Start(i) \/ Abort(i) \/ Worker(i) \/ Group(i)
        \/ Tick

Spec == Init /\ [][Next]_vars

-----------------------------------------------------------------------------
(* An exec-exit that does not name leaked processes is posted only when the *)
(* shell has been reaped, no process of the group is left and every byte    *)
(* the group wrote was either posted before it or counted as truncated:     *)
(* output still in a pipe, or a background job of the shell, holds it back. *)
(* It never passes an acknowledged abort off as an ordinary end, not even   *)
(* one that overtook the spawn, unless that was dropped (after 30 s) before *)
(* the shell was there.                                                     *)
ExitIsFinal ==
  \A i \in Ids : \A e \in exits[i] :
    /\ e.alive = e.left
    /\ e.cause # "leaked-group" => root[i] # None /\ e.lost = {}
    /\ e.truncated <=> \E s \in Streams : total[i][s] > sent[i][s]
    /\ e.aborted => e.cause \notin {"exit", "signal"}
=============================================================================
