---------------------------- MODULE CloseWatchdog ----------------------------
(* Containment of hung windows (kernel.js: wmCloseRequest, _wmCloseWdTrack,   *)
(* _wmCloseWdDone, _wmCloseWdPoll, _wmForceQuit, _wmPushEvent), beside the     *)
(* process that reads its input ring on another thread.                        *)
(*                                                                             *)
(* A close request pushes a QUIT record.  The kernel cannot see the record     *)
(* being read: it sees the ring's read position, modulo twice the capacity,    *)
(* at its looks.  From that it must tell a process that has read its QUIT,     *)
(* whatever it does about it, from one that hangs and is to be killed.         *)
(*                                                                             *)
(* A turn of the kernel is split where it loads the read position: the         *)
(* process reads on between the push, the look and the verdict.  Positions     *)
(* are kept unreduced; the kernel's arithmetic reduces them.                   *)
EXTENDS Integers

CONSTANTS
    Sids,       \* surfaces of the process, which share its ring
    Cap,        \* capacity of the ring
    Grace,      \* polls until the deadline has passed at the latest
    MaxEvents   \* bound: records pushed, but for retries

VARIABLES
    wpos, rpos,  \* records pushed, records read
    state,       \* the process: "running", "stopped" or "dead"
    open,        \* its surfaces that exist
    wd,          \* surface -> its watchdog
    at,          \* surface -> where the kernel is in a turn about it, or "idle"
    quit,        \* history: surface -> position after its last QUIT
    saw,         \* history: surface -> whether that was read at the last look
    lapped,      \* history: surface -> the reader lapped the positions unseen
    wrong        \* history: a verdict was wrong

vars == <<wpos, rpos, state, open, wd, at, quit, saw, lapped, wrong>>

Off == [on |-> FALSE, delivered |-> FALSE, need |-> 0, last |-> 0, left |-> 0]
Armed == [on |-> TRUE, delivered |-> FALSE, need |-> 0, last |-> 0, left |-> Grace]

Idle == \A s \in Sids : at[s] = "idle"
Goto(s, step) == at' = [at EXCEPT ![s] = step]

Init ==
    /\ wpos = 0 /\ rpos = 0 /\ state = "running"
    /\ open = Sids /\ wd = [s \in Sids |-> Off] /\ at = [s \in Sids |-> "idle"]
    /\ quit = [s \in Sids |-> 0] /\ saw = [s \in Sids |-> FALSE]
    /\ lapped = [s \in Sids |-> FALSE] /\ wrong = FALSE

----------------------------------------------------------------------------
(* The ring.                                                                 *)

Ahead(a, b) == (a - b) % (2 * Cap)
Room == Ahead(wpos, rpos) < Cap
CanPush == state = "running" /\ Room

\* drainInput: the process takes a record, at any point of a kernel turn.  A
\* stop reaches it only at its next call.
Read ==
    /\ state # "dead" /\ rpos < wpos
    /\ rpos' = rpos + 1
    /\ UNCHANGED <<wpos, state, open, wd, at, quit, saw, lapped, wrong>>

\* Other input; a full ring drops it.
Event ==
    /\ Idle /\ CanPush /\ wpos < MaxEvents
    /\ wpos' = wpos + 1
    /\ UNCHANGED <<rpos, state, open, wd, at, quit, saw, lapped, wrong>>

----------------------------------------------------------------------------
(* The watchdog.                                                             *)

Consumed(s) == quit[s] # 0 /\ rpos >= quit[s]

\* A QUIT is pushed; its place is looked up next.
Deliver(s, step) ==
    /\ wpos' = wpos + 1 /\ Goto(s, step)
    /\ quit' = [quit EXCEPT ![s] = wpos + 1]

\* A fresh request: a full ring arms the watchdog all the same.
Ask(s) ==
    /\ wd' = [wd EXCEPT ![s] = Armed]
    /\ IF Room THEN Deliver(s, "track")
       ELSE quit' = [quit EXCEPT ![s] = 0] /\ Goto(s, "idle") /\ UNCHANGED wpos

\* wmCloseRequest; a second request looks for the first QUIT.
Request(s) ==
    /\ Idle /\ s \in open /\ state = "running" /\ wpos < MaxEvents
    /\ \/ ~wd[s].on /\ Ask(s)
       \/ wd[s].on /\ Goto(s, "click") /\ UNCHANGED <<wpos, wd, quit>>
    /\ UNCHANGED <<rpos, state, open, saw, lapped, wrong>>

\* Where the turn goes once the place of the QUIT is known.
Tracked(s) ==
    /\ at[s] \in {"track", "retry"}
    /\ Goto(s, IF at[s] = "track" THEN "idle" ELSE "poll")
    /\ lapped' = [lapped EXCEPT ![s] = FALSE]
    /\ UNCHANGED <<wpos, rpos, state, open, quit, saw, wrong>>

\* Fault: the records queued before the QUIT are not counted.
TrackShort(s) ==
    /\ Tracked(s)
    /\ wd' = [wd EXCEPT ![s].delivered = TRUE, ![s].last = rpos, ![s].need = 1]

\* _wmCloseWdTrack, after the push: the reader may have been faster.
Track(s) ==
    /\ Tracked(s)
    /\ wd' = [wd EXCEPT ![s].delivered = TRUE, ![s].last = rpos, ![s].need = Ahead(wpos, rpos)]

\* _wmCloseWdDone: need is what is left to read of a delivered QUIT.
Count(w) ==
    [w EXCEPT !.need = IF rpos = wpos THEN 0 ELSE @ - Ahead(rpos, w.last), !.last = rpos]
Looked(w) == IF w.delivered THEN Count(w) ELSE w
Done(w) == w.delivered /\ w.need <= 0
Laps(w) == w.delivered /\ rpos # wpos /\ rpos - w.last >= 2 * Cap

Look(s) ==
    /\ at[s] \in {"click", "poll"}
    /\ Goto(s, IF at[s] = "click" THEN "clicked" ELSE "polled")
    /\ wd' = [wd EXCEPT ![s] = Looked(wd[s])]
    /\ saw' = [saw EXCEPT ![s] = Consumed(s)]
    /\ lapped' = [lapped EXCEPT ![s] = @ \/ Laps(wd[s])]
    /\ UNCHANGED <<wpos, rpos, state, open, quit, wrong>>

\* _wmForceQuit.
ForceQuit(s) ==
    /\ state' = "dead" /\ wd' = [wd EXCEPT ![s] = Off]
    /\ wrong' = (wrong \/ (saw[s] /\ ~lapped[s]))

\* A second request while the first QUIT is unread escalates; else it is fresh.
Click(s) ==
    /\ at[s] = "clicked"
    /\ \/ /\ Done(wd[s]) /\ Ask(s)
          /\ wrong' = (wrong \/ ~saw[s]) /\ UNCHANGED state
       \/ ~Done(wd[s]) /\ ForceQuit(s) /\ Goto(s, "idle") /\ UNCHANGED <<wpos, quit>>
    /\ UNCHANGED <<rpos, open, saw, lapped>>

\* _wmCloseWdPoll: deliver what could not be delivered, then look.
Poll(s) ==
    /\ Idle /\ wd[s].on
    /\ LET retry == ~wd[s].delivered /\ CanPush
       IN  \/ state = "dead" /\ wd' = [wd EXCEPT ![s] = Off] /\ UNCHANGED <<wpos, at, quit>>
           \/ state # "dead" /\ retry /\ Deliver(s, "retry") /\ UNCHANGED wd
           \/ state # "dead" /\ ~retry /\ Goto(s, "poll") /\ UNCHANGED <<wpos, quit, wd>>
    /\ UNCHANGED <<rpos, state, open, saw, lapped, wrong>>

\* The rest of the poll.  The deadline may have passed before the last poll.
Judge(s) ==
    /\ at[s] = "polled" /\ Goto(s, "idle")
    /\ \/ /\ Done(wd[s]) /\ wd' = [wd EXCEPT ![s] = Off]
          /\ wrong' = (wrong \/ ~saw[s]) /\ UNCHANGED state
       \/ /\ ~Done(wd[s]) /\ wd[s].left > 0 /\ wd' = [wd EXCEPT ![s].left = @ - 1]
          /\ UNCHANGED <<state, wrong>>
       \/ ~Done(wd[s]) /\ ForceQuit(s)
    /\ UNCHANGED <<wpos, rpos, open, quit, saw, lapped>>

\* The surface goes: no watchdog outlives it.
Destroy(s) ==
    /\ Idle /\ s \in open
    /\ open' = open \ {s} /\ wd' = [wd EXCEPT ![s] = Off]
    /\ UNCHANGED <<wpos, rpos, state, at, quit, saw, lapped, wrong>>

\* Job control, and deaths of other causes.
Signal ==
    /\ Idle /\ state # "dead"
    /\ state' \in {"running", "stopped", "dead"} \ {state}
    /\ UNCHANGED <<wpos, rpos, open, wd, at, quit, saw, lapped, wrong>>

Next ==
    \/ Read \/ Event \/ Signal
    \/ \E s \in Sids : Request(s) \/ Track(s) \/ Look(s) \/ Click(s) \/ Poll(s) \/ Judge(s) \/ Destroy(s)

Spec == Init /\ [][Next]_vars

----------------------------------------------------------------------------
(* Properties                                                                *)

\* Types; a watchdog watches a surface that exists, and a turn is about one
\* surface with a watchdog.
TypeOK ==
    /\ rpos \in 0..wpos /\ wpos - rpos \in 0..Cap
    /\ state \in {"running", "stopped", "dead"} /\ open \subseteq Sids
    /\ at \in [Sids -> {"idle", "track", "retry", "click", "clicked", "poll", "polled"}]
    /\ \A s, t \in Sids : at[s] # "idle" /\ at[t] # "idle" => s = t
    /\ \A s \in Sids : /\ wd[s].on => s \in open
                       /\ at[s] # "idle" => wd[s].on
                       /\ wd[s].left \in 0..Grace /\ wd[s].need <= Cap
                       /\ quit[s] \in 0..wpos

\* Every verdict is right about the look it rests on: a process is let off
\* only if it had read its QUIT by then, and killed for a close request only
\* if it had not, or if it once read a whole turn of the positions between
\* two looks, neither of which found the ring empty (5616-5623).  Through
\* full rings, retried deliveries, second requests, two windows of one
\* process, a reader that overtakes the bookkeeping and positions that wrap.
\* What is read between the look and the kill does not count.
VerdictIsRight == ~wrong
==============================================================================
