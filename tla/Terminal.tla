------------------------------ MODULE Terminal ------------------------------
(* A brokered terminal (kernel.js: Tty, the FS_READ branch of a tty,         *)
(* _ttyNotify, TCSETPGRP, TCSETATTR, pty hangup) under job control.          *)
(*                                                                           *)
(* Keys pass the line discipline into the cooked queue; reads that find it   *)
(* empty park in a queue of their own and are answered when bytes, an end    *)
(* of file or a hangup arrive.  Who may be answered depends on the           *)
(* foreground group and on stops, both of which change while a read is       *)
(* parked.  The signal machinery itself is ProcTable's; here a process has   *)
(* one disposition for the terminal's signals.                               *)
(*                                                                           *)
(* A character is the number of its keystroke.  A burst of input is one key. *)
EXTENDS Integers, Sequences, Functions

CONSTANTS
    Procs,       \* processes on the terminal
    Group,       \* process -> its process group
    Disp,        \* process -> "default", "ignore" or "handler"
    ReadCount,   \* bytes a read asks for
    MaxTyped,    \* bound: characters typed
    MaxEofs,     \* bound: VEOF keys
    MaxMoves     \* bound: stops, changes of the foreground and of the mode

VARIABLES
    state,     \* process -> "running", "stopped" or "dead"
    calling,   \* processes whose FS_READ has not been dispatched yet
    waiters,   \* tty.waiters: parked reads, in order
    pending,   \* processes with a signal for their handler
    fg,        \* tty.fgPgid
    canon,     \* ICANON
    noflsh,    \* NOFLSH
    line,      \* the edit buffer
    cooked,    \* the cooked queue
    eof,       \* the transient VEOF flag
    hup,       \* the master is gone
    typed,     \* characters typed so far
    read,      \* history: characters handed to readers, in order
    dropped,   \* history: characters erased or flushed
    eofs,      \* history: VEOF keys on an empty line
    zeros,     \* history: reads answered with 0 bytes before a hangup
    resumed,   \* history: parked readers continued since they parked
    moves

procVars == <<state, calling, pending, resumed>>
lineVars == <<canon, noflsh, line, typed, dropped, eofs>>
vars == <<procVars, lineVars, waiters, fg, cooked, eof, hup, read, zeros, moves>>

Groups == {Group[p] : p \in Procs}
Parked(p) == p \in Range(waiters)

Init ==
    /\ state = [p \in Procs |-> "running"]
    /\ calling = {} /\ waiters = <<>> /\ pending = {}
    /\ fg \in Groups
    /\ canon \in BOOLEAN /\ noflsh \in BOOLEAN
    /\ line = <<>> /\ cooked = <<>> /\ eof = FALSE /\ hup = FALSE
    /\ typed = 0 /\ read = <<>> /\ dropped = {}
    /\ eofs = 0 /\ zeros = 0 /\ resumed = {} /\ moves = 0

----------------------------------------------------------------------------
(* Signals to a group, and answers                                           *)

Background(p) == Group[p] # fg

Alive(g) == {p \in Procs : state[p] # "dead" /\ Group[p] = g}
Of(g, d) == {p \in Alive(g) : Disp[p] = d}

\* What the kernel changes when it hands out input: s is a record of the
\* variables _ttyNotify writes.
Now == [state |-> state, pending |-> pending, waiters |-> waiters, cooked |-> cooked,
        eof |-> eof, hup |-> hup, read |-> read, zeros |-> zeros, over |-> FALSE]

Become(s) ==
    /\ state' = s.state /\ pending' = s.pending
    /\ waiters' = s.waiters /\ cooked' = s.cooked
    /\ eof' = s.eof /\ hup' = s.hup /\ read' = s.read /\ zeros' = s.zeros
    /\ resumed' = resumed \cap Range(s.waiters)

\* A queue of readers without some of them.
Without(q, gone) ==
    LET kept[n \in 0..Len(q)] ==
            IF n = 0 THEN <<>>
            ELSE IF q[n] \in gone THEN kept[n - 1] ELSE Append(kept[n - 1], q[n])
    IN  kept[Len(q)]

\* _killPgid with a signal that stops by default.
StopGroup(s, g) ==
    [s EXCEPT !.state = [p \in Procs |->
                  IF p \in Of(g, "default") /\ @[p] = "running" THEN "stopped" ELSE @[p]],
              !.pending = @ \cup Of(g, "handler")]

\* _killPgid with a signal that ends a process by default.
EndGroup(s, g) ==
    [s EXCEPT !.state = [p \in Procs |-> IF p \in Of(g, "default") THEN "dead" ELSE @[p]],
              !.pending = @ \cup Of(g, "handler"),
              !.waiters = Without(@, Of(g, "default"))]

Leave(s, p) == [s EXCEPT !.waiters = Without(@, {p})]

\* Fault: the flag outlives the read it ended.
ConsumeKeeping(s) == [s EXCEPT !.zeros = IF s.hup THEN @ ELSE @ + 1]

\* _consumeEof: a hangup stays, a VEOF is spent.
Consume(s) == [s EXCEPT !.zeros = IF s.hup THEN @ ELSE @ + 1,
                        !.eof = IF s.hup THEN @ ELSE FALSE]

Take(s) ==
    LET n == IF Len(s.cooked) < ReadCount THEN Len(s.cooked) ELSE ReadCount
    IN  [s EXCEPT !.read = @ \o SubSeq(s.cooked, 1, n),
                  !.cooked = SubSeq(@, n + 1, Len(@))]

\* A reader in the background: EIO when it would not notice the signal,
\* else the whole group gets TTIN and the read EINTR.
Refuse(s, p) == IF Disp[p] = "ignore" THEN s ELSE StopGroup(s, Group[p])

\* Fault: a parked reader of the background ends the walk.
ServeBlocked(s, p) ==
    CASE s.over \/ s.state[p] = "stopped" -> s
      [] ~s.over /\ s.state[p] # "stopped" /\ Background(p) -> [s EXCEPT !.over = TRUE]
      [] OTHER ->
           IF s.cooked # <<>> THEN Take(Leave(s, p))
           ELSE IF s.eof \/ s.hup THEN Consume(Leave(s, p))
           ELSE [s EXCEPT !.over = TRUE]

\* One parked reader of _ttyNotify's walk.
Serve(s, p) ==
    CASE s.over \/ s.state[p] = "stopped" -> s
      [] ~s.over /\ s.state[p] # "stopped" /\ Background(p) -> Refuse(Leave(s, p), p)
      [] OTHER ->
           IF s.cooked # <<>> THEN Take(Leave(s, p))
           ELSE IF s.eof \/ s.hup THEN Consume(Leave(s, p))
           ELSE [s EXCEPT !.over = TRUE]

Notify(s) ==
    LET walk[n \in 0..Len(s.waiters)] ==
            IF n = 0 THEN s ELSE Serve(walk[n - 1], s.waiters[n])
    IN  walk[Len(s.waiters)]

----------------------------------------------------------------------------
(* Reads                                                                     *)

Call(p) ==
    /\ state[p] = "running" /\ p \notin calling /\ ~Parked(p)
    /\ calling' = calling \cup {p}
    /\ UNCHANGED <<state, pending, resumed, lineVars, waiters, fg, cooked, eof, hup,
                   read, zeros, moves>>

\* FS_READ is dispatched; the caller may have been stopped meanwhile.
Dispatch(p) ==
    /\ p \in calling /\ state[p] # "dead"
    /\ calling' = calling \ {p}
    /\ Become(CASE Background(p) -> Refuse(Now, p)
                [] ~Background(p) /\ cooked # <<>> -> Take(Now)
                [] ~Background(p) /\ cooked = <<>> /\ (eof \/ hup) -> Consume(Now)
                [] OTHER -> [Now EXCEPT !.waiters = Append(@, p)])
    /\ UNCHANGED <<lineVars, fg, moves>>

\* The handler's signal reaches the process: a parked read ends with EINTR.
Interrupt(p) ==
    /\ p \in pending /\ state[p] # "dead"
    /\ Become([Leave(Now, p) EXCEPT !.pending = @ \ {p}])
    /\ UNCHANGED <<calling, lineVars, fg, moves>>

----------------------------------------------------------------------------
(* Keys (Tty.input)                                                          *)

\* _push.
Push(bytes) == Notify([Now EXCEPT !.cooked = @ \o bytes])

Char ==
    /\ typed < MaxTyped
    /\ typed' = typed + 1
    /\ IF canon
       THEN line' = Append(line, typed') /\ UNCHANGED <<procVars, waiters, cooked, eof, hup,
                                                        read, zeros>>
       ELSE Become(Push(<<typed'>>)) /\ UNCHANGED <<line, calling>>
    /\ UNCHANGED <<canon, noflsh, dropped, eofs, fg, moves>>

Newline ==
    /\ canon /\ typed < MaxTyped
    /\ typed' = typed + 1
    /\ line' = <<>>
    /\ Become(Push(Append(line, typed')))
    /\ UNCHANGED <<calling, canon, noflsh, dropped, eofs, fg, moves>>

\* ERASE takes the last character, KILL the line.
Edit(kept) ==
    /\ canon /\ line # <<>> /\ kept \in {0, Len(line) - 1}
    /\ line' = SubSeq(line, 1, kept)
    /\ dropped' = dropped \cup {line[i] : i \in kept + 1..Len(line)}
    /\ UNCHANGED <<procVars, canon, noflsh, typed, eofs, waiters, fg, cooked, eof, hup,
                   read, zeros, moves>>

\* VEOF commits the line, or ends one read.
VEof ==
    /\ canon /\ eofs < MaxEofs
    /\ IF line # <<>>
       THEN /\ line' = <<>> /\ Become(Push(line)) /\ UNCHANGED eofs
       ELSE /\ eofs' = eofs + 1 /\ Become(Notify([Now EXCEPT !.eof = TRUE])) /\ UNCHANGED line
    /\ UNCHANGED <<calling, canon, noflsh, typed, dropped, fg, moves>>

\* INTR or SUSP: flush what was typed, then signal the foreground group.
SignalKey(intr) ==
    LET s == IF noflsh THEN Now ELSE [Now EXCEPT !.cooked = <<>>]
    IN  /\ moves < MaxMoves /\ moves' = moves + 1
        /\ IF noflsh THEN UNCHANGED <<line, dropped>>
           ELSE line' = <<>> /\ dropped' = dropped \cup Range(line) \cup Range(cooked)
        /\ Become(IF intr THEN EndGroup(s, fg) ELSE StopGroup(s, fg))
        /\ UNCHANGED <<calling, canon, noflsh, typed, eofs, fg>>

----------------------------------------------------------------------------
(* Control calls                                                             *)

Moves == moves < MaxMoves /\ moves' = moves + 1
Acting(p) == state[p] = "running" /\ p \notin calling /\ ~Parked(p)

\* TCSETPGRP.
SetForeground(p, g) ==
    /\ Acting(p) /\ Moves /\ g # fg
    /\ fg' = g
    /\ UNCHANGED <<procVars, lineVars, waiters, cooked, eof, hup, read, zeros>>

\* Fault: leaving canonical mode strands the edit buffer.
SetAttrStranding(p, c, flush) ==
    /\ Acting(p) /\ Moves
    /\ canon' = c
    /\ IF flush
       THEN /\ line' = <<>> /\ cooked' = <<>>
            /\ dropped' = dropped \cup Range(line) \cup Range(cooked)
       ELSE UNCHANGED <<line, cooked, dropped>>
    /\ UNCHANGED <<procVars, noflsh, typed, eofs, fg, waiters, eof, hup, read, zeros>>

\* TCSETATTR, flushing or not: an unfinished line becomes readable when
\* canonical mode is left.
SetAttr(p, c, flush) ==
    /\ Acting(p) /\ Moves
    /\ canon' = c
    /\ IF flush
       THEN /\ line' = <<>>
            /\ dropped' = dropped \cup Range(line) \cup Range(cooked)
            /\ Become([Now EXCEPT !.cooked = <<>>])
       ELSE /\ UNCHANGED dropped
            /\ IF canon /\ ~c /\ line # <<>>
               THEN line' = <<>> /\ Become(Push(line))
               ELSE UNCHANGED <<line, state, pending, resumed, waiters, cooked, eof, hup,
                                read, zeros>>
    /\ UNCHANGED <<calling, noflsh, typed, eofs, fg>>

\* kill with STOP, CONT or KILL, and exits.
Stop(p) ==
    /\ state[p] = "running" /\ Moves
    /\ state' = [state EXCEPT ![p] = "stopped"]
    /\ UNCHANGED <<calling, pending, resumed, lineVars, waiters, fg, cooked, eof, hup,
                   read, zeros>>

Cont(p) ==
    /\ state[p] = "stopped"
    /\ state' = [state EXCEPT ![p] = "running"]
    /\ resumed' = IF Parked(p) THEN resumed \cup {p} ELSE resumed
    /\ UNCHANGED <<calling, pending, lineVars, waiters, fg, cooked, eof, hup, read, zeros,
                   moves>>

Die(p) ==
    /\ state[p] # "dead" /\ Moves
    /\ calling' = calling \ {p}
    /\ Become([Leave(Now, p) EXCEPT !.state[p] = "dead", !.pending = @ \ {p}])
    /\ UNCHANGED <<lineVars, fg>>

\* The last reference to a pty's master: HUP to the group, then end of file
\* for good.
Hangup ==
    /\ ~hup
    /\ Become(Notify([EndGroup(Now, fg) EXCEPT !.hup = TRUE]))
    /\ UNCHANGED <<calling, lineVars, fg, moves>>

Key == Char \/ Newline \/ VEof \/ (\E kept \in 0..MaxTyped : Edit(kept))
       \/ \E intr \in BOOLEAN : SignalKey(intr)

Control(p) ==
    \/ \E g \in Groups : SetForeground(p, g)
    \/ \E c \in BOOLEAN, flush \in BOOLEAN : SetAttr(p, c, flush)
    \/ Stop(p) \/ Cont(p) \/ Die(p)

Next ==
    \/ ~hup /\ Key
    \/ Hangup
    \/ \E p \in Procs : Call(p) \/ Dispatch(p) \/ Interrupt(p) \/ Control(p)

Spec == Init /\ [][Next]_vars

----------------------------------------------------------------------------
(* Properties                                                                *)

\* Types; a process waits in the queue once, and not after its death.
TypeOK ==
    /\ state \in [Procs -> {"running", "stopped", "dead"}]
    /\ calling \subseteq Procs /\ pending \subseteq Procs /\ resumed \subseteq Range(waiters)
    /\ Range(waiters) \subseteq {p \in Procs : state[p] # "dead"} \ calling
    /\ IsInjective(waiters)
    /\ fg \in Groups
    /\ {canon, noflsh, eof, hup} \subseteq BOOLEAN
    /\ dropped \subseteq 1..typed /\ typed \in 0..MaxTyped
    /\ moves \in 0..MaxMoves

\* Everything typed is consumed once and in order: what readers got, what is
\* cooked and what is being edited are the keystrokes in the order they were
\* made, without those that were erased or flushed, through signal keys,
\* flushes, changes of mode in the middle of a line and interrupted reads.
InputOnceInOrder ==
    LET all == read \o cooked \o line
    IN  /\ \A i, j \in DOMAIN all : i < j => all[i] < all[j]
        /\ Range(all) \cap dropped = {}
        /\ Range(all) \cup dropped = 1..typed

\* A parked read of the foreground never sleeps beside input or an end of
\* file, whoever is stopped, moved or killed around it -- unless it was
\* itself stopped and continued while parked.
ReaderServed == \A p \in Procs :
    Parked(p) /\ state[p] = "running" /\ ~Background(p) /\ p \notin resumed
        => cooked = <<>> /\ ~eof /\ ~hup

\* A VEOF ends one read at most: it does not cascade from a program that ends
\* on it to the shell that reads next.
EofEndsOneRead == zeros <= eofs
============================================================================
