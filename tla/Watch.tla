------------------------------- MODULE Watch -------------------------------
(* File watches (kernel.js FS_WATCH: _watchQueue, _watchCbArm, watchPath,    *)
(* notifySettled, _watchEmit, _watchRename, _watchDrain, and the file system *)
(* handlers that emit) beside consumers that follow os/fswatch.h: wait,      *)
(* drain until EAGAIN, act once.                                             *)
(*                                                                           *)
(* A watch carries no content: its consumer reads again when told to.  It is *)
(* right exactly when a consumer that sleeps has seen what is there, through *)
(* coalesced records, a queue that overflows, and a mask that hides writes   *)
(* in progress.                                                              *)
(*                                                                           *)
(* One directory with the names InDir and one name outside it.  A content is *)
(* the file it belongs to and a version.  Every action is one kernel request *)
(* (or one callback of the embedder), which the kernel handles alone.        *)
EXTENDS Naturals, Sequences

CONSTANTS
    InDir,        \* names in the watched directory
    Outside,      \* a name in another directory
    Target,       \* the name in InDir that is watched by itself
    Watches,      \* a subset of {"file", "dir", "embedder"}
    Writers,      \* open file descriptions that may write
    Cap,          \* FSW_QUEUE_CAP
    Batch,        \* records that fit one read of the consumer
    MaxFile,      \* bound: files ever made
    MaxVersion,   \* bound: changes of one file's content
    MaxOps        \* bound: mutations

Names == InDir \cup {Outside}
Files == 1..MaxFile
None == 0
Gone == <<None, 0>>

VARIABLES
    entry,    \* name -> file or None
    version,  \* file -> version of its content
    made,     \* files made so far
    hand,     \* writer -> [file, path, dirty]; no file: closed
    queue,    \* watch -> queued records
    over,     \* watch -> the overflow latch
    mode,     \* watch -> what its consumer does
    known,    \* watch -> what its consumer last read, per name
    ops,      \* mutations so far
    astray    \* history: names whose file was written through a description
              \* opened by another name, and not announced since

vars == <<entry, version, made, hand, queue, over, mode, known, ops, astray>>
files == <<entry, version, made, hand, ops, astray>>

Closed == [file |-> None, path |-> Target, dirty |-> FALSE]
Look(n) == IF entry[n] = None THEN Gone ELSE <<entry[n], version[entry[n]]>>

\* The names a watch is about, and what its consumer reads.
Scope(w) == IF w = "dir" THEN InDir ELSE {Target}
View(w) == [n \in Names |-> IF n \in Scope(w) THEN Look(n) ELSE Gone]
Live == {w \in Watches : mode[w] # "off"}
Readable(w) == over[w] \/ queue[w] # <<>>

Init ==
    /\ entry = [n \in Names |-> IF n = Target THEN 1 ELSE None]
    /\ version = [f \in Files |-> 0]
    /\ made = 1
    /\ hand = [h \in Writers |-> Closed]
    /\ queue = [w \in Watches |-> <<>>]
    /\ over = [w \in Watches |-> FALSE]
    /\ mode = [w \in Watches |-> "off"]
    /\ known = [w \in Watches |-> [n \in Names |-> Gone]]
    /\ ops = 0 /\ astray = {}

----------------------------------------------------------------------------
(* Queueing.  A record is its type and its names: none for an event of the  *)
(* watched path itself, the child's for one in a watched directory, both    *)
(* for a rename inside it.                                                  *)

\* FSW_MASK_DEFAULT: everything except MODIFY.
Mask == {"close_write", "create", "delete", "rename", "self_gone"}

\* Fault: a full queue drops the record without latching.
AddDropping(s, rec) ==
    IF rec[1] \notin Mask \/ s.over \/ (s.q # <<>> /\ s.q[Len(s.q)] = rec) THEN s
    ELSE IF Len(s.q) >= Cap THEN [s EXCEPT !.q = <<>>]
    ELSE [s EXCEPT !.q = Append(@, rec), !.woke = TRUE]

\* _watchQueue.
Add(s, rec) ==
    IF rec[1] \notin Mask \/ s.over \/ (s.q # <<>> /\ s.q[Len(s.q)] = rec) THEN s
    ELSE IF Len(s.q) >= Cap THEN [q |-> <<>>, over |-> TRUE, woke |-> TRUE]
    ELSE [s EXCEPT !.q = Append(@, rec), !.woke = TRUE]

\* One mutation queues at most one record to a watch; none is <<>>.
After(w, rec) ==
    LET s == [q |-> queue[w], over |-> over[w], woke |-> FALSE]
    IN  IF rec = <<>> THEN s ELSE Add(s, rec)

\* _recheckSelects after any watch changed, and _watchCbArm for the embedder's.
Wake(woke) ==
    mode' = [w \in Watches |->
        IF mode[w] = "parked" /\ woke[w] THEN "awake" ELSE mode[w]]

\* Fan the record of one mutation out to the live watches.
Deliver(recs) ==
    LET after == [w \in Watches |-> After(w, IF w \in Live THEN recs[w] ELSE <<>>)]
    IN  /\ queue' = [w \in Watches |-> after[w].q]
        /\ over' = [w \in Watches |-> after[w].over]
        /\ Wake([w \in Watches |-> after[w].woke])
        /\ UNCHANGED known

\* _watchEmit: the watched path itself, and a child of the watched directory.
About(n, self, child) == [w \in Watches |->
    IF w = "dir"
    THEN IF n \in InDir THEN <<child, <<n>>>> ELSE <<>>
    ELSE IF n = Target THEN <<self, <<>>>> ELSE <<>>]

\* _watchRename, of a file, to another name.
Renamed(n, m) == [w \in Watches |->
    IF w = "dir"
    THEN IF n \in InDir
         THEN IF m \in InDir THEN <<"rename", <<n, m>>>> ELSE <<"delete", <<n>>>>
         ELSE IF m \in InDir THEN <<"close_write", <<m>>>> ELSE <<>>
    ELSE IF n = Target THEN <<"self_gone", <<>>>>
    ELSE IF m = Target THEN <<"close_write", <<>>>> ELSE <<>>]

----------------------------------------------------------------------------
(* Mutations                                                                *)

Op == ops < MaxOps /\ ops' = ops + 1

Changed(f) == version[f] < MaxVersion /\ version' = [version EXCEPT ![f] = @ + 1]

\* FS_OPEN of an existing file, with or without O_TRUNC.
Open(h, n) == \E trunc \in BOOLEAN :
    /\ Op /\ hand[h] = Closed /\ entry[n] # None
    /\ IF trunc THEN Changed(entry[n]) ELSE UNCHANGED version
    /\ hand' = [hand EXCEPT ![h] = [file |-> entry[n], path |-> n, dirty |-> trunc]]
    /\ UNCHANGED <<entry, made, queue, over, mode, known, astray>>

\* FS_OPEN that creates.  Existence is looked up only when a watch is live.
Create(h, n) ==
    /\ Op /\ hand[h] = Closed /\ entry[n] = None /\ made < MaxFile
    /\ made' = made + 1
    /\ entry' = [entry EXCEPT ![n] = made + 1]
    /\ hand' = [hand EXCEPT ![h] = [file |-> made + 1, path |-> n, dirty |-> Live # {}]]
    /\ Deliver(About(n, "create", "create")) /\ astray' = astray \ {n}
    /\ UNCHANGED version

\* FS_WRITE of at least one byte, FS_FTRUNCATE: told at the path the
\* description was opened by, wherever the file is now.
Write(h) ==
    /\ Op /\ hand[h] # Closed
    /\ Changed(hand[h].file)
    /\ hand' = [hand EXCEPT ![h].dirty = TRUE]
    /\ Deliver(About(hand[h].path, "modify", "modify"))
    /\ astray' = astray \cup {n \in Names : entry[n] = hand[h].file /\ n # hand[h].path}
    /\ UNCHANGED <<entry, made>>

\* The last release of a description: a dirty one settles, at the path it
\* was opened by.
Close(h) ==
    /\ Op /\ hand[h] # Closed
    /\ hand' = [hand EXCEPT ![h] = Closed]
    /\ IF hand[h].dirty
       THEN /\ Deliver(About(hand[h].path, "close_write", "close_write"))
            /\ astray' = astray \ {hand[h].path}
       ELSE UNCHANGED <<queue, over, mode, known, astray>>
    /\ UNCHANGED <<entry, version, made>>

Unlink(n) ==
    /\ Op /\ entry[n] # None
    /\ entry' = [entry EXCEPT ![n] = None]
    /\ Deliver(About(n, "self_gone", "delete")) /\ astray' = astray \ {n}
    /\ UNCHANGED <<version, made, hand>>

\* FS_RENAME: descriptions of the file keep the path they were opened by.
Rename(n, m) ==
    /\ Op /\ n # m /\ entry[n] # None
    /\ entry' = [entry EXCEPT ![m] = entry[n], ![n] = None]
    /\ Deliver(Renamed(n, m)) /\ astray' = astray \ {n, m}
    /\ UNCHANGED <<version, made, hand>>

\* The embedder writes the file itself and announces it (notifySettled).
EmbedderSave ==
    /\ Op /\ entry[Target] # None
    /\ Changed(entry[Target])
    /\ Deliver(About(Target, "close_write", "close_write")) /\ astray' = astray \ {Target}
    /\ UNCHANGED <<entry, made, hand>>

----------------------------------------------------------------------------
(* Watches and their consumers                                              *)

\* FS_WATCH_OPEN: the path must exist.  The consumer then reads once.
Watch(w) ==
    /\ w # "embedder" /\ mode[w] = "off"
    /\ w = "file" => entry[Target] # None
    /\ mode' = [mode EXCEPT ![w] = "act"]
    /\ UNCHANGED <<files, queue, over, known>>

\* watchPath: the path need not exist, and there is no way to stop.
WatchPath ==
    /\ "embedder" \in Watches /\ mode["embedder"] = "off"
    /\ mode' = [mode EXCEPT !["embedder"] = "parked"]
    /\ known' = [known EXCEPT !["embedder"] = View("embedder")]
    /\ UNCHANGED <<files, queue, over>>

Unwatch(w) ==
    /\ w # "embedder" /\ mode[w] \notin {"off", "parked"}
    /\ mode' = [mode EXCEPT ![w] = "off"]
    /\ queue' = [queue EXCEPT ![w] = <<>>]
    /\ over' = [over EXCEPT ![w] = FALSE]
    /\ UNCHANGED <<files, known>>

\* One read of fsw_drain (_watchDrain): the overflow record alone, else as
\* many whole records as fit.  It stops at the first read that returns none.
Drain(w) ==
    /\ w # "embedder" /\ mode[w] = "awake"
    /\ IF Readable(w)
       THEN /\ over' = [over EXCEPT ![w] = FALSE]
            /\ queue' = [queue EXCEPT ![w] = IF over[w] THEN <<>>
                             ELSE SubSeq(@, 1 + (IF Len(@) < Batch THEN Len(@) ELSE Batch), Len(@))]
            /\ UNCHANGED mode
       ELSE /\ mode' = [mode EXCEPT ![w] = "act"]
            /\ UNCHANGED <<queue, over>>
    /\ UNCHANGED <<files, known>>

\* The consumer reads what it watches.
Act(w) ==
    /\ mode[w] = "act"
    /\ known' = [known EXCEPT ![w] = View(w)]
    /\ mode' = [mode EXCEPT ![w] = "acted"]
    /\ UNCHANGED <<files, queue, over>>

\* FS_WAIT: answered at once when there is something to read.
Park(w) ==
    /\ mode[w] = "acted"
    /\ mode' = [mode EXCEPT ![w] = IF Readable(w) THEN "awake" ELSE "parked"]
    /\ UNCHANGED <<files, queue, over, known>>

\* The deferred callback of an embedder watch: forget the records, then read.
Callback ==
    /\ "embedder" \in Watches /\ mode["embedder"] = "awake"
    /\ mode' = [mode EXCEPT !["embedder"] = "parked"]
    /\ queue' = [queue EXCEPT !["embedder"] = <<>>]
    /\ over' = [over EXCEPT !["embedder"] = FALSE]
    /\ known' = [known EXCEPT !["embedder"] = View("embedder")]
    /\ UNCHANGED files

Mutate ==
    \/ \E h \in Writers : Write(h) \/ Close(h) \/ \E n \in Names : Open(h, n) \/ Create(h, n)
    \/ \E n \in Names : Unlink(n) \/ \E m \in Names : Rename(n, m)
    \/ EmbedderSave

Consume(w) == Drain(w) \/ Act(w) \/ Park(w)

Next ==
    \/ Mutate
    \/ \E w \in Watches : Watch(w) \/ Unwatch(w) \/ Consume(w)
    \/ WatchPath \/ Callback

Spec == Init /\ [][Next]_vars

----------------------------------------------------------------------------
(* Properties                                                               *)

Records == Mask \X ({<<>>} \cup {<<n>> : n \in Names} \cup {<<n, m>> : n, m \in Names})
Contents == (Files \cup {None}) \X (0..MaxVersion)

\* Types; a queue never exceeds its cap, and the latch empties it.
TypeOK ==
    /\ entry \in [Names -> Files \cup {None}]
    /\ version \in [Files -> 0..MaxVersion]
    /\ made \in Files /\ ops \in 0..MaxOps /\ astray \subseteq Names
    /\ hand \in [Writers -> [file : Files \cup {None}, path : Names, dirty : BOOLEAN]]
    /\ \A w \in Watches :
        Len(queue[w]) <= Cap /\ \A i \in DOMAIN queue[w] : queue[w][i] \in Records
    /\ over \in [Watches -> BOOLEAN]
    /\ \A w \in Watches : over[w] => queue[w] = <<>>
    /\ mode \in [Watches -> {"off", "parked", "awake", "act", "acted"}]
    /\ known \in [Watches -> [Names -> Contents]]

\* A name's content is settled when whoever has written to it under that
\* name has closed it, and nobody has written to its file under another one:
\* the kernel announces a write at the path the file was opened by, so it says
\* nothing of a file renamed while it is open (2357 against 3743-3768).
Unsettled(n) ==
    \/ n \in astray
    \/ /\ entry[n] # None
       /\ \E h \in Writers : hand[h].file = entry[n] /\ hand[h].path = n /\ hand[h].dirty

\* A consumer that sleeps has seen every settled content it watches: no
\* record was lost to the cap, the coalescing, the mask or a rename without
\* another one, or the latch, to make up for it.
SleeperIsCurrent == \A w \in Watches : mode[w] = "parked" =>
    \A n \in Scope(w) : ~Unsettled(n) => known[w][n] = Look(n)
============================================================================
