------------------------------ MODULE Clipboard ------------------------------
(* Reading the host's clipboard (kernel.js CLIP_GET, _clipServe;             *)
(* os/kernel-worker.js onClipRead, clipReadSettle, the messages clipboard    *)
(* and clip-read-done; kernel-client.ts handleClipboardRead): processes that *)
(* paste, the kernel's worker, and the page that alone can read the host.    *)
(*                                                                           *)
(* A paste parks its process and asks the page for a refresh, a trip; a      *)
(* paste that comes while one is under way joins it, and a settled trip      *)
(* stays good for a moment for the processes it served.  A timeout stands in *)
(* for a page that does not answer.  The messages carry no name: a late      *)
(* answer settles whatever trip is under way by then.                        *)
(*                                                                           *)
(* A content is its version: the host's clipboard is replaced now and then.  *)
EXTENDS Naturals, Sequences, SequencesExt

CONSTANTS
    Procs,      \* processes that paste
    MaxHost,    \* bound: versions of the host's clipboard
    MaxCalls    \* bound: pastes

VARIABLES
    host,     \* version of the host's clipboard
    slot,     \* version in the kernel's slot
    parked,   \* process -> the host's version when its parked paste came, 0 for none
    dead,     \* processes that have exited
    calls,    \* pastes made
    pending,  \* clipReadPending: the processes whose done is kept, in order
    timer,    \* clipReadTimer is armed
    fresh,    \* the freshness window is open
    served,   \* clipFreshPids
    asks,     \* clip-read messages under way to the page
    reads,    \* the page's reads of the host: what each has got, 0 for nothing yet
    toWorker, \* messages under way to the worker: contents, and dones
    floor,    \* history: the host's version when the trip was asked for
    late,     \* history: a trip timed out, so an answer may be another trip's
    denied,   \* history: the page could not read
    pasted    \* history: the last paste answered

vars == <<host, slot, parked, dead, calls, pending, timer, fresh, served, asks, reads, toWorker,
          floor, late, denied, pasted>>
page == <<host, asks, reads, toWorker>>
trip == <<pending, timer, fresh, served, floor>>
history == <<late, denied>>

NoPaste == [got |-> 0, asked |-> 0, floor |-> 0, again |-> FALSE]
Done == 0       \* clip-read-done, among the versions under way to the worker

Init ==
    /\ host = 1 /\ slot = 1
    /\ parked = [p \in Procs |-> 0] /\ dead = {} /\ calls = 0
    /\ pending = <<>> /\ timer = FALSE /\ fresh = FALSE /\ served = {}
    /\ asks = 0 /\ reads = <<>> /\ toWorker = <<>>
    /\ floor = 1 /\ late = FALSE /\ denied = FALSE /\ pasted = NoPaste

----------------------------------------------------------------------------
(* Processes and the worker                                                  *)

\* _clipServe: the slot as it stands, for a paste that came at version asked.
Serve(asked, again) ==
    pasted' = [got |-> slot, asked |-> asked, floor |-> floor, again |-> again]

\* Fault: a trip without the timeout backstop.
StartUnguarded ==
    /\ asks' = asks + 1 /\ floor' = host
    /\ UNCHANGED timer

\* onClipRead's first reader: ask the page, and arm the timeout.
Start ==
    /\ asks' = asks + 1 /\ floor' = host
    /\ timer' = TRUE

\* CLIP_GET at offset 0, not a peek, and onClipRead: in its window a process
\* is served at once; else it parks, and joins the trip or starts one.
Get(p) ==
    /\ p \notin dead /\ parked[p] = 0 /\ calls < MaxCalls
    /\ calls' = calls + 1
    /\ IF fresh /\ p \in served
       THEN /\ Serve(host, TRUE)
            /\ UNCHANGED <<parked, pending, timer, asks, floor>>
       ELSE /\ parked' = [parked EXCEPT ![p] = host]
            /\ pending' = Append(pending, p)
            /\ IF pending = <<>> THEN Start ELSE UNCHANGED <<asks, timer, floor>>
            /\ UNCHANGED pasted
    /\ UNCHANGED <<host, slot, dead, fresh, served, reads, toWorker, history>>

\* A process dies while it is parked; its done stays with the worker.
Die(p) ==
    /\ parked[p] # 0
    /\ parked' = [parked EXCEPT ![p] = 0] /\ dead' = dead \cup {p}
    /\ UNCHANGED <<slot, calls, page, trip, history, pasted>>

\* clipReadSettle: stamp the window and call every done; a done finds its
\* process still parked, or dead.  (pasted keeps one of the answers.)
Settled ==
    LET who == {p \in ToSet(pending) : parked[p] # 0}
    IN  /\ timer' = FALSE /\ fresh' = TRUE
        /\ served' = ToSet(pending) /\ pending' = <<>>
        /\ parked' = [p \in Procs |-> IF p \in who THEN 0 ELSE parked[p]]
        /\ IF who = {} THEN UNCHANGED pasted
           ELSE \E p \in who : Serve(parked[p], FALSE)

Timeout ==
    /\ timer /\ Settled /\ late' = TRUE
    /\ UNCHANGED <<slot, dead, calls, page, floor, denied>>

\* CLIP_FRESH_MS pass.
Stale ==
    /\ fresh /\ fresh' = FALSE
    /\ UNCHANGED <<slot, parked, dead, calls, pending, timer, served, page, floor, history, pasted>>

\* A content replaces the slot.
ReceiveContent ==
    /\ toWorker # <<>> /\ Head(toWorker) # Done
    /\ slot' = Head(toWorker) /\ toWorker' = Tail(toWorker)
    /\ UNCHANGED <<host, parked, dead, calls, trip, asks, reads, history, pasted>>

\* A done settles the trip under way, whichever that is.
ReceiveDone ==
    /\ toWorker # <<>> /\ Head(toWorker) = Done
    /\ Settled /\ toWorker' = Tail(toWorker)
    /\ UNCHANGED <<host, slot, dead, calls, asks, reads, floor, history>>

----------------------------------------------------------------------------
(* The page and the host                                                     *)

\* handleClipboardRead is called for a clip-read: a read of the host begins.
BeginRead ==
    /\ asks > 0 /\ asks' = asks - 1
    /\ reads' = Append(reads, 0)
    /\ UNCHANGED <<host, slot, parked, dead, calls, trip, toWorker, history, pasted>>

\* The host hands a read its content.
HostRead(k) ==
    /\ reads[k] = 0
    /\ reads' = [reads EXCEPT ![k] = host]
    /\ UNCHANGED <<host, slot, parked, dead, calls, trip, asks, toWorker, history, pasted>>

\* Fault: the end of the trip is told before the content.
AnswerDoneFirst(k) ==
    /\ reads[k] # 0
    /\ reads' = RemoveAt(reads, k) /\ toWorker' = toWorker \o <<Done, reads[k]>>
    /\ UNCHANGED <<host, slot, parked, dead, calls, trip, asks, history, pasted>>

\* A read ends: its content, and the end of the trip.
Answer(k) ==
    /\ reads[k] # 0
    /\ reads' = RemoveAt(reads, k) /\ toWorker' = toWorker \o <<reads[k], Done>>
    /\ UNCHANGED <<host, slot, parked, dead, calls, trip, asks, history, pasted>>

\* A read fails, or finds nothing: the end of the trip alone.
Denied(k) ==
    /\ reads[k] = 0 /\ denied' = TRUE
    /\ reads' = RemoveAt(reads, k) /\ toWorker' = Append(toWorker, Done)
    /\ UNCHANGED <<host, slot, parked, dead, calls, trip, asks, late, pasted>>

\* Outside, something else is copied.
HostCopies ==
    /\ host < MaxHost /\ host' = host + 1
    /\ UNCHANGED <<slot, parked, dead, calls, trip, asks, reads, toWorker, history, pasted>>

Next ==
    \/ \E p \in Procs : Get(p) \/ Die(p)
    \/ Timeout \/ Stale \/ ReceiveContent \/ ReceiveDone
    \/ BeginRead \/ HostCopies
    \/ \E k \in DOMAIN reads : HostRead(k) \/ Answer(k) \/ Denied(k)

Spec == Init /\ [][Next]_vars

----------------------------------------------------------------------------
(* Properties                                                                *)

\* A trip brings back what the host held when it was asked for, or newer: the
\* content reaches the slot before the end of the trip reaches the readers,
\* whatever the readers, other trips and the host do meanwhile.  This is for
\* a page that can read and answers in time; after a timeout the slot is
\* served as it stands.
FreshEnough == late \/ denied \/ pasted.again \/ pasted.got >= pasted.floor

\* Every parked paste is answered, unless its process dies, though the page
\* may never answer: the timeout is armed for every trip with a reader, and
\* no answer or earlier timeout disarms it for the next ("the always-done
\* contract").
GetsReturn == \A p \in Procs : parked[p] # 0 ~> parked[p] = 0

\* "first paste fresh by construction" (kernel.js, CLIP_GET): a process whose
\* paste is not the second of a pair is given nothing older than what the
\* host held when it pasted.
FirstPasteFresh == late \/ denied \/ pasted.again \/ pasted.got >= pasted.asked
==============================================================================
