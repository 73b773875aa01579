---------------------------- MODULE HttpTransfer ----------------------------
(* An HTTP transfer as a descriptor (kernel.js: HTTP_OPEN, HTTP_STATUS,      *)
(* _httpStart, _httpPump, _httpExpire, _httpIdleArm, _httpDrain,             *)
(* _httpDestroy, the http branches of FS_READ and _selectScan), beside the   *)
(* embedder's fetch and readers that wait on the descriptor, collect the     *)
(* status and read until EAGAIN.                                             *)
(*                                                                           *)
(* Four parties act on one transfer: the promises of the fetch and of the    *)
(* body reader, the two deadlines, the readers, and whoever closes the       *)
(* descriptor last.  A late promise or timer must find nothing to do, and    *)
(* no order of them may leave the transfer with nobody to move it on.        *)
EXTENDS Naturals

CONSTANTS
    Readers,    \* processes that share the descriptor
    Cap,        \* HTTP_BUF_CAP
    Sizes,      \* bytes one read of the body may bring; 0 is an empty chunk
    MaxBytes,   \* bound: bytes of the response's body
    IdleSet     \* whether callers leave the idle deadline on: subset of BOOLEAN

VARIABLES
    fetch,    \* the fetch's promise: "none", "pending", "settled"
    pull,     \* reader.read(): how many promises are outstanding
    status,   \* "none", "fresh" (unconsumed) or "told"
    queued,   \* bytes in the kernel's queue
    done,     \* the body ended
    error,    \* "none", "EIO" or "ETIMEDOUT"
    aborted,  \* the descriptor is gone
    paused,   \* the pump stopped at the cap
    hdr,      \* the headers deadline is armed
    idle,     \* the idle deadline is armed
    idleOn,   \* idleMs is not zero
    given,    \* history: bytes the server delivered
    got,      \* history: bytes handed to readers
    who,      \* reader -> "awake", "parked" or the outcome it has seen
    after     \* history: a reader saw data after it, or another, saw the end

xfer == <<status, queued, done, error, aborted, paused, hdr, idle, idleOn>>
vars == <<fetch, pull, xfer, given, got, who, after>>

Outcomes == {"eof", "EIO", "ETIMEDOUT", "closed"}

Init ==
    /\ fetch = "none" /\ pull = 0 /\ status = "none" /\ queued = 0
    /\ done = FALSE /\ error = "none" /\ aborted = FALSE /\ paused = FALSE
    /\ hdr = FALSE /\ idle = FALSE /\ idleOn \in IdleSet
    /\ given = 0 /\ got = 0
    /\ who = [r \in Readers |-> "awake"] /\ after = FALSE

----------------------------------------------------------------------------
(* The transfer                                                              *)

Dead == aborted \/ error # "none"

\* _selectScan: status not collected yet, data, end or error.
Consumable == status = "fresh" \/ queued > 0 \/ done \/ error # "none"

\* _recheckSelects, in the state the step leads to.
Recheck ==
    who' = [r \in Readers |-> IF who[r] = "parked" /\ Consumable' THEN "awake" ELSE who[r]]

\* The part of _httpPump that runs at once, after the queue has changed to q:
\* it stops at the cap, else it asks the reader for a chunk.
Pump(q, armed) ==
    IF q >= Cap
    THEN paused' = TRUE /\ idle' = FALSE /\ UNCHANGED pull
    ELSE paused' = FALSE /\ pull' = pull + 1 /\ idle' = (armed \/ (paused /\ idleOn))

\* HTTP_OPEN and _httpStart.
Open ==
    /\ fetch = "none" /\ ~aborted
    /\ fetch' = "pending" /\ hdr' = TRUE
    /\ UNCHANGED <<pull, status, queued, done, error, aborted, paused, idle, idleOn,
                   given, got, who, after>>

\* The fetch resolves: with a body to stream, or without one.
Resolved(body) ==
    /\ fetch = "pending" /\ fetch' = "settled"
    /\ IF Dead
       THEN UNCHANGED <<pull, xfer, who>>
       ELSE /\ hdr' = FALSE /\ status' = "fresh"
            /\ IF body
               THEN Pump(queued, idleOn) /\ UNCHANGED done
               ELSE done' = TRUE /\ UNCHANGED <<pull, paused, idle>>
            /\ UNCHANGED <<queued, error, aborted, idleOn>>
            /\ Recheck
    /\ UNCHANGED <<given, got, after>>

\* It rejects.
Rejected ==
    /\ fetch = "pending" /\ fetch' = "settled"
    /\ IF Dead
       THEN UNCHANGED <<xfer, who>>
       ELSE /\ hdr' = FALSE /\ error' = "EIO"
            /\ UNCHANGED <<status, queued, done, aborted, paused, idle, idleOn>>
            /\ Recheck
    /\ UNCHANGED <<pull, given, got, after>>

\* Fault: a chunk that arrives after the transfer failed is queued.
ChunkArrivesLate(n) ==
    /\ pull > 0 /\ given + n <= MaxBytes
    /\ given' = given + n
    /\ IF aborted
       THEN pull' = pull - 1 /\ UNCHANGED <<xfer, who>>
       ELSE /\ queued' = queued + n
            /\ IF queued' >= Cap
               THEN paused' = TRUE /\ idle' = FALSE /\ pull' = pull - 1
               ELSE /\ paused' = FALSE /\ idle' = IF n > 0 THEN idleOn ELSE idle
                    /\ UNCHANGED pull
            /\ UNCHANGED <<status, done, error, aborted, hdr, idleOn>>
            /\ Recheck
    /\ UNCHANGED <<fetch, got, after>>

\* A read of the body resolves with n bytes; the pump goes round.
ChunkArrives(n) ==
    /\ pull > 0 /\ given + n <= MaxBytes
    /\ given' = given + n
    /\ IF Dead
       THEN pull' = pull - 1 /\ UNCHANGED <<xfer, who>>
       ELSE /\ queued' = queued + n
            /\ IF queued' >= Cap
               THEN paused' = TRUE /\ idle' = FALSE /\ pull' = pull - 1
               ELSE /\ paused' = FALSE /\ idle' = IF n > 0 THEN idleOn ELSE idle
                    /\ UNCHANGED pull
            /\ UNCHANGED <<status, done, error, aborted, hdr, idleOn>>
            /\ Recheck
    /\ UNCHANGED <<fetch, got, after>>

\* It resolves with the end of the body.
BodyEnds ==
    /\ pull > 0 /\ pull' = pull - 1
    /\ IF Dead
       THEN UNCHANGED <<xfer, who>>
       ELSE /\ done' = TRUE /\ idle' = FALSE
            /\ UNCHANGED <<status, queued, error, aborted, paused, hdr, idleOn>>
            /\ Recheck
    /\ UNCHANGED <<fetch, given, got, after>>

\* It rejects: the stream broke, or was cancelled.
BodyBreaks ==
    /\ pull > 0 /\ pull' = pull - 1
    /\ IF Dead
       THEN UNCHANGED <<xfer, who>>
       ELSE /\ error' = "EIO" /\ idle' = FALSE
            /\ UNCHANGED <<status, queued, done, aborted, paused, hdr, idleOn>>
            /\ Recheck
    /\ UNCHANGED <<fetch, given, got, after>>

\* _httpExpire: the first outcome stays.
Expire ==
    IF Dead \/ done
    THEN UNCHANGED <<error, who>>
    ELSE error' = "ETIMEDOUT" /\ Recheck

HeadersDeadline ==
    /\ hdr /\ hdr' = FALSE
    /\ UNCHANGED <<fetch, pull, status, queued, done, aborted, paused, idle, idleOn,
                   given, got, after>>
    /\ Expire

IdleDeadline ==
    /\ idle /\ idle' = FALSE
    /\ UNCHANGED <<fetch, pull, status, queued, done, aborted, paused, hdr, idleOn,
                   given, got, after>>
    /\ Expire

----------------------------------------------------------------------------
(* Readers                                                                   *)

Seen == \E r \in Readers : who[r] \in Outcomes \ {"closed"}
Reading(r) == who[r] = "awake" /\ fetch # "none" /\ ~aborted

\* HTTP_STATUS of a waiting reader: spends that leg of readability.
Status(r) ==
    /\ Reading(r) /\ status = "fresh"
    /\ status' = "told"
    /\ UNCHANGED <<fetch, pull, queued, done, error, aborted, paused, hdr, idle, idleOn,
                   given, got, who, after>>

\* Fault: a drain below the cap does not restart the pump.
ReadDataStalling(r) ==
    /\ Reading(r) /\ status # "fresh" /\ queued > 0
    /\ queued' = queued - 1 /\ got' = got + 1
    /\ after' = (after \/ Seen)
    /\ UNCHANGED <<fetch, pull, status, done, error, aborted, paused, hdr, idle, idleOn,
                   given, who>>

\* FS_READ with bytes queued; a drain below the cap restarts the pump.
ReadData(r) ==
    /\ Reading(r) /\ status # "fresh" /\ queued > 0
    /\ queued' = queued - 1 /\ got' = got + 1
    /\ after' = (after \/ Seen)
    /\ IF paused /\ queued' < Cap /\ ~Dead /\ ~done
       THEN Pump(queued', idle)
       ELSE UNCHANGED <<pull, paused, idle>>
    /\ UNCHANGED <<fetch, status, done, error, aborted, hdr, idleOn, given, who>>

\* FS_READ with nothing queued: the error, the end, or EAGAIN and a wait.
ReadNothing(r) ==
    /\ Reading(r) /\ status # "fresh" /\ queued = 0
    /\ who' = [who EXCEPT ![r] = CASE error # "none" -> error
                                   [] error = "none" /\ done -> "eof"
                                   [] OTHER -> "parked"]
    /\ UNCHANGED <<fetch, pull, xfer, given, got, after>>

\* The last release of the descriptor (_httpDestroy), by its owners' deaths
\* or closes: nobody waits on it any more.
Close ==
    /\ fetch # "none" /\ ~aborted
    /\ aborted' = TRUE /\ hdr' = FALSE /\ idle' = FALSE
    /\ who' = [r \in Readers |-> IF who[r] \in Outcomes THEN who[r] ELSE "closed"]
    /\ UNCHANGED <<fetch, pull, status, queued, done, error, paused, idleOn, given, got, after>>

Reader(r) == Status(r) \/ ReadData(r) \/ ReadNothing(r)

\* What an aborted or a failed fetch still owes: its promises settle.
Deadlines == HeadersDeadline \/ IdleDeadline

Network ==
    \/ \E body \in BOOLEAN : Resolved(body)
    \/ Rejected \/ (\E n \in Sizes : ChunkArrives(n)) \/ BodyEnds \/ BodyBreaks

Next == Open \/ Network \/ Deadlines \/ Close \/ \E r \in Readers : Reader(r)

Spec == Init /\ [][Next]_vars

----------------------------------------------------------------------------
(* Properties                                                                *)

\* What readers see is final: whoever saw the end or the error, nobody reads
\* data of that transfer afterwards, and a clean end comes after every byte
\* that was delivered.
OutcomeIsFinal ==
    /\ ~after
    /\ (\E r \in Readers : who[r] = "eof") => got = given /\ done /\ error = "none"

\* With the idle deadline on, every reader learns how the transfer ends, also
\* when the server, the fetch or the stream falls silent at any point.
ReadersLearnOutcome == \A r \in Readers :
    fetch # "none" /\ idleOn ~> who[r] \in Outcomes
============================================================================
