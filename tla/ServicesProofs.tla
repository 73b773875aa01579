---------------------------- MODULE ServicesProofs ----------------------------
(* The services of the embedder, each beside the others as in Services.      *)
(*                                                                           *)
(* Transfers: at most one read of the body is outstanding, and none once the *)
(* body has ended, so what is delivered late meets an error or an abort; the *)
(* queue only shrinks after either, and a reader sees the end or the error   *)
(* only when it is empty.                                                    *)
(*                                                                           *)
(* Pastes: as long as no trip timed out and the page could read, a trip is   *)
(* in exactly one place, the request, the read, or the answer under way, and *)
(* what it has picked up by then is at least as new as the host was when it  *)
(* set out.                                                                  *)
(*                                                                           *)
(* Executions: what ExecutionProofs shows of one, here of those the page has *)
(* started and of those alone.  The page: its tables change one entry at a   *)
(* time along the life that exec promises, or all at once when the client    *)
(* fails, since a run is there exactly when its start was answered.          *)
EXTENDS Services, ExecutionProofs

----------------------------------------------------------------------------
(* HTTP transfers                                                            *)

\* The transfer's words and its readers.
HttpTypeOK ==
    /\ fetch \in {"none", "pending", "settled"} /\ pull \in {0, 1}
    /\ status \in {"none", "fresh", "told"}
    /\ queued \in Nat /\ given \in Nat /\ handed \in Nat
    /\ done \in BOOLEAN /\ error \in {"none", "EIO", "ETIMEDOUT"}
    /\ gone \in BOOLEAN /\ paused \in BOOLEAN /\ after \in BOOLEAN
    /\ who \in [HttpReaders -> {"awake", "parked"} \cup H!Outcomes]

\* A read of the body is under way only while there may be more.
OneRead ==
    /\ pull = 1 => fetch = "settled" /\ ~done /\ ~paused
    /\ done \/ paused => fetch = "settled"

\* The end of the body excludes an error.
OneOutcome == done => error = "none"

\* Bytes delivered are queued or read, until something went wrong.
Conserved == done \/ ~H!Dead => given = handed + queued

\* An outcome is shown when nothing is left to read.
ShownLast == \A r \in HttpReaders :
    /\ who[r] = "eof" => done /\ queued = 0
    /\ who[r] \in {"EIO", "ETIMEDOUT"} => error # "none" /\ queued = 0

HttpInv == HttpTypeOK /\ OneRead /\ OneOutcome /\ Conserved /\ ShownLast /\ ~after

USE DEF H!Outcomes

LEMMA HttpInitInv == H!Init => HttpInv
<1> SUFFICES ASSUME H!Init PROVE HttpInv
  OBVIOUS
<1>1. HttpTypeOK
  BY DEF H!Init, HttpTypeOK
<1>2. OneRead /\ OneOutcome /\ Conserved /\ ~after
  BY DEF H!Init, OneRead, OneOutcome, Conserved
<1>3. \A r \in HttpReaders : who[r] = "awake"
  BY DEF H!Init
<1>4. ShownLast
  BY <1>3 DEF ShownLast
<1> QED
  BY <1>1, <1>2, <1>4 DEF HttpInv

\* A recheck only wakes.
LEMMA HttpRecheckKeeps ==
  ASSUME HttpTypeOK, H!Recheck
  PROVE  /\ who' \in [HttpReaders -> {"awake", "parked"} \cup H!Outcomes]
         /\ \A r \in HttpReaders : who'[r] = who[r] \/ who'[r] = "awake"
  BY DEF HttpTypeOK, H!Recheck

LEMMA HttpOpenInv == ASSUME HttpInv, H!Open PROVE HttpInv'
  BY DEF HttpInv, HttpTypeOK, OneRead, OneOutcome, Conserved, ShownLast, H!Dead, H!Open

LEMMA HttpResolvedInv ==
  ASSUME HttpInv, NEW body \in BOOLEAN, H!Resolved(body)
  PROVE  HttpInv'
<1>1. pull = 0 /\ ~done /\ ~paused /\ fetch' = "settled"
  BY DEF HttpInv, HttpTypeOK, OneRead, H!Resolved
<1>2. UNCHANGED <<queued, given, handed, error, gone, after>>
  BY DEF H!Resolved, H!xfer
<1>3. /\ status' \in {"none", "fresh", "told"} /\ pull' \in {0, 1}
      /\ done' \in BOOLEAN /\ paused' \in BOOLEAN
      /\ pull' = 1 => ~done' /\ ~paused'
      /\ done' => error = "none"
  <2>1. CASE H!Dead
    BY <1>1, <2>1, Zenon DEF H!Resolved, H!xfer, HttpInv, HttpTypeOK
  <2>2. CASE ~H!Dead /\ body
    <3>1. status' = "fresh" /\ H!Pump(queued, idleOn) /\ done' = done
      BY <2>2, Zenon DEF H!Resolved
    <3>2. pull' = pull + 1 => pull' = 1
      BY <1>1
    <3>3. \/ paused' = TRUE /\ pull' = pull
          \/ paused' = FALSE /\ pull' = pull + 1
      BY <3>1, Zenon DEF H!Pump
    <3>4. done = FALSE /\ pull = 0 /\ 0 # 1
      BY <1>1 DEF HttpInv, HttpTypeOK
    <3> QED
      BY <3>1, <3>2, <3>3, <3>4, Zenon
  <2>3. CASE ~H!Dead /\ ~body
    <3>1. status' = "fresh" /\ done' = TRUE /\ pull' = pull /\ paused' = paused
      BY <2>3, Zenon DEF H!Resolved
    <3>2. error = "none" /\ paused = FALSE /\ pull = 0 /\ 0 # 1
      BY <1>1, <2>3 DEF H!Dead, HttpInv, HttpTypeOK
    <3> QED
      BY <3>1, <3>2, Zenon
  <2> QED
    BY <2>1, <2>2, <2>3
<1>4. /\ who' \in [HttpReaders -> {"awake", "parked"} \cup H!Outcomes]
      /\ \A r \in HttpReaders : who'[r] = who[r] \/ who'[r] = "awake"
  BY HttpRecheckKeeps DEF H!Resolved, HttpInv, HttpTypeOK
<1>5. done' => ~H!Dead
  BY <1>1 DEF H!Resolved, H!xfer
<1>6. H!Dead' = H!Dead
  BY <1>2 DEF H!Dead
<1>7. HttpTypeOK' /\ OneRead' /\ OneOutcome'
  BY <1>1, <1>2, <1>3, <1>4 DEF HttpInv, HttpTypeOK, OneRead, OneOutcome
<1>8. Conserved'
  BY <1>2, <1>5, <1>6 DEF HttpInv, Conserved
<1>9. ShownLast'
  BY <1>1, <1>2, <1>4 DEF HttpInv, ShownLast
<1> QED
  BY <1>2, <1>7, <1>8, <1>9 DEF HttpInv

LEMMA HttpRejectedInv == ASSUME HttpInv, H!Rejected PROVE HttpInv'
<1>1. pull = 0 /\ ~done /\ fetch' = "settled"
  BY DEF HttpInv, HttpTypeOK, OneRead, H!Rejected
<1>2. UNCHANGED <<pull, status, queued, done, gone, paused, given, handed, after>>
  BY DEF H!Rejected, H!xfer
<1>3. error' \in {"none", "EIO", "ETIMEDOUT"} /\ (error # "none" => error' # "none")
      /\ (H!Dead => H!Dead')
  BY <1>2 DEF H!Rejected, H!xfer, H!Dead, HttpInv, HttpTypeOK
<1>4. /\ who' \in [HttpReaders -> {"awake", "parked"} \cup H!Outcomes]
      /\ \A r \in HttpReaders : who'[r] = who[r] \/ who'[r] = "awake"
  BY HttpRecheckKeeps DEF H!Rejected, HttpInv, HttpTypeOK
<1> QED
  BY <1>1, <1>2, <1>3, <1>4 DEF HttpInv, HttpTypeOK, OneRead, OneOutcome, Conserved, ShownLast

\* A chunk that meets a dead transfer is dropped; the books are kept for a
\* live one only.
LEMMA HttpChunkArrivesInv ==
  ASSUME HttpInv, NEW n \in Nat, H!ChunkArrives(n)
  PROVE  HttpInv'
<1>1. pull = 1 /\ fetch = "settled" /\ ~done /\ ~paused /\ given' = given + n
  BY DEF HttpInv, HttpTypeOK, OneRead, H!ChunkArrives
<1>2. UNCHANGED <<fetch, status, done, error, gone, handed, after>>
  BY DEF H!ChunkArrives, H!xfer
<1>3. H!Dead' = H!Dead
  BY <1>2 DEF H!Dead
<1>4. pull' \in {0, 1} /\ paused' \in BOOLEAN /\ (pull' = 1 => ~paused')
  <2>1. \/ pull' = pull - 1 /\ paused' = paused
        \/ pull' = pull - 1 /\ paused' = TRUE
        \/ pull' = pull /\ paused' = FALSE
    BY Zenon DEF H!ChunkArrives, H!xfer
  <2>2. pull' = pull - 1 => pull' = 0
    BY <1>1
  <2>3. paused = FALSE /\ 0 # 1
    BY <1>1 DEF HttpInv, HttpTypeOK
  <2> QED
    BY <1>1, <2>1, <2>2, <2>3, Zenon
<1>5. queued' = IF H!Dead THEN queued ELSE queued + n
  BY DEF H!ChunkArrives, H!xfer
<1>6. /\ who' \in [HttpReaders -> {"awake", "parked"} \cup H!Outcomes]
      /\ \A r \in HttpReaders : who'[r] = who[r] \/ who'[r] = "awake"
  BY HttpRecheckKeeps DEF H!ChunkArrives, HttpInv, HttpTypeOK
<1>7. HttpTypeOK'
  BY <1>1, <1>2, <1>4, <1>5, <1>6 DEF HttpInv, HttpTypeOK
<1>8. OneRead' /\ OneOutcome'
  BY <1>1, <1>2, <1>4 DEF HttpInv, OneRead, OneOutcome
<1>9. Conserved'
  BY <1>1, <1>2, <1>3, <1>5 DEF HttpInv, HttpTypeOK, Conserved
<1>10. ShownLast'
  BY <1>1, <1>2, <1>5, <1>6 DEF HttpInv, ShownLast, H!Dead
<1> QED
  BY <1>2, <1>7, <1>8, <1>9, <1>10 DEF HttpInv

LEMMA HttpBodyEndsInv == ASSUME HttpInv, H!BodyEnds PROVE HttpInv'
<1>1. pull = 1 /\ pull' = 0 /\ fetch = "settled" /\ ~done
  BY DEF HttpInv, HttpTypeOK, OneRead, H!BodyEnds
<1>2. UNCHANGED <<fetch, status, queued, error, gone, paused, given, handed, after>>
  BY DEF H!BodyEnds, H!xfer
<1>3. done' = ~H!Dead /\ H!Dead' = H!Dead
  BY <1>1, <1>2 DEF H!BodyEnds, H!xfer, H!Dead, HttpInv, HttpTypeOK
<1>4. /\ who' \in [HttpReaders -> {"awake", "parked"} \cup H!Outcomes]
      /\ \A r \in HttpReaders : who'[r] = who[r] \/ who'[r] = "awake"
  BY HttpRecheckKeeps DEF H!BodyEnds, HttpInv, HttpTypeOK
<1>5. HttpTypeOK' /\ OneRead' /\ OneOutcome'
  BY <1>1, <1>2, <1>3, <1>4 DEF HttpInv, HttpTypeOK, OneRead, OneOutcome, H!Dead
<1>6. Conserved' /\ ShownLast'
  BY <1>1, <1>2, <1>3, <1>4 DEF HttpInv, Conserved, ShownLast
<1> QED
  BY <1>2, <1>5, <1>6 DEF HttpInv

LEMMA HttpBodyBreaksInv == ASSUME HttpInv, H!BodyBreaks PROVE HttpInv'
<1>1. pull = 1 /\ pull' = 0 /\ fetch = "settled" /\ ~done
  BY DEF HttpInv, HttpTypeOK, OneRead, H!BodyBreaks
<1>2. UNCHANGED <<fetch, status, queued, done, gone, paused, given, handed, after>>
  BY DEF H!BodyBreaks, H!xfer
<1>3. error' \in {"none", "EIO", "ETIMEDOUT"} /\ (error # "none" => error' # "none") /\ H!Dead'
  BY <1>2 DEF H!BodyBreaks, H!xfer, H!Dead, HttpInv, HttpTypeOK
<1>4. /\ who' \in [HttpReaders -> {"awake", "parked"} \cup H!Outcomes]
      /\ \A r \in HttpReaders : who'[r] = who[r] \/ who'[r] = "awake"
  BY HttpRecheckKeeps DEF H!BodyBreaks, HttpInv, HttpTypeOK
<1> QED
  BY <1>1, <1>2, <1>3, <1>4 DEF HttpInv, HttpTypeOK, OneRead, OneOutcome, Conserved, ShownLast

\* A deadline cannot replace an outcome.
LEMMA HttpDeadlinesInv == ASSUME HttpInv, H!Deadlines PROVE HttpInv'
<1>1. UNCHANGED <<fetch, pull, status, queued, done, gone, paused, given, handed, after>>
  BY DEF H!Deadlines, H!HeadersDeadline, H!IdleDeadline
<1>2. H!Expire
  BY DEF H!Deadlines, H!HeadersDeadline, H!IdleDeadline
<1>3. /\ error' \in {"none", "EIO", "ETIMEDOUT"} /\ (error # "none" => error' # "none")
      /\ done => error' = error
      /\ H!Dead => H!Dead'
  BY <1>1, <1>2 DEF H!Expire, H!Dead, HttpInv, HttpTypeOK
<1>4. /\ who' \in [HttpReaders -> {"awake", "parked"} \cup H!Outcomes]
      /\ \A r \in HttpReaders : who'[r] = who[r] \/ who'[r] = "awake"
  BY <1>2, HttpRecheckKeeps DEF H!Expire, HttpInv, HttpTypeOK
<1> QED
  BY <1>1, <1>3, <1>4 DEF HttpInv, HttpTypeOK, OneRead, OneOutcome, Conserved, ShownLast

LEMMA HttpCloseInv == ASSUME HttpInv, H!Close PROVE HttpInv'
<1>1. UNCHANGED <<fetch, pull, status, queued, done, error, paused, given, handed, after>> /\ gone'
  BY DEF H!Close
<1>2. /\ who' \in [HttpReaders -> {"awake", "parked"} \cup H!Outcomes]
      /\ \A r \in HttpReaders : who'[r] = who[r] \/ who'[r] = "closed"
  BY DEF H!Close, HttpInv, HttpTypeOK
<1> QED
  BY <1>1, <1>2 DEF HttpInv, HttpTypeOK, OneRead, OneOutcome, Conserved, ShownLast, H!Dead, H!Close

\* Data is read only while nobody has seen an outcome.
LEMMA HttpReaderInv ==
  ASSUME HttpInv, NEW r \in HttpReaders, H!Reader(r)
  PROVE  HttpInv'
<1>1. CASE H!Status(r)
  BY <1>1 DEF H!Status, HttpInv, HttpTypeOK, OneRead, OneOutcome, Conserved, ShownLast, H!Dead
<1>2. CASE H!ReadData(r)
  <2>1. queued > 0 /\ queued' = queued - 1 /\ handed' = handed + 1
        /\ UNCHANGED <<fetch, status, done, error, gone, given, who>>
    BY <1>2 DEF H!ReadData
  <2>2. ~H!Seen
    BY <2>1 DEF H!Seen, HttpInv, HttpTypeOK, ShownLast
  <2>3. after' = FALSE
    BY <1>2, <2>2 DEF H!ReadData, HttpInv
  <2>4. pull' \in {0, 1} /\ paused' \in BOOLEAN
        /\ (pull' = 1 => fetch = "settled" /\ ~done /\ ~paused')
        /\ (paused' => fetch = "settled")
    <3>1. CASE paused /\ queued' < HttpCap /\ ~H!Dead /\ ~done
      <4>1. pull = 0 /\ fetch = "settled"
        BY <3>1 DEF HttpInv, HttpTypeOK, OneRead
      <4>2. ~(queued' >= HttpCap)
        BY <2>1, <3>1, ServicesAssumption DEF HttpInv, HttpTypeOK
      <4>3. H!Pump(queued', idle)
        BY <1>2, <3>1 DEF H!ReadData
      <4>4. paused' = FALSE /\ pull' = pull + 1
        BY <4>2, <4>3, Zenon DEF H!Pump
      <4>5. pull' = 1
        BY <4>1, <4>4
      <4> QED
        BY <3>1, <4>1, <4>4, <4>5, Zenon
    <3>2. CASE ~(paused /\ queued' < HttpCap /\ ~H!Dead /\ ~done)
      BY <1>2, <3>2 DEF H!ReadData, HttpInv, HttpTypeOK, OneRead
    <3> QED
      BY <3>1, <3>2
  <2>5. HttpTypeOK' /\ OneRead' /\ OneOutcome'
    <3>1. queued' \in Nat /\ handed' \in Nat
      BY <2>1 DEF HttpInv, HttpTypeOK
    <3>2. HttpTypeOK'
      BY <2>1, <2>3, <2>4, <3>1, Zenon DEF HttpInv, HttpTypeOK
    <3>3. done => fetch = "settled"
      BY DEF HttpInv, OneRead
    <3> QED
      BY <2>1, <2>4, <3>2, <3>3, Zenon DEF HttpInv, OneRead, OneOutcome
  <2>6. Conserved' /\ ShownLast'
    BY <2>1 DEF HttpInv, HttpTypeOK, Conserved, ShownLast, H!Dead
  <2> QED
    BY <2>3, <2>5, <2>6 DEF HttpInv
<1>3. CASE H!ReadNothing(r)
  <2>1. UNCHANGED <<fetch, pull, status, queued, done, error, gone, paused, given, handed, after>>
        /\ queued = 0
    BY <1>3 DEF H!ReadNothing, H!xfer
  <2>2. /\ who'[r] \in {"parked", "eof", "EIO", "ETIMEDOUT"}
        /\ who'[r] = "eof" => done
        /\ who'[r] \in {"EIO", "ETIMEDOUT"} => error # "none"
        /\ \A q \in HttpReaders : q # r => who'[q] = who[q]
        /\ who' \in [HttpReaders -> {"awake", "parked"} \cup H!Outcomes]
    BY <1>3 DEF H!ReadNothing, HttpInv, HttpTypeOK
  <2> QED
    BY <2>1, <2>2 DEF HttpInv, HttpTypeOK, OneRead, OneOutcome, Conserved, ShownLast, H!Dead
<1> QED
  BY <1>1, <1>2, <1>3 DEF H!Reader

\* Every step of a transfer keeps its invariant.
LEMMA HttpNextInv == ASSUME HttpInv, H!Next PROVE HttpInv'
<1>1. CASE H!Open
  BY <1>1, HttpOpenInv
<1>2. CASE H!Network
  <2>1. CASE \E body \in BOOLEAN : H!Resolved(body)
    BY <2>1, HttpResolvedInv
  <2>2. CASE \E n \in HttpSizes : H!ChunkArrives(n)
    BY <2>2, HttpChunkArrivesInv, ServicesAssumption
  <2> QED
    BY <1>2, <2>1, <2>2, HttpRejectedInv, HttpBodyEndsInv, HttpBodyBreaksInv DEF H!Network
<1>3. CASE H!Deadlines
  BY <1>3, HttpDeadlinesInv
<1>4. CASE H!Close
  BY <1>4, HttpCloseInv
<1>5. CASE \E r \in HttpReaders : H!Reader(r)
  BY <1>5, HttpReaderInv
<1> QED
  BY <1>1, <1>2, <1>3, <1>4, <1>5 DEF H!Next

LEMMA HttpKeptInv == ASSUME HttpInv, UNCHANGED httpVars PROVE HttpInv'
  BY DEF httpVars, HttpInv, HttpTypeOK, OneRead, OneOutcome, Conserved, ShownLast,
     H!Dead

----------------------------------------------------------------------------
(* The clipboard                                                             *)

\* Versions are numbers, and a trip set out when the host held floor.
ClipTypeOK ==
    /\ host \in Nat \ {0} /\ slot \in Nat /\ floor \in Nat /\ floor <= host
    /\ asks \in Nat /\ reads \in Seq(Nat) /\ answers \in Seq(Nat)
    /\ pending \in Seq(Pasters)
    /\ late \in BOOLEAN /\ denied \in BOOLEAN

\* No trip timed out and no read failed.
Calm == ~late /\ ~denied

\* Where a trip is.
NoTrip == pending = <<>> /\ asks = 0 /\ reads = <<>> /\ answers = <<>>
Asked == pending # <<>> /\ asks = 1 /\ reads = <<>> /\ answers = <<>>
AtHost == /\ pending # <<>> /\ asks = 0 /\ answers = <<>>
          /\ \E v \in Nat : reads = <<v>> /\ (v = 0 \/ v >= floor)
Answered == /\ pending # <<>> /\ asks = 0 /\ reads = <<>>
            /\ \E v \in Nat \ {P!Done} : answers = <<v, P!Done>> /\ v >= floor
InSlot == pending # <<>> /\ asks = 0 /\ reads = <<>> /\ answers = <<P!Done>> /\ slot >= floor

OneTrip == Calm => NoTrip \/ Asked \/ AtHost \/ Answered \/ InSlot

ClipInv == ClipTypeOK /\ OneTrip /\ P!FreshEnough

LEMMA ClipInitInv == P!Init => ClipInv
<1> SUFFICES ASSUME P!Init PROVE ClipInv
  OBVIOUS
<1>1. ClipTypeOK
  <2>1. host = 1 /\ slot = 1 /\ floor = 1 /\ asks = 0
    BY DEF P!Init
  <2>2. reads = <<>> /\ answers = <<>> /\ pending = <<>>
    BY DEF P!Init
  <2>3. reads \in Seq(Nat) /\ answers \in Seq(Nat) /\ pending \in Seq(Pasters)
    BY <2>2
  <2>4. late \in BOOLEAN /\ denied \in BOOLEAN
    BY Zenon DEF P!Init
  <2> QED
    BY <2>1, <2>3, <2>4 DEF ClipTypeOK
<1>2. OneTrip
  BY DEF P!Init, OneTrip, NoTrip
<1>3. pasted.got = 0 /\ pasted.floor = 0
  BY DEF P!Init, P!NoPaste
<1>4. P!FreshEnough
  BY <1>3 DEF P!FreshEnough
<1> QED
  BY <1>1, <1>2, <1>4 DEF ClipInv

LEMMA ClipOneRemoved == \A v \in Nat : P!RemoveAt(<<v>>, 1) = <<>>
  BY DEF P!RemoveAt

LEMMA ClipRemoveType ==
  ASSUME NEW q \in Seq(Nat), NEW k \in DOMAIN q
  PROVE  P!RemoveAt(q, k) \in Seq(Nat)
<1>1. k \in 1..Len(q)
  OBVIOUS
<1>2. SubSeq(q, 1, k - 1) \in Seq(Nat) /\ SubSeq(q, k + 1, Len(q)) \in Seq(Nat)
  BY <1>1
<1> QED
  BY <1>2 DEF P!RemoveAt

\* A paste starts a trip only when none is under way.
LEMMA ClipGetInv == ASSUME ClipInv, NEW p \in Pasters, P!Get(p) PROVE ClipInv'
<1>1. UNCHANGED <<host, slot, reads, answers, late, denied>>
  BY DEF P!Get, P!history
<1>2. CASE fresh /\ p \in served
  <2>1. pasted'.again = TRUE /\ UNCHANGED <<pending, asks, floor>>
    BY <1>2 DEF P!Get, P!Serve
  <2> QED
    BY <1>1, <2>1 DEF ClipInv, ClipTypeOK, OneTrip, P!FreshEnough, Calm, NoTrip, Asked, AtHost,
       Answered,
       InSlot
<1>3. CASE ~(fresh /\ p \in served) /\ pending = <<>>
  <2>0. pending' = Append(pending, p) /\ asks' = asks + 1 /\ floor' = host /\ pasted' = pasted
    BY <1>3, Zenon DEF P!Get, P!Start
  <2>1. pending' = <<p>> /\ asks' = asks + 1 /\ floor' = host /\ pasted' = pasted
    BY <1>3, <2>0
  <2>2. ClipTypeOK'
    BY <1>1, <2>1 DEF ClipInv, ClipTypeOK
  <2>3. Calm => NoTrip
    BY <1>3 DEF ClipInv, OneTrip, Asked, AtHost, Answered, InSlot
  <2>4. Calm => Asked'
    BY <1>1, <2>1, <2>3 DEF NoTrip, Asked
  <2>5. P!FreshEnough'
    BY <1>1, <2>1 DEF ClipInv, P!FreshEnough
  <2> QED
    BY <1>1, <2>2, <2>4, <2>5 DEF ClipInv, OneTrip, Calm
<1>4. CASE ~(fresh /\ p \in served) /\ pending # <<>>
  <2>1. pending' = Append(pending, p) /\ UNCHANGED <<asks, floor, pasted>>
    BY <1>4 DEF P!Get
  <2>2. pending' \in Seq(Pasters) /\ pending' # <<>>
    BY <2>1 DEF ClipInv, ClipTypeOK
  <2>3. ClipTypeOK'
    BY <1>1, <2>1, <2>2 DEF ClipInv, ClipTypeOK
  <2>4. OneTrip'
    BY <1>1, <1>4, <2>1, <2>2 DEF ClipInv, OneTrip, Calm, NoTrip, Asked, AtHost, Answered, InSlot
  <2>5. P!FreshEnough'
    BY <1>1, <2>1 DEF ClipInv, P!FreshEnough
  <2> QED
    BY <2>3, <2>4, <2>5 DEF ClipInv
<1> QED
  BY <1>2, <1>3, <1>4

\* Steps that move no part of a trip but the host's content.
LEMMA ClipAsideInv ==
  ASSUME ClipInv, UNCHANGED <<slot, floor, asks, reads, answers, pending, late, denied, pasted>>,
         host' \in Nat \ {0}, host <= host'
  PROVE  ClipInv'
  BY DEF ClipInv, ClipTypeOK, OneTrip, P!FreshEnough, Calm, NoTrip, Asked, AtHost, Answered, InSlot

\* After a timeout nothing is promised.
LEMMA ClipTimeoutInv == ASSUME ClipInv, P!Timeout PROVE ClipInv'
<1>1. late' = TRUE /\ pending' = <<>>
      /\ UNCHANGED <<host, slot, floor, asks, reads, answers, denied>>
  BY DEF P!Timeout, P!Settled, P!page
<1> QED
  BY <1>1 DEF ClipInv, ClipTypeOK, OneTrip, Calm, P!FreshEnough

LEMMA ClipReceiveContentInv == ASSUME ClipInv, P!ReceiveContent PROVE ClipInv'
<1>1. /\ answers # <<>> /\ Head(answers) # P!Done
      /\ slot' = Head(answers) /\ answers' = Tail(answers)
      /\ UNCHANGED <<host, floor, asks, reads, pending, late, denied, pasted>>
  BY DEF P!ReceiveContent, P!trip, P!history
<1>2. ClipTypeOK'
  BY <1>1 DEF ClipInv, ClipTypeOK
<1>3. ASSUME Calm PROVE InSlot'
  <2>1. Answered
    BY <1>1, <1>3 DEF ClipInv, OneTrip, NoTrip, Asked, AtHost, InSlot
  <2>2. PICK v \in Nat \ {P!Done} : answers = <<v, P!Done>> /\ v >= floor
    BY <2>1 DEF Answered
  <2>3. slot' = v /\ answers' = <<P!Done>>
    BY <1>1, <2>2
  <2> QED
    BY <1>1, <2>1, <2>2, <2>3 DEF Answered, InSlot
<1>4. P!FreshEnough'
  BY <1>1 DEF ClipInv, P!FreshEnough
<1> QED
  BY <1>1, <1>2, <1>3, <1>4 DEF ClipInv, OneTrip, Calm

\* The end of a trip finds its content in the slot.
LEMMA ClipReceiveDoneInv == ASSUME ClipInv, P!ReceiveDone PROVE ClipInv'
<1>1. /\ answers # <<>> /\ Head(answers) = P!Done
      /\ answers' = Tail(answers) /\ pending' = <<>>
      /\ UNCHANGED <<host, slot, floor, asks, reads, late, denied>>
  BY DEF P!ReceiveDone, P!Settled, P!history
<1>2. \/ pasted' = pasted
      \/ pasted'.got = slot /\ pasted'.floor = floor
  BY DEF P!ReceiveDone, P!Settled, P!Serve
<1>3. ClipTypeOK'
  BY <1>1 DEF ClipInv, ClipTypeOK
<1>4. ASSUME Calm PROVE InSlot
  <2>1. NoTrip \/ Asked \/ AtHost \/ Answered \/ InSlot
    BY <1>4 DEF ClipInv, OneTrip
  <2>2. ~NoTrip /\ ~Asked /\ ~AtHost
    BY <1>1 DEF NoTrip, Asked, AtHost
  <2>3. ~Answered
    BY <1>1 DEF Answered
  <2> QED
    BY <2>1, <2>2, <2>3
<1>5. ASSUME Calm PROVE NoTrip'
  <2>1. answers = <<P!Done>> /\ asks = 0 /\ reads = <<>>
    BY <1>4, <1>5 DEF InSlot
  <2>2. answers' = <<>>
    BY <1>1, <2>1
  <2> QED
    BY <1>1, <2>1, <2>2 DEF NoTrip
<1>6. P!FreshEnough'
  <2>1. CASE Calm
    BY <1>1, <1>2, <1>4, <2>1 DEF ClipInv, P!FreshEnough, InSlot
  <2>2. CASE ~Calm
    BY <1>1, <2>2 DEF Calm, P!FreshEnough
  <2> QED
    BY <2>1, <2>2
<1> QED
  BY <1>1, <1>3, <1>5, <1>6 DEF ClipInv, OneTrip, Calm

LEMMA ClipBeginReadInv == ASSUME ClipInv, P!BeginRead PROVE ClipInv'
<1>1. /\ asks > 0 /\ asks' = asks - 1 /\ reads' = Append(reads, 0)
      /\ UNCHANGED <<host, slot, floor, answers, pending, late, denied, pasted>>
  BY DEF P!BeginRead, P!trip, P!history
<1>2. ClipTypeOK'
  BY <1>1 DEF ClipInv, ClipTypeOK
<1>3. ASSUME Calm PROVE AtHost'
  <2>1. Asked
    BY <1>1, <1>3 DEF ClipInv, OneTrip, NoTrip, AtHost, Answered, InSlot
  <2>2. reads' = <<0>> /\ asks' = 0
    BY <1>1, <2>1 DEF Asked
  <2> QED
    BY <1>1, <2>1, <2>2 DEF Asked, AtHost
<1>4. P!FreshEnough'
  BY <1>1 DEF ClipInv, P!FreshEnough
<1> QED
  BY <1>1, <1>2, <1>3, <1>4 DEF ClipInv, OneTrip, Calm

\* A calm trip whose read is under way has one read.
LEMMA ClipReadUnderWay ==
  ASSUME ClipInv, Calm, NEW k \in DOMAIN reads
  PROVE  AtHost /\ k = 1
<1>1. reads # <<>>
  BY DEF ClipInv, ClipTypeOK
<1>2. AtHost
  BY <1>1 DEF ClipInv, OneTrip, NoTrip, Asked, Answered, InSlot
<1> QED
  BY <1>2 DEF AtHost

LEMMA ClipHostReadInv == ASSUME ClipInv, NEW k \in DOMAIN reads, P!HostRead(k) PROVE ClipInv'
<1>1. /\ reads' = [reads EXCEPT ![k] = host]
      /\ UNCHANGED <<host, slot, floor, asks, answers, pending, late, denied, pasted>>
  BY DEF P!HostRead, P!trip, P!history
<1>2. reads' \in Seq(Nat)
  BY <1>1 DEF ClipInv, ClipTypeOK
<1>3. ClipTypeOK'
  BY <1>1, <1>2 DEF ClipInv, ClipTypeOK
<1>4. ASSUME Calm PROVE AtHost'
  <2>1. AtHost /\ k = 1
    BY <1>4, ClipReadUnderWay
  <2>2. reads' = <<host>>
    BY <1>1, <2>1 DEF AtHost
  <2>3. host \in Nat /\ host >= floor
    BY DEF ClipInv, ClipTypeOK
  <2> QED
    BY <1>1, <2>1, <2>2, <2>3 DEF AtHost
<1>5. P!FreshEnough'
  BY <1>1 DEF ClipInv, P!FreshEnough
<1> QED
  BY <1>1, <1>3, <1>4, <1>5 DEF ClipInv, OneTrip, Calm

LEMMA ClipAnswerInv == ASSUME ClipInv, NEW k \in DOMAIN reads, P!Answer(k) PROVE ClipInv'
<1>1. /\ reads[k] # 0 /\ reads' = P!RemoveAt(reads, k)
      /\ answers' = answers \o <<reads[k], P!Done>>
      /\ UNCHANGED <<host, slot, floor, asks, pending, late, denied, pasted>>
  BY DEF P!Answer, P!trip, P!history
<1>2. reads' \in Seq(Nat)
  BY <1>1, ClipRemoveType DEF ClipInv, ClipTypeOK
<1>3. reads[k] \in Nat /\ answers' \in Seq(Nat)
  BY <1>1 DEF ClipInv, ClipTypeOK, P!Done
<1>4. ClipTypeOK'
  BY <1>1, <1>2, <1>3 DEF ClipInv, ClipTypeOK
<1>5. ASSUME Calm PROVE Answered'
  <2>1. AtHost /\ k = 1
    BY <1>5, ClipReadUnderWay
  <2>2. PICK v \in Nat : reads = <<v>> /\ (v = 0 \/ v >= floor)
    BY <2>1 DEF AtHost
  <2>3. reads[k] = v /\ v # 0 /\ v >= floor
    BY <1>1, <2>1, <2>2
  <2>4. reads' = <<>> /\ answers' = <<v, P!Done>>
    BY <1>1, <2>1, <2>2, <2>3, ClipOneRemoved DEF AtHost
  <2> QED
    BY <1>1, <2>1, <2>3, <2>4 DEF AtHost, Answered, P!Done
<1>6. P!FreshEnough'
  BY <1>1 DEF ClipInv, P!FreshEnough
<1> QED
  BY <1>1, <1>4, <1>5, <1>6 DEF ClipInv, OneTrip, Calm

LEMMA ClipDeniedInv == ASSUME ClipInv, NEW k \in DOMAIN reads, P!Denied(k) PROVE ClipInv'
<1>1. /\ denied' = TRUE /\ reads' = P!RemoveAt(reads, k) /\ answers' = Append(answers, P!Done)
      /\ UNCHANGED <<host, slot, floor, asks, pending, late, pasted>>
  BY DEF P!Denied, P!trip
<1>2. reads' \in Seq(Nat) /\ answers' \in Seq(Nat)
  BY <1>1, ClipRemoveType DEF ClipInv, ClipTypeOK, P!Done
<1> QED
  BY <1>1, <1>2 DEF ClipInv, ClipTypeOK, OneTrip, Calm, P!FreshEnough

\* Every step of the clipboard keeps its invariant.
LEMMA ClipNextInv == ASSUME ClipInv, P!Next PROVE ClipInv'
<1>1. CASE \E p \in Pasters : P!Get(p)
  BY <1>1, ClipGetInv
<1>2. CASE \E p \in Pasters : P!Die(p)
  BY <1>2, ClipAsideInv DEF P!Die, P!page, P!trip, P!history, ClipInv, ClipTypeOK
<1>3. CASE P!Stale
  BY <1>3, ClipAsideInv DEF P!Stale, P!page, P!history, ClipInv, ClipTypeOK
<1>4. CASE P!HostCopies
  BY <1>4, ClipAsideInv DEF P!HostCopies, P!trip, P!history, ClipInv, ClipTypeOK
<1>5. CASE \E k \in DOMAIN reads : P!HostRead(k) \/ P!Answer(k) \/ P!Denied(k)
  BY <1>5, ClipHostReadInv, ClipAnswerInv, ClipDeniedInv
<1> QED
  BY <1>1, <1>2, <1>3, <1>4, <1>5, ClipTimeoutInv, ClipReceiveContentInv, ClipReceiveDoneInv,
     ClipBeginReadInv DEF P!Next

LEMMA ClipKeptInv == ASSUME ClipInv, UNCHANGED clipVars PROVE ClipInv'
  BY ClipAsideInv DEF clipVars, ClipInv, ClipTypeOK

----------------------------------------------------------------------------
(* Executions, with the page's constants and with those of longer ladders    *)

EP == INSTANCE ExecutionProofs WITH
        MaxBytes <- LongBytes, MaxForks <- LongForks, KillTicks <- LongKill,
        LeakTicks <- LongLeak, ForgetTicks <- LongForget, Timeouts <- LongTimeouts

\* Both keep one invariant: it does not mention what they differ in.
LEMMA SameInvariant == (IInv <=> EP!IInv) /\ (IInv' <=> EP!IInv')
  BY DEF IInv, EP!IInv, TypeOK, EP!TypeOK, InPipes, EP!InPipes, TimersOfLive, EP!TimersOfLive,
     ExitWhenDone, EP!ExitWhenDone, AbortRemembered, EP!AbortRemembered, ExitIsFinal,
     EP!ExitIsFinal, None, EP!None, Off, EP!Off, Idle, EP!Idle, Kinds, EP!Kinds, Members, EP!Members

\* The executions the proofs are about are those of Services.
LEMMA LongNext == E!Next => EP!Next
<1> USE DEF E!None, EP!None, E!Off, EP!Off, E!groupVars, EP!groupVars, E!Kinds, EP!Kinds,
            E!Idle, EP!Idle, E!Zero, EP!Zero, E!Members, EP!Members, E!Reaped, EP!Reaped,
            E!Term, EP!Term, E!Kill, EP!Kill, E!Least, EP!Least
<1>1. \A i : (E!Start(i) => EP!Start(i)) /\ (E!StartFails(i) => EP!StartFails(i))
  BY DEF E!Start, EP!Start, E!StartFails, EP!StartFails
<1>2. \A i, c, ts : E!Signal(i, c, ts) = EP!Signal(i, c, ts)
  BY DEF E!Signal, EP!Signal
<1>3. \A i : E!Abort(i) => EP!Abort(i)
  BY <1>2 DEF E!Abort, EP!Abort
<1>4. \A i, t : E!Opened(i, t) => EP!Opened(i, t)
  BY DEF E!Opened, EP!Opened
<1>5. \A i : (E!Timeout(i) => EP!Timeout(i)) /\ (E!KillTimer(i) => EP!KillTimer(i))
  BY <1>2 DEF E!Timeout, EP!Timeout, E!KillTimer, EP!KillTimer
<1>6. \A i, st, o, l : E!Finish(i, st, o, l) = EP!Finish(i, st, o, l)
  BY DEF E!Finish, EP!Finish, E!ExitEvent, EP!ExitEvent, E!SentNow, EP!SentNow, E!Totals,
         EP!Totals, E!Taken, EP!Taken
<1>7. \A i : (E!Drain(i) => EP!Drain(i)) /\ (E!LeakTimer(i) => EP!LeakTimer(i))
  BY <1>6 DEF E!Drain, EP!Drain, E!LeakTimer, EP!LeakTimer, E!Over, EP!Over, E!Rest, EP!Rest,
         E!Taken, EP!Taken, E!SentNow, EP!SentNow, E!Totals, EP!Totals
<1>8. \A i : E!Forget(i) => EP!Forget(i)
  BY DEF E!Forget, EP!Forget
<1>9. E!Tick => EP!Tick
  BY DEF E!Tick, EP!Tick, E!Due, EP!Due, E!Down, EP!Down
<1>10. \A i : E!Group(i) => EP!Group(i)
  BY DEF E!Group, EP!Group, E!Write, EP!Write, E!Exit, EP!Exit, E!Fork, EP!Fork, E!Forked,
         EP!Forked
<1>11. \A i : E!Worker(i) => EP!Worker(i)
  BY <1>1, <1>4, <1>5, <1>7, <1>8 DEF E!Worker, EP!Worker
<1> QED
  BY <1>1, <1>3, <1>9, <1>10, <1>11 DEF E!Next, EP!Next

LEMMA LongNextInv == ASSUME IInv, E!Next PROVE IInv'
<1>1. EP!ExecutionAssumption
  BY ExecutionAssumption, ServicesAssumption DEF EP!ExecutionAssumption
<1>2. EP!IInv /\ EP!Next
  BY SameInvariant, LongNext
<1>3. EP!IInv'
  BY <1>1, <1>2, EP!NextInv
<1> QED
  BY <1>3, SameInvariant

\* Executions beside a transfer or a paste do not move.
LEMMA ExecKeptInv == ASSUME IInv, UNCHANGED vars PROVE IInv'
  BY KeptInv

----------------------------------------------------------------------------
(* The page's client                                                         *)

Requests == [type : {"start", "abort"}, id : Ids] \cup [type : {"boot-retry"}]
Events ==
    [type : {"output"}, id : Ids, fd : Streams, bytes : Nat \ {0}]
        \cup [type : {"reply"}, id : Ids, ok : BOOLEAN]
        \cup [type : {"exit"}, id : Ids]
        \cup [type : {"boot-log", "ready", "boot-locked", "boot-error"}]

\* The client's tables and what is under way; a run is there when its start
\* was answered, and only then.
PageInv ==
    /\ start \in [Ids -> {"none", "sent", "answered", "rejected"}]
    /\ runs \in [Ids -> {"none", "open", "resolved", "rejected"}]
    /\ \A i \in Ids : start[i] = "answered" <=> runs[i] # "none"
    /\ got \in [Ids -> [Streams -> Nat]]
    /\ toWorker \in Seq(Requests) /\ toPage \in Seq(Events)

LEMMA ExecOfPage == ASSUME PageInv, PageNext PROVE [Next]_vars
<1>1. CASE WorkerReceives
  <2>1. Head(toWorker) \in Requests
    BY <1>1 DEF PageInv, WorkerReceives
  <2>2. CASE Head(toWorker).type = "start"
    <3>1. Head(toWorker).id \in Ids /\ Start(Head(toWorker).id)
      BY <1>1, <2>1, <2>2 DEF Requests, WorkerReceives
    <3> QED
      BY <3>1 DEF Next
  <2>3. CASE Head(toWorker).type = "abort"
    <3>1. Head(toWorker).id \in Ids /\ Abort(Head(toWorker).id)
      BY <1>1, <2>1, <2>3 DEF Requests, WorkerReceives
    <3> QED
      BY <3>1 DEF Next
  <2>4. CASE Head(toWorker).type = "boot-retry"
    BY <1>1, <2>4 DEF WorkerReceives
  <2> QED
    BY <2>1, <2>2, <2>3, <2>4 DEF Requests
<1>2. CASE Clock \/ \E i \in Ids : WorkerStep(i) \/ GroupStep(i)
  BY <1>2 DEF Clock, WorkerStep, GroupStep, Next
<1>3. CASE \/ Boot \/ BootRefused \/ BootEnds \/ Logs \/ RetryBoot \/ Crash \/ Reset
           \/ PageReceives
           \/ \E i \in Ids : AbortRun(i) \/ \E early \in BOOLEAN : Exec(i, early)
  BY <1>3 DEF Boot, BootRefused, BootEnds, Logs, RetryBoot, Crash, Reset, PageReceives, AbortRun,
     Exec
<1> QED
  BY <1>1, <1>2, <1>3 DEF PageNext

\* What the worker posts for an execution is a sequence of events.
LEMMA PostedEvents == ASSUME IInv, IInv', NEW i \in Ids PROVE Posted(i) \in Seq(Events)
<1> DEFINE outs(s) == IF sent'[i][s] > sent[i][s]
                      THEN <<[type |-> "output", id |-> i, fd |-> s,
                              bytes |-> sent'[i][s] - sent[i][s]]>>
                      ELSE <<>>
           reply == IF phase[i] = "opening" /\ phase'[i] # "opening"
                    THEN <<[type |-> "reply", id |-> i, ok |-> phase'[i] = "live"]>>
                    ELSE <<>>
           exit == IF exits'[i] # exits[i] THEN <<[type |-> "exit", id |-> i]>> ELSE <<>>
<1>1. ASSUME NEW s \in Streams PROVE outs(s) \in Seq(Events)
  <2>1. sent'[i][s] \in Nat /\ sent[i][s] \in Nat
    BY DEF IInv, TypeOK
  <2>2. CASE sent'[i][s] > sent[i][s]
    <3> DEFINE n == sent'[i][s] - sent[i][s]
    <3>1. n \in Nat \ {0}
      BY <2>1, <2>2
    <3> HIDE DEF n
    <3>2. [type |-> "output", id |-> i, fd |-> s, bytes |-> n] \in Events
      BY <3>1 DEF Events
    <3> QED
      BY <2>2, <3>2 DEF n
  <2> QED
    BY <2>2
<1>2. reply \in Seq(Events)
  <2>1. [type |-> "reply", id |-> i, ok |-> phase'[i] = "live"] \in Events
    BY DEF Events
  <2> QED
    BY <2>1
<1>3. exit \in Seq(Events)
  <2>1. [type |-> "exit", id |-> i] \in Events
    BY DEF Events
  <2> QED
    BY <2>1
<1>4. Posted(i) = outs("stdout") \o outs("stderr") \o reply \o exit
  BY DEF Posted
<1>5. outs("stdout") \in Seq(Events) /\ outs("stderr") \in Seq(Events)
  BY <1>1, PageAssumption
<1> HIDE DEF outs, reply, exit
<1> QED
  BY <1>2, <1>3, <1>4, <1>5

\* Messages that are taken and those that are posted.
LEMMA Told == ASSUME PageInv, NEW t, Event(t) \in Events PROVE Append(toPage,
   Event(t)) \in Seq(Events)
  BY DEF PageInv

LEMMA EventsTyped ==
  \A t \in {"boot-log", "ready", "boot-locked", "boot-error"} : Event(t) \in Events
  BY DEF Event, Events

\* A step that leaves the client's tables alone.
LEMMA ChannelStep ==
  ASSUME PageInv, UNCHANGED <<start, runs, got>>,
         toWorker' \in Seq(Requests), toPage' \in Seq(Events)
  PROVE  PageInv' /\ UNCHANGED <<Call, got>>
  BY DEF PageInv, Call

\* The client's failure rejects what is open.
LEMMA RejectedStep ==
  ASSUME PageInv, Rejected, got' = got,
         toWorker' \in Seq(Requests), toPage' \in Seq(Events)
  PROVE  PageInv' /\ Life!Fail
<1>1. /\ start' = [i \in Ids |-> IF start[i] = "sent" THEN "rejected" ELSE start[i]]
      /\ runs' = [i \in Ids |-> IF runs[i] = "open" THEN "rejected" ELSE runs[i]]
  BY DEF Rejected
<1>2. PageInv'
  BY <1>1 DEF PageInv
<1>3. Call' = [i \in Ids |-> CASE Call[i] = "starting" -> "refused"
                               [] Call[i] = "running" -> "rejected"
                               [] OTHER -> Call[i]]
  <2>1. ASSUME NEW i \in Ids
        PROVE  Call'[i] = CASE Call[i] = "starting" -> "refused"
                            [] Call[i] = "running" -> "rejected"
                            [] OTHER -> Call[i]
    <3>1. /\ start[i] \in {"none", "sent", "answered", "rejected"}
          /\ runs[i] \in {"none", "open", "resolved", "rejected"}
          /\ start[i] = "answered" <=> runs[i] # "none"
      BY DEF PageInv
    <3>2. CASE runs[i] = "open"
      BY <1>1, <3>2 DEF Call
    <3>3. CASE runs[i] \in {"resolved", "rejected"}
      BY <1>1, <3>3 DEF Call
    <3>4. CASE runs[i] = "none"
      BY <1>1, <3>1, <3>4 DEF Call
    <3> QED
      BY <3>1, <3>2, <3>3, <3>4
  <2> QED
    BY <2>1 DEF Call
<1> QED
  BY <1>2, <1>3 DEF Life!Fail

\* One entry of the client's tables moves.
LEMMA EntryStep ==
  ASSUME PageInv, NEW i \in Ids, NEW s, NEW r,
         start' = [start EXCEPT ![i] = s], runs' = [runs EXCEPT ![i] = r], got' = got,
         toWorker' \in Seq(Requests), toPage' \in Seq(Events),
         \/ start[i] = "none" /\ s \in {"sent", "rejected"} /\ r = runs[i]
         \/ start[i] = "sent" /\ s = "rejected" /\ r = runs[i]
         \/ start[i] = "sent" /\ s = "answered" /\ r = "open"
         \/ runs[i] = "open" /\ r = "resolved" /\ s = start[i]
  PROVE  PageInv' /\ Life!Next
<1>1. /\ start[i] \in {"none", "sent", "answered", "rejected"}
      /\ runs[i] \in {"none", "open", "resolved", "rejected"}
      /\ start[i] = "answered" <=> runs[i] # "none"
  BY DEF PageInv
<1>2. PageInv'
  BY <1>1 DEF PageInv
<1>3. start'[i] = s /\ runs'[i] = r
      /\ \A j \in Ids : j # i => start'[j] = start[j] /\ runs'[j] = runs[j]
  BY DEF PageInv
<1>4. \A j \in Ids : j # i => Call'[j] = Call[j]
  BY <1>3 DEF Call
<1>5. Call' = [Call EXCEPT ![i] = Call'[i]]
  <2>1. Call = [j \in Ids |-> Call[j]] /\ Call' = [j \in Ids |-> Call'[j]]
    BY DEF Call
  <2> QED
    BY <1>4, <2>1
<1>6. \/ Call[i] = "idle" /\ Call'[i] \in {"starting", "refused"}
      \/ Call[i] = "starting" /\ Call'[i] \in {"refused", "running"}
      \/ Call[i] = "running" /\ Call'[i] = "resolved"
  <2>1. CASE start[i] = "none"
    BY <1>1, <1>3, <2>1 DEF Call
  <2>2. CASE start[i] = "sent"
    BY <1>1, <1>3, <2>2 DEF Call
  <2>3. CASE runs[i] = "open" /\ r = "resolved"
    BY <1>1, <1>3, <2>3 DEF Call
  <2> QED
    BY <2>1, <2>2, <2>3
<1>7. Life!Begin(i) \/ Life!Refuse(i) \/ Life!Run(i) \/ Life!Settle(i)
  BY <1>5, <1>6 DEF Life!Begin, Life!Refuse, Life!Run, Life!Settle, Life!Become
<1> QED
  BY <1>2, <1>7 DEF Life!Next

LEMMA ReceiveStep == ASSUME PageInv, PageReceives PROVE PageInv' /\ [Life!Next]_(Life!vars)
<1> PICK m : m = Head(toPage)
  OBVIOUS
<1>1. /\ m \in Events /\ toPage' = Tail(toPage)
      /\ toPage' \in Seq(Events) /\ toWorker' \in Seq(Requests)
  BY DEF PageInv, PageReceives
<1>2. CASE m.type = "reply"
  <2>1. m.id \in Ids /\ m.ok \in BOOLEAN
    BY <1>1, <1>2 DEF Events
  <2>2. Replied(m) /\ got' = got
    BY <1>2 DEF PageReceives
  <2>3. CASE start[m.id] # "sent"
    BY <1>1, <2>2, <2>3, ChannelStep DEF Replied, Life!vars
  <2>4. CASE start[m.id] = "sent"
    <3>1. /\ start' = [start EXCEPT ![m.id] = IF m.ok THEN "answered" ELSE "rejected"]
          /\ runs' = [runs EXCEPT ![m.id] = IF m.ok THEN "open" ELSE runs[m.id]]
      BY <2>2, <2>4 DEF Replied
    <3> QED
      BY <1>1, <2>1, <2>2, <2>4, <3>1, EntryStep
  <2> QED
    BY <2>3, <2>4
<1>3. CASE m.type = "exit"
  <2>1. m.id \in Ids
    BY <1>1, <1>3 DEF Events
  <2>2. /\ runs' = [runs EXCEPT ![m.id] = IF runs[m.id] = "open" THEN "resolved" ELSE runs[m.id]]
        /\ start' = start /\ got' = got
    BY <1>3 DEF PageReceives
  <2>3. CASE runs[m.id] = "open"
    <3>1. start' = [start EXCEPT ![m.id] = start[m.id]]
      BY <2>2 DEF PageInv
    <3>2. runs' = [runs EXCEPT ![m.id] = "resolved"]
      BY <2>2, <2>3
    <3> QED
      BY <1>1, <2>1, <2>2, <2>3, <3>1, <3>2, EntryStep, ZenonT(60)
  <2>4. CASE runs[m.id] # "open"
    <3>1. runs' = runs
      BY <2>2, <2>4 DEF PageInv
    <3> QED
      BY <1>1, <2>2, <3>1, ChannelStep DEF Life!vars
  <2> QED
    BY <2>3, <2>4
<1>4. CASE m.type = "output" /\ runs[m.id] = "open"
  <2>1. m.id \in Ids /\ m.fd \in Streams /\ m.bytes \in Nat \ {0}
    BY <1>1, <1>4 DEF Events
  <2>2. /\ UNCHANGED <<start, runs>>
        /\ got' = [got EXCEPT ![m.id] = [got[m.id] EXCEPT ![m.fd] = got[m.id][m.fd] + m.bytes]]
    BY <1>4 DEF PageReceives
  <2>3. got[m.id] \in [Streams -> Nat] /\ got[m.id][m.fd] \in Nat
    BY <2>1 DEF PageInv
  <2> PICK b : b = got[m.id][m.fd] + m.bytes
    OBVIOUS
  <2>4. b \in Nat /\ b > got[m.id][m.fd]
    BY <2>1, <2>3
  <2>5. [got[m.id] EXCEPT ![m.fd] = b] \in [Streams -> Nat]
    BY <2>3, <2>4
  <2>6. got' \in [Ids -> [Streams -> Nat]] /\ got'[m.id][m.fd] = b
    BY <2>1, <2>2, <2>3, <2>5 DEF PageInv
  <2>7. PageInv'
    BY <1>1, <2>2, <2>6 DEF PageInv
  <2>8. Life!Output(m.id, m.fd)
    BY <1>4, <2>1, <2>2, <2>4, <2>6 DEF Life!Output, Call
  <2> QED
    BY <2>1, <2>7, <2>8 DEF Life!Next
<1>5. CASE m.type \notin {"reply", "exit"} /\ ~(m.type = "output" /\ runs[m.id] = "open")
  <2>1. UNCHANGED <<start, runs, got>>
    BY <1>5 DEF PageReceives
  <2> QED
    BY <1>1, <2>1, ChannelStep DEF Life!vars
<1> QED
  BY <1>2, <1>3, <1>4, <1>5

\* Every step of the page and the worker keeps the client's tables, and is a
\* step of the life that exec promises, or none.
LEMMA PageStep ==
  ASSUME IInv, PageInv, PageNext
  PROVE  IInv' /\ PageInv' /\ [Life!Next]_(Life!vars)
<1>1. IInv'
  BY ExecOfPage, NextInv, ExecKeptInv
<1>2. CASE Boot \/ BootRefused \/ Clock \/ \E i \in Ids : GroupStep(i)
  <2>1. UNCHANGED <<start, runs, got, toWorker, toPage>>
    BY <1>2 DEF Boot, BootRefused, Clock, GroupStep, pageVars, chans
  <2> QED
    BY <1>1, <2>1, ChannelStep DEF Life!vars, PageInv
<1>3. CASE BootEnds \/ Logs
  <2>1. UNCHANGED <<start, runs, got, toWorker>> /\ toPage' \in Seq(Events)
    BY <1>3, EventsTyped, Told DEF BootEnds, Logs, Tell, pageVars
  <2> QED
    BY <1>1, <2>1, ChannelStep DEF Life!vars, PageInv
<1>4. CASE RetryBoot
  <2>1. Event("boot-retry") \in Requests
    BY DEF Event, Requests
  <2>2. UNCHANGED <<start, runs, got, toPage>> /\ toWorker' \in Seq(Requests)
    BY <1>4, <2>1 DEF RetryBoot, pageVars, PageInv
  <2> QED
    BY <1>1, <2>2, ChannelStep DEF Life!vars, PageInv
<1>5. CASE \E i \in Ids : WorkerStep(i)
  <2> PICK i \in Ids : WorkerStep(i)
    BY <1>5
  <2>1. UNCHANGED <<start, runs, got, toWorker>> /\ toPage' \in Seq(Events)
    BY <1>1, PostedEvents DEF WorkerStep, pageVars, PageInv
  <2> QED
    BY <1>1, <2>1, ChannelStep DEF Life!vars, PageInv
<1>6. CASE WorkerReceives
  <2>1. UNCHANGED <<start, runs, got, toPage>> /\ toWorker' \in Seq(Requests)
    BY <1>6 DEF WorkerReceives, pageVars, PageInv
  <2> QED
    BY <1>1, <2>1, ChannelStep DEF Life!vars, PageInv
<1>7. CASE PageReceives
  BY <1>1, <1>7, ReceiveStep
<1>8. CASE Crash \/ Reset
  <2>1. Rejected /\ got' = got
    BY <1>8 DEF Crash, Reset
  <2>2. toWorker' \in Seq(Requests) /\ toPage' \in Seq(Events)
    <3>1. \/ toWorker' = toWorker /\ toPage' = toPage
          \/ toWorker' = <<>> /\ toPage' = <<>>
      BY <1>8 DEF Crash, Reset, chans
    <3>2. toWorker \in Seq(Requests) /\ <<>> \in Seq(Requests)
      BY DEF PageInv
    <3>3. toPage \in Seq(Events) /\ <<>> \in Seq(Events)
      BY DEF PageInv
    <3> QED
      BY <3>1, <3>2, <3>3
  <2> QED
    BY <1>1, <2>1, <2>2, RejectedStep DEF Life!Next
<1>9. CASE \E i \in Ids : AbortRun(i)
  <2> PICK i \in Ids : AbortRun(i)
    BY <1>9
  <2>1. Message("abort", i) \in Requests
    BY DEF Message, Requests
  <2>2. UNCHANGED <<start, runs, got, toPage>> /\ toWorker' \in Seq(Requests)
    BY <2>1 DEF AbortRun, pageVars, PageInv
  <2> QED
    BY <1>1, <2>2, ChannelStep DEF Life!vars, PageInv
<1>10. CASE \E i \in Ids, early \in BOOLEAN : Exec(i, early)
  <2> PICK i \in Ids, early \in BOOLEAN : Exec(i, early)
    BY <1>10
  <2>1. Message("abort", i) \in Requests /\ Message("start", i) \in Requests
    BY DEF Message, Requests
  <2>2. /\ start[i] = "none" /\ UNCHANGED <<runs, got, toPage>>
        /\ \/ start' = [start EXCEPT ![i] = "rejected"]
           \/ start' = [start EXCEPT ![i] = "sent"]
    BY DEF Exec
  <2>3. toWorker' \in Seq(Requests)
    <3>1. <<Message("start", i)>> \in Seq(Requests) /\ <<Message("abort", i)>> \in Seq(Requests)
      BY <2>1
    <3>2. toWorker \in Seq(Requests) /\ <<>> \in Seq(Requests)
      BY DEF PageInv
    <3>3. \/ toWorker' = toWorker
          \/ toWorker' = toWorker \o <<Message("abort", i)>> \o <<Message("start", i)>>
          \/ toWorker' = toWorker \o <<>> \o <<Message("start", i)>>
      BY DEF Exec
    <3>4. toWorker \o <<Message("abort", i)>> \o <<Message("start", i)>> \in Seq(Requests)
      <4>1. toWorker \o <<Message("abort", i)>> \in Seq(Requests)
        BY ONLY <3>1, <3>2
      <4> QED
        BY ONLY <3>1, <4>1
    <3>5. toWorker \o <<>> \o <<Message("start", i)>> \in Seq(Requests)
      <4>1. toWorker \o <<>> \in Seq(Requests)
        BY ONLY <3>2
      <4> QED
        BY ONLY <3>1, <4>1
    <3> QED
      BY ONLY <3>2, <3>3, <3>4, <3>5
  <2>4. runs' = [runs EXCEPT ![i] = runs[i]]
    BY <2>2 DEF PageInv
  <2>5. toPage' \in Seq(Events)
    BY <2>2 DEF PageInv
  <2>6. PageInv' /\ Life!Next
    BY <2>2, <2>3, <2>4, <2>5, EntryStep
  <2> QED
    BY <1>1, <2>6
<1> QED
  BY <1>2, <1>3, <1>4, <1>5, <1>6, <1>7, <1>8, <1>9, <1>10 DEF PageNext

----------------------------------------------------------------------------
(* The services together                                                     *)

ServicesInv == HttpInv /\ ClipInv /\ IInv /\ PageInv

LEMMA ServicesInitInv == ServicesInit => ServicesInv /\ Life!Init
<1> SUFFICES ASSUME ServicesInit PROVE ServicesInv /\ Life!Init
  OBVIOUS
<1>1. HttpInv /\ ClipInv /\ IInv
  BY HttpInitInv, ClipInitInv, InitInv DEF ServicesInit, PageInit
<1>2. Zero \in [Streams -> Nat] /\ <<>> \in Seq(Requests) /\ <<>> \in Seq(Events)
  BY DEF Zero
<1>3. PageInv
  BY <1>2 DEF ServicesInit, PageInit, PageInv
<1>4. Call = [i \in Ids |-> "idle"] /\ got = [i \in Ids |-> [s \in Streams |-> 0]]
  BY DEF ServicesInit, PageInit, Call, Zero
<1> QED
  BY <1>1, <1>3, <1>4 DEF ServicesInv, Life!Init

LEMMA PageKept ==
  ASSUME PageInv, UNCHANGED <<pageVars, chans>>
  PROVE  PageInv' /\ UNCHANGED Life!vars
  BY DEF PageInv, Call, pageVars, chans, Life!vars

\* One service moves, the others keep theirs.
LEMMA StepKeeps ==
  ASSUME ServicesInv, [ServicesNext]_everything
  PROVE  ServicesInv' /\ [Life!Next]_(Life!vars)
<1>1. CASE OnlyHttp /\ H!Next
  BY <1>1, HttpNextInv, ClipKeptInv, ExecKeptInv, PageKept DEF OnlyHttp, all, ServicesInv
<1>2. CASE OnlyClip /\ P!Next
  BY <1>2, ClipNextInv, HttpKeptInv, ExecKeptInv, PageKept DEF OnlyClip, all, ServicesInv
<1>3. CASE OnlyExec /\ E!Next
  BY <1>3, LongNextInv, HttpKeptInv, ClipKeptInv, PageKept DEF OnlyExec, ServicesInv
<1>4. CASE OnlyPage /\ PageNext
  BY <1>4, PageStep, HttpKeptInv, ClipKeptInv DEF OnlyPage, ServicesInv
<1>5. CASE UNCHANGED everything
  BY <1>5, HttpKeptInv, ClipKeptInv, ExecKeptInv, PageKept DEF everything, all, ServicesInv
<1> QED
  BY <1>1, <1>2, <1>3, <1>4, <1>5 DEF ServicesNext

\* The invariant behind the results below.
THEOREM ServicesInvariant == ServicesSpec => []ServicesInv
  BY ServicesInitInv, StepKeeps, PTL DEF ServicesSpec

\* What readers see of a transfer's end is final, and a clean end comes after
\* every byte that was delivered (kernel.js _httpPump, _httpExpire, FS_READ).
THEOREM OutcomesAreFinal == ServicesSpec => []OutcomeIsFinal
<1>1. ASSUME ServicesInv PROVE OutcomeIsFinal
  <2>1. HttpInv
    BY <1>1 DEF ServicesInv
  <2> SUFFICES ASSUME NEW r \in HttpReaders, who[r] = "eof"
      PROVE  handed = given /\ done /\ error = "none"
    BY <2>1 DEF HttpInv, OutcomeIsFinal, H!OutcomeIsFinal
  <2>2. done /\ queued = 0
    BY <2>1 DEF HttpInv, ShownLast
  <2> QED
    BY <2>1, <2>2 DEF HttpInv, HttpTypeOK, OneOutcome, Conserved
<1> QED
  BY <1>1, ServicesInvariant, PTL

\* A trip brings back what the host held when it was asked for, or newer
\* (os/kernel-worker.js onClipRead, clipReadSettle).
THEOREM TripsAreFresh == ServicesSpec => []FreshEnough
<1>1. ServicesInv => FreshEnough
  BY DEF ServicesInv, ClipInv, FreshEnough
<1> QED
  BY <1>1, ServicesInvariant, PTL

\* An exit event says what is true when it is posted and stays true, whether the
\* page started the execution or not (os/kernel-worker.js finishExecution).
THEOREM ExitsStayFinal == ServicesSpec => []ExitsAreFinal
<1>1. E!ExitIsFinal <=> ExitIsFinal
  BY DEF ExitIsFinal, E!ExitIsFinal, None, E!None
<1>2. ServicesInv => ExitsAreFinal
  BY <1>1 DEF ServicesInv, IInv, ExitsAreFinal
<1> QED
  BY <1>2, ServicesInvariant, PTL

\* What the caller of exec sees is a behaviour of ExecLife, except for its
\* promise that every call ends: refused or run, output only while it runs,
\* settled once (kernel-client.ts exec, fail).
THEOREM PageImplementsExecLife == ServicesSpec => Life!Safety
<1>1. ServicesInit => Life!Init
  BY ServicesInitInv
<1>2. ServicesInv /\ [ServicesNext]_everything => [Life!Next]_(Life!vars)
  BY StepKeeps
<1> QED
  BY <1>1, <1>2, ServicesInvariant, PTL DEF ServicesSpec, Life!Safety
===============================================================================
