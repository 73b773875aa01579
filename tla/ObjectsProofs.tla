---------------------------- MODULE ObjectsProofs ----------------------------
(* Theorems about the kernel objects of Objects, for any values of their     *)
(* constants.                                                                *)
(*                                                                           *)
(* Published facts: the sequence word is odd exactly while the page is being *)
(* stored, and a word that has not moved vouches for the page; as long as it *)
(* moves less than one full turn during one attempt.                         *)
(*                                                                           *)
(* Close watchdog: what is still to be read before the QUIT is gone is       *)
(* counted from the reader's position at the last look, and that position is *)
(* less than one turn behind, so the kernel's arithmetic modulo the turn is  *)
(* exact.                                                                    *)
(*                                                                           *)
(* File watches: what a watch has not told its consumer is still queued, or  *)
(* the queue says that it overflowed.                                        *)
(*                                                                           *)
(* Terminal: a walk of the readers keeps the bytes in order and leaves no one *)
(* who could take what is left.                                              *)
(*                                                                           *)
(* Sockets: every connection that was made has a far end, held or queued, or *)
(* both its directions are shut; a walk of the parked calls leaves no one    *)
(* who could be served.                                                      *)
EXTENDS Objects, SequenceTheorems, WellFoundedInduction, TLAPS

----------------------------------------------------------------------------
(* The page of published facts                                               *)

\* The sequence word is odd exactly while the page is being stored.
PageParity == kpc = "store" <=> seq % 2 = 1

\* What the kernel has published, and how far a publication has come.
PageKernelInv ==
  /\ kpc = "idle" => page = facts
  /\ kpc = "store" => \A w \in Words : w \notin todo => page[w] = facts[w]
  /\ kpc # "store" => page \in pubs \/ seq = 0
  /\ \A w \in Words : page[w] <= facts[w] /\ facts[w] <= changes

\* While the sequence word has not moved since it was loaded the page is the
\* one it guarded then; how far it moved tells it apart from any other.
PageAttemptInv ==
  Reading =>
    /\ seq = s1 + moved \/ seq = s1 + moved - Wrap
    /\ moved = 0 => kpc # "store" /\ page = snap
    /\ snap \in pubs
    /\ \A w \in Words : asked[w] <= snap[w]
    /\ left \subseteq want
    /\ pc = "check" => left = {}
    /\ moved = 0 => \A w \in want : w \notin left => out[w] = snap[w]

PageReadInv ==
  /\ pc # "idle" => \A w \in Words : asked[w] <= page[w]
  /\ PageAttemptInv
  /\ SnapshotIsPublished /\ NeverOlder

PageInv == TypeOK /\ PageParity /\ PageKernelInv /\ PageReadInv

-----------------------------------------------------------------------------
(* A bump flips the parity, also at the wrap.                               *)
LEMMA PageBumpFlips ==
  ASSUME NEW n \in 0 .. (Wrap - 1)
  PROVE  Bumped(n) \in 0 .. (Wrap - 1) /\ (Bumped(n) % 2 = 1 <=> n % 2 = 0)
  BY VdsoAssumption DEF Bumped

(* The sequence word holds after fewer than a full turn of bumps what it    *)
(* held before only if there were none.                                     *)
LEMMA PageUnmoved ==
  ASSUME TypeOK, PageAttemptInv, pc = "check", seq = s1
  PROVE  moved = 0
  BY VdsoAssumption DEF TypeOK, PageAttemptInv, Reading

LEMMA PageInitInv == Init => PageInv
  BY VdsoAssumption DEF Init, PageInv, TypeOK, Values, PageParity, PageKernelInv, PageReadInv,
     PageAttemptInv, Reading, SnapshotIsPublished, NeverOlder

-----------------------------------------------------------------------------
LEMMA PageChangeInv ==
  ASSUME PageInv, NEW G \in Changes, Change(G) PROVE PageInv'
<1> USE VdsoAssumption DEF PageInv, Change, kernelVars, readerVars
<1>1. TypeOK'
  BY DEF TypeOK, Values
<1>2. PageParity'
  BY DEF PageParity
<1>3. PageKernelInv'
  BY DEF PageKernelInv, TypeOK, Values
<1>4. PageReadInv'
  BY DEF PageReadInv, PageAttemptInv, Reading, SnapshotIsPublished, NeverOlder
<1> QED BY <1>1, <1>2, <1>3, <1>4

LEMMA PagePublishInv ==
  ASSUME PageInv, Publish PROVE PageInv'
<1> USE VdsoAssumption DEF PageInv, Publish, kernelVars, readerVars
<1>1. seq' \in 0 .. (Wrap - 1) /\ (seq' % 2 = 1 <=> seq % 2 = 0)
  BY PageBumpFlips DEF TypeOK
<1>2. TypeOK'
  BY <1>1 DEF TypeOK, Values, Moves
<1>3. PageParity'
  BY <1>1 DEF PageParity, TypeOK
<1>4. PageKernelInv'
  BY DEF PageKernelInv
<1>5. PageAttemptInv'
  BY DEF PageReadInv, PageAttemptInv, Reading, Moves, Bumped, TypeOK
<1>6. PageReadInv'
  BY <1>5 DEF PageReadInv, SnapshotIsPublished, NeverOlder
<1> QED BY <1>2, <1>3, <1>4, <1>6

LEMMA PageStoreInv ==
  ASSUME PageInv, NEW w \in Words, Store(w) PROVE PageInv'
<1> USE VdsoAssumption DEF PageInv, Store, kernelVars, readerVars
<1>1. TypeOK'
  BY DEF TypeOK, Values
<1>2. PageParity'
  BY DEF PageParity
<1>3. PageKernelInv'
  BY DEF PageKernelInv, TypeOK, Values
<1>4. \A v \in Words : page[v] <= page'[v]
  BY DEF PageKernelInv, TypeOK, Values
<1>5. PageAttemptInv'
  BY DEF PageReadInv, PageAttemptInv, Reading
<1>6. PageReadInv'
  BY <1>4, <1>5, <1>1 DEF PageReadInv, SnapshotIsPublished, NeverOlder, TypeOK, Values
<1> QED BY <1>1, <1>2, <1>3, <1>6

LEMMA PagePublishedInv ==
  ASSUME PageInv, Published PROVE PageInv'
<1> USE VdsoAssumption DEF PageInv, Published, kernelVars, readerVars
<1>1. seq' \in 0 .. (Wrap - 1) /\ (seq' % 2 = 1 <=> seq % 2 = 0)
  BY PageBumpFlips DEF TypeOK
<1>2. TypeOK'
  BY <1>1 DEF TypeOK, Values, Moves
<1>3. PageParity'
  BY <1>1 DEF PageParity, TypeOK
<1>4. page = facts
  BY DEF PageKernelInv, TypeOK, Values
<1>5. PageKernelInv'
  BY <1>4 DEF PageKernelInv
<1>6. PageAttemptInv'
  BY DEF PageReadInv, PageAttemptInv, Reading, Moves, Bumped, TypeOK
<1>7. SnapshotIsPublished'
  BY DEF PageReadInv, SnapshotIsPublished
<1>8. PageReadInv'
  BY <1>6, <1>7 DEF PageReadInv, NeverOlder
<1> QED BY <1>2, <1>3, <1>5, <1>8

-----------------------------------------------------------------------------
LEMMA PageReadCallInv ==
  ASSUME PageInv, NEW I \in Snapshots, Read(I) PROVE PageInv'
<1> USE VdsoAssumption DEF PageInv, Read, kernelVars
<1>1. TypeOK'
  BY DEF TypeOK, Values
<1>2. PageParity' /\ PageKernelInv'
  BY DEF PageParity, PageKernelInv
<1>3. PageReadInv'
  BY DEF PageReadInv, PageAttemptInv, Reading, SnapshotIsPublished, NeverOlder, TypeOK, Values
<1> QED BY <1>1, <1>2, <1>3

LEMMA PageAttemptStepInv ==
  ASSUME PageInv, Attempt PROVE PageInv'
<1> USE VdsoAssumption DEF PageInv, Attempt, kernelVars
<1>1. TypeOK'
  BY DEF TypeOK, Values
<1>2. PageParity' /\ PageKernelInv'
  BY DEF PageParity, PageKernelInv
<1>3. PageAttemptInv'
  <2>1. CASE pc' = "load"
    <3>1. seq % 2 # 1 /\ seq # 0 /\ s1' = seq /\ moved' = 0 /\ snap' = page /\ left' = want
      BY <2>1
    <3>2. kpc # "store" /\ page \in pubs
      BY <3>1 DEF PageParity, PageKernelInv
    <3> QED BY <2>1, <3>1, <3>2 DEF PageAttemptInv, Reading, PageReadInv, TypeOK
  <2>2. CASE pc' # "load"
    BY <2>2 DEF PageAttemptInv, Reading
  <2> QED BY <2>1, <2>2
<1>4. PageReadInv'
  BY <1>3 DEF PageReadInv, SnapshotIsPublished, NeverOlder
<1> QED BY <1>1, <1>2, <1>4

LEMMA PageLoadInv ==
  ASSUME PageInv, NEW w \in Words, Load(w) PROVE PageInv'
<1> USE VdsoAssumption DEF PageInv, Load, kernelVars
<1>1. TypeOK'
  BY DEF TypeOK, Values
<1>2. PageParity' /\ PageKernelInv'
  BY DEF PageParity, PageKernelInv
<1>3. PageAttemptInv'
  BY DEF PageReadInv, PageAttemptInv, Reading, TypeOK, Values
<1>4. PageReadInv'
  BY <1>3 DEF PageReadInv, SnapshotIsPublished, NeverOlder
<1> QED BY <1>1, <1>2, <1>4

LEMMA PageCheckInv ==
  ASSUME PageInv, Check PROVE PageInv'
<1> USE DEF PageInv, Check, kernelVars
<1>1. TypeOK'
  BY DEF TypeOK, Values
<1>2. PageParity' /\ PageKernelInv'
  BY DEF PageParity, PageKernelInv
<1>3. CASE seq = s1
  <2>1. moved = 0
    BY <1>3, PageUnmoved DEF PageReadInv
  <2>2. /\ snap \in pubs
        /\ \A w \in want : out[w] = snap[w] /\ asked[w] <= snap[w] /\ w \in Words
    BY <2>1 DEF PageReadInv, PageAttemptInv, Reading, TypeOK
  <2>3. \A w \in want : out[w] >= asked[w]
    BY <2>2 DEF TypeOK, Values
  <2> QED BY <1>1, <1>2, <1>3, <2>2, <2>3
          DEF PageReadInv, PageAttemptInv, Reading, SnapshotIsPublished, NeverOlder
<1>4. CASE seq # s1
  BY <1>1, <1>2, <1>4 DEF PageReadInv, PageAttemptInv, Reading, SnapshotIsPublished, NeverOlder
<1> QED BY <1>3, <1>4

LEMMA PageReturnInv ==
  ASSUME PageInv, Return PROVE PageInv'
  BY DEF PageInv, Return, kernelVars, TypeOK, Values, PageParity, PageKernelInv, PageReadInv,
     PageAttemptInv, Reading, SnapshotIsPublished, NeverOlder

LEMMA PageStutterInv ==
  ASSUME PageInv, UNCHANGED vars PROVE PageInv'
  BY DEF PageInv, vars, kernelVars, readerVars, TypeOK, Values, PageParity, PageKernelInv,
     PageReadInv, PageAttemptInv, Reading, SnapshotIsPublished, NeverOlder

LEMMA PageStepInv == PageInv /\ [Next]_vars => PageInv'
  BY PageChangeInv, PagePublishInv, PageStoreInv, PagePublishedInv, PageReadCallInv, PageAttemptStepInv,
     PageLoadInv, PageCheckInv, PageReturnInv, PageStutterInv DEF Next

----------------------------------------------------------------------------
(* The close watchdog                                                        *)

CloseTurn == 2 * InputCap
CloseWatchdogs == [on : BOOLEAN, delivered : BOOLEAN, need : {n \in Int : n <= InputCap},
                   last : Nat, left : 0..CloseGrace]
CloseSteps == {"idle", "track", "retry", "click", "clicked", "poll", "polled"}

\* Types; the ring is never overfull.
CloseTypes ==
    /\ wpos \in Nat /\ rpos \in Nat /\ rpos <= wpos /\ wpos - rpos <= InputCap
    /\ proc \in {"running", "stopped", "dead"} /\ open \subseteq Windows
    /\ wd \in [Windows -> CloseWatchdogs] /\ at \in [Windows -> CloseSteps]
    /\ quit \in [Windows -> Nat] /\ (\A s \in Windows : quit[s] <= wpos)
    /\ saw \in [Windows -> BOOLEAN] /\ lapped \in [Windows -> BOOLEAN]

\* A watchdog written in part.
LEMMA CloseTracked ==
  ASSUME NEW w \in CloseWatchdogs, NEW m, NEW j, NEW v,
         v = [w EXCEPT !.delivered = TRUE, !.last = m, !.need = j]
  PROVE  v = [on |-> w.on, delivered |-> TRUE, need |-> j, last |-> m, left |-> w.left]
  BY DEF CloseWatchdogs

LEMMA CloseTicked ==
  ASSUME NEW w \in CloseWatchdogs, NEW j, NEW v, v = [w EXCEPT !.left = j]
  PROVE  v = [on |-> w.on, delivered |-> w.delivered, need |-> w.need, last |-> w.last, left |-> j]
  BY DEF CloseWatchdogs

\* A turn is about one surface.
CloseOneTurn == \A s, t \in Windows : at[s] # "idle" /\ at[t] # "idle" => s = t

\* A watchdog has a surface and a turn a watchdog.  Between the push of a QUIT
\* and the look at its place nothing is pushed, and what a look left behind
\* stands until the verdict.
CloseAt(s) ==
    /\ wd[s].on => s \in open
    /\ at[s] # "idle" => wd[s].on
    /\ at[s] \in {"track", "retry"} => quit[s] = wpos /\ wpos > 0 /\ ~wd[s].delivered
    /\ at[s] \in {"clicked", "polled"} =>
         (C!Done(wd[s]) => saw[s]) /\ (saw[s] /\ ~C!Done(wd[s]) => lapped[s])

\* A delivered QUIT lies at most need records behind the last look, and as
\* long as no lap was missed exactly that many; an undelivered one has no place.
CloseExact(s) == wd[s].on =>
    IF wd[s].delivered
    THEN /\ quit[s] > 0 /\ wd[s].last <= rpos /\ wd[s].need >= quit[s] - wd[s].last
         /\ wd[s].need > 0 /\ ~lapped[s] => wd[s].need = quit[s] - wd[s].last
    ELSE at[s] \in {"track", "retry"} \/ quit[s] = 0

CloseInv == CloseTypes /\ CloseOneTurn /\ (\A s \in Windows : CloseAt(s) /\ CloseExact(s)) /\ wrong = FALSE

\* The difference of two positions is never less than what their residues
\* say, and the same less than a turn apart.
LEMMA CloseAheadIs ==
  ASSUME NEW a \in Nat, NEW b \in Nat, b <= a
  PROVE  /\ C!Ahead(a, b) \in Nat /\ C!Ahead(a, b) <= a - b
         /\ a - b < CloseTurn => C!Ahead(a, b) = a - b
<1>1. ASSUME NEW m \in Nat \ {0}, NEW x \in Nat PROVE x % m \in Nat /\ x % m <= x /\ (x < m => x % m = x)
  <2>1. x % m \in 0..m - 1
    BY SMT
  <2>2. x < m => x % m = x
    BY SMT
  <2> QED
    BY <2>1, <2>2
<1>2. CloseTurn \in Nat \ {0} /\ a - b \in Nat
  BY ObjectsAssumption DEF CloseTurn
<1> QED
  BY <1>1, <1>2 DEF C!Ahead, CloseTurn

LEMMA CloseRoomExact ==
  ASSUME CloseTypes
  PROVE  C!Ahead(wpos, rpos) = wpos - rpos /\ (C!Room <=> wpos - rpos < InputCap)
<1>1. wpos - rpos < CloseTurn
  BY ObjectsAssumption DEF CloseTypes, CloseTurn
<1> QED
  BY <1>1, CloseAheadIs, ObjectsAssumption DEF CloseTypes, C!Room

LEMMA CloseOffType == C!Off \in CloseWatchdogs /\ ~C!Off.on /\ ~C!Off.delivered
  BY ObjectsAssumption DEF C!Off, CloseWatchdogs

LEMMA CloseArmedType == C!Armed \in CloseWatchdogs /\ ~C!Armed.delivered /\ C!Armed.on
  BY ObjectsAssumption DEF C!Armed, CloseWatchdogs

LEMMA CloseInitInv == C!Init => CloseInv
<1> SUFFICES ASSUME C!Init PROVE CloseInv
  OBVIOUS
<1>1. \A s \in Windows : wd[s] = C!Off /\ quit[s] = 0 /\ at[s] = "idle"
  BY DEF C!Init
<1>2. CloseTypes
  BY <1>1, CloseOffType, ObjectsAssumption DEF C!Init, CloseTypes, CloseSteps
<1>3. \A s \in Windows : CloseAt(s) /\ CloseExact(s)
  BY <1>1, CloseOffType DEF CloseAt, CloseExact
<1> QED
  BY <1>1, <1>2, <1>3 DEF CloseInv, CloseOneTurn, C!Init

\* The reader moves at any point of a turn.
LEMMA CloseReadInv == ASSUME CloseInv, C!Read PROVE CloseInv'
<1>1. /\ rpos < wpos /\ rpos' = rpos + 1
      /\ UNCHANGED <<wpos, proc, open, wd, at, quit, saw, lapped, wrong>>
  BY DEF C!Read
<1>2. CloseTypes'
  <2>1. rpos' \in Nat /\ rpos' <= wpos /\ wpos - rpos' <= InputCap
    BY <1>1, SMT, ObjectsAssumption DEF CloseInv, CloseTypes
  <2> QED
    BY <1>1, <2>1, Zenon DEF CloseInv, CloseTypes
<1>3. CloseOneTurn'
  BY <1>1 DEF CloseInv, CloseOneTurn
<1>4. ASSUME NEW s \in Windows PROVE CloseAt(s)' /\ CloseExact(s)'
  <2>1. CloseAt(s)'
    BY <1>1 DEF CloseInv, CloseAt, C!Done
  <2>2. wd[s].last \in Nat /\ rpos \in Nat
    BY DEF CloseInv, CloseTypes, CloseWatchdogs
  <2>3. wd[s].last <= rpos => wd[s].last <= rpos'
    BY <1>1, <2>2
  <2> QED
    BY <1>1, <2>1, <2>3, Zenon DEF CloseInv, CloseExact
<1> QED
  BY <1>1, <1>2, <1>3, <1>4 DEF CloseInv

\* Steps of the kernel outside any turn, which touch no watchdog: other input
\* moves the write position, job control the process.
LEMMA CloseQuietInv ==
  ASSUME CloseInv, C!Event \/ C!Signal
  PROVE  CloseInv'
<1>1. /\ \A s \in Windows : at[s] = "idle"
      /\ UNCHANGED <<rpos, open, wd, at, quit, saw, lapped, wrong>>
  BY DEF C!Event, C!Signal, C!Idle
<1>2. /\ wpos' \in Nat /\ rpos <= wpos' /\ wpos' - rpos <= InputCap /\ wpos <= wpos'
      /\ proc' \in {"running", "stopped", "dead"}
  BY CloseRoomExact, ObjectsAssumption DEF C!Event, C!Signal, C!CanPush, CloseInv, CloseTypes
<1>3. CloseTypes'
  BY <1>1, <1>2 DEF CloseInv, CloseTypes
<1>4. ASSUME NEW s \in Windows PROVE CloseAt(s)' /\ CloseExact(s)'
  BY <1>1 DEF CloseInv, CloseAt, CloseExact
<1> QED
  BY <1>1, <1>3, <1>4 DEF CloseInv, CloseOneTurn

\* What is kept per surface is written at one only.
CloseWritten(s) ==
    /\ wd' = [wd EXCEPT ![s] = wd'[s]] /\ at' = [at EXCEPT ![s] = at'[s]]
    /\ quit' = [quit EXCEPT ![s] = quit'[s]]
    /\ saw' = [saw EXCEPT ![s] = saw'[s]] /\ lapped' = [lapped EXCEPT ![s] = lapped'[s]]

\* Steps about one surface leave the others as they are, outside any turn.
CloseOnly(s) ==
    /\ rpos' = rpos /\ wpos' \in {wpos, wpos + 1}
    /\ proc' \in {proc, "dead"} /\ open \ {s} \subseteq open' /\ open' \subseteq open
    /\ CloseWritten(s)
    /\ \A t \in Windows : t # s => at[t] = "idle"

LEMMA CloseOnlyInv ==
  ASSUME CloseInv, NEW s \in Windows, CloseOnly(s),
         wpos' = wpos + 1 => C!Room,
         wd'[s] \in CloseWatchdogs, at'[s] \in CloseSteps, quit'[s] \in 0..wpos',
         saw'[s] \in BOOLEAN, lapped'[s] \in BOOLEAN,
         CloseAt(s)', CloseExact(s)', wrong' = FALSE
  PROVE  CloseInv'
<1>1. /\ DOMAIN wd = Windows /\ DOMAIN at = Windows /\ DOMAIN quit = Windows
      /\ DOMAIN saw = Windows /\ DOMAIN lapped = Windows
  BY DEF CloseInv, CloseTypes
<1>2. /\ DOMAIN wd' = Windows /\ DOMAIN at' = Windows /\ DOMAIN quit' = Windows
      /\ DOMAIN saw' = Windows /\ DOMAIN lapped' = Windows
      /\ \A t \in Windows \ {s} : /\ wd'[t] = wd[t] /\ at'[t] = at[t] /\ quit'[t] = quit[t]
                                  /\ saw'[t] = saw[t] /\ lapped'[t] = lapped[t]
  <2>1. /\ wd' = [wd EXCEPT ![s] = wd'[s]] /\ at' = [at EXCEPT ![s] = at'[s]]
        /\ quit' = [quit EXCEPT ![s] = quit'[s]]
        /\ saw' = [saw EXCEPT ![s] = saw'[s]] /\ lapped' = [lapped EXCEPT ![s] = lapped'[s]]
    BY DEF CloseOnly, CloseWritten
  <2> QED
    BY <1>1, <2>1
<1>3. \A t \in Windows \ {s} : at[t] = "idle"
  BY DEF CloseOnly
<1>4. wpos' \in Nat /\ rpos' \in Nat /\ rpos' <= wpos' /\ wpos' - rpos' <= InputCap /\ wpos <= wpos'
  <2>1. wpos \in Nat /\ rpos \in Nat /\ rpos <= wpos /\ wpos - rpos <= InputCap /\ InputCap \in Nat
    BY ObjectsAssumption DEF CloseInv, CloseTypes
  <2>2. rpos' = rpos /\ (wpos' = wpos \/ wpos' = wpos + 1)
    BY DEF CloseOnly
  <2>3. wpos' = wpos + 1 => wpos - rpos < InputCap
    BY CloseRoomExact DEF CloseInv
  <2> QED
    BY ONLY <2>1, <2>2, <2>3
<1>5. CloseTypes'
  <2>1. \A t \in Windows : /\ wd'[t] \in CloseWatchdogs /\ at'[t] \in CloseSteps
                           /\ saw'[t] \in BOOLEAN /\ lapped'[t] \in BOOLEAN
    BY <1>2 DEF CloseInv, CloseTypes
  <2>2. \A t \in Windows : quit'[t] \in Nat /\ quit'[t] <= wpos'
    BY <1>2, <1>4 DEF CloseInv, CloseTypes
  <2>3. /\ wd' = [t \in Windows |-> wd'[t]] /\ at' = [t \in Windows |-> at'[t]]
        /\ quit' = [t \in Windows |-> quit'[t]]
        /\ saw' = [t \in Windows |-> saw'[t]] /\ lapped' = [t \in Windows |-> lapped'[t]]
    <3>1. /\ wd' = [wd EXCEPT ![s] = wd'[s]] /\ at' = [at EXCEPT ![s] = at'[s]]
          /\ quit' = [quit EXCEPT ![s] = quit'[s]]
          /\ saw' = [saw EXCEPT ![s] = saw'[s]] /\ lapped' = [lapped EXCEPT ![s] = lapped'[s]]
      BY DEF CloseOnly, CloseWritten
    <3> QED
      BY <1>1, <3>1
  <2>4. /\ wd' \in [Windows -> CloseWatchdogs] /\ at' \in [Windows -> CloseSteps]
        /\ quit' \in [Windows -> Nat]
        /\ saw' \in [Windows -> BOOLEAN] /\ lapped' \in [Windows -> BOOLEAN]
    BY <2>1, <2>2, <2>3
  <2>5. proc' \in {"running", "stopped", "dead"} /\ open' \subseteq Windows
    BY DEF CloseInv, CloseTypes, CloseOnly
  <2> QED
    BY <1>4, <2>2, <2>4, <2>5 DEF CloseTypes
<1>6. CloseOneTurn'
  BY <1>2, <1>3 DEF CloseOneTurn
<1>7. ASSUME NEW t \in Windows \ {s} PROVE CloseAt(t)' /\ CloseExact(t)'
  <2>1. CloseAt(t)'
    BY <1>2, <1>3 DEF CloseInv, CloseAt, CloseOnly
  <2>2. CloseExact(t)'
    BY <1>2, <1>3 DEF CloseInv, CloseExact, CloseOnly
  <2> QED
    BY <2>1, <2>2
<1> QED
  BY <1>5, <1>6, <1>7 DEF CloseInv

\* The watchdog is dropped.
LEMMA CloseOffInv ==
  ASSUME CloseInv, NEW s \in Windows, CloseOnly(s), UNCHANGED <<wpos, quit, saw, lapped>>,
         wd' = [wd EXCEPT ![s] = C!Off], at'[s] = "idle", wrong' = FALSE
  PROVE  CloseInv'
<1>1. wd'[s] = C!Off
  BY DEF CloseInv, CloseTypes
<1>2. CloseAt(s)' /\ CloseExact(s)'
  BY <1>1, CloseOffType DEF CloseAt, CloseExact
<1>3. /\ quit'[s] \in 0..wpos' /\ saw'[s] \in BOOLEAN /\ lapped'[s] \in BOOLEAN
      /\ at'[s] \in CloseSteps /\ wpos' # wpos + 1
  BY DEF CloseInv, CloseTypes, CloseSteps
<1> QED
  BY <1>1, <1>2, <1>3, CloseOffType, CloseOnlyInv

\* A QUIT is pushed: the watchdog has no place for it yet.
LEMMA CloseDeliverInv ==
  ASSUME CloseInv, NEW s \in Windows, CloseOnly(s), NEW step \in {"track", "retry"},
         C!Room, C!Deliver(s, step), UNCHANGED <<open, saw, lapped>>, s \in open,
         wd'[s] \in CloseWatchdogs, wd'[s].on, ~wd'[s].delivered, wrong' = FALSE
  PROVE  CloseInv'
<1>1. wpos' = wpos + 1 /\ at'[s] = step /\ quit'[s] = wpos + 1 /\ wpos \in Nat
  BY DEF C!Deliver, C!Goto, CloseInv, CloseTypes
<1>2. CloseAt(s)' /\ CloseExact(s)'
  BY <1>1 DEF CloseAt, CloseExact
<1>3. /\ quit'[s] \in 0..wpos' /\ saw'[s] \in BOOLEAN /\ lapped'[s] \in BOOLEAN
      /\ at'[s] \in CloseSteps
  BY <1>1 DEF CloseInv, CloseTypes, CloseSteps
<1> QED
  BY <1>2, <1>3, CloseOnlyInv

LEMMA CloseAskInv ==
  ASSUME CloseInv, NEW s \in Windows, C!Ask(s), \A t \in Windows : t # s => at[t] = "idle",
         UNCHANGED <<rpos, proc, open, saw, lapped>>, s \in open, wrong' = FALSE
  PROVE  CloseInv'
<1>1. wd' = [wd EXCEPT ![s] = C!Armed] /\ wd'[s] = C!Armed
  BY DEF C!Ask, CloseInv, CloseTypes
<1>3. CASE C!Room
  <2>1. C!Deliver(s, "track")
    BY <1>3 DEF C!Ask
  <2>2. CloseOnly(s)
    <3>1. CloseWritten(s)
      BY <1>1, <2>1 DEF CloseWritten, CloseInv, CloseTypes, C!Deliver, C!Goto
    <3> QED
      BY <3>1, <2>1, Zenon DEF CloseOnly, C!Deliver
  <2> QED
    BY <1>1, <1>3, <2>1, <2>2, CloseArmedType, CloseDeliverInv
<1>4. CASE ~C!Room
  <2>1. quit' = [quit EXCEPT ![s] = 0] /\ at' = [at EXCEPT ![s] = "idle"] /\ wpos' = wpos
    BY <1>4 DEF C!Ask, C!Goto
  <2>2. CloseOnly(s)
    <3>1. CloseWritten(s)
      BY <1>1, <2>1 DEF CloseWritten, CloseInv, CloseTypes
    <3> QED
      BY <3>1, <2>1, Zenon DEF CloseOnly
  <2>3. quit'[s] = 0 /\ at'[s] = "idle" /\ wpos \in Nat
    BY <2>1 DEF CloseInv, CloseTypes
  <2>4. CloseAt(s)' /\ CloseExact(s)'
    BY <1>1, <2>3, CloseArmedType DEF CloseAt, CloseExact
  <2>5. /\ quit'[s] \in 0..wpos' /\ saw'[s] \in BOOLEAN /\ lapped'[s] \in BOOLEAN
        /\ at'[s] \in CloseSteps /\ wpos' # wpos + 1
    BY <2>1, <2>3 DEF CloseInv, CloseTypes, CloseSteps
  <2> QED
    BY <1>1, <2>2, <2>4, <2>5, CloseArmedType, CloseOnlyInv
<1> QED
  BY <1>3, <1>4

\* Only the step of a turn changes, up to where a look is.
LEMMA CloseGotoInv ==
  ASSUME CloseInv, NEW s \in Windows, NEW step \in {"click", "poll"}, C!Goto(s, step),
         \A t \in Windows : at[t] = "idle", wd[s].on,
         UNCHANGED <<wpos, rpos, proc, open, wd, quit, saw, lapped, wrong>>
  PROVE  CloseInv'
<1>1. at' = [at EXCEPT ![s] = step] /\ at'[s] = step
  BY DEF C!Goto, CloseInv, CloseTypes
<1>2. CloseWritten(s)
  BY <1>1 DEF CloseWritten, CloseInv, CloseTypes
<1>3. CloseOnly(s)
  BY <1>1, <1>2, Zenon DEF CloseOnly
<1>4. CloseAt(s)' /\ CloseExact(s)'
  BY <1>1 DEF CloseInv, CloseAt, CloseExact
<1>5. /\ wd'[s] \in CloseWatchdogs /\ quit'[s] \in 0..wpos' /\ saw'[s] \in BOOLEAN
      /\ lapped'[s] \in BOOLEAN /\ at'[s] \in CloseSteps /\ wpos' # wpos + 1 /\ wrong' = FALSE
  BY <1>1 DEF CloseInv, CloseTypes, CloseSteps
<1> QED
  BY <1>3, <1>4, <1>5, CloseOnlyInv

LEMMA CloseRequestInv == ASSUME CloseInv, NEW s \in Windows, C!Request(s) PROVE CloseInv'
<1>1. /\ \A t \in Windows : at[t] = "idle"
      /\ s \in open /\ UNCHANGED <<rpos, proc, open, saw, lapped, wrong>> /\ wrong' = FALSE
  BY DEF C!Request, C!Idle, CloseInv
<1>2. CASE ~wd[s].on /\ C!Ask(s)
  BY <1>1, <1>2, CloseAskInv
<1>3. CASE wd[s].on /\ C!Goto(s, "click") /\ UNCHANGED <<wpos, wd, quit>>
  BY <1>1, <1>3, CloseGotoInv
<1> QED
  BY <1>2, <1>3 DEF C!Request

\* A step of a turn is about its surface.
LEMMA CloseTurnOf ==
  ASSUME CloseInv, NEW s \in Windows, at[s] # "idle"
  PROVE  (\A t \in Windows : t # s => at[t] = "idle") /\ wd[s].on /\ s \in open
  BY DEF CloseInv, CloseOneTurn, CloseAt

\* The look that follows a push: the QUIT is the last record.
LEMMA CloseTrackInv == ASSUME CloseInv, NEW s \in Windows, C!Track(s) PROVE CloseInv'
<1> DEFINE step == IF at[s] = "track" THEN "idle" ELSE "poll"
           w == [on |-> TRUE, delivered |-> TRUE, need |-> wpos - rpos, last |-> rpos, left |-> wd[s].left]
<1>1. /\ at[s] \in {"track", "retry"} /\ at' = [at EXCEPT ![s] = step]
      /\ lapped' = [lapped EXCEPT ![s] = FALSE]
      /\ UNCHANGED <<wpos, rpos, proc, open, quit, saw, wrong>>
      /\ wd' = [wd EXCEPT ![s].delivered = TRUE, ![s].last = rpos, ![s].need = C!Ahead(wpos, rpos)]
  BY DEF C!Track, C!Tracked, C!Goto
<1>2. /\ wd[s] \in CloseWatchdogs /\ wpos \in Nat /\ rpos \in Nat /\ rpos <= wpos /\ wpos - rpos <= InputCap
      /\ DOMAIN wd = Windows /\ C!Ahead(wpos, rpos) = wpos - rpos
  BY CloseRoomExact DEF CloseInv, CloseTypes
<1>3. wd[s].on /\ (\A t \in Windows : t # s => at[t] = "idle") /\ quit[s] = wpos /\ wpos > 0 /\ s \in open
  BY <1>1, CloseTurnOf DEF CloseInv, CloseAt
<1>4. wd' = [wd EXCEPT ![s] = w]
  <2>1. PICK v : v = [wd[s] EXCEPT !.delivered = TRUE, !.last = rpos, !.need = wpos - rpos]
    OBVIOUS
  <2>2. v = w
    <3>1. wd[s].on = TRUE
      BY <1>2, <1>3 DEF CloseWatchdogs
    <3> HIDE DEF step
    <3>2. v = [on |-> wd[s].on, delivered |-> TRUE, need |-> wpos - rpos, last |-> rpos, left |-> wd[s].left]
      BY <1>2, <2>1, CloseTracked
    <3> QED
      BY <3>1, <3>2
  <2>3. wd' = [wd EXCEPT ![s] = [wd[s] EXCEPT !.delivered = TRUE, !.last = rpos, !.need = wpos - rpos]]
    BY <1>1, <1>2
  <2> QED
    BY <2>1, <2>2, <2>3
<1>5. w \in CloseWatchdogs
  <2>1. wd[s].left \in 0..CloseGrace /\ wpos - rpos \in {n \in Int : n <= InputCap}
    BY <1>2 DEF CloseWatchdogs
  <2> QED
    BY <1>2, <2>1, Zenon DEF CloseWatchdogs
<1>6. wd'[s] = w /\ at'[s] = step /\ lapped'[s] = FALSE
  BY <1>1, <1>2, <1>4 DEF CloseInv, CloseTypes
<1>7. CloseOnly(s)
  <2>1. CloseWritten(s)
    <3> HIDE DEF w, step
    <3> QED
      BY <1>1, <1>4 DEF CloseWritten, CloseInv, CloseTypes
  <2> QED
    BY <1>1, <1>3, <1>4, <2>1, Zenon DEF CloseOnly
<1>8. w.on /\ w.delivered /\ w.need = wpos - rpos /\ w.last = rpos
  OBVIOUS
<1> HIDE DEF w
<1>9. CloseAt(s)'
  BY <1>1, <1>3, <1>6, <1>8 DEF CloseAt
<1>10. CloseExact(s)'
  BY <1>1, <1>2, <1>3, <1>6, <1>8 DEF CloseExact
<1>11. /\ quit'[s] \in 0..wpos' /\ saw'[s] \in BOOLEAN
       /\ at'[s] \in CloseSteps /\ wpos' # wpos + 1 /\ wrong' = FALSE
  BY <1>1, <1>2, <1>6 DEF CloseInv, CloseTypes, CloseSteps
<1> QED
  BY <1>5, <1>6, <1>7, <1>9, <1>10, <1>11, CloseOnlyInv

\* What a look at a delivered QUIT computes.
LEMMA CloseCount ==
  ASSUME CloseInv, NEW s \in Windows, wd[s].on, wd[s].delivered, NEW w, w = C!Count(wd[s]),
         NEW l, l = (lapped[s] \/ C!Laps(wd[s]))
  PROVE  /\ w \in CloseWatchdogs /\ w.on /\ w.delivered /\ w.last = rpos /\ w.need >= quit[s] - rpos
         /\ w.need > 0 /\ ~l => w.need = quit[s] - rpos
         /\ C!Done(w) => C!Consumed(s)
         /\ C!Consumed(s) /\ ~C!Done(w) => l
<1>1. /\ wd[s] \in CloseWatchdogs /\ quit[s] \in Nat /\ quit[s] <= wpos /\ rpos \in Nat /\ wpos \in Nat
      /\ lapped[s] \in BOOLEAN
  BY DEF CloseInv, CloseTypes
<1>2. /\ quit[s] > 0 /\ wd[s].last <= rpos /\ wd[s].need >= quit[s] - wd[s].last
      /\ wd[s].need > 0 /\ ~lapped[s] => wd[s].need = quit[s] - wd[s].last
  BY DEF CloseInv, CloseExact
<1>3. PICK q, k, m : q = quit[s] /\ k = wd[s].need /\ m = wd[s].last
  OBVIOUS
<1>4. /\ q \in Nat /\ k \in Int /\ m \in Nat /\ rpos \in Nat /\ k <= InputCap /\ m <= rpos
      /\ k >= q - m /\ (k > 0 /\ ~lapped[s] => k = q - m)
  BY <1>1, <1>2, <1>3 DEF CloseWatchdogs
<1>5. PICK d : d = C!Ahead(rpos, m)
  OBVIOUS
<1>6. d \in Nat /\ d <= rpos - m /\ (rpos - m < CloseTurn => d = rpos - m)
  BY <1>4, <1>5, CloseAheadIs
<1>7. PICK n : n = IF rpos = wpos THEN 0 ELSE k - d
  OBVIOUS
<1>8. n \in Int /\ n <= InputCap /\ n >= q - rpos
  <2>1. InputCap \in Nat /\ wpos \in Nat /\ q <= wpos
    BY <1>1, <1>3, ObjectsAssumption
  <2> QED
    BY ONLY <1>4, <1>6, <1>7, <2>1
<1>9. l \in BOOLEAN /\ (~l => ~lapped[s] /\ (rpos = wpos \/ rpos - m < CloseTurn))
  <2>1. rpos - m \in Int /\ CloseTurn \in Int
    BY <1>4, ObjectsAssumption DEF CloseTurn
  <2>2. C!Laps(wd[s]) <=> rpos # wpos /\ rpos - m >= CloseTurn
    BY <1>3 DEF C!Laps, CloseTurn
  <2>3. rpos - m >= CloseTurn \/ rpos - m < CloseTurn
    BY <2>1
  <2> QED
    BY <1>1, <2>2, <2>3, Zenon
<1>10. n > 0 /\ ~l => n = q - rpos
  <2> SUFFICES ASSUME n > 0, ~l PROVE n = q - rpos
    OBVIOUS
  <2>1. rpos # wpos
    BY <1>7
  <2>2. n = k - d /\ d = rpos - m
    BY <1>6, <1>7, <1>9, <2>1
  <2>3. k > 0
    BY ONLY <1>4, <1>6, <2>2, n > 0
  <2>4. k = q - m
    BY <1>4, <1>9, <2>3
  <2> QED
    BY ONLY <1>4, <2>2, <2>4
<1>11. w = [on |-> TRUE, delivered |-> TRUE, need |-> n, last |-> rpos, left |-> wd[s].left]
  <2>1. w = [wd[s] EXCEPT !.need = n, !.last = rpos]
    BY <1>1, <1>3, <1>5, <1>7 DEF C!Count, CloseWatchdogs
  <2>2. wd[s] = [on |-> TRUE, delivered |-> TRUE, need |-> wd[s].need,
                 last |-> wd[s].last, left |-> wd[s].left]
    BY <1>1 DEF CloseWatchdogs
  <2> QED
    BY <2>1, <2>2
<1>12. w.on /\ w.delivered /\ w.need = n /\ w.last = rpos
  BY <1>11
<1>13. w \in CloseWatchdogs
  <2>1. n \in {i \in Int : i <= InputCap}
    BY <1>8
  <2>2. rpos \in Nat /\ wd[s].left \in 0..CloseGrace
    BY <1>1 DEF CloseWatchdogs
  <2> QED
    <3>1. [on |-> TRUE, delivered |-> TRUE, need |-> n, last |-> rpos, left |-> wd[s].left] \in CloseWatchdogs
      BY <2>1, <2>2, Zenon DEF CloseWatchdogs
    <3> QED
      BY <1>11, <3>1
<1>14. C!Done(w) <=> n <= 0
  BY <1>12 DEF C!Done
<1>15. C!Consumed(s) <=> rpos >= q
  BY <1>1, <1>2, <1>3 DEF C!Consumed
<1>16. n <= 0 => rpos >= q
  BY ONLY <1>4, <1>8
<1>17. rpos >= q /\ n > 0 => l
  <2>1. n > 0 /\ ~l => rpos < q
    BY ONLY <1>4, <1>8, <1>10
  <2> QED
    BY <1>4, <2>1
<1>18. ~(n <= 0) => n > 0
  BY <1>8
<1> QED
  BY <1>3, <1>8, <1>10, <1>12, <1>13, <1>14, <1>15, <1>16, <1>17, <1>18, Zenon

LEMMA CloseLookInv == ASSUME CloseInv, NEW s \in Windows, C!Look(s) PROVE CloseInv'
<1> DEFINE step == IF at[s] = "click" THEN "clicked" ELSE "polled"
<1>1. PICK w, l : w = C!Looked(wd[s]) /\ l = (lapped[s] \/ C!Laps(wd[s]))
  OBVIOUS
<1>2. /\ at[s] \in {"click", "poll"} /\ at' = [at EXCEPT ![s] = step]
      /\ wd' = [wd EXCEPT ![s] = w] /\ saw' = [saw EXCEPT ![s] = C!Consumed(s)]
      /\ lapped' = [lapped EXCEPT ![s] = l]
      /\ UNCHANGED <<wpos, rpos, proc, open, quit, wrong>>
  BY <1>1 DEF C!Look, C!Goto, CloseInv, CloseTypes
<1>3. wd[s].on /\ (\A t \in Windows : t # s => at[t] = "idle") /\ s \in open
  BY <1>2, CloseTurnOf
<1>4. /\ wd'[s] = w /\ at'[s] = step /\ saw'[s] = C!Consumed(s) /\ lapped'[s] = l
      /\ wd[s] \in CloseWatchdogs /\ quit[s] \in Nat /\ lapped[s] \in BOOLEAN
  BY <1>2 DEF CloseInv, CloseTypes
<1>5. CloseOnly(s)
  <2>1. CloseWritten(s)
    BY <1>2 DEF CloseWritten, CloseInv, CloseTypes
  <2> QED
    BY <1>2, <1>3, <2>1, Zenon DEF CloseOnly
<1>6. /\ w \in CloseWatchdogs /\ w.on
      /\ C!Done(w) => C!Consumed(s)
      /\ C!Consumed(s) /\ ~C!Done(w) => l
      /\ w.delivered = wd[s].delivered
      /\ wd[s].delivered => /\ w.last = rpos /\ w.need >= quit[s] - rpos
                            /\ w.need > 0 /\ ~l => w.need = quit[s] - rpos
  <2>1. CASE wd[s].delivered
    <3>1. w = C!Count(wd[s])
      BY <1>1, <2>1 DEF C!Looked
    <3> QED
      BY <1>1, <1>3, <2>1, <3>1, CloseCount
  <2>2. CASE ~wd[s].delivered
    <3>1. w = wd[s] /\ ~C!Done(w)
      BY <1>1, <2>2 DEF C!Looked, C!Done
    <3>2. quit[s] = 0
      BY <1>2, <1>3, <2>2 DEF CloseInv, CloseExact
    <3>3. ~C!Consumed(s)
      BY <3>2 DEF C!Consumed
    <3> QED
      BY <1>3, <1>4, <2>2, <3>1, <3>3
  <2> QED
    BY <2>1, <2>2
<1>7. C!Done(wd[s])' <=> C!Done(w)
  BY <1>4 DEF C!Done
<1>8. CloseAt(s)'
  BY <1>2, <1>3, <1>4, <1>6, <1>7 DEF CloseAt
<1>9. CloseExact(s)'
  <2>1. CASE wd[s].delivered
    <3>1. quit[s] > 0 /\ rpos \in Nat
      BY <1>3, <2>1 DEF CloseInv, CloseTypes, CloseExact
    <3>2. wd'[s].delivered /\ quit'[s] = quit[s] /\ rpos' = rpos
      BY <1>2, <1>4, <1>6, <2>1
    <3>3. rpos <= rpos
      BY <3>1
    <3> QED
      BY <1>4, <1>6, <2>1, <3>1, <3>2, <3>3, Zenon DEF CloseExact
  <2>2. CASE ~wd[s].delivered
    <3>1. quit[s] = 0
      BY <1>2, <1>3, <2>2 DEF CloseInv, CloseExact
    <3> QED
      BY <1>2, <1>4, <1>6, <2>2, <3>1, Zenon DEF CloseExact
  <2> QED
    BY <2>1, <2>2
<1>10. l \in BOOLEAN /\ C!Consumed(s) \in BOOLEAN
  BY <1>1, <1>4 DEF C!Laps, C!Consumed
<1>11. /\ quit'[s] \in 0..wpos' /\ at'[s] \in CloseSteps /\ wpos' # wpos + 1 /\ wrong' = FALSE
  BY <1>2, <1>4 DEF CloseInv, CloseTypes, CloseSteps
<1> QED
  BY <1>4, <1>5, <1>6, <1>8, <1>9, <1>10, <1>11, CloseOnlyInv

\* The verdict of a look that found the QUIT read, or not.
LEMMA CloseVerdict ==
  ASSUME CloseInv, NEW s \in Windows, at[s] \in {"clicked", "polled"}
  PROVE  /\ C!Done(wd[s]) => (wrong \/ ~saw[s]) = FALSE
         /\ ~C!Done(wd[s]) => (wrong \/ (saw[s] /\ ~lapped[s])) = FALSE
<1>1. (C!Done(wd[s]) => saw[s]) /\ (saw[s] /\ ~C!Done(wd[s]) => lapped[s]) /\ wrong = FALSE
  BY DEF CloseInv, CloseAt
<1>2. saw[s] \in BOOLEAN /\ lapped[s] \in BOOLEAN
  BY DEF CloseInv, CloseTypes
<1> QED
  BY <1>1, <1>2

\* A turn ends without its watchdog.
LEMMA CloseDropInv ==
  ASSUME CloseInv, NEW s \in Windows, at' = [at EXCEPT ![s] = "idle"],
         \A t \in Windows : t # s => at[t] = "idle", proc' \in {proc, "dead"},
         open \ {s} \subseteq open', open' \subseteq open,
         UNCHANGED <<wpos, rpos, quit, saw, lapped>>,
         wd' = [wd EXCEPT ![s] = C!Off], wrong' = FALSE
  PROVE  CloseInv'
<1>1. CloseWritten(s)
  BY DEF CloseWritten, CloseInv, CloseTypes
<1>2. CloseOnly(s)
  BY <1>1, Zenon DEF CloseOnly
<1>3. at'[s] = "idle"
  BY DEF CloseInv, CloseTypes
<1> QED
  BY <1>2, <1>3, CloseOffInv

LEMMA CloseClickInv == ASSUME CloseInv, NEW s \in Windows, C!Click(s) PROVE CloseInv'
<1>1. at[s] = "clicked" /\ UNCHANGED <<rpos, open, saw, lapped>>
  BY DEF C!Click
<1>2. wd[s].on /\ (\A t \in Windows : t # s => at[t] = "idle") /\ s \in open
  BY <1>1, CloseTurnOf
<1>3. CASE C!Done(wd[s]) /\ C!Ask(s) /\ wrong' = (wrong \/ ~saw[s]) /\ UNCHANGED proc
  BY <1>1, <1>2, <1>3, CloseVerdict, CloseAskInv
<1>4. CASE ~C!Done(wd[s]) /\ C!ForceQuit(s) /\ C!Goto(s, "idle") /\ UNCHANGED <<wpos, quit>>
  BY <1>1, <1>2, <1>4, CloseVerdict, CloseDropInv DEF C!ForceQuit, C!Goto
<1> QED
  BY <1>3, <1>4 DEF C!Click

LEMMA CloseJudgeInv == ASSUME CloseInv, NEW s \in Windows, C!Judge(s) PROVE CloseInv'
<1>1. /\ at[s] = "polled" /\ at' = [at EXCEPT ![s] = "idle"]
      /\ UNCHANGED <<wpos, rpos, open, quit, saw, lapped>>
  BY DEF C!Judge, C!Goto
<1>2. wd[s].on /\ (\A t \in Windows : t # s => at[t] = "idle") /\ s \in open
  BY <1>1, CloseTurnOf
<1>3. CASE C!Done(wd[s]) /\ wd' = [wd EXCEPT ![s] = C!Off] /\ wrong' = (wrong \/ ~saw[s]) /\ UNCHANGED proc
  BY <1>1, <1>2, <1>3, CloseVerdict, CloseDropInv
<1>4. CASE ~C!Done(wd[s]) /\ C!ForceQuit(s)
  BY <1>1, <1>2, <1>4, CloseVerdict, CloseDropInv DEF C!ForceQuit
<1>5. CASE wd[s].left > 0 /\ wd' = [wd EXCEPT ![s].left = @ - 1] /\ UNCHANGED <<proc, wrong>>
  <2> DEFINE w == [on |-> TRUE, delivered |-> wd[s].delivered, need |-> wd[s].need,
                   last |-> wd[s].last, left |-> wd[s].left - 1]
  <2>1. /\ wd[s] \in CloseWatchdogs /\ DOMAIN wd = Windows /\ at'[s] = "idle"
        /\ wd[s].left \in 0..CloseGrace /\ wd[s].left - 1 \in 0..CloseGrace
    BY <1>1, <1>5, ObjectsAssumption DEF CloseInv, CloseTypes, CloseWatchdogs
  <2>2. wd' = [wd EXCEPT ![s] = w]
    <3>1. PICK v : v = [wd[s] EXCEPT !.left = @ - 1]
      OBVIOUS
    <3>2. v = w
      BY <1>2, <2>1, <3>1, CloseTicked
    <3> QED
      BY <1>5, <2>1, <3>1, <3>2
  <2>3. w \in CloseWatchdogs
    BY <2>1, Zenon DEF CloseWatchdogs
  <2>4. /\ wd'[s] = w /\ w.on /\ w.delivered = wd[s].delivered /\ w.need = wd[s].need
        /\ w.last = wd[s].last
    BY <2>1, <2>2
  <2> HIDE DEF w
  <2>5. CloseOnly(s)
    <3>1. CloseWritten(s)
      BY <1>1, <2>2 DEF CloseWritten, CloseInv, CloseTypes
    <3> QED
      BY <1>1, <1>2, <1>5, <2>2, <3>1, Zenon DEF CloseOnly
  <2>6. CloseAt(s)'
    BY <1>1, <1>2, <2>1, <2>4 DEF CloseAt
  <2>7. CloseExact(s)'
    BY <1>1, <1>2, <2>1, <2>4 DEF CloseInv, CloseExact
  <2>8. /\ quit'[s] \in 0..wpos' /\ saw'[s] \in BOOLEAN /\ lapped'[s] \in BOOLEAN
        /\ at'[s] \in CloseSteps /\ wpos' # wpos + 1 /\ wrong' = FALSE
    BY <1>1, <1>5, <2>1 DEF CloseInv, CloseTypes, CloseSteps
  <2> QED
    BY <2>3, <2>4, <2>5, <2>6, <2>7, <2>8, CloseOnlyInv
<1> QED
  BY <1>3, <1>4, <1>5 DEF C!Judge

LEMMA ClosePollInv == ASSUME CloseInv, NEW s \in Windows, C!Poll(s) PROVE CloseInv'
<1>1. /\ \A t \in Windows : at[t] = "idle"
      /\ wd[s].on /\ s \in open /\ UNCHANGED <<rpos, proc, open, saw, lapped, wrong>> /\ wrong' = FALSE
  BY DEF C!Poll, C!Idle, CloseInv, CloseAt
<1>2. CASE wd' = [wd EXCEPT ![s] = C!Off] /\ UNCHANGED <<wpos, at, quit>>
  <2>1. at' = [at EXCEPT ![s] = "idle"]
    BY <1>1, <1>2 DEF CloseInv, CloseTypes
  <2> QED
    BY <1>1, <1>2, <2>1, CloseDropInv
<1>3. CASE ~wd[s].delivered /\ C!CanPush /\ C!Deliver(s, "retry") /\ UNCHANGED wd
  <2>1. CloseWritten(s) /\ wd'[s] \in CloseWatchdogs
    BY <1>1, <1>3 DEF CloseWritten, CloseInv, CloseTypes, C!Deliver, C!Goto
  <2>2. CloseOnly(s)
    BY <1>1, <1>3, <2>1, Zenon DEF CloseOnly, C!Deliver
  <2> QED
    BY <1>1, <1>3, <2>1, <2>2, CloseDeliverInv DEF C!CanPush
<1>4. CASE C!Goto(s, "poll") /\ UNCHANGED <<wpos, quit, wd>>
  BY <1>1, <1>4, CloseGotoInv
<1> QED
  BY <1>2, <1>3, <1>4 DEF C!Poll

LEMMA CloseDestroyInv == ASSUME CloseInv, NEW s \in Windows, C!Destroy(s) PROVE CloseInv'
<1>1. /\ \A t \in Windows : at[t] = "idle"
      /\ open' = open \ {s} /\ wd' = [wd EXCEPT ![s] = C!Off]
      /\ UNCHANGED <<wpos, rpos, proc, at, quit, saw, lapped, wrong>>
  BY DEF C!Destroy, C!Idle
<1>2. at' = [at EXCEPT ![s] = "idle"]
  BY <1>1 DEF CloseInv, CloseTypes
<1> QED
  BY <1>1, <1>2, CloseDropInv DEF CloseInv

LEMMA CloseStepInv == ASSUME CloseInv, C!Next PROVE CloseInv'
  BY CloseReadInv, CloseQuietInv, CloseRequestInv, CloseTrackInv, CloseLookInv, CloseClickInv,
     ClosePollInv, CloseJudgeInv, CloseDestroyInv DEF C!Next

LEMMA CloseStillInv ==
  ASSUME CloseInv, UNCHANGED <<wpos, rpos, proc, open, wd, at, quit, saw, lapped, wrong>>
  PROVE  CloseInv'
  BY DEF CloseInv, CloseTypes, CloseOneTurn, CloseAt, CloseExact, C!Done

LEMMA CloseTypesAre == ASSUME CloseInv PROVE C!TypeOK
<1>1. /\ rpos \in 0..wpos /\ wpos - rpos \in 0..InputCap /\ \A s \in Windows : quit[s] \in 0..wpos
  BY ObjectsAssumption DEF CloseInv, CloseTypes
<1>2. \A s \in Windows : /\ wd[s].on => s \in open
                         /\ at[s] # "idle" => wd[s].on
                         /\ wd[s].left \in 0..CloseGrace /\ wd[s].need <= InputCap
  BY DEF CloseInv, CloseTypes, CloseAt, CloseWatchdogs
<1> QED
  BY <1>1, <1>2 DEF CloseInv, CloseTypes, CloseOneTurn, CloseSteps, C!TypeOK

-----------------------------------------------------------------------------
(* File watches, of either kind (o names the object)                         *)

WatchModes(o) == {"off", "parked", "awake", "act", "acted"}
WatchHands(o) == [file : W(o)!Files \cup {W(o)!None}, path : W(o)!Names, dirty : BOOLEAN]

WatchFileType(o) ==
  /\ entry \in [W(o)!Names -> W(o)!Files \cup {W(o)!None}]
  /\ version \in [W(o)!Files -> 0..MaxVersion]
  /\ made \in W(o)!Files /\ ops \in 0..MaxOps /\ astray \subseteq W(o)!Names
  /\ hand \in [WritersOn(o) -> WatchHands(o)]

\* Of a queue, with its latch.
WatchQueue(o, q, l) ==
  /\ q \in Seq(W(o)!Records) /\ Len(q) <= QueueCap
  /\ l \in BOOLEAN /\ (l => q = <<>>)

WatchQueueType(o) ==
  /\ DOMAIN queue = WatchesOn(o) /\ over \in [WatchesOn(o) -> BOOLEAN]
  /\ \A w \in WatchesOn(o) : WatchQueue(o, queue[w], over[w])
  /\ mode \in [WatchesOn(o) -> WatchModes(o)]

WatchKnownType(o) == known \in [WatchesOn(o) -> [W(o)!Names -> W(o)!Contents]]

\* A name has its own file.
WatchNames(o) ==
  /\ \A n \in W(o)!Names : entry[n] <= made
  /\ \A n, m \in W(o)!Names : entry[n] = entry[m] /\ entry[n] # W(o)!None => n = m
  /\ \A h \in WritersOn(o) : hand[h].file <= made
  /\ \A h \in WritersOn(o) : hand[h].file = W(o)!None => hand[h] = W(o)!Closed

WatchCurrent(o, w) == \A n \in W(o)!Scope(w) : ~W(o)!Unsettled(n) => known[w][n] = W(o)!Look(n)

\* A consumer that has read, with nothing queued since, is current.
WatchSeen(o) ==
  \A w \in WatchesOn(o) :
    /\ mode[w] \in {"off", "parked"} => ~W(o)!Readable(w)
    /\ mode[w] \in {"acted", "parked"} /\ ~W(o)!Readable(w) => WatchCurrent(o, w)

WatchInv(o) == WatchFileType(o) /\ WatchQueueType(o) /\ WatchKnownType(o) /\ WatchNames(o) /\ WatchSeen(o)

-----------------------------------------------------------------------------
(* Queueing                                                                 *)

\* What one mutation may tell a watch: nothing, or a record of a known type.
WatchNews(o) == {<<>>} \cup
  ((W(o)!Mask \cup {"modify"}) \X ({<<>>} \cup {<<n>> : n \in W(o)!Names} \cup {<<n, m>> : n, m \in W(o)!Names}))

LEMMA WatchAdd ==
  ASSUME NEW o, NEW q, NEW l, WatchQueue(o, q, l), NEW rec \in WatchNews(o), rec # <<>>,
         NEW r, r = W(o)!Add([q |-> q, over |-> l, woke |-> FALSE], rec)
  PROVE  /\ WatchQueue(o, r.q, r.over) /\ r.woke \in BOOLEAN
         /\ rec[1] \in W(o)!Mask => r.over \/ r.q # <<>>
         /\ l \/ q # <<>> => r.over \/ r.q # <<>>
         /\ ~(l \/ q # <<>>) => (r.woke <=> (r.over \/ r.q # <<>>))
<1> DEFINE s == [q |-> q, over |-> l, woke |-> FALSE]
<1>0. s.q = q /\ s.over = l /\ s.woke = FALSE
  OBVIOUS
<1>1. rec[1] \in W(o)!Mask => rec \in W(o)!Records
  BY DEF WatchNews, W!Records
<1>2. q \in Seq(W(o)!Records) /\ Len(q) \in Nat /\ Len(q) <= QueueCap /\ (q = <<>> <=> Len(q) = 0) /\ l \in BOOLEAN
  BY DEF WatchQueue
<1>3. CASE rec[1] \notin W(o)!Mask \/ s.over \/ (s.q # <<>> /\ s.q[Len(s.q)] = rec)
  <2>1. r = s
    BY <1>3 DEF W!Add
  <2> QED
    BY <1>0, <1>3, <2>1
<1>4. CASE ~(rec[1] \notin W(o)!Mask \/ s.over \/ (s.q # <<>> /\ s.q[Len(s.q)] = rec)) /\ Len(q) >= QueueCap
  <2>1. r = [q |-> <<>>, over |-> TRUE, woke |-> TRUE]
    BY <1>0, <1>4 DEF W!Add
  <2>2. WatchQueue(o, <<>>, TRUE)
    BY ObjectsAssumption DEF WatchQueue
  <2>3. r.q = <<>> /\ r.over = TRUE /\ r.woke = TRUE
    BY <2>1
  <2> QED
    BY <2>2, <2>3
<1>5. CASE ~(rec[1] \notin W(o)!Mask \/ s.over \/ (s.q # <<>> /\ s.q[Len(s.q)] = rec)) /\ ~(Len(q) >= QueueCap)
  <2>1. r = [s EXCEPT !.q = Append(@, rec), !.woke = TRUE]
    BY <1>0, <1>5 DEF W!Add
  <2>2. r.q = Append(q, rec) /\ r.over = FALSE /\ r.woke = TRUE
    BY <1>0, <1>2, <1>5, <2>1
  <2>3. Append(q, rec) \in Seq(W(o)!Records) /\ Len(Append(q, rec)) = Len(q) + 1
    BY <1>0, <1>1, <1>2, <1>5
  <2>4. Len(q) + 1 <= QueueCap /\ Append(q, rec) # <<>>
    <3>1. Len(q) \in Nat /\ QueueCap \in Nat /\ ~(Len(q) >= QueueCap)
      BY <1>2, <1>5, ObjectsAssumption
    <3>2. Len(Append(q, rec)) # Len(<<>>)
      BY <2>3, <3>1
    <3> QED
      BY ONLY <3>1, <3>2
  <2>5. WatchQueue(o, r.q, r.over) /\ r.q # <<>>
    BY <2>2, <2>3, <2>4 DEF WatchQueue
  <2> QED
    BY <2>2, <2>5
<1> QED
  BY <1>3, <1>4, <1>5

LEMMA WatchDeliver ==
  ASSUME NEW o, WatchQueueType(o), NEW recs \in [WatchesOn(o) -> WatchNews(o)], W(o)!Deliver(recs)
  PROVE  /\ WatchQueueType(o)' /\ known' = known
         /\ \A w \in WatchesOn(o) :
              /\ mode'[w] \in {"off", "acted"} => mode[w] = mode'[w]
              /\ mode'[w] = "parked" => mode[w] = "parked"
              /\ W(o)!Readable(w) => W(o)!Readable(w)'
              /\ mode[w] # "off" /\ recs[w] # <<>> /\ recs[w][1] \in W(o)!Mask => W(o)!Readable(w)'
              /\ mode[w] = "parked" /\ ~W(o)!Readable(w) /\ mode'[w] = "parked" => ~W(o)!Readable(w)'
              /\ mode[w] = "off" /\ ~W(o)!Readable(w) => ~W(o)!Readable(w)'
<1> DEFINE sent(w) == IF w \in W(o)!Live THEN recs[w] ELSE <<>>
           after == [w \in WatchesOn(o) |-> W(o)!After(w, sent(w))]
<1>1. /\ queue' = [w \in WatchesOn(o) |-> after[w].q]
      /\ over' = [w \in WatchesOn(o) |-> after[w].over]
      /\ W(o)!Wake([w \in WatchesOn(o) |-> after[w].woke])
      /\ known' = known
  BY DEF W!Deliver
<1>2. \A w \in WatchesOn(o) : /\ queue'[w] = W(o)!After(w, sent(w)).q
                         /\ over'[w] = W(o)!After(w, sent(w)).over
                         /\ mode'[w] = IF mode[w] = "parked" /\ W(o)!After(w, sent(w)).woke THEN "awake" ELSE mode[w]
  BY <1>1 DEF W!Wake
<1>4. ASSUME NEW w \in WatchesOn(o)
      PROVE  /\ WatchQueue(o, queue'[w], over'[w])
             /\ W(o)!After(w, sent(w)).woke \in BOOLEAN
             /\ sent(w) # <<>> /\ sent(w)[1] \in W(o)!Mask => W(o)!Readable(w)'
             /\ W(o)!Readable(w) => W(o)!Readable(w)'
             /\ ~W(o)!Readable(w) => (W(o)!After(w, sent(w)).woke <=> W(o)!Readable(w)')
  <2>1. sent(w) \in WatchNews(o)
    BY DEF WatchNews
  <2>2. WatchQueue(o, queue[w], over[w])
    BY DEF WatchQueueType
  <2>3. PICK rec : rec = sent(w)
    OBVIOUS
  <2>4. CASE rec = <<>>
    <3>1. W(o)!After(w, sent(w)) = [q |-> queue[w], over |-> over[w], woke |-> FALSE]
      BY <2>3, <2>4 DEF W!After
    <3>2. queue'[w] = queue[w] /\ over'[w] = over[w] /\ W(o)!After(w, sent(w)).woke = FALSE
      BY <1>2, <3>1
    <3>3. W(o)!Readable(w)' = W(o)!Readable(w)
      BY <3>2 DEF W!Readable
    <3> QED
      BY <2>2, <2>3, <2>4, <3>2, <3>3, Zenon DEF W!Readable
  <2>5. CASE rec # <<>>
    <3>1. W(o)!After(w, sent(w)) = W(o)!Add([q |-> queue[w], over |-> over[w], woke |-> FALSE], rec)
      BY <2>3, <2>5 DEF W!After
    <3>2. PICK r : r = W(o)!Add([q |-> queue[w], over |-> over[w], woke |-> FALSE], rec)
      OBVIOUS
    <3>3. /\ WatchQueue(o, r.q, r.over) /\ r.woke \in BOOLEAN
          /\ rec[1] \in W(o)!Mask => r.over \/ r.q # <<>>
          /\ over[w] \/ queue[w] # <<>> => r.over \/ r.q # <<>>
          /\ ~(over[w] \/ queue[w] # <<>>) => (r.woke <=> (r.over \/ r.q # <<>>))
      <4>1. rec \in WatchNews(o)
        BY <2>1, <2>3
      <4> HIDE DEF sent
      <4> QED
        BY <4>1, <2>2, <2>5, <3>2, WatchAdd
    <3>4. queue'[w] = r.q /\ over'[w] = r.over /\ W(o)!After(w, sent(w)).woke = r.woke
      BY <1>2, <3>1, <3>2
    <3>5. W(o)!Readable(w)' = (r.over \/ r.q # <<>>)
      BY <3>4, Zenon DEF W!Readable
    <3> HIDE DEF sent
    <3> QED
      BY <2>3, <3>3, <3>4, <3>5, Zenon DEF W!Readable
  <2> QED
    BY <2>4, <2>5
<1>5. mode' \in [WatchesOn(o) -> WatchModes(o)]
  BY <1>1, <1>4 DEF W!Wake, WatchQueueType, WatchModes
<1>6. ASSUME NEW w \in WatchesOn(o)
      PROVE /\ mode'[w] \in {"off", "acted"} => mode[w] = mode'[w]
            /\ mode'[w] = "parked" => mode[w] = "parked"
            /\ W(o)!Readable(w) => W(o)!Readable(w)'
            /\ mode[w] # "off" /\ recs[w] # <<>> /\ recs[w][1] \in W(o)!Mask => W(o)!Readable(w)'
            /\ mode[w] = "parked" /\ ~W(o)!Readable(w) /\ mode'[w] = "parked" => ~W(o)!Readable(w)'
            /\ mode[w] = "off" /\ ~W(o)!Readable(w) => ~W(o)!Readable(w)'
  <2>1. mode[w] # "off" => sent(w) = recs[w]
    BY DEF W!Live
  <2>2. mode[w] = "off" => W(o)!After(w, sent(w)).woke = FALSE
    BY DEF W!Live, W!After
  <2>3. W(o)!After(w, sent(w)).woke \in BOOLEAN /\ W(o)!Readable(w)' \in BOOLEAN
    BY <1>4 DEF W!Readable
  <2>4. PICK k \in BOOLEAN : k = W(o)!After(w, sent(w)).woke
    BY <2>3
  <2>5. mode'[w] = IF mode[w] = "parked" /\ k THEN "awake" ELSE mode[w]
    BY <1>2, <2>4
  <2>6. /\ sent(w) # <<>> /\ sent(w)[1] \in W(o)!Mask => W(o)!Readable(w)'
        /\ W(o)!Readable(w) => W(o)!Readable(w)'
        /\ ~W(o)!Readable(w) => (k <=> W(o)!Readable(w)')
    BY <1>4, <2>4
  <2> HIDE DEF sent
  <2>7. mode[w] = "off" => k = FALSE
    BY <2>2, <2>4
  <2> QED
    BY <2>1, <2>5, <2>6, <2>7, <2>3
<1>3. DOMAIN queue' = WatchesOn(o) /\ over' \in [WatchesOn(o) -> BOOLEAN]
  BY <1>1, <1>2, <1>4 DEF WatchQueue
<1>7. WatchQueueType(o)'
  BY <1>3, <1>4, <1>5 DEF WatchQueueType
<1> HIDE DEF sent, after
<1> QED
  BY <1>1, <1>6, <1>7, Zenon

-----------------------------------------------------------------------------
(* Mutations.  What each does to the files, then to whoever has seen them.  *)

\* A watch that is told of every change keeps its sleepers current.
LEMMA WatchTold ==
  ASSUME NEW o, WatchQueueType(o), WatchSeen(o), NEW recs \in [WatchesOn(o) -> WatchNews(o)], W(o)!Deliver(recs),
         \A w \in WatchesOn(o) :
            \/ recs[w] # <<>> /\ recs[w][1] \in W(o)!Mask
            \/ \A x \in W(o)!Scope(w) : ~W(o)!Unsettled(x)' => ~W(o)!Unsettled(x) /\ W(o)!Look(x)' = W(o)!Look(x)
  PROVE  WatchSeen(o)'
<1>1. /\ known' = known
      /\ \A w \in WatchesOn(o) :
              /\ mode'[w] \in {"off", "acted"} => mode[w] = mode'[w]
              /\ mode'[w] = "parked" => mode[w] = "parked"
              /\ W(o)!Readable(w) => W(o)!Readable(w)'
              /\ mode[w] # "off" /\ recs[w] # <<>> /\ recs[w][1] \in W(o)!Mask => W(o)!Readable(w)'
              /\ mode[w] = "parked" /\ ~W(o)!Readable(w) /\ mode'[w] = "parked" => ~W(o)!Readable(w)'
              /\ mode[w] = "off" /\ ~W(o)!Readable(w) => ~W(o)!Readable(w)'
  BY WatchDeliver
<1> SUFFICES ASSUME NEW w \in WatchesOn(o)
             PROVE  /\ mode'[w] \in {"off", "parked"} => ~W(o)!Readable(w)'
                    /\ mode'[w] \in {"acted", "parked"} /\ ~W(o)!Readable(w)' => WatchCurrent(o, w)'
  BY DEF WatchSeen
<1>2. mode'[w] \in {"off", "parked"} => ~W(o)!Readable(w)'
  BY <1>1 DEF WatchSeen
<1>3. ASSUME mode'[w] \in {"acted", "parked"}, ~W(o)!Readable(w)' PROVE WatchCurrent(o, w)'
  <2>1. mode[w] = mode'[w] /\ ~W(o)!Readable(w) /\ mode[w] # "off"
    BY <1>1, <1>3
  <2>2. WatchCurrent(o, w)
    BY <2>1, <1>3 DEF WatchSeen
  <2>3. \A x \in W(o)!Scope(w) : ~W(o)!Unsettled(x)' => ~W(o)!Unsettled(x) /\ W(o)!Look(x)' = W(o)!Look(x)
    BY <1>1, <1>3, <2>1
  <2>4. known'[w] = known[w]
    BY <1>1
  <2> QED
    BY <2>2, <2>3, <2>4, Zenon DEF WatchCurrent
<1> QED
  BY <1>2, <1>3, Zenon

LEMMA WatchUntold ==
  ASSUME NEW o, WatchQueueType(o), WatchSeen(o), UNCHANGED <<queue, over, mode, known>>,
         \A w \in WatchesOn(o) : \A x \in W(o)!Scope(w) : ~W(o)!Unsettled(x)' => ~W(o)!Unsettled(x) /\ W(o)!Look(x)' = W(o)!Look(x)
  PROVE  WatchSeen(o)'
<1>1. \A w \in WatchesOn(o) : W(o)!Readable(w)' <=> W(o)!Readable(w)
  BY DEF W!Readable
<1>2. \A w \in WatchesOn(o) : WatchCurrent(o, w) => WatchCurrent(o, w)'
  BY Zenon DEF WatchCurrent
<1> QED
  BY <1>1, <1>2 DEF WatchSeen

LEMMA WatchAbout ==
  ASSUME NEW o, NEW n \in W(o)!Names, NEW self, NEW child,
         self \in W(o)!Mask \cup {"modify"}, child \in W(o)!Mask \cup {"modify"}
  PROVE  /\ W(o)!About(n, self, child) \in [WatchesOn(o) -> WatchNews(o)]
         /\ \A w \in WatchesOn(o) : n \in W(o)!Scope(w) =>
              /\ W(o)!About(n, self, child)[w] # <<>>
              /\ W(o)!About(n, self, child)[w][1] \in {self, child}
<1>1. <<child, <<n>>>> \in WatchNews(o) /\ <<self, <<>>>> \in WatchNews(o) /\ <<>> \in WatchNews(o)
  BY DEF WatchNews
<1> QED
  BY <1>1 DEF W!About, W!Scope

LEMMA WatchScope ==
  ASSUME NEW o
  PROVE  \A w \in WatchesOn(o) : W(o)!Scope(w) \subseteq W(o)!Names
  BY ObjectsAssumption DEF W!Scope, W!Names

LEMMA WatchOpenInv ==
  ASSUME NEW o, WatchInv(o), NEW h \in WritersOn(o), NEW n \in W(o)!Names, W(o)!Open(h, n) PROVE WatchInv(o)'
<1> USE DEF WatchInv
<1>1. PICK trunc \in BOOLEAN :
        /\ W(o)!Op /\ hand[h] = W(o)!Closed /\ entry[n] # W(o)!None
        /\ IF trunc THEN W(o)!Changed(entry[n]) ELSE UNCHANGED version
        /\ hand' = [hand EXCEPT ![h] = [file |-> entry[n], path |-> n, dirty |-> trunc]]
        /\ UNCHANGED <<entry, made, queue, over, mode, known, astray>>
  BY DEF W!Open
<1>2. entry[n] \in W(o)!Files
  BY <1>1 DEF WatchFileType
<1>3. WatchFileType(o)'
  <2>1. version' \in [W(o)!Files -> 0..MaxVersion]
    BY <1>1, <1>2, ObjectsAssumption DEF WatchFileType, W!Changed
  <2>2. ops' \in 0..MaxOps
    BY <1>1, ObjectsAssumption DEF WatchFileType, W!Op
  <2>3. [file |-> entry[n], path |-> n, dirty |-> trunc] \in WatchHands(o)
    BY <1>2 DEF WatchHands
  <2>4. hand' \in [WritersOn(o) -> WatchHands(o)]
    BY <1>1, <2>3 DEF WatchFileType
  <2> QED
    BY <1>1, <2>1, <2>2, <2>4 DEF WatchFileType
<1>4. WatchQueueType(o)' /\ WatchKnownType(o)'
  BY <1>1 DEF WatchQueueType, WatchKnownType
<1>5. \A g \in WritersOn(o) : hand'[g] = IF g = h THEN [file |-> entry[n], path |-> n, dirty |-> trunc] ELSE hand[g]
  BY <1>1 DEF WatchFileType
<1>6. WatchNames(o)'
  BY <1>1, <1>2, <1>5 DEF WatchNames, W!None
<1>7. \A x \in W(o)!Names : ~W(o)!Unsettled(x)' => ~W(o)!Unsettled(x) /\ W(o)!Look(x)' = W(o)!Look(x)
  <2> SUFFICES ASSUME NEW x \in W(o)!Names, ~W(o)!Unsettled(x)' PROVE ~W(o)!Unsettled(x) /\ W(o)!Look(x)' = W(o)!Look(x)
    OBVIOUS
  <2>1. ~W(o)!Unsettled(x)
    BY <1>1, <1>5 DEF W!Unsettled, W!Closed
  <2>2. CASE entry[x] = W(o)!None
    BY <1>1, <2>1, <2>2 DEF W!Look
  <2>3. CASE entry[x] # W(o)!None /\ entry[x] = entry[n]
    <3>1. trunc = FALSE
      <4>1. x = n
        BY <2>3 DEF WatchNames
      <4>2. hand'[h].file = entry[n] /\ hand'[h].path = n /\ hand'[h].dirty = trunc
        BY <1>5
      <4> QED
        BY <1>1, <4>1, <4>2 DEF W!Unsettled
    <3> QED
      BY <1>1, <3>1, <2>1 DEF W!Look
  <2>4. CASE entry[x] # W(o)!None /\ entry[x] # entry[n]
    <3>1. version'[entry[x]] = version[entry[x]]
      BY <1>1, <2>4 DEF WatchFileType, W!Changed
    <3> QED
      BY <1>1, <3>1, <2>1 DEF W!Look
  <2> QED
    BY <2>2, <2>3, <2>4
<1>8. WatchSeen(o)'
  BY <1>1, <1>7, WatchScope, WatchUntold
<1> QED
  BY <1>3, <1>4, <1>6, <1>8

LEMMA WatchCreateInv ==
  ASSUME NEW o, WatchInv(o), NEW h \in WritersOn(o), NEW n \in W(o)!Names, W(o)!Create(h, n) PROVE WatchInv(o)'
<1> USE DEF WatchInv
<1>1. /\ W(o)!Op /\ hand[h] = W(o)!Closed /\ entry[n] = W(o)!None /\ made < MaxFile
      /\ made' = made + 1
      /\ entry' = [entry EXCEPT ![n] = made + 1]
      /\ hand' = [hand EXCEPT ![h] = [file |-> made + 1, path |-> n, dirty |-> W(o)!Live # {}]]
      /\ W(o)!Deliver(W(o)!About(n, "create", "create"))
      /\ version' = version /\ astray' = astray \ {n}
  BY DEF W!Create
<1>2. made \in Nat /\ made + 1 \in W(o)!Files /\ made + 1 # W(o)!None /\ made # 0
  BY <1>1, ObjectsAssumption DEF WatchFileType, W!Files, W!None
<1>3. WatchFileType(o)'
  <2>2. ops' \in 0..MaxOps
    BY <1>1, ObjectsAssumption DEF WatchFileType, W!Op
  <2>3. [file |-> made + 1, path |-> n, dirty |-> W(o)!Live # {}] \in WatchHands(o)
    BY <1>2 DEF WatchHands
  <2>4. hand' \in [WritersOn(o) -> WatchHands(o)]
    BY <1>1, <2>3 DEF WatchFileType
  <2>5. entry' \in [W(o)!Names -> W(o)!Files \cup {W(o)!None}]
    BY <1>1, <1>2 DEF WatchFileType
  <2> QED
    BY <1>1, <1>2, <2>2, <2>4, <2>5 DEF WatchFileType
<1>4. /\ W(o)!About(n, "create", "create") \in [WatchesOn(o) -> WatchNews(o)]
      /\ \A w \in WatchesOn(o) : n \in W(o)!Scope(w) =>
              /\ W(o)!About(n, "create", "create")[w] # <<>>
              /\ W(o)!About(n, "create", "create")[w][1] \in {"create"}
  BY WatchAbout DEF W!Mask
<1>11. PICK d : d = (W(o)!Live # {})
  OBVIOUS
<1>5. \A g \in WritersOn(o) : hand'[g] = IF g = h THEN [file |-> made + 1, path |-> n, dirty |-> d] ELSE hand[g]
  BY <1>1, <1>11 DEF WatchFileType
<1>6. \A x \in W(o)!Names : entry'[x] = IF x = n THEN made + 1 ELSE entry[x]
  BY <1>1 DEF WatchFileType
<1>7. WatchNames(o)'
  <2>1. \A x \in W(o)!Names : entry[x] \in Nat /\ entry[x] <= made
    BY DEF WatchFileType, WatchNames, W!Files, W!None
  <2>2. \A g \in WritersOn(o) : hand[g].file \in Nat /\ hand[g].file <= made
    BY DEF WatchFileType, WatchNames, W!Files, W!None, WatchHands
  <2>3. \A x \in W(o)!Names : entry'[x] <= made'
    BY <1>1, <1>2, <1>6, <2>1
  <2>4. \A x, y \in W(o)!Names : entry'[x] = entry'[y] /\ entry'[x] # W(o)!None => x = y
    BY <1>2, <1>6, <2>1 DEF WatchNames
  <2>5. \A g \in WritersOn(o) : hand'[g].file <= made'
    BY <1>1, <1>2, <1>5, <2>2
  <2>7. \A g \in WritersOn(o) : hand'[g].file = W(o)!None => hand'[g] = W(o)!Closed
    <3>1. hand'[h].file = made + 1
      BY <1>5
    <3> QED
      BY <1>2, <1>5, <3>1 DEF WatchNames
  <2> QED
    BY <2>3, <2>4, <2>5, <2>7 DEF WatchNames
<1>8. \A x \in W(o)!Names : x # n /\ ~W(o)!Unsettled(x)' => ~W(o)!Unsettled(x) /\ W(o)!Look(x)' = W(o)!Look(x)
  <2> SUFFICES ASSUME NEW x \in W(o)!Names, x # n, ~W(o)!Unsettled(x)' PROVE ~W(o)!Unsettled(x) /\ W(o)!Look(x)' = W(o)!Look(x)
    OBVIOUS
  <2>1. ~W(o)!Unsettled(x)
    BY <1>1, <1>5, <1>6 DEF W!Unsettled, W!Closed
  <2> QED
    BY <1>1, <1>6, <2>1 DEF W!Look
<1>9. WatchSeen(o)'
  <2>1. \A w \in WatchesOn(o) :
            \/ W(o)!About(n, "create", "create")[w] # <<>> /\ W(o)!About(n, "create", "create")[w][1] \in W(o)!Mask
            \/ \A x \in W(o)!Scope(w) : ~W(o)!Unsettled(x)' => ~W(o)!Unsettled(x) /\ W(o)!Look(x)' = W(o)!Look(x)
    BY <1>4, <1>8, WatchScope DEF W!Mask
  <2> QED
    BY <1>1, <1>4, <2>1, WatchTold
<1>10. WatchQueueType(o)' /\ known' = known
  BY <1>1, <1>4, WatchDeliver
<1> QED
  BY <1>3, <1>7, <1>9, <1>10 DEF WatchKnownType

LEMMA WatchWriteInv ==
  ASSUME NEW o, WatchInv(o), NEW h \in WritersOn(o), W(o)!Write(h) PROVE WatchInv(o)'
<1> USE DEF WatchInv
<1>1. /\ W(o)!Op /\ hand[h] # W(o)!Closed
      /\ W(o)!Changed(hand[h].file)
      /\ hand' = [hand EXCEPT ![h].dirty = TRUE]
      /\ W(o)!Deliver(W(o)!About(hand[h].path, "modify", "modify"))
      /\ entry' = entry /\ made' = made
      /\ astray' = astray \cup {n \in W(o)!Names : entry[n] = hand[h].file /\ n # hand[h].path}
  BY DEF W!Write
<1>2. hand[h] \in WatchHands(o) /\ hand[h].file \in W(o)!Files /\ hand[h].path \in W(o)!Names
  BY <1>1 DEF WatchFileType, WatchHands, WatchNames
<1>3. [hand[h] EXCEPT !.dirty = TRUE] \in WatchHands(o)
      /\ [hand[h] EXCEPT !.dirty = TRUE].file = hand[h].file
      /\ [hand[h] EXCEPT !.dirty = TRUE].path = hand[h].path
      /\ [hand[h] EXCEPT !.dirty = TRUE].dirty = TRUE
  BY <1>2 DEF WatchHands
<1>4. \A g \in WritersOn(o) : hand'[g] = IF g = h THEN [hand[h] EXCEPT !.dirty = TRUE] ELSE hand[g]
  BY <1>1 DEF WatchFileType
<1>5. WatchFileType(o)'
  <2>1. version' \in [W(o)!Files -> 0..MaxVersion]
    BY <1>1, <1>2, ObjectsAssumption DEF WatchFileType, W!Changed
  <2>2. ops' \in 0..MaxOps
    BY <1>1, ObjectsAssumption DEF WatchFileType, W!Op
  <2>4. hand' \in [WritersOn(o) -> WatchHands(o)]
    BY <1>1, <1>3 DEF WatchFileType
  <2> QED
    BY <1>1, <2>1, <2>2, <2>4 DEF WatchFileType
<1>6. WatchNames(o)'
  <2>1. hand[h].file # W(o)!None
    BY <1>2 DEF W!Files, W!None
  <2>2. \A g \in WritersOn(o) : hand'[g].file = hand[g].file /\ hand'[g].path = hand[g].path
    BY <1>3, <1>4
  <2>3. \A g \in WritersOn(o) : hand'[g].file = W(o)!None => hand'[g] = W(o)!Closed
    BY <1>3, <1>4, <2>1 DEF WatchNames
  <2> QED
    BY <1>1, <2>2, <2>3 DEF WatchNames
<1>7. \A x \in W(o)!Names : ~W(o)!Unsettled(x)' => ~W(o)!Unsettled(x) /\ W(o)!Look(x)' = W(o)!Look(x)
  <2> SUFFICES ASSUME NEW x \in W(o)!Names, ~W(o)!Unsettled(x)' PROVE ~W(o)!Unsettled(x) /\ W(o)!Look(x)' = W(o)!Look(x)
    OBVIOUS
  <2>1. ~W(o)!Unsettled(x) /\ (entry[x] # W(o)!None => entry[x] # hand[h].file)
    <3>1. x \notin astray
      BY <1>1 DEF W!Unsettled
    <3>2. entry[x] # W(o)!None => entry[x] # hand[h].file
      <4> SUFFICES ASSUME entry[x] # W(o)!None, entry[x] = hand[h].file PROVE FALSE
        OBVIOUS
      <4>1. CASE x = hand[h].path
        BY <1>1, <1>3, <1>4, <4>1 DEF W!Unsettled
      <4>2. CASE x # hand[h].path
        BY <1>1, <4>2 DEF W!Unsettled
      <4> QED
        BY <4>1, <4>2
    <3>3. ASSUME NEW g \in WritersOn(o), entry[x] # W(o)!None, hand[g].file = entry[x],
                 hand[g].path = x, hand[g].dirty
          PROVE  FALSE
      <4>1. hand'[g].file = entry[x] /\ hand'[g].path = x /\ hand'[g].dirty
        BY <1>3, <1>4, <3>3
      <4> QED
        BY <1>1, <3>3, <4>1 DEF W!Unsettled
    <3> QED
      BY <3>1, <3>2, <3>3 DEF W!Unsettled
  <2>2. entry[x] # W(o)!None => version'[entry[x]] = version[entry[x]]
    BY <1>1, <2>1 DEF WatchFileType, W!Changed
  <2> QED
    BY <1>1, <2>1, <2>2 DEF W!Look
<1>8. W(o)!About(hand[h].path, "modify", "modify") \in [WatchesOn(o) -> WatchNews(o)]
  BY <1>2, WatchAbout
<1>9. WatchSeen(o)'
  BY <1>1, <1>7, <1>8, WatchScope, WatchTold
<1>10. WatchQueueType(o)' /\ known' = known
  BY <1>1, <1>8, WatchDeliver
<1> QED
  BY <1>5, <1>6, <1>9, <1>10 DEF WatchKnownType

LEMMA WatchCloseInv ==
  ASSUME NEW o, WatchInv(o), NEW h \in WritersOn(o), W(o)!Close(h) PROVE WatchInv(o)'
<1> USE DEF WatchInv
<1>1. /\ W(o)!Op /\ hand[h] # W(o)!Closed
      /\ hand' = [hand EXCEPT ![h] = W(o)!Closed]
      /\ IF hand[h].dirty
         THEN /\ W(o)!Deliver(W(o)!About(hand[h].path, "close_write", "close_write"))
              /\ astray' = astray \ {hand[h].path}
         ELSE UNCHANGED <<queue, over, mode, known, astray>>
      /\ entry' = entry /\ version' = version /\ made' = made
  BY DEF W!Close
<1>2. hand[h] \in WatchHands(o) /\ hand[h].file \in W(o)!Files /\ hand[h].path \in W(o)!Names
  BY <1>1 DEF WatchFileType, WatchHands, WatchNames
<1>3. W(o)!Closed \in WatchHands(o) /\ W(o)!Closed.file = W(o)!None
  BY ObjectsAssumption DEF WatchHands, W!Closed, W!Names
<1>4. \A g \in WritersOn(o) : hand'[g] = IF g = h THEN W(o)!Closed ELSE hand[g]
  BY <1>1 DEF WatchFileType
<1>5. WatchFileType(o)'
  <2>1. ops' \in 0..MaxOps
    BY <1>1, ObjectsAssumption DEF WatchFileType, W!Op
  <2>2. hand' \in [WritersOn(o) -> WatchHands(o)]
    BY <1>1, <1>3 DEF WatchFileType
  <2>3. astray' \subseteq W(o)!Names
    BY <1>1 DEF WatchFileType
  <2> QED
    BY <1>1, <2>1, <2>2, <2>3 DEF WatchFileType
<1>6. WatchNames(o)'
  <2>1. W(o)!None <= made
    BY DEF WatchFileType, W!Files, W!None
  <2> QED
    BY <1>1, <1>3, <1>4, <2>1 DEF WatchNames
<1>7. ASSUME NEW x \in W(o)!Names, ~W(o)!Unsettled(x)', hand[h].dirty => x # hand[h].path
      PROVE  ~W(o)!Unsettled(x) /\ W(o)!Look(x)' = W(o)!Look(x)
  <2>1. W(o)!Look(x)' = W(o)!Look(x)
    BY <1>1 DEF W!Look
  <2>2. x \notin astray
    BY <1>1, <1>7 DEF W!Unsettled
  <2>3. ASSUME NEW g \in WritersOn(o), entry[x] # W(o)!None, hand[g].file = entry[x],
               hand[g].path = x, hand[g].dirty
        PROVE  FALSE
    <3>1. g # h
      BY <1>7, <2>3
    <3>2. hand'[g] = hand[g]
      BY <1>4, <3>1
    <3> QED
      BY <1>1, <1>7, <2>3, <3>2 DEF W!Unsettled
  <2> QED
    BY <2>1, <2>2, <2>3 DEF W!Unsettled
<1>8. CASE hand[h].dirty
  <2> DEFINE recs == W(o)!About(hand[h].path, "close_write", "close_write")
  <2>1. /\ recs \in [WatchesOn(o) -> WatchNews(o)]
        /\ \A w \in WatchesOn(o) : hand[h].path \in W(o)!Scope(w) =>
              recs[w] # <<>> /\ recs[w][1] \in {"close_write"}
    BY <1>2, WatchAbout DEF W!Mask
  <2>2. W(o)!Deliver(recs)
    BY <1>1, <1>8
  <2>3. \A w \in WatchesOn(o) :
            \/ recs[w] # <<>> /\ recs[w][1] \in W(o)!Mask
            \/ \A x \in W(o)!Scope(w) : ~W(o)!Unsettled(x)' => ~W(o)!Unsettled(x) /\ W(o)!Look(x)' = W(o)!Look(x)
    BY <1>7, <2>1, WatchScope DEF W!Mask
  <2> HIDE DEF recs
  <2>4. WatchSeen(o)'
    BY <2>1, <2>2, <2>3, WatchTold
  <2>5. WatchQueueType(o)' /\ known' = known
    BY <2>1, <2>2, WatchDeliver
  <2> QED
    BY <1>5, <1>6, <2>4, <2>5 DEF WatchKnownType
<1>9. CASE ~hand[h].dirty
  <2>1. UNCHANGED <<queue, over, mode, known>> /\ astray' = astray
    BY <1>1, <1>9
  <2>2. WatchSeen(o)'
    BY <1>7, <1>9, <2>1, WatchScope, WatchUntold
  <2>3. WatchQueueType(o)' /\ WatchKnownType(o)'
    BY <2>1 DEF WatchQueueType, WatchKnownType
  <2> QED
    BY <1>5, <1>6, <2>2, <2>3
<1> QED
  BY <1>8, <1>9

LEMMA WatchUnlinkInv ==
  ASSUME NEW o, WatchInv(o), NEW n \in W(o)!Names, W(o)!Unlink(n) PROVE WatchInv(o)'
<1> USE DEF WatchInv
<1>1. /\ W(o)!Op /\ entry' = [entry EXCEPT ![n] = W(o)!None]
      /\ W(o)!Deliver(W(o)!About(n, "self_gone", "delete")) /\ astray' = astray \ {n}
      /\ version' = version /\ made' = made /\ hand' = hand
  BY DEF W!Unlink
<1>2. \A x \in W(o)!Names : entry'[x] = IF x = n THEN W(o)!None ELSE entry[x]
  BY <1>1 DEF WatchFileType
<1>3. WatchFileType(o)'
  BY <1>1, ObjectsAssumption DEF WatchFileType, W!Op
<1>4. WatchNames(o)'
  <2>1. W(o)!None <= made
    BY DEF WatchFileType, W!Files, W!None
  <2> QED
    BY <1>1, <1>2, <2>1 DEF WatchNames
<1>5. \A x \in W(o)!Names : x # n /\ ~W(o)!Unsettled(x)' => ~W(o)!Unsettled(x) /\ W(o)!Look(x)' = W(o)!Look(x)
  BY <1>1, <1>2 DEF W!Unsettled, W!Look
<1>6. /\ W(o)!About(n, "self_gone", "delete") \in [WatchesOn(o) -> WatchNews(o)]
      /\ \A w \in WatchesOn(o) : n \in W(o)!Scope(w) =>
              /\ W(o)!About(n, "self_gone", "delete")[w] # <<>>
              /\ W(o)!About(n, "self_gone", "delete")[w][1] \in {"self_gone", "delete"}
  BY WatchAbout DEF W!Mask
<1>7. WatchSeen(o)'
  <2>1. \A w \in WatchesOn(o) :
            \/ W(o)!About(n, "self_gone", "delete")[w] # <<>> /\ W(o)!About(n, "self_gone", "delete")[w][1] \in W(o)!Mask
            \/ \A x \in W(o)!Scope(w) : ~W(o)!Unsettled(x)' => ~W(o)!Unsettled(x) /\ W(o)!Look(x)' = W(o)!Look(x)
    BY <1>5, <1>6, WatchScope DEF W!Mask
  <2> QED
    BY <1>1, <1>6, <2>1, WatchTold
<1>8. WatchQueueType(o)' /\ known' = known
  BY <1>1, <1>6, WatchDeliver
<1> QED
  BY <1>3, <1>4, <1>7, <1>8 DEF WatchKnownType

LEMMA WatchRenamed ==
  ASSUME NEW o, NEW n \in W(o)!Names, NEW m \in W(o)!Names
  PROVE  /\ W(o)!Renamed(n, m) \in [WatchesOn(o) -> WatchNews(o)]
         /\ \A w \in WatchesOn(o) : n \in W(o)!Scope(w) \/ m \in W(o)!Scope(w) =>
              /\ W(o)!Renamed(n, m)[w] # <<>>
              /\ W(o)!Renamed(n, m)[w][1] \in W(o)!Mask
<1>1. /\ <<"rename", <<n, m>>>> \in WatchNews(o) /\ <<"delete", <<n>>>> \in WatchNews(o)
      /\ <<"close_write", <<m>>>> \in WatchNews(o) /\ <<"self_gone", <<>>>> \in WatchNews(o)
      /\ <<"close_write", <<>>>> \in WatchNews(o) /\ <<>> \in WatchNews(o)
  BY DEF WatchNews, W!Mask
<1>2. W(o)!Renamed(n, m) \in [WatchesOn(o) -> WatchNews(o)]
  BY <1>1 DEF W!Renamed
<1>3. ASSUME NEW w \in WatchesOn(o), n \in W(o)!Scope(w) \/ m \in W(o)!Scope(w)
      PROVE  W(o)!Renamed(n, m)[w] # <<>> /\ W(o)!Renamed(n, m)[w][1] \in W(o)!Mask
  BY <1>3 DEF W!Renamed, W!Scope, W!Mask
<1> QED
  BY <1>2, <1>3

LEMMA WatchRenameInv ==
  ASSUME NEW o, WatchInv(o), NEW n \in W(o)!Names, NEW m \in W(o)!Names, W(o)!Rename(n, m) PROVE WatchInv(o)'
<1> USE DEF WatchInv
<1>1. /\ W(o)!Op /\ n # m /\ entry[n] # W(o)!None
      /\ entry' = [entry EXCEPT ![m] = entry[n], ![n] = W(o)!None]
      /\ W(o)!Deliver(W(o)!Renamed(n, m)) /\ astray' = astray \ {n, m}
      /\ version' = version /\ made' = made /\ hand' = hand
  BY DEF W!Rename
<1>2. \A x \in W(o)!Names : entry'[x] = IF x = n THEN W(o)!None ELSE IF x = m THEN entry[n] ELSE entry[x]
  BY <1>1 DEF WatchFileType
<1>3. WatchFileType(o)'
  <2>1. entry' \in [W(o)!Names -> W(o)!Files \cup {W(o)!None}]
    BY <1>1 DEF WatchFileType
  <2> QED
    BY <1>1, <2>1, ObjectsAssumption DEF WatchFileType, W!Op
<1>4. WatchNames(o)'
  <2>1. W(o)!None <= made
    BY DEF WatchFileType, W!Files, W!None
  <2> QED
    <3>1. \A x \in W(o)!Names : entry'[x] <= made'
      BY <1>1, <1>2, <2>1, ZenonT(60) DEF WatchNames
    <3>2. \A x, y \in W(o)!Names : entry'[x] = entry'[y] /\ entry'[x] # W(o)!None => x = y
      BY <1>2 DEF WatchNames
    <3> QED
      BY <1>1, <3>1, <3>2 DEF WatchNames
<1>5. \A x \in W(o)!Names : x # n /\ x # m /\ ~W(o)!Unsettled(x)' => ~W(o)!Unsettled(x) /\ W(o)!Look(x)' = W(o)!Look(x)
  <2> SUFFICES ASSUME NEW x \in W(o)!Names, x # n, x # m PROVE (W(o)!Unsettled(x)' <=> W(o)!Unsettled(x)) /\ W(o)!Look(x)' = W(o)!Look(x)
    BY Zenon
  <2>1. entry'[x] = entry[x]
    BY <1>2
  <2>2. W(o)!Look(x)' = W(o)!Look(x)
    BY <1>1, <2>1 DEF W!Look
  <2>3. W(o)!Unsettled(x)' <=> W(o)!Unsettled(x)
    BY <1>1, <2>1 DEF W!Unsettled
  <2> QED
    BY <2>2, <2>3
<1>6. WatchSeen(o)'
  <2>1. \A w \in WatchesOn(o) :
            \/ W(o)!Renamed(n, m)[w] # <<>> /\ W(o)!Renamed(n, m)[w][1] \in W(o)!Mask
            \/ \A x \in W(o)!Scope(w) : ~W(o)!Unsettled(x)' => ~W(o)!Unsettled(x) /\ W(o)!Look(x)' = W(o)!Look(x)
    BY <1>5, WatchScope, WatchRenamed
  <2> QED
    BY <1>1, <2>1, WatchRenamed, WatchTold
<1>7. WatchQueueType(o)' /\ known' = known
  BY <1>1, WatchRenamed, WatchDeliver
<1> QED
  BY <1>3, <1>4, <1>6, <1>7 DEF WatchKnownType

LEMMA WatchSaveInv ==
  ASSUME NEW o, WatchInv(o), W(o)!EmbedderSave PROVE WatchInv(o)'
<1> USE DEF WatchInv
<1>1. /\ W(o)!Op /\ entry[Target] # W(o)!None /\ W(o)!Changed(entry[Target])
      /\ W(o)!Deliver(W(o)!About(Target, "close_write", "close_write")) /\ astray' = astray \ {Target}
      /\ entry' = entry /\ made' = made /\ hand' = hand
  BY DEF W!EmbedderSave
<1>2. Target \in W(o)!Names /\ entry[Target] \in W(o)!Files
  BY <1>1, ObjectsAssumption DEF W!Names, WatchFileType
<1>3. WatchFileType(o)'
  <2>1. version' \in [W(o)!Files -> 0..MaxVersion]
    BY <1>1, <1>2, ObjectsAssumption DEF WatchFileType, W!Changed
  <2> QED
    BY <1>1, <2>1, ObjectsAssumption DEF WatchFileType, W!Op
<1>4. WatchNames(o)'
  BY <1>1 DEF WatchNames
<1>5. \A x \in W(o)!Names : x # Target /\ ~W(o)!Unsettled(x)' => ~W(o)!Unsettled(x) /\ W(o)!Look(x)' = W(o)!Look(x)
  <2> SUFFICES ASSUME NEW x \in W(o)!Names, x # Target, ~W(o)!Unsettled(x)'
               PROVE  ~W(o)!Unsettled(x) /\ W(o)!Look(x)' = W(o)!Look(x)
    OBVIOUS
  <2>1. ~W(o)!Unsettled(x)
    BY <1>1 DEF W!Unsettled
  <2>2. entry[x] # W(o)!None => version'[entry[x]] = version[entry[x]]
    BY <1>1, <1>2 DEF WatchFileType, W!Changed, WatchNames
  <2> QED
    BY <1>1, <2>1, <2>2 DEF W!Look
<1>6. /\ W(o)!About(Target, "close_write", "close_write") \in [WatchesOn(o) -> WatchNews(o)]
      /\ \A w \in WatchesOn(o) : Target \in W(o)!Scope(w) =>
              /\ W(o)!About(Target, "close_write", "close_write")[w] # <<>>
              /\ W(o)!About(Target, "close_write", "close_write")[w][1] \in {"close_write"}
  BY <1>2, WatchAbout DEF W!Mask
<1>7. WatchSeen(o)'
  <2>1. \A w \in WatchesOn(o) :
            \/ W(o)!About(Target, "close_write", "close_write")[w] # <<>>
               /\ W(o)!About(Target, "close_write", "close_write")[w][1] \in W(o)!Mask
            \/ \A x \in W(o)!Scope(w) : ~W(o)!Unsettled(x)' => ~W(o)!Unsettled(x) /\ W(o)!Look(x)' = W(o)!Look(x)
    BY <1>5, <1>6, WatchScope DEF W!Mask
  <2> QED
    BY <1>1, <1>6, <2>1, WatchTold
<1>8. WatchQueueType(o)' /\ known' = known
  BY <1>1, <1>6, WatchDeliver
<1> QED
  BY <1>3, <1>4, <1>7, <1>8 DEF WatchKnownType

-----------------------------------------------------------------------------
(* Consumers                                                                *)

\* One consumer moves: the files stay, and so do the other watches.
LEMMA WatchOther ==
  ASSUME NEW o, WatchInv(o), NEW w \in WatchesOn(o), UNCHANGED W(o)!files,
         WatchQueueType(o)', WatchKnownType(o)',
         \A v \in WatchesOn(o) : v # w =>
            queue'[v] = queue[v] /\ over'[v] = over[v] /\ mode'[v] = mode[v] /\ known'[v] = known[v],
         mode'[w] \in {"off", "parked"} => ~W(o)!Readable(w)',
         mode'[w] \in {"acted", "parked"} /\ ~W(o)!Readable(w)' => WatchCurrent(o, w)'
  PROVE  WatchInv(o)'
<1> USE DEF WatchInv
<1>1. WatchFileType(o)' /\ WatchNames(o)'
  BY DEF W!files, WatchFileType, WatchNames
<1>2. \A x \in W(o)!Names : (W(o)!Unsettled(x)' <=> W(o)!Unsettled(x)) /\ W(o)!Look(x)' = W(o)!Look(x)
  BY DEF W!files, W!Unsettled, W!Look
<1>3. ASSUME NEW v \in WatchesOn(o)
      PROVE  /\ mode'[v] \in {"off", "parked"} => ~W(o)!Readable(v)'
             /\ mode'[v] \in {"acted", "parked"} /\ ~W(o)!Readable(v)' => WatchCurrent(o, v)'
  <2>1. CASE v = w
    BY <2>1
  <2>2. CASE v # w
    <3>1. W(o)!Readable(v)' <=> W(o)!Readable(v)
      BY <2>2 DEF W!Readable
    <3>2. WatchCurrent(o, v) => WatchCurrent(o, v)'
      BY <1>2, <2>2, WatchScope DEF WatchCurrent
    <3>3. mode'[v] = mode[v]
      BY <2>2
    <3> QED
      BY <3>1, <3>2, <3>3 DEF WatchSeen
  <2> QED
    BY <2>1, <2>2
<1>4. WatchSeen(o)'
  BY <1>3 DEF WatchSeen
<1> QED
  BY <1>1, <1>4

LEMMA WatchView ==
  ASSUME NEW o, WatchInv(o), NEW w \in WatchesOn(o), UNCHANGED W(o)!files, known' = [known EXCEPT ![w] = W(o)!View(w)]
  PROVE  WatchKnownType(o)' /\ WatchCurrent(o, w)'
<1> USE DEF WatchInv
<1>1. \A x \in W(o)!Names : W(o)!Look(x) \in W(o)!Contents /\ W(o)!Look(x)' = W(o)!Look(x)
  <2> SUFFICES ASSUME NEW x \in W(o)!Names PROVE W(o)!Look(x) \in W(o)!Contents /\ W(o)!Look(x)' = W(o)!Look(x)
    OBVIOUS
  <2>1. W(o)!Look(x)' = W(o)!Look(x)
    BY DEF W!files, W!Look
  <2>2. CASE entry[x] = W(o)!None
    BY <2>1, <2>2, ObjectsAssumption DEF W!Look, W!Gone, W!Contents
  <2>3. CASE entry[x] # W(o)!None
    <3>1. entry[x] \in W(o)!Files /\ version[entry[x]] \in 0..MaxVersion
      BY <2>3 DEF WatchFileType
    <3> QED
      BY <2>1, <2>3, <3>1 DEF W!Look, W!Contents
  <2> QED
    BY <2>2, <2>3
<1>2. W(o)!Gone \in W(o)!Contents
  BY ObjectsAssumption DEF W!Gone, W!Contents
<1>3. W(o)!View(w) \in [W(o)!Names -> W(o)!Contents]
  BY <1>1, <1>2 DEF W!View
<1>4. WatchKnownType(o)'
  BY <1>3 DEF WatchKnownType
<1>5. known'[w] = W(o)!View(w)
  BY DEF WatchKnownType
<1>6. \A x \in W(o)!Scope(w) : known'[w][x] = W(o)!Look(x)'
  BY <1>1, <1>5, WatchScope DEF W!View
<1> QED
  BY <1>4, <1>6 DEF WatchCurrent

LEMMA WatchOpenedInv ==
  ASSUME NEW o, WatchInv(o), NEW w \in WatchesOn(o), W(o)!Watch(w) PROVE WatchInv(o)'
<1>1. /\ mode' = [mode EXCEPT ![w] = "act"] /\ UNCHANGED W(o)!files
      /\ queue' = queue /\ over' = over /\ known' = known
  BY DEF W!Watch
<1>2. WatchQueueType(o)' /\ WatchKnownType(o)' /\ mode'[w] = "act"
      /\ \A v \in WatchesOn(o) : v # w => mode'[v] = mode[v]
  BY <1>1 DEF WatchInv, WatchQueueType, WatchKnownType, WatchModes
<1> QED
  BY <1>1, <1>2, WatchOther

LEMMA WatchPathInv ==
  ASSUME NEW o, WatchInv(o), W(o)!WatchPath PROVE WatchInv(o)'
<1> DEFINE w == "embedder"
<1>1. /\ w \in WatchesOn(o) /\ mode[w] = "off"
      /\ mode' = [mode EXCEPT ![w] = "parked"] /\ UNCHANGED W(o)!files
      /\ queue' = queue /\ over' = over /\ known' = [known EXCEPT ![w] = W(o)!View(w)]
  BY DEF W!WatchPath
<1> HIDE DEF w
<1>2. WatchQueueType(o)'
      /\ \A v \in WatchesOn(o) : v # w => mode'[v] = mode[v] /\ known'[v] = known[v]
  BY <1>1 DEF WatchInv, WatchQueueType, WatchKnownType, WatchModes
<1>3. ~W(o)!Readable(w)'
  BY <1>1 DEF WatchInv, WatchSeen, W!Readable
<1>4. WatchKnownType(o)' /\ WatchCurrent(o, w)'
  BY <1>1, WatchView
<1> QED
  BY <1>1, <1>2, <1>3, <1>4, WatchOther

LEMMA WatchEmptied ==
  ASSUME NEW o, WatchInv(o), NEW w \in WatchesOn(o), NEW m \in WatchModes(o), mode' = [mode EXCEPT ![w] = m],
         queue' = [queue EXCEPT ![w] = <<>>], over' = [over EXCEPT ![w] = FALSE]
  PROVE  /\ WatchQueueType(o)' /\ ~W(o)!Readable(w)' /\ mode'[w] = m
         /\ \A v \in WatchesOn(o) : v # w =>
              mode'[v] = mode[v] /\ queue'[v] = queue[v] /\ over'[v] = over[v]
<1>1. /\ \A v \in WatchesOn(o) : v # w =>
            mode'[v] = mode[v] /\ queue'[v] = queue[v] /\ over'[v] = over[v]
      /\ queue'[w] = <<>> /\ over'[w] = FALSE /\ mode'[w] = m
  BY DEF WatchInv, WatchQueueType
<1>2. WatchQueue(o, <<>>, FALSE)
  BY ObjectsAssumption DEF WatchQueue
<1>3. WatchQueueType(o)'
  BY <1>1, <1>2 DEF WatchInv, WatchQueueType
<1> QED
  BY <1>1, <1>3 DEF W!Readable

LEMMA WatchUnwatchInv ==
  ASSUME NEW o, WatchInv(o), NEW w \in WatchesOn(o), W(o)!Unwatch(w) PROVE WatchInv(o)'
<1>1. /\ mode' = [mode EXCEPT ![w] = "off"] /\ UNCHANGED W(o)!files
      /\ queue' = [queue EXCEPT ![w] = <<>>] /\ over' = [over EXCEPT ![w] = FALSE] /\ known' = known
  BY DEF W!Unwatch
<1>2. WatchKnownType(o)' /\ "off" \in WatchModes(o)
  BY <1>1 DEF WatchInv, WatchKnownType, WatchModes
<1> QED
  BY <1>1, <1>2, WatchEmptied, WatchOther, ZenonT(60)

LEMMA WatchCallbackInv ==
  ASSUME NEW o, WatchInv(o), W(o)!Callback PROVE WatchInv(o)'
<1> DEFINE w == "embedder"
<1>1. /\ w \in WatchesOn(o)
      /\ mode' = [mode EXCEPT ![w] = "parked"] /\ UNCHANGED W(o)!files
      /\ queue' = [queue EXCEPT ![w] = <<>>] /\ over' = [over EXCEPT ![w] = FALSE]
      /\ known' = [known EXCEPT ![w] = W(o)!View(w)]
  BY DEF W!Callback
<1> HIDE DEF w
<1>2. "parked" \in WatchModes(o)
  BY DEF WatchModes
<1>3. WatchKnownType(o)' /\ WatchCurrent(o, w)'
  BY <1>1, WatchView
<1>4. \A v \in WatchesOn(o) : v # w => known'[v] = known[v]
  BY <1>1 DEF WatchInv, WatchKnownType
<1>5. /\ WatchQueueType(o)' /\ ~W(o)!Readable(w)' /\ mode'[w] = "parked"
      /\ \A v \in WatchesOn(o) : v # w =>
           mode'[v] = mode[v] /\ queue'[v] = queue[v] /\ over'[v] = over[v]
  BY <1>1, <1>2, WatchEmptied
<1> QED
  BY <1>1, <1>3, <1>4, <1>5, WatchOther

LEMMA WatchDrainInv ==
  ASSUME NEW o, WatchInv(o), NEW w \in WatchesOn(o), W(o)!Drain(w) PROVE WatchInv(o)'
<1>1. mode[w] = "awake" /\ UNCHANGED W(o)!files /\ known' = known
  BY DEF W!Drain
<1>2. WatchKnownType(o)'
  BY <1>1 DEF WatchInv, WatchKnownType
<1>3. CASE W(o)!Readable(w)
  <2> DEFINE k == 1 + (IF Len(queue[w]) < Batch THEN Len(queue[w]) ELSE Batch)
             q == IF over[w] THEN <<>> ELSE SubSeq(queue[w], k, Len(queue[w]))
  <2>1. over' = [over EXCEPT ![w] = FALSE] /\ queue' = [queue EXCEPT ![w] = q] /\ mode' = mode
    BY <1>3 DEF W!Drain
  <2>2. queue[w] \in Seq(W(o)!Records) /\ Len(queue[w]) \in Nat /\ Len(queue[w]) <= QueueCap
    BY DEF WatchInv, WatchQueueType, WatchQueue
  <2>3. k \in 1 .. Len(queue[w]) + 1
    BY <2>2, ObjectsAssumption
  <2>4. WatchQueue(o, q, FALSE)
    <3>1. CASE over[w]
      <4>1. q = <<>>
        BY <3>1
      <4> HIDE DEF q
      <4> QED
        BY <4>1, ObjectsAssumption DEF WatchQueue
    <3>2. CASE ~over[w]
      <4>1. q = SubSeq(queue[w], k, Len(queue[w]))
        BY <3>2
      <4> HIDE DEF q, k
      <4>2. q \in Seq(W(o)!Records) /\ Len(q) <= Len(queue[w])
        BY <2>2, <2>3, <4>1
      <4> QED
        BY <2>2, <4>2, ObjectsAssumption DEF WatchQueue
    <3> QED
      BY <3>1, <3>2
  <2> HIDE DEF q, k
  <2>5. WatchQueueType(o)' /\ mode'[w] = "awake"
        /\ \A v \in WatchesOn(o) : v # w => queue'[v] = queue[v] /\ over'[v] = over[v]
    BY <1>1, <2>1, <2>4 DEF WatchInv, WatchQueueType
  <2> QED
    BY <1>1, <1>2, <2>1, <2>5, WatchOther
<1>4. CASE ~W(o)!Readable(w)
  <2>1. mode' = [mode EXCEPT ![w] = "act"] /\ queue' = queue /\ over' = over
    BY <1>4 DEF W!Drain
  <2>2. WatchQueueType(o)' /\ mode'[w] = "act" /\ \A v \in WatchesOn(o) : v # w => mode'[v] = mode[v]
    BY <2>1 DEF WatchInv, WatchQueueType, WatchModes
  <2> QED
    BY <1>1, <1>2, <2>1, <2>2, WatchOther
<1> QED
  BY <1>3, <1>4

LEMMA WatchActInv ==
  ASSUME NEW o, WatchInv(o), NEW w \in WatchesOn(o), W(o)!Act(w) PROVE WatchInv(o)'
<1>1. /\ known' = [known EXCEPT ![w] = W(o)!View(w)] /\ mode' = [mode EXCEPT ![w] = "acted"]
      /\ UNCHANGED W(o)!files /\ queue' = queue /\ over' = over
  BY DEF W!Act
<1>2. WatchKnownType(o)' /\ WatchCurrent(o, w)'
  BY <1>1, WatchView
<1>3. WatchQueueType(o)' /\ mode'[w] = "acted"
      /\ \A v \in WatchesOn(o) : v # w => mode'[v] = mode[v] /\ known'[v] = known[v]
  BY <1>1 DEF WatchInv, WatchQueueType, WatchModes, WatchKnownType
<1> QED
  BY <1>1, <1>2, <1>3, WatchOther

LEMMA WatchParkInv ==
  ASSUME NEW o, WatchInv(o), NEW w \in WatchesOn(o), W(o)!Park(w) PROVE WatchInv(o)'
<1>1. /\ mode[w] = "acted"
      /\ mode' = [mode EXCEPT ![w] = IF W(o)!Readable(w) THEN "awake" ELSE "parked"]
      /\ UNCHANGED W(o)!files /\ queue' = queue /\ over' = over /\ known' = known
  BY DEF W!Park
<1>2. WatchKnownType(o)' /\ WatchQueueType(o)'
      /\ mode'[w] = (IF W(o)!Readable(w) THEN "awake" ELSE "parked")
      /\ \A v \in WatchesOn(o) : v # w => mode'[v] = mode[v]
  BY <1>1 DEF WatchInv, WatchQueueType, WatchModes, WatchKnownType
<1>3. W(o)!Readable(w)' <=> W(o)!Readable(w)
  BY <1>1 DEF W!Readable
<1>4. WatchCurrent(o, w)' <=> WatchCurrent(o, w)
  BY <1>1 DEF WatchCurrent, W!files, W!Unsettled, W!Look
<1>5. ~W(o)!Readable(w) => WatchCurrent(o, w)
  BY <1>1 DEF WatchInv, WatchSeen
<1> QED
  BY <1>1, <1>2, <1>3, <1>4, <1>5, WatchOther

-----------------------------------------------------------------------------
LEMMA WatchInitInv ==
  ASSUME NEW o
  PROVE  W(o)!Init => WatchInv(o)
<1> SUFFICES ASSUME W(o)!Init PROVE WatchInv(o)
  OBVIOUS
<1>1. WatchFileType(o) /\ WatchKnownType(o)
  BY ObjectsAssumption DEF W!Init, WatchFileType, WatchKnownType, W!Files, W!None, W!Names, W!Closed,
     WatchHands, W!Gone, W!Contents
<1>2. WatchQueue(o, <<>>, FALSE)
  BY ObjectsAssumption DEF WatchQueue
<1>3. WatchQueueType(o)
  BY <1>2 DEF W!Init, WatchQueueType, WatchModes
<1>4. WatchNames(o)
  BY DEF W!Init, WatchNames, W!None, W!Closed
<1>5. WatchSeen(o)
  BY DEF W!Init, WatchSeen, W!Readable
<1> QED
  BY <1>1, <1>3, <1>4, <1>5 DEF WatchInv

LEMMA WatchNextInv == ASSUME NEW o, WatchInv(o), W(o)!Next PROVE WatchInv(o)'
<1>1. CASE W(o)!Mutate
  BY <1>1, WatchOpenInv, WatchCreateInv, WatchWriteInv, WatchCloseInv, WatchUnlinkInv, WatchRenameInv,
     WatchSaveInv DEF W!Mutate
<1>2. CASE \E w \in WatchesOn(o) : W(o)!Watch(w) \/ W(o)!Unwatch(w) \/ W(o)!Consume(w)
  BY <1>2, WatchOpenedInv, WatchUnwatchInv, WatchDrainInv, WatchActInv, WatchParkInv DEF W!Consume
<1> QED
  BY <1>1, <1>2, WatchPathInv, WatchCallbackInv DEF W!Next

LEMMA WatchStillInv == ASSUME NEW o, WatchInv(o), UNCHANGED W(o)!vars PROVE WatchInv(o)'
  BY DEF WatchInv, W!vars, WatchFileType, WatchQueueType, WatchKnownType, WatchNames, WatchSeen,
     W!Readable, WatchCurrent, W!Unsettled, W!Look

LEMMA WatchInvTypeOK ==
  ASSUME NEW o
  PROVE  WatchInv(o) => W(o)!TypeOK
<1> SUFFICES ASSUME WatchInv(o) PROVE W(o)!TypeOK
  OBVIOUS
<1>1. ASSUME NEW w \in WatchesOn(o)
      PROVE  Len(queue[w]) <= QueueCap /\ \A i \in DOMAIN queue[w] : queue[w][i] \in W(o)!Records
  BY DEF WatchInv, WatchQueueType, WatchQueue
<1>2. over \in [WatchesOn(o) -> BOOLEAN]
  BY DEF WatchInv, WatchQueueType, WatchQueue
<1>3. \A w \in WatchesOn(o) : over[w] => queue[w] = <<>>
  BY DEF WatchInv, WatchQueueType, WatchQueue
<1> QED
  BY <1>1, <1>2, <1>3 DEF W!TypeOK, WatchInv, WatchFileType, WatchQueueType, WatchKnownType,
     WatchHands, WatchModes

LEMMA WatchInvCurrent ==
  ASSUME NEW o
  PROVE  WatchInv(o) => W(o)!SleeperIsCurrent
<1> SUFFICES ASSUME WatchInv(o), NEW w \in WatchesOn(o), mode[w] = "parked" PROVE WatchCurrent(o, w)
  BY DEF W!SleeperIsCurrent, WatchCurrent
<1> QED
  BY DEF WatchInv, WatchSeen

-----------------------------------------------------------------------------
-----------------------------------------------------------------------------
(* Recursion over a queue                                                   *)

\* Induction up to n, over a set.
LEMMA UpTo ==
  ASSUME NEW N \in Nat, NEW P, 0 \in P, \A n \in 1..N : n - 1 \in P => n \in P
  PROVE  0..N \subseteq P
<1> SUFFICES ASSUME NEW m \in 0..N, m \notin P PROVE FALSE
  OBVIOUS
<1> DEFINE B == {n \in 0..N : n \notin P}
<1>1. B \subseteq Nat /\ B # {}
  OBVIOUS
<1>2. PICK x \in B : \A y \in B : ~ (<<y, x>> \in OpToRel(<, Nat))
  BY <1>1, NatLessThanWellFounded, WFMin, Zenon
<1>3. x \in 1..N
  OBVIOUS
<1>4. x - 1 \notin B
  <2>1. x - 1 \in Nat /\ x \in Nat /\ x - 1 < x
    BY <1>3
  <2>2. <<x - 1, x>> \in {ss \in Nat \X Nat : ss[1] < ss[2]}
    BY <2>1
  <2> QED
    BY <1>2, <2>2 DEF OpToRel
<1> QED
  BY <1>3, <1>4

\* A loop of N steps, each from one family of states into the next, has a
\* history, ...
IsHistory(h, N, s, step) == h = [n \in 0..N |-> IF n = 0 THEN s ELSE step[n][h[n - 1]]]

LEMMA History ==
  ASSUME NEW N \in Nat, NEW s, NEW G, NEW step, s \in G[0],
         \A n \in 1..N : step[n] \in [G[n - 1] -> G[n]]
  PROVE  \E h : IsHistory(h, N, s, step) /\ \A n \in 0..N : h[n] \in G[n]
<1> DEFINE Good(m, h) == /\ h = [n \in 0..m |-> IF n = 0 THEN s ELSE step[n][h[n - 1]]]
                         /\ \A n \in 0..m : h[n] \in G[n]
           P == {m \in Nat : \E h : Good(m, h)}
<1>1. 0 \in P
  <2> DEFINE h0 == [n \in 0..0 |-> s]
  <2>1. h0 = [n \in 0..0 |-> IF n = 0 THEN s ELSE step[n][h0[n - 1]]]
    OBVIOUS
  <2>2. \A n \in 0..0 : h0[n] \in G[n]
    OBVIOUS
  <2> HIDE DEF h0
  <2> QED
    BY <2>1, <2>2
<1>2. ASSUME NEW m \in 1..N, m - 1 \in P PROVE m \in P
  <2>1. PICK h : Good(m - 1, h)
    BY <1>2
  <2> DEFINE k == [n \in 0..m |-> IF n = m THEN step[m][h[m - 1]] ELSE h[n]]
  <2>2. h[m - 1] \in G[m - 1]
    BY <2>1
  <2>3. k[m] = step[m][h[m - 1]] /\ \A n \in 0..(m - 1) : k[n] = h[n]
    OBVIOUS
  <2>4. \A n \in 0..m : k[n] \in G[n]
    <3> HIDE DEF k
    <3>1. k[m] \in G[m]
      BY <2>2, <2>3
    <3> TAKE n \in 0..m
    <3>2. CASE n = m
      BY <3>1, <3>2
    <3>3. CASE n # m
      <4>1. n \in 0..(m - 1)
        BY <3>3
      <4> QED
        BY <2>1, <2>3, <4>1
    <3> QED
      BY <3>2, <3>3
  <2>5. \A n \in 0..m : k[n] = IF n = 0 THEN s ELSE step[n][k[n - 1]]
    <3> HIDE DEF k
    <3> TAKE n \in 0..m
    <3>1. CASE n = m
      BY <3>1, <2>3
    <3>2. CASE n # m
      <4>1. n \in 0..(m - 1) /\ (n # 0 => n - 1 \in 0..(m - 1))
        BY <3>2
      <4>2. h[n] = IF n = 0 THEN s ELSE step[n][h[n - 1]]
        BY <2>1, <4>1
      <4> QED
        BY <2>3, <4>1, <4>2
    <3> QED
      BY <3>1, <3>2
  <2>6. k = [n \in 0..m |-> IF n = 0 THEN s ELSE step[n][k[n - 1]]]
    <3>1. k = [n \in 0..m |-> k[n]]
      OBVIOUS
    <3> HIDE DEF k
    <3> QED
      BY <2>5, <3>1
  <2> HIDE DEF k
  <2> QED
    BY <2>4, <2>6
<1> HIDE DEF P
<1>3. N \in P
  <2>1. 0..N \subseteq P
    BY <1>1, <1>2, UpTo
  <2> QED
    BY <2>1
<1> QED
  BY <1>3 DEF P, IsHistory

\* ... which stays in the families.
LEMMA HistoryIn ==
  ASSUME NEW N \in Nat, NEW s, NEW G, NEW h, s \in G[0], h[0] = s,
         \A n \in 1..N : h[n - 1] \in G[n - 1] => h[n] \in G[n]
  PROVE  \A n \in 0..N : h[n] \in G[n]
<1> DEFINE P == {n \in Nat : h[n] \in G[n]}
<1>1. 0 \in P
  OBVIOUS
<1>2. \A n \in 1..N : n - 1 \in P => n \in P
  OBVIOUS
<1> HIDE DEF P
<1>3. 0..N \subseteq P
  BY <1>1, <1>2, UpTo
<1> QED
  BY <1>3 DEF P

\* The queue that remains: who was in it, without those.
LEMMA WithoutIs ==
  ASSUME NEW Z, NEW q \in Seq(Z), NEW gone
  PROVE  /\ T!Without(q, gone) \in Seq(Z)
         /\ T!Range(T!Without(q, gone)) = T!Range(q) \ gone
         /\ Len(T!Without(q, gone)) <= Len(q)
         /\ T!Range(q) \cap gone # {} => Len(T!Without(q, gone)) < Len(q)
         /\ T!IsInjective(q) => T!IsInjective(T!Without(q, gone))
<1> DEFINE N == Len(q)
           First(n) == {q[i] : i \in 1..n}
           F(k, n) == IF q[n] \in gone THEN k ELSE Append(k, q[n])
           Kept(n) == {k \in Seq(Z) : /\ T!Range(k) = First(n) \ gone
                                      /\ Len(k) <= n
                                      /\ First(n) \cap gone # {} => Len(k) < n
                                      /\ T!IsInjective(q) => T!IsInjective(k)}
           G == [n \in 0..N |-> Kept(n)]
           step == [n \in 1..N |-> [k \in G[n - 1] |-> F(k, n)]]
<1>1. N \in Nat /\ DOMAIN q = 1..N /\ \A i \in 1..N : q[i] \in Z
  OBVIOUS
<1>0. \A n \in 0..N : G[n] = Kept(n)
  OBVIOUS
<1> HIDE DEF G
<1>2. <<>> \in G[0]
  <2>1. <<>> \in Seq(Z) /\ T!Range(<<>>) = {} /\ First(0) = {} /\ T!IsInjective(<<>>)
    BY DEF T!Range, T!IsInjective
  <2>2. <<>> \in Kept(0)
    BY <2>1
  <2>3. 0 \in 0..N
    BY <1>1
  <2> HIDE DEF Kept, N
  <2> QED
    BY <1>0, <2>2, <2>3, Zenon
<1>3. ASSUME NEW n \in 1..N, NEW k \in G[n - 1] PROVE F(k, n) \in G[n]
  <2>1. /\ k \in Seq(Z) /\ T!Range(k) = First(n - 1) \ gone
        /\ Len(k) <= n - 1 /\ (First(n - 1) \cap gone # {} => Len(k) < n - 1)
        /\ T!IsInjective(q) => T!IsInjective(k)
    <3>1. k \in Kept(n - 1)
      BY <1>0, <1>1, <1>3
    <3> QED
      BY <3>1
  <2>2. First(n) = First(n - 1) \cup {q[n]}
    BY <1>3
  <2>3. n \in 0..N /\ q[n] \in Z
    BY <1>1
  <2>4. CASE q[n] \in gone
    <3>1. F(k, n) = k /\ T!Range(k) = First(n) \ gone
      BY <2>1, <2>2, <2>4
    <3>2. Len(k) \in Nat /\ Len(k) < n /\ Len(k) <= n
      BY <2>1, <1>3
    <3>3. k \in Kept(n)
      BY <2>1, <3>1, <3>2
    <3> QED
      BY <1>0, <2>3, <3>1, <3>3
  <2>5. CASE q[n] \notin gone
    <3>1. F(k, n) = Append(k, q[n])
      BY <2>5
    <3> HIDE DEF F
    <3>2. /\ F(k, n) \in Seq(Z) /\ Len(F(k, n)) = Len(k) + 1
          /\ \A i \in 1..Len(k) : F(k, n)[i] = k[i]
          /\ F(k, n)[Len(k) + 1] = q[n]
      BY <2>1, <2>3, <3>1, AppendProperties
    <3>3. Len(k) \in Nat /\ DOMAIN k = 1..Len(k) /\ DOMAIN F(k, n) = 1..(Len(k) + 1)
      BY <2>1, <3>2
    <3>4. T!Range(F(k, n)) = T!Range(k) \cup {q[n]}
      BY <3>2, <3>3 DEF T!Range
    <3>5. ASSUME T!IsInjective(q) PROVE T!IsInjective(F(k, n))
      <4>1. q[n] \notin First(n - 1)
        BY <1>1, <3>5 DEF T!IsInjective
      <4>2. \A i \in 1..Len(k) : k[i] # q[n]
        BY <2>1, <3>3, <4>1 DEF T!Range
      <4>3. \A i, j \in 1..Len(k) : k[i] = k[j] => i = j
        BY <2>1, <3>3, <3>5 DEF T!IsInjective
      <4> QED
        BY <3>2, <3>3, <4>2, <4>3 DEF T!IsInjective
    <3>6. T!Range(F(k, n)) = First(n) \ gone
      BY <2>1, <2>2, <2>5, <3>4
    <3>7. Len(F(k, n)) <= n
      BY <1>3, <2>1, <3>2, <3>3
    <3>8. ASSUME First(n) \cap gone # {} PROVE Len(F(k, n)) < n
      <4>1. First(n - 1) \cap gone # {}
        BY <2>2, <2>5, <3>8
      <4> QED
        BY <1>3, <2>1, <3>2, <3>3, <4>1
    <3>9. F(k, n) \in Kept(n)
      BY <3>2, <3>5, <3>6, <3>7, <3>8
    <3> QED
      BY <1>0, <2>3, <3>9
  <2> QED
    BY <2>4, <2>5
<1>4. \A n \in 1..N : step[n] \in [G[n - 1] -> G[n]]
  BY <1>3
<1> DEFINE Is(h) == h = [n \in 0..N |-> IF n = 0 THEN <<>> ELSE F(h[n - 1], n)]
<1>5. \E h : Is(h)
  <2>3. \A n \in 1..N : \A k \in G[n - 1] : step[n][k] = F(k, n)
    OBVIOUS
  <2> HIDE DEF step, F, N
  <2>1. PICK h : IsHistory(h, N, <<>>, step) /\ \A n \in 0..N : h[n] \in G[n]
    <3>1. N \in Nat
      BY <1>1
    <3> QED
      BY <3>1, <1>2, <1>4, History
  <2>2. \A n \in 1..N : h[n - 1] \in G[n - 1] /\ step[n][h[n - 1]] = F(h[n - 1], n)
    BY <1>1, <2>1, <2>3
  <2>4. \A n \in 0..N : (IF n = 0 THEN <<>> ELSE step[n][h[n - 1]])
                       = (IF n = 0 THEN <<>> ELSE F(h[n - 1], n))
    BY <1>1, <2>2
  <2>5. [n \in 0..N |-> IF n = 0 THEN <<>> ELSE step[n][h[n - 1]]]
        = [n \in 0..N |-> IF n = 0 THEN <<>> ELSE F(h[n - 1], n)]
    BY <2>4, Zenon
  <2> QED
    BY <2>1, <2>5, Zenon DEF IsHistory
<1>6. PICK h : h = CHOOSE w : Is(w)
  OBVIOUS
<1>7. Is(h)
  BY <1>5, <1>6
<1>8. T!Without(q, gone) = h[N]
  BY <1>6 DEF T!Without
<1>9. h[N] \in G[N]
  <2> HIDE DEF F
  <2>1. h[0] = <<>> /\ \A n \in 1..N : h[n] = F(h[n - 1], n)
    BY <1>1, <1>7
  <2> HIDE DEF Is, N
  <2>2. \A n \in 1..N : h[n - 1] \in G[n - 1] => h[n] \in G[n]
    BY <1>3, <2>1
  <2>3. N \in Nat
    BY <1>1
  <2>4. h[0] = <<>>
    BY <2>1
  <2>5. \A n \in 0..N : h[n] \in G[n]
    BY <1>2, <2>2, <2>3, <2>4, HistoryIn
  <2> QED
    BY <2>3, <2>5
<1> HIDE DEF Is
<1>10. First(N) = T!Range(q)
  BY <1>1 DEF T!Range
<1>11. h[N] \in Kept(N)
  BY <1>0, <1>1, <1>9
<1> QED
  BY <1>8, <1>10, <1>11

-----------------------------------------------------------------------------
(* Handing out input                                                        *)

TermLife == {"running", "stopped", "dead"}

\* What the kernel changes when it hands out input.
TermStates == [state : [TtyProcs -> TermLife], pending : SUBSET TtyProcs, waiters : Seq(TtyProcs),
               cooked : Seq(Nat), eof : BOOLEAN, hup : BOOLEAN, read : Seq(Nat), zeros : Nat,
               over : BOOLEAN]

TermNothing(s) == s.cooked = <<>> /\ ~s.eof /\ ~s.hup

\* Ends of file a record still promises or has handed out.
TermEnds(s) == s.zeros + (IF s.eof THEN 1 ELSE 0)

\* From s to t some reads were answered, and some processes stopped.
TermServes(s, t) ==
  /\ t \in TermStates
  /\ T!IsInjective(s.waiters) => T!IsInjective(t.waiters)
  /\ T!Range(t.waiters) \subseteq T!Range(s.waiters)
  /\ \A p \in TtyProcs : t.state[p] = "dead" <=> s.state[p] = "dead"
  /\ \A p \in TtyProcs : t.state[p] = "running" => s.state[p] = "running"
  /\ t.read \o t.cooked = s.read \o s.cooked
  /\ t.hup = s.hup /\ TermEnds(t) <= TermEnds(s)

LEMMA TermEndsType == ASSUME NEW s \in TermStates PROVE TermEnds(s) \in Nat
<1>1. s.zeros \in Nat
  BY DEF TermStates
<1> QED
  BY <1>1 DEF TermEnds

LEMMA TermServesTrans ==
  ASSUME NEW s \in TermStates, NEW t, NEW u, TermServes(s, t), TermServes(t, u)
  PROVE  TermServes(s, u)
<1>1. TermEnds(u) <= TermEnds(s)
  <2>1. t \in TermStates /\ u \in TermStates /\ TermEnds(t) <= TermEnds(s) /\ TermEnds(u) <= TermEnds(t)
    BY DEF TermServes
  <2>2. TermEnds(s) \in Nat /\ TermEnds(t) \in Nat /\ TermEnds(u) \in Nat
    BY <2>1, TermEndsType
  <2> QED
    BY <2>1, <2>2
<1> QED
  BY <1>1 DEF TermServes

LEMMA TermServesSelf == ASSUME NEW s \in TermStates PROVE TermServes(s, s)
<1>1. TermEnds(s) <= TermEnds(s)
  BY TermEndsType
<1> QED
  BY <1>1 DEF TermServes

LEMMA TermLeave ==
  ASSUME NEW s \in TermStates, NEW p
  PROVE  /\ TermServes(s, T!Leave(s, p)) /\ p \notin T!Range(T!Leave(s, p).waiters)
         /\ T!Leave(s, p).cooked = s.cooked /\ T!Leave(s, p).eof = s.eof /\ T!Leave(s, p).hup = s.hup
         /\ T!Leave(s, p).over = s.over /\ T!Leave(s, p).state = s.state
         /\ T!Leave(s, p).pending = s.pending /\ T!Leave(s, p).read = s.read
         /\ T!Leave(s, p).zeros = s.zeros
<1>1. PICK w : w = T!Without(s.waiters, {p})
  OBVIOUS
<1>2. s.waiters \in Seq(TtyProcs)
  BY DEF TermStates
<1>3. /\ w \in Seq(TtyProcs) /\ T!Range(w) = T!Range(s.waiters) \ {p}
      /\ T!IsInjective(s.waiters) => T!IsInjective(w)
  BY <1>1, <1>2, WithoutIs
<1>4. PICK t : t = [s EXCEPT !.waiters = w]
  OBVIOUS
<1>5. T!Leave(s, p) = t
  BY <1>1, <1>4 DEF T!Leave
<1>6. /\ t \in TermStates /\ t.waiters = w /\ t.cooked = s.cooked /\ t.eof = s.eof
      /\ t.hup = s.hup /\ t.over = s.over /\ t.state = s.state /\ t.read = s.read
      /\ t.pending = s.pending /\ t.zeros = s.zeros
  BY <1>3, <1>4 DEF TermStates
<1>7. TermEnds(t) <= TermEnds(s)
  BY <1>6, TermEndsType DEF TermEnds
<1>8. TermServes(s, t)
  BY <1>3, <1>6, <1>7 DEF TermServes
<1> QED
  BY <1>3, <1>5, <1>6, <1>8

LEMMA TermStop ==
  ASSUME NEW s \in TermStates, NEW g
  PROVE  /\ TermServes(s, T!StopGroup(s, g))
         /\ T!StopGroup(s, g).waiters = s.waiters /\ T!StopGroup(s, g).over = s.over
         /\ T!StopGroup(s, g).cooked = s.cooked /\ T!StopGroup(s, g).eof = s.eof
<1>1. PICK st : st = [p \in TtyProcs |-> IF p \in T!Of(g, "default") /\ s.state[p] = "running" THEN "stopped"
                                      ELSE s.state[p]]
  OBVIOUS
<1>2. PICK pe : pe = s.pending \cup T!Of(g, "handler")
  OBVIOUS
<1>3. T!Of(g, "handler") \subseteq TtyProcs
  BY DEF T!Of, T!Alive
<1>4. st \in [TtyProcs -> TermLife] /\ pe \in SUBSET TtyProcs
  BY <1>1, <1>2, <1>3 DEF TermStates, TermLife
<1>5. PICK t : t = [s EXCEPT !.state = st, !.pending = pe]
  OBVIOUS
<1>6. T!StopGroup(s, g) = t
  BY <1>1, <1>2, <1>5 DEF T!StopGroup
<1>7. /\ t \in TermStates /\ t.state = st /\ t.waiters = s.waiters /\ t.cooked = s.cooked /\ t.eof = s.eof
      /\ t.hup = s.hup /\ t.over = s.over /\ t.read = s.read /\ t.zeros = s.zeros
  BY <1>4, <1>5 DEF TermStates
<1>8. TermEnds(t) <= TermEnds(s)
  BY <1>7, TermEndsType DEF TermEnds
<1>9. \A p \in TtyProcs : (st[p] = "dead" <=> s.state[p] = "dead") /\ (st[p] = "running" => s.state[p] = "running")
  BY <1>1
<1>10. TermServes(s, t)
  BY <1>7, <1>8, <1>9 DEF TermServes
<1> QED
  BY <1>6, <1>7, <1>10

LEMMA TermAssoc ==
  ASSUME NEW a \in Seq(Nat), NEW b \in Seq(Nat), NEW c \in Seq(Nat)
  PROVE  (a \o b) \o c = a \o (b \o c)
  BY ConcatAssociative

LEMMA TermTake ==
  ASSUME NEW s \in TermStates
  PROVE  /\ TermServes(s, T!Take(s))
         /\ T!Take(s).waiters = s.waiters /\ T!Take(s).over = s.over /\ T!Take(s).state = s.state
         /\ T!Take(s).eof = s.eof
<1> DEFINE L == Len(s.cooked)
<1>1. PICK n : n = IF Len(s.cooked) < ReadCount THEN Len(s.cooked) ELSE ReadCount
  OBVIOUS
<1>2. s.cooked \in Seq(Nat) /\ s.read \in Seq(Nat) /\ L \in Nat
  BY DEF TermStates
<1>3. n \in 0..L
  BY <1>1, <1>2, ObjectsAssumption
<1>4. PICK a : a = SubSeq(s.cooked, 1, n)
  OBVIOUS
<1>5. PICK b : b = SubSeq(s.cooked, n + 1, L)
  OBVIOUS
<1>6. a \in Seq(Nat) /\ b \in Seq(Nat)
  BY <1>2, <1>3, <1>4, <1>5
<1>7. a \o b = s.cooked
  <2>1. 1 \in 1..L + 1 /\ n \in 1 - 1..L /\ L \in n..L
    BY <1>2, <1>3
  <2>2. SubSeq(s.cooked, 1, n) \o SubSeq(s.cooked, n + 1, L) = SubSeq(s.cooked, 1, L)
    BY <1>2, <2>1, ConcatAdjacentSubSeq
  <2> QED
    BY <1>2, <1>4, <1>5, <2>2, SubSeqFull
<1>8. (s.read \o a) \o b = s.read \o s.cooked
  <2>1. (s.read \o a) \o b = s.read \o (a \o b)
    <3>1. s.read \in Seq(Nat) /\ a \in Seq(Nat) /\ b \in Seq(Nat)
      BY <1>2, <1>6
    <3> QED
      BY <3>1, TermAssoc
  <2> QED
    BY <1>7, <2>1
<1>9. PICK r : r = s.read \o a
  OBVIOUS
<1>10. r \in Seq(Nat)
  BY <1>2, <1>6, <1>9
<1>11. PICK t : t = [s EXCEPT !.read = r, !.cooked = b]
  OBVIOUS
<1>12. T!Take(s) = t
  BY <1>1, <1>4, <1>5, <1>9, <1>11 DEF T!Take
<1>13. /\ t \in TermStates /\ t.state = s.state /\ t.waiters = s.waiters /\ t.cooked = b /\ t.eof = s.eof
       /\ t.hup = s.hup /\ t.over = s.over /\ t.read = r /\ t.zeros = s.zeros
  BY <1>6, <1>10, <1>11 DEF TermStates
<1>14. TermEnds(t) <= TermEnds(s)
  BY <1>13, TermEndsType DEF TermEnds
<1>15. t.read \o t.cooked = s.read \o s.cooked
  BY <1>8, <1>9, <1>13
<1>16. TermServes(s, t)
  BY <1>13, <1>14, <1>15 DEF TermServes
<1> QED
  BY <1>12, <1>13, <1>16

LEMMA TermConsume ==
  ASSUME NEW s \in TermStates, s.eof \/ s.hup
  PROVE  /\ TermServes(s, T!Consume(s))
         /\ T!Consume(s).waiters = s.waiters /\ T!Consume(s).over = s.over /\ T!Consume(s).state = s.state
         /\ T!Consume(s).cooked = s.cooked
<1>1. PICK z : z = IF s.hup THEN s.zeros ELSE s.zeros + 1
  OBVIOUS
<1>2. PICK e : e = IF s.hup THEN s.eof ELSE FALSE
  OBVIOUS
<1>3. s.zeros \in Nat /\ s.eof \in BOOLEAN /\ s.hup \in BOOLEAN
  BY DEF TermStates
<1>10. z \in Nat
  BY <1>1, <1>3
<1>11. e \in BOOLEAN
  BY <1>2, <1>3, Zenon
<1>4. z \in Nat /\ e \in BOOLEAN
  BY <1>10, <1>11
<1>5. PICK t : t = [s EXCEPT !.zeros = z, !.eof = e]
  OBVIOUS
<1>6. T!Consume(s) = t
  BY <1>1, <1>2, <1>5 DEF T!Consume
<1>7. /\ t \in TermStates /\ t.state = s.state /\ t.waiters = s.waiters /\ t.cooked = s.cooked /\ t.eof = e
      /\ t.hup = s.hup /\ t.over = s.over /\ t.read = s.read /\ t.zeros = z
  BY <1>4, <1>5 DEF TermStates
<1>8. TermEnds(t) <= TermEnds(s)
  BY <1>1, <1>2, <1>3, <1>7 DEF TermEnds
<1>9. TermServes(s, t)
  BY <1>7, <1>8 DEF TermServes
<1> QED
  BY <1>6, <1>7, <1>9

\* One reader of the walk: answered or refused he leaves, asleep he is
\* stopped, or there is nothing more to hand out.
LEMMA TermServe ==
  ASSUME NEW s \in TermStates, NEW p \in TtyProcs, NEW t, t = T!Serve(s, p)
  PROVE  /\ TermServes(s, t)
         /\ ~s.over => p \notin T!Range(t.waiters) \/ t.state[p] # "running" \/ t.over
         /\ (s.over => TermNothing(s)) => (t.over => TermNothing(t))
         /\ s.over => t = s
<1>7. PICK l : l = T!Leave(s, p)
  OBVIOUS
<1>0. /\ l \in TermStates /\ TermServes(s, l) /\ p \notin T!Range(l.waiters)
      /\ l.cooked = s.cooked /\ l.eof = s.eof /\ l.hup = s.hup /\ l.over = s.over /\ l.state = s.state
  BY <1>7, TermLeave DEF TermServes
<1>1. s.over \in BOOLEAN /\ s.state \in [TtyProcs -> TermLife]
  BY DEF TermStates
<1>2. CASE s.over \/ s.state[p] = "stopped"
  <2>1. t = s
    BY <1>2 DEF T!Serve
  <2> QED
    BY <1>2, <2>1, TermServesSelf
<1>3. CASE ~s.over /\ s.state[p] # "stopped" /\ T!Background(p)
  <2>1. t = T!Refuse(l, p)
    BY <1>3, <1>7 DEF T!Serve
  <2>2. CASE TtyDisp[p] = "ignore"
    <3>1. t = l
      BY <2>1, <2>2 DEF T!Refuse
    <3> QED
      BY <1>0, <1>3, <3>1
  <2>3. CASE TtyDisp[p] # "ignore"
    <3>1. t = T!StopGroup(l, TtyGroup[p])
      BY <2>1, <2>3 DEF T!Refuse
    <3>2. TermServes(l, t) /\ t.waiters = l.waiters /\ t.over = l.over
      BY <1>0, <3>1, TermStop
    <3>3. TermServes(s, t)
      BY <1>0, <3>2, TermServesTrans
    <3> QED
      BY <1>0, <1>3, <3>2, <3>3
  <2> QED
    BY <2>2, <2>3
<1>4. CASE ~s.over /\ s.state[p] # "stopped" /\ ~T!Background(p) /\ s.cooked # <<>>
  <2>1. t = T!Take(l)
    BY <1>4, <1>7 DEF T!Serve
  <2>2. TermServes(l, t) /\ t.waiters = l.waiters /\ t.over = l.over
    BY <1>0, <2>1, TermTake
  <2>3. TermServes(s, t)
    BY <1>0, <2>2, TermServesTrans
  <2> QED
    BY <1>0, <1>4, <2>2, <2>3
<1>5. CASE ~s.over /\ s.state[p] # "stopped" /\ ~T!Background(p) /\ s.cooked = <<>> /\ (s.eof \/ s.hup)
  <2>1. t = T!Consume(l)
    BY <1>5, <1>7 DEF T!Serve
  <2>2. TermServes(l, t) /\ t.waiters = l.waiters /\ t.over = l.over
    BY <1>0, <1>5, <2>1, TermConsume
  <2>3. TermServes(s, t)
    BY <1>0, <2>2, TermServesTrans
  <2> QED
    BY <1>0, <1>5, <2>2, <2>3
<1>6. CASE ~s.over /\ s.state[p] # "stopped" /\ ~T!Background(p) /\ s.cooked = <<>> /\ ~(s.eof \/ s.hup)
  <2>1. t = [s EXCEPT !.over = TRUE]
    BY <1>6 DEF T!Serve
  <2>2. /\ t \in TermStates /\ t.state = s.state /\ t.waiters = s.waiters /\ t.cooked = s.cooked
        /\ t.eof = s.eof /\ t.hup = s.hup /\ t.over /\ t.read = s.read /\ t.zeros = s.zeros
    BY <2>1 DEF TermStates
  <2>3. TermEnds(t) <= TermEnds(s)
    BY <2>2, TermEndsType DEF TermEnds
  <2>4. TermServes(s, t)
    BY <2>2, <2>3 DEF TermServes
  <2>5. TermNothing(t)
    BY <1>6, <2>2 DEF TermNothing
  <2> QED
    BY <1>6, <2>2, <2>4, <2>5
<1> QED
  BY <1>1, <1>2, <1>3, <1>4, <1>5, <1>6

\* _ttyNotify: what is handed out, and that nobody who could take more of it
\* is left.
LEMMA TermNotify ==
  ASSUME NEW s \in TermStates, ~s.over
  PROVE  /\ TermServes(s, T!Notify(s))
         /\ \A p \in T!Range(T!Notify(s).waiters) : T!Notify(s).state[p] = "running" => TermNothing(T!Notify(s))
<1> DEFINE N == Len(s.waiters)
           q == s.waiters
           Fine(t, n) ==
             /\ TermServes(s, t) /\ (t.over => TermNothing(t))
             /\ \A i \in 1..n : q[i] \in T!Range(t.waiters) /\ t.state[q[i]] = "running" => t.over
           Kept(n) == {t \in TermStates : Fine(t, n)}
           G == [n \in 0..N |-> Kept(n)]
           step == [n \in 1..N |-> [t \in G[n - 1] |-> T!Serve(t, q[n])]]
<1>1. N \in Nat /\ DOMAIN q = 1..N /\ \A i \in 1..N : q[i] \in TtyProcs
  BY DEF TermStates
<1>0. \A n \in 0..N : G[n] = Kept(n)
  OBVIOUS
<1> HIDE DEF G
<1>2. s \in G[0]
  <2>1. Fine(s, 0)
    BY TermServesSelf
  <2>2. s \in Kept(0) /\ 0 \in 0..N
    BY <1>1, <2>1
  <2> HIDE DEF Kept, N
  <2> QED
    BY <1>0, <2>2, Zenon
<1>3. ASSUME NEW n \in 1..N, NEW t \in G[n - 1] PROVE T!Serve(t, q[n]) \in G[n]
  <2>1. t \in TermStates /\ Fine(t, n - 1)
    <3>1. t \in Kept(n - 1)
      BY <1>0, <1>1, <1>3
    <3> QED
      BY <3>1
  <2>2. q[n] \in TtyProcs /\ n \in 0..N
    BY <1>1
  <2>3. PICK u : u = T!Serve(t, q[n])
    OBVIOUS
  <2>4. /\ TermServes(t, u)
        /\ ~t.over => q[n] \notin T!Range(u.waiters) \/ u.state[q[n]] # "running" \/ u.over
        /\ (t.over => TermNothing(t)) => (u.over => TermNothing(u))
        /\ t.over => u = t
    BY <2>1, <2>2, <2>3, TermServe
  <2>5. u \in TermStates
    BY <2>4 DEF TermServes
  <2>6. TermServes(s, u)
    BY <2>1, <2>4, TermServesTrans
  <2>7. ASSUME NEW i \in 1..n, q[i] \in T!Range(u.waiters), u.state[q[i]] = "running" PROVE u.over
    <3>1. CASE t.over
      BY <2>4, <3>1
    <3>2. CASE ~t.over
      <4>1. CASE i = n
        BY <2>4, <2>7, <3>2, <4>1
      <4>2. CASE i # n
        <5>1. i \in 1..(n - 1) /\ q[i] \in TtyProcs
          BY <1>1, <4>2
        <5>2. q[i] \in T!Range(t.waiters) /\ t.state[q[i]] = "running"
          BY <2>4, <2>7, <5>1 DEF TermServes
        <5> QED
          BY <2>1, <3>2, <5>1, <5>2
      <4> QED
        BY <4>1, <4>2
    <3> QED
      BY <3>1, <3>2
  <2>8. Fine(u, n)
    BY <2>1, <2>4, <2>6, <2>7
  <2>9. u \in Kept(n)
    BY <2>5, <2>8
  <2> HIDE DEF Kept, N, q
  <2> QED
    BY <1>0, <2>2, <2>3, <2>9, Zenon
<1>4. \A n \in 1..N : step[n] \in [G[n - 1] -> G[n]]
  BY <1>3
<1> DEFINE Is(h) == h = [n \in 0..N |-> IF n = 0 THEN s ELSE T!Serve(h[n - 1], q[n])]
<1>5. \E h : Is(h)
  <2>3. \A n \in 1..N : \A t \in G[n - 1] : step[n][t] = T!Serve(t, q[n])
    OBVIOUS
  <2> HIDE DEF step, N, q
  <2>1. PICK h : IsHistory(h, N, s, step) /\ \A n \in 0..N : h[n] \in G[n]
    <3>1. N \in Nat
      BY <1>1
    <3> QED
      BY <3>1, <1>2, <1>4, History
  <2>2. \A n \in 1..N : h[n - 1] \in G[n - 1] /\ step[n][h[n - 1]] = T!Serve(h[n - 1], q[n])
    BY <1>1, <2>1, <2>3
  <2>4. \A n \in 0..N : (IF n = 0 THEN s ELSE step[n][h[n - 1]])
                       = (IF n = 0 THEN s ELSE T!Serve(h[n - 1], q[n]))
    BY <1>1, <2>2
  <2>5. [n \in 0..N |-> IF n = 0 THEN s ELSE step[n][h[n - 1]]]
        = [n \in 0..N |-> IF n = 0 THEN s ELSE T!Serve(h[n - 1], q[n])]
    BY <2>4, Zenon
  <2> QED
    BY <2>1, <2>5, Zenon DEF IsHistory
<1>6. PICK h : h = CHOOSE w : Is(w)
  OBVIOUS
<1>7. Is(h)
  BY <1>5, <1>6
<1>8. T!Notify(s) = h[N]
  BY <1>6 DEF T!Notify
<1>9. h[N] \in G[N]
  <2>1. h[0] = s /\ \A n \in 1..N : h[n] = T!Serve(h[n - 1], q[n])
    BY <1>1, <1>7
  <2> HIDE DEF Is, N, q
  <2>2. \A n \in 1..N : h[n - 1] \in G[n - 1] => h[n] \in G[n]
    BY <1>3, <2>1
  <2>3. N \in Nat
    BY <1>1
  <2> QED
    BY <1>2, <2>1, <2>2, <2>3, HistoryIn
<1> HIDE DEF Is
<1>10. PICK t : t = T!Notify(s)
  OBVIOUS
<1>11. Fine(t, N)
  <2>1. h[N] \in Kept(N)
    BY <1>0, <1>1, <1>9
  <2> QED
    BY <1>8, <1>10, <2>1
<1>12. ASSUME NEW p \in T!Range(t.waiters), t.state[p] = "running" PROVE TermNothing(t)
  <2>1. PICK i \in 1..N : q[i] = p
    BY <1>1, <1>11 DEF TermServes, T!Range
  <2> QED
    BY <1>11, <1>12, <2>1
<1> QED
  BY <1>10, <1>11, <1>12

-----------------------------------------------------------------------------
(* Keystrokes                                                               *)

\* What InputOnceInOrder says of all that is left, dropped and typed.
TermInput(all, d, n) ==
  /\ \A i, j \in DOMAIN all : i < j => all[i] < all[j]
  /\ T!Range(all) \cap d = {} /\ T!Range(all) \cup d = 1..n

LEMMA TermJoin ==
  ASSUME NEW a \in Seq(Nat), NEW b \in Seq(Nat)
  PROVE  /\ a \o b \in Seq(Nat) /\ T!Range(a \o b) = T!Range(a) \cup T!Range(b)
         /\ a \o <<>> = a
<1>1. Range(a \o b) = Range(a) \cup Range(b)
  BY RangeConcatenation
<1>2. \A q : T!Range(q) = Range(q)
  BY DEF Range, T!Range
<1>3. a \o b \in Seq(Nat) /\ a \o <<>> = a
  BY ConcatEmptySeq
<1> QED
  BY <1>1, <1>2, <1>3

\* One more keystroke at the end.
LEMMA TermInputAppend ==
  ASSUME NEW a \in Seq(Nat), NEW d, NEW n \in Nat, TermInput(a, d, n)
  PROVE  TermInput(Append(a, n + 1), d, n + 1)
<1>1. /\ Len(Append(a, n + 1)) = Len(a) + 1 /\ Append(a, n + 1) \in Seq(Nat)
      /\ \A i \in 1..Len(a) : Append(a, n + 1)[i] = a[i]
      /\ Append(a, n + 1)[Len(a) + 1] = n + 1
  BY AppendProperties
<1>2. DOMAIN a = 1..Len(a) /\ DOMAIN Append(a, n + 1) = 1..(Len(a) + 1) /\ Len(a) \in Nat
  BY <1>1
<1>3. T!Range(Append(a, n + 1)) = T!Range(a) \cup {n + 1}
  BY <1>1, <1>2 DEF T!Range
<1>4. \A i \in 1..Len(a) : a[i] \in 1..n
  BY <1>2 DEF TermInput, T!Range
<1>5. n + 1 \notin T!Range(a) /\ n + 1 \notin d
  BY DEF TermInput
<1>6. 1..(n + 1) = 1..n \cup {n + 1}
  OBVIOUS
<1>7. \A i, j \in 1..(Len(a) + 1) : i < j => Append(a, n + 1)[i] < Append(a, n + 1)[j]
  <2>1. \A i, j \in 1..Len(a) : i < j => a[i] < a[j]
    BY DEF TermInput
  <2>2. n \in Nat
    BY DEF TermInput
  <2> TAKE i, j \in 1..(Len(a) + 1)
  <2> HAVE i < j
  <2>3. i \in 1..Len(a) /\ (j \in 1..Len(a) \/ j = Len(a) + 1)
    BY <1>2
  <2> QED
    BY <1>1, <1>4, <2>1, <2>2, <2>3
<1> QED
  BY <1>2, <1>3, <1>5, <1>6, <1>7 DEF TermInput

\* The end is dropped.
LEMMA TermInputCut ==
  ASSUME NEW a \in Seq(Nat), NEW b \in Seq(Nat), NEW d, NEW n \in Nat, TermInput(a \o b, d, n)
  PROVE  TermInput(a, d \cup T!Range(b), n)
<1>0. PICK q : q = a \o b
  OBVIOUS
<1>1. /\ Len(a) \in Nat /\ Len(b) \in Nat /\ DOMAIN a = 1..Len(a) /\ DOMAIN b = 1..Len(b)
      /\ DOMAIN q = 1..(Len(a) + Len(b))
  BY <1>0
<1>2. /\ \A i \in 1..Len(a) : q[i] = a[i]
      /\ \A i \in 1..Len(b) : q[Len(a) + i] = b[i]
  BY <1>0
<1>3. T!Range(q) = T!Range(a) \cup T!Range(b)
  BY <1>0, TermJoin
<1>4. TermInput(q, d, n)
  BY <1>0
<1>5. \A i, j \in 1..(Len(a) + Len(b)) : i < j => q[i] < q[j]
  BY <1>1, <1>4 DEF TermInput
<1>6. \A i, j \in DOMAIN a : i < j => a[i] < a[j]
  <2> SUFFICES ASSUME NEW i \in 1..Len(a), NEW j \in 1..Len(a), i < j PROVE a[i] < a[j]
    BY <1>1
  <2> QED
    BY <1>1, <1>2, <1>5
<1>7. T!Range(a) \cap T!Range(b) = {}
  <2> SUFFICES ASSUME NEW i \in 1..Len(a), NEW j \in 1..Len(b), a[i] = b[j] PROVE FALSE
    BY <1>1 DEF T!Range
  <2>1. q[i] < q[Len(a) + j]
    BY <1>1, <1>5
  <2>2. a[i] \in Nat /\ b[j] \in Nat
    BY <1>1
  <2> QED
    BY <1>2, <2>1, <2>2
<1> QED
  BY <1>3, <1>4, <1>6, <1>7 DEF TermInput

\* Bytes that are pushed come after those that were read and cooked.
LEMMA TermPushed ==
  ASSUME NEW r \in Seq(Nat), NEW c \in Seq(Nat), NEW b \in Seq(Nat)
  PROVE  (r \o (c \o b)) \o <<>> = (r \o c) \o b
<1>1. c \o b \in Seq(Nat)
  BY TermJoin
<1>2. r \o (c \o b) \in Seq(Nat)
  BY <1>1, TermJoin
<1>3. (r \o (c \o b)) \o <<>> = r \o (c \o b)
  BY <1>2, TermJoin
<1> QED
  BY <1>3, TermAssoc

LEMMA TermAppended ==
  ASSUME NEW a \in Seq(Nat), NEW b \in Seq(Nat), NEW k \in Nat
  PROVE  a \o Append(b, k) = Append(a \o b, k)
<1>1. Append(b, k) = b \o <<k>> /\ <<k>> \in Seq(Nat)
  BY AppendIsConcat
<1>2. a \o b \in Seq(Nat)
  BY TermJoin
<1>3. Append(a \o b, k) = (a \o b) \o <<k>>
  BY <1>2, AppendIsConcat
<1> QED
  BY <1>1, <1>3, TermAssoc

-----------------------------------------------------------------------------
(* The invariant                                                            *)

TermAll == read \o cooked \o line

\* Types, in two parts: what handing out input changes, and the rest.
TermTypeIO ==
  /\ state \in [TtyProcs -> TermLife] /\ pending \subseteq TtyProcs /\ waiters \in Seq(TtyProcs)
  /\ cooked \in Seq(Nat) /\ read \in Seq(Nat)
  /\ eof \in BOOLEAN /\ hup \in BOOLEAN /\ zeros \in Nat
TermTypeRest ==
  /\ calling \subseteq TtyProcs /\ fg \in T!Groups
  /\ canon \in BOOLEAN /\ noflsh \in BOOLEAN /\ line \in Seq(Nat)
  /\ typed \in 0..MaxTyped /\ eofs \in Nat /\ moves \in 0..MaxMoves

\* A process waits in the queue once, alive and not calling; the resumed wait.
TermQueue ==
  /\ T!IsInjective(waiters) /\ resumed \subseteq T!Range(waiters)
  /\ \A p \in T!Range(waiters) : state[p] # "dead" /\ p \notin calling

\* Whatever the foreground, nobody who runs waits beside something to take.
TermServed ==
  \A p \in T!Range(waiters) : state[p] = "running" /\ p \notin resumed =>
    cooked = <<>> /\ ~eof /\ ~hup

\* Every end of file handed out or still promised has a VEOF key behind it.
TermEofs == zeros + (IF eof THEN 1 ELSE 0) <= eofs

TermInv ==
  /\ TermTypeIO /\ TermTypeRest /\ TermQueue /\ TermServed /\ TermEofs
  /\ ~canon => line = <<>>
  /\ TermInput(TermAll, dropped, typed)

LEMMA TermNow ==
  ASSUME TermInv
  PROVE  /\ T!Now \in TermStates /\ ~T!Now.over
         /\ T!Now.state = state /\ T!Now.pending = pending /\ T!Now.waiters = waiters
         /\ T!Now.cooked = cooked /\ T!Now.eof = eof /\ T!Now.hup = hup /\ T!Now.read = read
         /\ T!Now.zeros = zeros
  BY DEF T!Now, TermInv, TermTypeIO, TermStates

\* What a handler that hands out input owes the invariant.
LEMMA TermBecome ==
  ASSUME TermInv, NEW t \in TermStates, T!Become(t), TermTypeRest',
         T!IsInjective(t.waiters),
         \A p \in T!Range(t.waiters) : t.state[p] # "dead" /\ p \notin calling',
         \A p \in T!Range(t.waiters) : t.state[p] = "running" /\ p \notin resumed => TermNothing(t),
         TermEnds(t) <= eofs', ~canon' => line' = <<>>,
         TermInput(t.read \o t.cooked \o line', dropped', typed')
  PROVE  TermInv'
<1>1. /\ state' = t.state /\ pending' = t.pending /\ waiters' = t.waiters /\ cooked' = t.cooked
      /\ eof' = t.eof /\ hup' = t.hup /\ read' = t.read /\ zeros' = t.zeros
      /\ resumed' = resumed \cap T!Range(t.waiters)
  BY DEF T!Become
<1>2. TermTypeIO'
  BY <1>1 DEF TermTypeIO, TermStates
<1>3. TermQueue'
  BY <1>1 DEF TermQueue
<1>4. TermServed'
  BY <1>1 DEF TermServed, TermNothing
<1>5. TermEofs'
  BY <1>1 DEF TermEofs, TermEnds
<1>6. TermInput(TermAll, dropped, typed)'
  BY <1>1 DEF TermAll, TermInput
<1> QED
  BY <1>2, <1>3, <1>4, <1>5, <1>6 DEF TermInv

\* The same for one that also walks the queue, from what it changed first.
LEMMA TermBecomeWalked ==
  ASSUME TermInv, NEW u \in TermStates, ~u.over, T!Become(T!Notify(u)), TermTypeRest',
         T!IsInjective(u.waiters),
         \A p \in T!Range(u.waiters) : u.state[p] # "dead" /\ p \notin calling',
         TermEnds(u) <= eofs', ~canon' => line' = <<>>,
         TermInput(u.read \o u.cooked \o line', dropped', typed')
  PROVE  TermInv'
<1>1. PICK t : t = T!Notify(u)
  OBVIOUS
<1>2. /\ TermServes(u, t)
      /\ \A p \in T!Range(t.waiters) : t.state[p] = "running" => TermNothing(t)
  BY <1>1, TermNotify
<1>3. t \in TermStates /\ T!Become(t)
  BY <1>1, <1>2 DEF TermServes
<1>4. T!IsInjective(t.waiters)
  BY <1>2 DEF TermServes
<1>5. \A p \in T!Range(t.waiters) : t.state[p] # "dead" /\ p \notin calling'
  <2> SUFFICES ASSUME NEW p \in T!Range(t.waiters) PROVE t.state[p] # "dead" /\ p \notin calling'
    OBVIOUS
  <2>1. p \in T!Range(u.waiters)
    BY <1>2 DEF TermServes
  <2>2. p \in TtyProcs
    BY <2>1 DEF TermStates, T!Range
  <2> QED
    BY <1>2, <2>1, <2>2 DEF TermServes
<1>6. TermEnds(t) <= eofs'
  <2>1. TermEnds(t) \in Nat /\ TermEnds(u) \in Nat /\ eofs' \in Nat /\ TermEnds(t) <= TermEnds(u)
    BY <1>2, <1>3, TermEndsType DEF TermServes, TermTypeRest
  <2> QED
    BY <2>1
<1>7. TermInput(t.read \o t.cooked \o line', dropped', typed')
  BY <1>2 DEF TermServes
<1> QED
  BY <1>2, <1>3, <1>4, <1>5, <1>6, <1>7, TermBecome

\* _push.
LEMMA TermPushInv ==
  ASSUME TermInv, NEW b \in Seq(Nat), T!Become(T!Push(b)), TermTypeRest', line' = <<>>,
         calling' = calling, eofs' = eofs, TermInput((read \o cooked) \o b, dropped', typed')
  PROVE  TermInv'
<1>1. PICK c : c = cooked \o b
  OBVIOUS
<1>2. PICK u : u = [T!Now EXCEPT !.cooked = c]
  OBVIOUS
<1>3. T!Become(T!Notify(u))
  BY <1>1, <1>2, TermNow DEF T!Push
<1>4. c \in Seq(Nat) /\ cooked \in Seq(Nat) /\ read \in Seq(Nat)
  BY <1>1, TermJoin DEF TermInv, TermTypeIO
<1>5. /\ u \in TermStates /\ u.over = FALSE /\ u.state = state /\ u.waiters = waiters /\ u.cooked = c
      /\ u.eof = eof /\ u.read = read /\ u.zeros = zeros
  BY <1>2, <1>4, TermNow DEF TermStates
<1>6. (read \o c) \o <<>> = (read \o cooked) \o b
  BY <1>1, <1>4, TermPushed
<1>7. TermInput(u.read \o u.cooked \o line', dropped', typed')
  BY <1>5, <1>6
<1>8. TermEnds(u) <= eofs'
  BY <1>5 DEF TermEnds, TermInv, TermEofs
<1>9. T!IsInjective(u.waiters) /\ \A p \in T!Range(u.waiters) : u.state[p] # "dead" /\ p \notin calling'
  BY <1>5 DEF TermInv, TermQueue
<1>10. ~u.over
  BY <1>5
<1> QED
  BY <1>3, <1>5, <1>7, <1>8, <1>9, <1>10, TermBecomeWalked

-----------------------------------------------------------------------------
(* Reads                                                                    *)

LEMMA TermCallInv ==
  ASSUME TermInv, NEW p \in TtyProcs, T!Call(p) PROVE TermInv'
<1>1. /\ p \notin T!Range(waiters) /\ calling' = calling \cup {p}
      /\ UNCHANGED <<state, pending, resumed, T!lineVars, waiters, fg, cooked, eof, hup,
                     read, zeros, moves>>
  BY DEF T!Call, T!Parked
<1>2. TermTypeRest'
  BY <1>1 DEF TermInv, TermTypeRest, T!lineVars, T!Groups
<1>3. TermQueue'
  BY <1>1 DEF TermInv, TermQueue
<1> QED
  BY <1>1, <1>2, <1>3 DEF TermInv, TermTypeIO, TermServed, TermEofs, TermAll, T!lineVars

\* A reader in the background.
LEMMA TermRefuse ==
  ASSUME NEW s \in TermStates, NEW p, NEW t, t = T!Refuse(s, p)
  PROVE  TermServes(s, t) /\ t.waiters = s.waiters /\ t.cooked = s.cooked /\ t.eof = s.eof
<1>1. CASE TtyDisp[p] = "ignore"
  BY <1>1, TermServesSelf DEF T!Refuse
<1>2. CASE TtyDisp[p] # "ignore"
  BY <1>2, TermStop DEF T!Refuse
<1> QED
  BY <1>1, <1>2

\* Somebody is served from what is there: the queue stays, and nobody in it
\* could have taken it, or nothing was taken.
LEMMA TermAnswered ==
  ASSUME TermInv, NEW t, TermServes(T!Now, t), t.waiters = waiters, T!Become(t),
         TermTypeRest', calling' \subseteq calling, UNCHANGED T!lineVars,
         \/ ~TermNothing(T!Now)
         \/ t.cooked = cooked /\ t.eof = eof
  PROVE  TermInv'
<1>1. t \in TermStates
  BY DEF TermServes
<1>2. T!IsInjective(t.waiters)
  BY DEF TermInv, TermQueue
<1>3. \A p \in T!Range(waiters) : p \in TtyProcs
  BY DEF TermInv, TermTypeIO, T!Range
<1>4. \A p \in T!Range(t.waiters) : t.state[p] # "dead" /\ p \notin calling'
  BY <1>3, TermNow DEF TermServes, TermInv, TermQueue
<1>5. \A p \in T!Range(t.waiters) : t.state[p] = "running" /\ p \notin resumed => TermNothing(t)
  <2> SUFFICES ASSUME NEW p \in T!Range(waiters), t.state[p] = "running", p \notin resumed PROVE TermNothing(t)
    OBVIOUS
  <2>1. state[p] = "running"
    BY <1>3, TermNow DEF TermServes
  <2>2. cooked = <<>> /\ ~eof /\ ~hup
    BY <2>1 DEF TermInv, TermServed
  <2>3. TermNothing(T!Now)
    BY <2>2, TermNow DEF TermNothing
  <2> QED
    BY <2>2, <2>3, TermNow DEF TermServes, TermNothing
<1>6. TermEnds(t) <= eofs'
  <2>1. TermEnds(T!Now) <= eofs /\ TermEnds(t) <= TermEnds(T!Now) /\ eofs' = eofs /\ eofs \in Nat
    BY TermNow DEF TermInv, TermEofs, TermEnds, TermServes, T!lineVars, TermTypeRest
  <2>2. TermEnds(t) \in Nat /\ TermEnds(T!Now) \in Nat
    BY <1>1, TermNow, TermEndsType
  <2> QED
    BY <2>1, <2>2
<1>7. TermInput(t.read \o t.cooked \o line', dropped', typed')
  BY TermNow DEF TermServes, TermInv, TermAll, T!lineVars
<1>8. ~canon' => line' = <<>>
  BY DEF TermInv, T!lineVars
<1> QED
  BY <1>1, <1>2, <1>4, <1>5, <1>6, <1>7, <1>8, TermBecome

LEMMA TermDispatchInv ==
  ASSUME TermInv, NEW p \in TtyProcs, T!Dispatch(p) PROVE TermInv'
<1>1. /\ p \in calling /\ state[p] # "dead" /\ calling' = calling \ {p}
      /\ UNCHANGED <<T!lineVars, fg, moves>>
  BY DEF T!Dispatch
<1>2. TermTypeRest'
  BY <1>1 DEF TermInv, TermTypeRest, T!lineVars, T!Groups
<1>3. CASE T!Background(p)
  <2>1. PICK t : t = T!Refuse(T!Now, p)
    OBVIOUS
  <2>2. T!Become(t)
    BY <1>3, <2>1 DEF T!Dispatch
  <2>3. TermServes(T!Now, t) /\ t.waiters = waiters /\ t.cooked = cooked /\ t.eof = eof
    BY <2>1, TermNow, TermRefuse
  <2> QED
    BY <1>1, <1>2, <2>2, <2>3, TermAnswered
<1>4. CASE ~T!Background(p) /\ cooked # <<>>
  <2>1. PICK t : t = T!Take(T!Now)
    OBVIOUS
  <2>2. T!Become(t)
    BY <1>4, <2>1 DEF T!Dispatch
  <2>3. TermServes(T!Now, t) /\ t.waiters = waiters
    BY <2>1, TermNow, TermTake
  <2>4. ~TermNothing(T!Now)
    BY <1>4, TermNow DEF TermNothing
  <2> QED
    BY <1>1, <1>2, <2>2, <2>3, <2>4, TermAnswered
<1>5. CASE ~T!Background(p) /\ cooked = <<>> /\ (eof \/ hup)
  <2>1. PICK t : t = T!Consume(T!Now)
    OBVIOUS
  <2>2. T!Become(t)
    BY <1>5, <2>1 DEF T!Dispatch
  <2>3. TermServes(T!Now, t) /\ t.waiters = waiters
    BY <1>5, <2>1, TermNow, TermConsume
  <2>4. ~TermNothing(T!Now)
    BY <1>5, TermNow DEF TermNothing
  <2> QED
    BY <1>1, <1>2, <2>2, <2>3, <2>4, TermAnswered
<1>6. CASE ~T!Background(p) /\ cooked = <<>> /\ ~(eof \/ hup)
  <2>1. PICK w : w = Append(waiters, p)
    OBVIOUS
  <2>2. PICK t : t = [T!Now EXCEPT !.waiters = w]
    OBVIOUS
  <2>3. T!Become(t)
    BY <1>6, <2>1, <2>2, TermNow DEF T!Dispatch
  <2>4. waiters \in Seq(TtyProcs) /\ Len(waiters) \in Nat /\ DOMAIN waiters = 1..Len(waiters)
    BY DEF TermInv, TermTypeIO
  <2>5. /\ w \in Seq(TtyProcs) /\ Len(w) = Len(waiters) + 1 /\ DOMAIN w = 1..(Len(waiters) + 1)
        /\ \A i \in 1..Len(waiters) : w[i] = waiters[i]
        /\ w[Len(waiters) + 1] = p
    BY <2>1, <2>4, AppendProperties
  <2>6. T!Range(w) = T!Range(waiters) \cup {p} /\ p \notin T!Range(waiters)
    BY <1>1, <2>4, <2>5 DEF T!Range, TermInv, TermQueue
  <2>7. T!IsInjective(w)
    BY <2>4, <2>5, <2>6 DEF T!IsInjective, TermInv, TermQueue, T!Range
  <2>8. /\ t \in TermStates /\ t.waiters = w /\ t.state = state /\ t.cooked = cooked /\ t.eof = eof
        /\ t.hup = hup /\ t.read = read /\ t.zeros = zeros
    BY <2>2, <2>5, TermNow DEF TermStates
  <2>9. TermNothing(t)
    BY <1>6, <2>8 DEF TermNothing
  <2>10. TermEnds(t) <= eofs'
    BY <1>1, <2>8 DEF TermEnds, TermInv, TermEofs, T!lineVars
  <2>11. \A r \in T!Range(t.waiters) : t.state[r] # "dead" /\ r \notin calling'
    BY <1>1, <2>6, <2>8 DEF TermInv, TermQueue
  <2>12. TermInput(t.read \o t.cooked \o line', dropped', typed')
    BY <1>1, <2>8 DEF TermInv, TermAll, T!lineVars
  <2>13. ~canon' => line' = <<>>
    BY <1>1 DEF TermInv, T!lineVars
  <2> QED
    BY <1>2, <2>3, <2>7, <2>8, <2>9, <2>10, <2>11, <2>12, <2>13, TermBecome
<1> QED
  BY <1>3, <1>4, <1>5, <1>6

-----------------------------------------------------------------------------
(* Who leaves without an answer                                             *)

\* Some readers leave, of those who stay nobody is woken, and the input
\* stays or is flushed.
LEMMA TermLeft ==
  ASSUME TermInv, NEW t \in TermStates, T!Become(t), TermTypeRest', calling' \subseteq calling,
         T!Range(t.waiters) \subseteq T!Range(waiters), T!IsInjective(t.waiters),
         \A p \in T!Range(t.waiters) :
           /\ t.state[p] # "dead"
           /\ t.state[p] = "running" => state[p] = "running",
         t.cooked = cooked \/ t.cooked = <<>>, t.eof = eof, t.hup = hup, t.zeros = zeros,
         eofs' = eofs, ~canon' => line' = <<>>,
         TermInput(t.read \o t.cooked \o line', dropped', typed')
  PROVE  TermInv'
<1>1. \A p \in T!Range(t.waiters) : t.state[p] # "dead" /\ p \notin calling'
  BY DEF TermInv, TermQueue
<1>2. \A p \in T!Range(t.waiters) : t.state[p] = "running" /\ p \notin resumed => TermNothing(t)
  BY DEF TermInv, TermServed, TermNothing
<1>3. TermEnds(t) <= eofs'
  BY DEF TermEnds, TermInv, TermEofs
<1> QED
  BY <1>1, <1>2, <1>3, TermBecome

LEMMA TermSame ==
  ASSUME TermInv, UNCHANGED T!lineVars
  PROVE  /\ TermInput(read \o cooked \o line', dropped', typed')
         /\ ~canon' => line' = <<>>
         /\ eofs' = eofs
  BY DEF TermInv, TermAll, T!lineVars

LEMMA TermInterruptInv ==
  ASSUME TermInv, NEW p \in TtyProcs, T!Interrupt(p) PROVE TermInv'
<1>1. calling' = calling /\ UNCHANGED <<T!lineVars, fg, moves>>
  BY DEF T!Interrupt
<1>2. TermTypeRest'
  BY <1>1 DEF TermInv, TermTypeRest, T!lineVars, T!Groups
<1>3. PICK l : l = T!Leave(T!Now, p)
  OBVIOUS
<1>4. /\ TermServes(T!Now, l) /\ l.cooked = cooked /\ l.eof = eof /\ l.hup = hup /\ l.state = state
      /\ l.pending = pending /\ l.read = read /\ l.zeros = zeros
  BY <1>3, TermNow, TermLeave
<1>5. PICK t : t = [l EXCEPT !.pending = pending \ {p}]
  OBVIOUS
<1>6. T!Become(t)
  BY <1>3, <1>4, <1>5 DEF T!Interrupt
<1>7. l \in TermStates /\ T!Range(l.waiters) \subseteq T!Range(waiters) /\ T!IsInjective(l.waiters)
  BY <1>4, TermNow DEF TermServes, TermInv, TermQueue
<1>8. /\ t \in TermStates /\ t.waiters = l.waiters /\ t.cooked = cooked /\ t.eof = eof /\ t.hup = hup
      /\ t.state = state /\ t.read = read /\ t.zeros = zeros
  <2>1. pending \ {p} \in SUBSET TtyProcs
    BY DEF TermInv, TermTypeIO
  <2> QED
    BY <1>4, <1>5, <1>7, <2>1 DEF TermStates
<1>9. \A q \in T!Range(t.waiters) : t.state[q] # "dead" /\ (t.state[q] = "running" => state[q] = "running")
  BY <1>7, <1>8 DEF TermInv, TermQueue
<1> QED
  BY <1>1, <1>2, <1>6, <1>7, <1>8, <1>9, TermSame, TermLeft

LEMMA TermDieInv ==
  ASSUME TermInv, NEW p \in TtyProcs, T!Die(p) PROVE TermInv'
<1>1. calling' = calling \ {p} /\ UNCHANGED <<T!lineVars, fg>> /\ moves' = moves + 1 /\ moves < MaxMoves
  BY DEF T!Die, T!Moves
<1>2. TermTypeRest'
  <2>1. moves' \in 0..MaxMoves
    BY <1>1, ObjectsAssumption DEF TermInv, TermTypeRest
  <2> QED
    BY <1>1, <2>1 DEF TermInv, TermTypeRest, T!lineVars, T!Groups
<1>3. PICK l : l = T!Leave(T!Now, p)
  OBVIOUS
<1>4. /\ TermServes(T!Now, l) /\ l.cooked = cooked /\ l.eof = eof /\ l.hup = hup /\ l.state = state
      /\ l.pending = pending /\ l.read = read /\ l.zeros = zeros /\ p \notin T!Range(l.waiters)
  BY <1>3, TermNow, TermLeave
<1>5. PICK d : d = [state EXCEPT ![p] = "dead"]
  OBVIOUS
<1>6. PICK t : t = [l EXCEPT !.state = d, !.pending = pending \ {p}]
  OBVIOUS
<1>7. T!Become(t)
  <2>1. t = [T!Leave(T!Now, p) EXCEPT !.state[p] = "dead", !.pending = @ \ {p}]
    BY <1>3, <1>4, <1>5, <1>6
  <2> QED
    BY <2>1 DEF T!Die
<1>8. l \in TermStates /\ T!Range(l.waiters) \subseteq T!Range(waiters) /\ T!IsInjective(l.waiters)
  BY <1>4, TermNow DEF TermServes, TermInv, TermQueue
<1>9. /\ t \in TermStates /\ t.waiters = l.waiters /\ t.cooked = cooked /\ t.eof = eof /\ t.hup = hup
      /\ t.state = d /\ t.read = read /\ t.zeros = zeros
  <2>1. pending \ {p} \in SUBSET TtyProcs /\ d \in [TtyProcs -> TermLife]
    BY <1>5 DEF TermInv, TermTypeIO, TermLife
  <2> QED
    BY <1>4, <1>6, <1>8, <2>1 DEF TermStates
<1>10. \A q \in T!Range(t.waiters) : t.state[q] # "dead" /\ (t.state[q] = "running" => state[q] = "running")
  <2> SUFFICES ASSUME NEW q \in T!Range(l.waiters) PROVE d[q] = state[q] /\ state[q] # "dead"
    BY <1>9
  <2>1. q # p /\ q \in T!Range(waiters) /\ q \in TtyProcs
    <3>1. q # p /\ q \in T!Range(waiters)
      BY <1>4, <1>8
    <3> QED
      BY <3>1 DEF TermInv, TermTypeIO, T!Range
  <2> QED
    BY <1>5, <2>1 DEF TermInv, TermTypeIO, TermQueue
<1> QED
  BY <1>1, <1>2, <1>7, <1>8, <1>9, <1>10, TermSame, TermLeft

\* A signal that ends a process by default: its targets are gone from the
\* queue, and the others are as they were.
LEMMA TermEnd ==
  ASSUME NEW s \in TermStates, NEW g, NEW t, t = T!EndGroup(s, g), s.state = state
  PROVE  /\ t \in TermStates
         /\ T!IsInjective(s.waiters) => T!IsInjective(t.waiters)
         /\ T!Range(t.waiters) \subseteq T!Range(s.waiters)
         /\ \A p \in T!Range(t.waiters) : t.state[p] = s.state[p]
         /\ t.cooked = s.cooked /\ t.eof = s.eof /\ t.hup = s.hup /\ t.read = s.read
         /\ t.zeros = s.zeros /\ t.over = s.over
<1>1. PICK od : od = T!Of(g, "default")
  OBVIOUS
<1>2. PICK w : w = T!Without(s.waiters, od)
  OBVIOUS
<1>3. s.waiters \in Seq(TtyProcs)
  BY DEF TermStates
<1>4. /\ w \in Seq(TtyProcs) /\ T!Range(w) = T!Range(s.waiters) \ od
      /\ T!IsInjective(s.waiters) => T!IsInjective(w)
  BY <1>2, <1>3, WithoutIs
<1>5. PICK st : st = [p \in TtyProcs |-> IF p \in od THEN "dead" ELSE s.state[p]]
  OBVIOUS
<1>6. PICK pe : pe = s.pending \cup T!Of(g, "handler")
  OBVIOUS
<1>7. st \in [TtyProcs -> TermLife] /\ pe \in SUBSET TtyProcs
  BY <1>5, <1>6 DEF TermStates, TermLife, T!Of, T!Alive
<1>8. t = [s EXCEPT !.state = st, !.pending = pe, !.waiters = w]
  BY <1>1, <1>2, <1>5, <1>6 DEF T!EndGroup
<1>9. /\ t \in TermStates /\ t.state = st /\ t.waiters = w /\ t.cooked = s.cooked /\ t.eof = s.eof
      /\ t.hup = s.hup /\ t.over = s.over /\ t.read = s.read /\ t.zeros = s.zeros
  BY <1>4, <1>7, <1>8 DEF TermStates
<1>10. \A p \in T!Range(w) : p \in TtyProcs /\ p \notin od
  BY <1>3, <1>4 DEF T!Range
<1>11. \A p \in T!Range(t.waiters) : t.state[p] = s.state[p]
  BY <1>5, <1>9, <1>10
<1> QED
  BY <1>4, <1>9, <1>11

-----------------------------------------------------------------------------
(* Keys                                                                     *)

LEMMA TermBytes ==
  ASSUME TermInv
  PROVE  /\ read \in Seq(Nat) /\ cooked \in Seq(Nat) /\ line \in Seq(Nat)
         /\ read \o cooked \in Seq(Nat) /\ cooked \o line \in Seq(Nat)
         /\ (read \o cooked) \o line = read \o (cooked \o line)
         /\ typed \in Nat /\ TermInput((read \o cooked) \o line, dropped, typed)
<1>1. read \in Seq(Nat) /\ cooked \in Seq(Nat) /\ line \in Seq(Nat)
  BY DEF TermInv, TermTypeIO, TermTypeRest
<1>2. typed \in Nat
  BY ObjectsAssumption DEF TermInv, TermTypeRest
<1>3. TermInput((read \o cooked) \o line, dropped, typed)
  BY DEF TermInv, TermAll
<1>4. read \o cooked \in Seq(Nat) /\ cooked \o line \in Seq(Nat)
  BY <1>1, TermJoin
<1>5. (read \o cooked) \o line = read \o (cooked \o line)
  BY <1>1, TermAssoc
<1> QED
  BY <1>1, <1>2, <1>3, <1>4, <1>5

\* What was typed and not read is flushed.
LEMMA TermFlushed ==
  ASSUME TermInv
  PROVE  TermInput((read \o <<>>) \o <<>>, dropped \cup T!Range(line) \cup T!Range(cooked), typed)
<1>1. TermInput(read, dropped \cup T!Range(cooked \o line), typed)
  BY TermBytes, TermInputCut
<1>2. T!Range(cooked \o line) = T!Range(cooked) \cup T!Range(line)
  BY TermBytes, TermJoin
<1>3. (read \o <<>>) \o <<>> = read
  BY TermBytes, TermJoin
<1>4. dropped \cup T!Range(cooked \o line) = dropped \cup T!Range(line) \cup T!Range(cooked)
  BY <1>2
<1> QED
  BY <1>1, <1>3, <1>4

LEMMA TermCharInv ==
  ASSUME TermInv, T!Char PROVE TermInv'
<1>1. typed' = typed + 1 /\ typed < MaxTyped /\ UNCHANGED <<canon, noflsh, dropped, eofs, fg, moves>>
  BY DEF T!Char
<1>2. typed' \in 0..MaxTyped
  BY <1>1, ObjectsAssumption DEF TermInv, TermTypeRest
<1>3. CASE canon
  <2>1. line' = Append(line, typed + 1) /\ UNCHANGED <<T!procVars, waiters, cooked, eof, hup, read, zeros>>
    BY <1>1, <1>3 DEF T!Char
  <2>2. TermTypeRest'
    <3>1. line' \in Seq(Nat)
      BY <2>1, TermBytes
    <3> QED
      BY <1>1, <1>2, <2>1, <3>1 DEF TermInv, TermTypeRest, T!procVars, T!Groups
  <2>3. (read \o cooked) \o Append(line, typed + 1) = Append((read \o cooked) \o line, typed + 1)
    BY TermBytes, TermAppended
  <2>4. TermInput(Append((read \o cooked) \o line, typed + 1), dropped, typed + 1)
    <3>1. (read \o cooked) \o line \in Seq(Nat)
      BY TermBytes, TermJoin
    <3> QED
      BY <3>1, TermBytes, TermInputAppend
  <2>5. TermInput(TermAll, dropped, typed)'
    BY <1>1, <2>1, <2>3, <2>4 DEF TermAll, TermInput
  <2> QED
    BY <1>1, <1>3, <2>1, <2>2, <2>5
    DEF TermInv, TermTypeIO, TermQueue, TermServed, TermEofs, T!procVars
<1>4. CASE ~canon
  <2>1. PICK b : b = <<typed + 1>>
    OBVIOUS
  <2>2. T!Become(T!Push(b)) /\ UNCHANGED <<line, calling>> /\ line = <<>>
    BY <1>1, <1>4, <2>1 DEF T!Char, TermInv
  <2>3. TermTypeRest'
    BY <1>1, <1>2, <2>2 DEF TermInv, TermTypeRest, T!Groups
  <2>4. b \in Seq(Nat)
    BY <2>1, TermBytes
  <2>5. (read \o cooked) \o b = Append(read \o cooked, typed + 1)
    BY <2>1, TermBytes, AppendIsConcat
  <2>6. TermInput(read \o cooked, dropped, typed)
    BY <2>2, TermBytes, TermJoin
  <2>7. TermInput((read \o cooked) \o b, dropped', typed')
    BY <1>1, <2>5, <2>6, TermBytes, TermInputAppend
  <2> QED
    BY <1>1, <2>2, <2>3, <2>4, <2>7, TermPushInv
<1> QED
  BY <1>3, <1>4

LEMMA TermNewlineInv ==
  ASSUME TermInv, T!Newline PROVE TermInv'
<1>1. /\ typed' = typed + 1 /\ typed < MaxTyped /\ line' = <<>>
      /\ UNCHANGED <<calling, canon, noflsh, dropped, eofs, fg, moves>>
  BY DEF T!Newline
<1>2. PICK b : b = Append(line, typed + 1)
  OBVIOUS
<1>3. T!Become(T!Push(b))
  BY <1>1, <1>2 DEF T!Newline
<1>4. TermTypeRest'
  BY <1>1, ObjectsAssumption DEF TermInv, TermTypeRest, T!Groups
<1>5. b \in Seq(Nat)
  BY <1>2, TermBytes
<1>6. (read \o cooked) \o b = Append((read \o cooked) \o line, typed + 1)
  BY <1>2, TermBytes, TermAppended
<1>7. TermInput((read \o cooked) \o b, dropped', typed')
  <2>1. (read \o cooked) \o line \in Seq(Nat)
    BY TermBytes, TermJoin
  <2> QED
    BY <1>1, <1>6, <2>1, TermBytes, TermInputAppend
<1> QED
  BY <1>1, <1>3, <1>4, <1>5, <1>7, TermPushInv

LEMMA TermEditInv ==
  ASSUME TermInv, NEW kept, T!Edit(kept) PROVE TermInv'
<1>1. /\ canon /\ line # <<>> /\ kept \in {0, Len(line) - 1}
      /\ UNCHANGED <<T!procVars, canon, noflsh, typed, eofs, waiters, fg, cooked, eof, hup,
                     read, zeros, moves>>
  BY DEF T!Edit
<1>2. PICK a : a = SubSeq(line, 1, kept)
  OBVIOUS
<1>3. PICK b : b = SubSeq(line, kept + 1, Len(line))
  OBVIOUS
<1>4. line \in Seq(Nat) /\ Len(line) \in Nat /\ kept \in 0..Len(line)
  BY <1>1, TermBytes, EmptySeq
<1>5. a \in Seq(Nat) /\ b \in Seq(Nat)
  BY <1>2, <1>3, <1>4
<1>6. a \o b = line
  <2>1. 1 \in 1..Len(line) + 1 /\ kept \in 1 - 1..Len(line) /\ Len(line) \in kept..Len(line)
    BY <1>4
  <2>2. SubSeq(line, 1, kept) \o SubSeq(line, kept + 1, Len(line)) = SubSeq(line, 1, Len(line))
    BY <1>4, <2>1, ConcatAdjacentSubSeq
  <2> QED
    BY <1>2, <1>3, <1>4, <2>2, SubSeqFull
<1>7. T!Range(b) = {line[i] : i \in kept + 1..Len(line)}
  <2>1. Len(b) = Len(line) - kept /\ DOMAIN b = 1..(Len(line) - kept)
        /\ \A i \in 1..(Len(line) - kept) : b[i] = line[kept + i]
    BY <1>3, <1>4, SubSeqProperties
  <2>2. ASSUME NEW i \in kept + 1..Len(line) PROVE line[i] \in T!Range(b)
    <3>1. i - kept \in 1..(Len(line) - kept) /\ kept + (i - kept) = i
      BY <1>4
    <3> QED
      BY <2>1, <3>1 DEF T!Range
  <2>3. ASSUME NEW i \in 1..(Len(line) - kept) PROVE b[i] \in {line[j] : j \in kept + 1..Len(line)}
    <3>1. kept + i \in kept + 1..Len(line)
      BY <1>4
    <3> QED
      BY <2>1, <3>1
  <2> QED
    BY <2>1, <2>2, <2>3 DEF T!Range
<1>8. line' = a /\ dropped' = dropped \cup T!Range(b)
  BY <1>2, <1>7 DEF T!Edit
<1>9. TermInput((read \o cooked) \o a, dropped \cup T!Range(b), typed)
  <2>1. ((read \o cooked) \o a) \o b = (read \o cooked) \o line
    <3>1. read \o cooked \in Seq(Nat)
      BY TermBytes
    <3>2. ((read \o cooked) \o a) \o b = (read \o cooked) \o (a \o b)
      BY <1>5, <3>1, TermAssoc
    <3> QED
      BY <1>6, <3>2
  <2>2. (read \o cooked) \o a \in Seq(Nat)
    BY <1>5, TermBytes, TermJoin
  <2>3. TermInput(((read \o cooked) \o a) \o b, dropped, typed)
    BY <2>1, TermBytes
  <2> QED
    BY <1>5, <2>2, <2>3, TermBytes, TermInputCut
<1>10. TermInput(TermAll, dropped, typed)'
  BY <1>1, <1>8, <1>9 DEF TermAll, TermInput
<1>11. TermTypeRest'
  BY <1>1, <1>5, <1>8 DEF TermInv, TermTypeRest, T!Groups, T!procVars
<1> QED
  BY <1>1, <1>10, <1>11
  DEF TermInv, TermTypeIO, TermQueue, TermServed, TermEofs, T!procVars

LEMMA TermVEofInv ==
  ASSUME TermInv, T!VEof PROVE TermInv'
<1>1. UNCHANGED <<calling, canon, noflsh, typed, dropped, fg, moves>>
  BY DEF T!VEof
<1>2. CASE line # <<>>
  <2>1. line' = <<>> /\ T!Become(T!Push(line)) /\ eofs' = eofs
    BY <1>2 DEF T!VEof
  <2>2. TermTypeRest'
    BY <1>1, <2>1 DEF TermInv, TermTypeRest, T!Groups
  <2>3. TermInput((read \o cooked) \o line, dropped', typed')
    BY <1>1, TermBytes
  <2> QED
    BY <1>1, <2>1, <2>2, <2>3, TermBytes, TermPushInv
<1>3. CASE line = <<>>
  <2>1. eofs' = eofs + 1 /\ T!Become(T!Notify([T!Now EXCEPT !.eof = TRUE])) /\ line' = line
    BY <1>3 DEF T!VEof
  <2>2. TermTypeRest'
    BY <1>1, <2>1 DEF TermInv, TermTypeRest, T!Groups
  <2>3. PICK u : u = [T!Now EXCEPT !.eof = TRUE]
    OBVIOUS
  <2>4. /\ u \in TermStates /\ u.over = FALSE /\ u.state = state /\ u.waiters = waiters /\ u.cooked = cooked
        /\ u.eof = TRUE /\ u.read = read /\ u.zeros = zeros
    BY <2>3, TermNow DEF TermStates
  <2>5. TermEnds(u) <= eofs'
    <3>1. zeros \in Nat /\ eofs \in Nat /\ zeros <= eofs
      BY DEF TermInv, TermTypeIO, TermTypeRest, TermEofs
    <3> QED
      BY <2>1, <2>4, <3>1 DEF TermEnds
  <2>6. T!IsInjective(u.waiters) /\ \A p \in T!Range(u.waiters) : u.state[p] # "dead" /\ p \notin calling'
    BY <1>1, <2>4 DEF TermInv, TermQueue
  <2>7. TermInput(u.read \o u.cooked \o line', dropped', typed')
    BY <1>1, <2>1, <2>4, TermBytes
  <2>8. (~canon' => line' = <<>>) /\ ~u.over /\ T!Become(T!Notify(u))
    BY <1>3, <2>1, <2>3, <2>4
  <2> QED
    BY <2>2, <2>4, <2>5, <2>6, <2>7, <2>8, TermBecomeWalked
<1> QED
  BY <1>2, <1>3

\* INTR or SUSP.
LEMMA TermSignalKeyInv ==
  ASSUME TermInv, NEW intr \in BOOLEAN, T!SignalKey(intr) PROVE TermInv'
<1>1. PICK s : s = IF noflsh THEN T!Now ELSE [T!Now EXCEPT !.cooked = <<>>]
  OBVIOUS
<1>2. /\ moves < MaxMoves /\ moves' = moves + 1
      /\ IF noflsh THEN UNCHANGED <<line, dropped>>
         ELSE line' = <<>> /\ dropped' = dropped \cup T!Range(line) \cup T!Range(cooked)
      /\ UNCHANGED <<calling, canon, noflsh, typed, eofs, fg>>
  BY DEF T!SignalKey
<1>3. PICK t : t = IF intr THEN T!EndGroup(s, fg) ELSE T!StopGroup(s, fg)
  OBVIOUS
<1>4. T!Become(t)
  <2>1. T!Become(IF intr THEN T!EndGroup(s, fg) ELSE T!StopGroup(s, fg))
    BY <1>1 DEF T!SignalKey
  <2> QED
    BY <1>3, <2>1
<1>5. /\ s \in TermStates /\ s.state = state /\ s.waiters = waiters
      /\ s.cooked = cooked \/ s.cooked = <<>>
      /\ s.eof = eof /\ s.hup = hup /\ s.read = read /\ s.zeros = zeros
  <2>1. CASE noflsh
    BY <1>1, <2>1, TermNow
  <2>2. CASE ~noflsh
    <3>1. s = [T!Now EXCEPT !.cooked = <<>>]
      BY <1>1, <2>2
    <3>2. <<>> \in Seq(Nat)
      OBVIOUS
    <3> QED
      BY <3>1, <3>2, TermNow DEF TermStates
  <2> QED
    BY <2>1, <2>2
<1>6. TermTypeRest'
  <2>1. line' \in Seq(Nat)
    <3>1. line' = line \/ line' = <<>>
      BY <1>2
    <3>2. line \in Seq(Nat)
      BY TermBytes
    <3>3. <<>> \in Seq(Nat)
      OBVIOUS
    <3> QED
      BY <3>1, <3>2, <3>3, Zenon
  <2> QED
    BY <1>2, <2>1, ObjectsAssumption DEF TermInv, TermTypeRest, T!Groups
<1>7. ~canon' => line' = <<>>
  BY <1>2 DEF TermInv
<1>8. TermInput(s.read \o s.cooked \o line', dropped', typed')
  <2>1. CASE noflsh
    <3>1. s.cooked = cooked
      BY <1>1, <2>1, TermNow
    <3> QED
      BY <1>2, <1>5, <2>1, <3>1, TermBytes
  <2>2. CASE ~noflsh
    <3>1. s.cooked = <<>>
      BY <1>1, <2>2, TermNow DEF TermStates
    <3> QED
      BY <1>2, <1>5, <2>2, <3>1, TermFlushed
  <2> QED
    BY <2>1, <2>2
<1>9. T!IsInjective(waiters) /\ \A p \in T!Range(waiters) : state[p] # "dead"
  BY DEF TermInv, TermQueue
<1>10. CASE intr
  <2>1. t = T!EndGroup(s, fg)
    BY <1>3, <1>10
  <2>2. /\ t \in TermStates
        /\ T!IsInjective(s.waiters) => T!IsInjective(t.waiters)
        /\ T!Range(t.waiters) \subseteq T!Range(s.waiters)
        /\ \A p \in T!Range(t.waiters) : t.state[p] = s.state[p]
        /\ t.cooked = s.cooked /\ t.eof = s.eof /\ t.hup = s.hup /\ t.read = s.read
        /\ t.zeros = s.zeros
    BY <1>5, <2>1, TermEnd
  <2>3. \A p \in T!Range(t.waiters) : t.state[p] # "dead" /\ (t.state[p] = "running" => state[p] = "running")
    BY <1>5, <1>9, <2>2
  <2>4. TermInput(t.read \o t.cooked \o line', dropped', typed')
    BY <1>8, <2>2
  <2> QED
    BY <1>2, <1>4, <1>5, <1>6, <1>7, <1>9, <2>2, <2>3, <2>4, TermLeft
<1>11. CASE ~intr
  <2>1. t = T!StopGroup(s, fg)
    BY <1>3, <1>11
  <2>2. /\ TermServes(s, t)
        /\ t.waiters = s.waiters /\ t.cooked = s.cooked /\ t.eof = s.eof
    BY <1>5, <2>1, TermStop
  <2>3. t \in TermStates /\ t.read = s.read /\ t.zeros = s.zeros /\ t.hup = s.hup
    BY <2>1, <2>2 DEF TermServes, T!StopGroup, TermStates
  <2>4. \A p \in T!Range(t.waiters) : t.state[p] # "dead" /\ (t.state[p] = "running" => state[p] = "running")
    <3> SUFFICES ASSUME NEW p \in T!Range(waiters)
                 PROVE t.state[p] # "dead" /\ (t.state[p] = "running" => state[p] = "running")
      BY <1>5, <2>2
    <3>1. p \in TtyProcs
      BY DEF TermInv, TermTypeIO, T!Range
    <3> QED
      BY <1>5, <1>9, <2>2, <3>1 DEF TermServes
  <2>5. TermInput(t.read \o t.cooked \o line', dropped', typed')
    BY <1>8, <2>2, <2>3
  <2> QED
    BY <1>2, <1>4, <1>5, <1>6, <1>7, <1>9, <2>2, <2>3, <2>4, <2>5, TermLeft
<1> QED
  BY <1>10, <1>11

-----------------------------------------------------------------------------
(* Control calls                                                            *)

LEMMA TermSetForegroundInv ==
  ASSUME TermInv, NEW p \in TtyProcs, NEW g \in T!Groups, T!SetForeground(p, g) PROVE TermInv'
<1>1. /\ fg' = g /\ moves < MaxMoves /\ moves' = moves + 1
      /\ UNCHANGED <<T!procVars, T!lineVars, waiters, cooked, eof, hup, read, zeros>>
  BY DEF T!SetForeground, T!Moves
<1>2. TermTypeRest'
  BY <1>1, ObjectsAssumption DEF TermInv, TermTypeRest, T!Groups, T!procVars, T!lineVars
<1> QED
  BY <1>1, <1>2
  DEF TermInv, TermTypeIO, TermQueue, TermServed, TermEofs, TermAll, T!procVars, T!lineVars

LEMMA TermSetAttrInv ==
  ASSUME TermInv, NEW p \in TtyProcs, NEW c \in BOOLEAN, NEW flush \in BOOLEAN, T!SetAttr(p, c, flush)
  PROVE  TermInv'
<1>1. /\ canon' = c /\ moves < MaxMoves /\ moves' = moves + 1
      /\ UNCHANGED <<calling, noflsh, typed, eofs, fg>>
  BY DEF T!SetAttr, T!Moves
<1>2. line' = <<>> \/ line' = line
  BY DEF T!SetAttr
<1>3. TermTypeRest'
  <2>1. line' \in Seq(Nat)
    <3>1. line' = line \/ line' = <<>>
      BY <1>2
    <3>2. line \in Seq(Nat)
      BY TermBytes
    <3>3. <<>> \in Seq(Nat)
      OBVIOUS
    <3> QED
      BY <3>1, <3>2, <3>3, Zenon
  <2> QED
    BY <1>1, <2>1, ObjectsAssumption DEF TermInv, TermTypeRest, T!Groups
<1>4. CASE flush
  <2>1. /\ line' = <<>> /\ dropped' = dropped \cup T!Range(line) \cup T!Range(cooked)
        /\ T!Become([T!Now EXCEPT !.cooked = <<>>])
    BY <1>4 DEF T!SetAttr
  <2>2. PICK t : t = [T!Now EXCEPT !.cooked = <<>>]
    OBVIOUS
  <2>3. /\ t \in TermStates /\ t.state = state /\ t.waiters = waiters /\ t.cooked = <<>>
        /\ t.eof = eof /\ t.hup = hup /\ t.read = read /\ t.zeros = zeros
    <3>1. <<>> \in Seq(Nat)
      OBVIOUS
    <3> QED
      BY <2>2, <3>1, TermNow DEF TermStates
  <2>4. TermInput(t.read \o t.cooked \o line', dropped', typed')
    BY <1>1, <2>1, <2>3, TermFlushed
  <2>5. T!IsInjective(t.waiters) /\ \A q \in T!Range(t.waiters) : t.state[q] # "dead"
    BY <2>3 DEF TermInv, TermQueue
  <2>6. T!Become(t)
    BY <2>1, <2>2
  <2> QED
    BY <1>1, <1>3, <2>1, <2>3, <2>4, <2>5, <2>6, TermLeft
<1>5. CASE ~flush /\ canon /\ ~c /\ line # <<>>
  <2>1. line' = <<>> /\ T!Become(T!Push(line)) /\ dropped' = dropped
    BY <1>5 DEF T!SetAttr
  <2>2. TermInput((read \o cooked) \o line, dropped', typed')
    BY <1>1, <2>1, TermBytes
  <2> QED
    BY <1>1, <1>3, <2>1, <2>2, TermBytes, TermPushInv
<1>6. CASE ~flush /\ ~(canon /\ ~c /\ line # <<>>)
  <2>1. /\ dropped' = dropped
        /\ UNCHANGED <<line, state, pending, resumed, waiters, cooked, eof, hup, read, zeros>>
    BY <1>6 DEF T!SetAttr
  <2>2. ~canon' => line' = <<>>
    BY <1>1, <1>6, <2>1 DEF TermInv
  <2> QED
    BY <1>1, <1>3, <2>1, <2>2
    DEF TermInv, TermTypeIO, TermQueue, TermServed, TermEofs, TermAll
<1> QED
  BY <1>4, <1>5, <1>6

LEMMA TermStopInv ==
  ASSUME TermInv, NEW p \in TtyProcs, T!Stop(p) PROVE TermInv'
<1>1. /\ state[p] = "running" /\ moves < MaxMoves /\ moves' = moves + 1
      /\ state' = [state EXCEPT ![p] = "stopped"]
      /\ UNCHANGED <<calling, pending, resumed, T!lineVars, waiters, fg, cooked, eof, hup,
                     read, zeros>>
  BY DEF T!Stop, T!Moves
<1>2. TermTypeRest'
  BY <1>1, ObjectsAssumption DEF TermInv, TermTypeRest, T!Groups, T!lineVars
<1>3. TermTypeIO'
  BY <1>1 DEF TermInv, TermTypeIO, TermLife
<1>4. \A q \in TtyProcs : state'[q] = IF q = p THEN "stopped" ELSE state[q]
  BY <1>1 DEF TermInv, TermTypeIO
<1>5. \A q \in T!Range(waiters) : q \in TtyProcs
  BY DEF TermInv, TermTypeIO, T!Range
<1>6. TermQueue'
  BY <1>1, <1>4, <1>5 DEF TermInv, TermQueue
<1>7. TermServed'
  BY <1>1, <1>4, <1>5 DEF TermInv, TermServed
<1> QED
  BY <1>1, <1>2, <1>3, <1>6, <1>7 DEF TermInv, TermEofs, TermAll, T!lineVars

LEMMA TermContInv ==
  ASSUME TermInv, NEW p \in TtyProcs, T!Cont(p) PROVE TermInv'
<1>1. /\ state[p] = "stopped" /\ state' = [state EXCEPT ![p] = "running"]
      /\ resumed' = IF p \in T!Range(waiters) THEN resumed \cup {p} ELSE resumed
      /\ UNCHANGED <<calling, pending, T!lineVars, waiters, fg, cooked, eof, hup, read, zeros,
                     moves>>
  BY DEF T!Cont, T!Parked
<1>2. TermTypeRest'
  BY <1>1 DEF TermInv, TermTypeRest, T!Groups, T!lineVars
<1>3. TermTypeIO'
  BY <1>1 DEF TermInv, TermTypeIO, TermLife
<1>4. \A q \in TtyProcs : state'[q] = IF q = p THEN "running" ELSE state[q]
  BY <1>1 DEF TermInv, TermTypeIO
<1>5. \A q \in T!Range(waiters) : q \in TtyProcs
  BY DEF TermInv, TermTypeIO, T!Range
<1>6. TermQueue'
  BY <1>1, <1>4, <1>5 DEF TermInv, TermQueue
<1>7. TermServed'
  BY <1>1, <1>4, <1>5 DEF TermInv, TermServed
<1> QED
  BY <1>1, <1>2, <1>3, <1>6, <1>7 DEF TermInv, TermEofs, TermAll, T!lineVars

\* The group dies of HUP, then the end of file is told to who remains.
LEMMA TermHangupInv ==
  ASSUME TermInv, T!Hangup PROVE TermInv'
<1>1. ~hup /\ UNCHANGED <<calling, T!lineVars, fg, moves>>
  BY DEF T!Hangup
<1>2. PICK e : e = T!EndGroup(T!Now, fg)
  OBVIOUS
<1>3. /\ e \in TermStates
      /\ T!IsInjective(waiters) => T!IsInjective(e.waiters)
      /\ T!Range(e.waiters) \subseteq T!Range(waiters)
      /\ \A p \in T!Range(e.waiters) : e.state[p] = state[p]
      /\ e.cooked = cooked /\ e.eof = eof /\ e.read = read
      /\ e.zeros = zeros /\ e.over = T!Now.over
  <2>1. T!Now \in TermStates /\ T!Now.state = state
    BY TermNow
  <2> QED
    BY <1>2, <2>1, TermEnd, TermNow
<1>4. PICK u : u = [e EXCEPT !.hup = TRUE]
  OBVIOUS
<1>5. T!Become(T!Notify(u))
  BY <1>2, <1>4 DEF T!Hangup
<1>6. /\ u \in TermStates /\ u.over = e.over /\ u.state = e.state /\ u.waiters = e.waiters
      /\ u.cooked = cooked /\ u.eof = eof /\ u.read = read /\ u.zeros = zeros
  BY <1>3, <1>4 DEF TermStates
<1>7. ~u.over
  <2>1. ~T!Now.over
    BY TermNow
  <2> QED
    BY <1>3, <1>6, <2>1
<1>8. TermTypeRest'
  BY <1>1 DEF TermInv, TermTypeRest, T!Groups, T!lineVars
<1>9. T!IsInjective(u.waiters) /\ \A p \in T!Range(u.waiters) : u.state[p] # "dead" /\ p \notin calling'
  BY <1>1, <1>3, <1>6 DEF TermInv, TermQueue
<1>10. TermEnds(u) <= eofs'
  BY <1>1, <1>6 DEF TermEnds, TermInv, TermEofs, T!lineVars
<1>11. TermInput(u.read \o u.cooked \o line', dropped', typed')
  BY <1>1, <1>6, TermSame
<1>12. ~canon' => line' = <<>>
  BY <1>1, TermSame
<1> QED
  BY <1>5, <1>6, <1>7, <1>8, <1>9, <1>10, <1>11, <1>12, TermBecomeWalked

-----------------------------------------------------------------------------
(* The theorems' parts                                                      *)

LEMMA TermInitInv == ASSUME T!Init PROVE TermInv
<1>1. T!Range(waiters) = {} /\ T!IsInjective(waiters)
  BY DEF T!Init, T!Range, T!IsInjective
<1>2. TermInput(TermAll, dropped, typed)
  <2>1. TermAll = <<>>
    BY DEF T!Init, TermAll
  <2>2. dropped = {} /\ typed = 0
    BY DEF T!Init
  <2> QED
    BY <2>1, <2>2 DEF TermInput, T!Range
<1>3. <<>> \in Seq(TtyProcs) /\ <<>> \in Seq(Nat)
  OBVIOUS
<1>4. TermTypeIO
  BY <1>3 DEF T!Init, TermTypeIO, TermLife
<1>5. TermTypeRest
  BY <1>3, ObjectsAssumption DEF T!Init, TermTypeRest
<1>6. TermQueue
  BY <1>1 DEF T!Init, TermQueue
<1> QED
  BY <1>1, <1>2, <1>4, <1>5, <1>6 DEF T!Init, TermInv, TermServed, TermEofs

LEMMA TermNextInv == ASSUME TermInv, T!Next PROVE TermInv'
<1>1. CASE T!Key
  BY <1>1, TermCharInv, TermNewlineInv, TermVEofInv, TermEditInv, TermSignalKeyInv DEF T!Key
<1>2. CASE T!Hangup
  BY <1>2, TermHangupInv
<1>3. ASSUME NEW p \in TtyProcs, T!Call(p) \/ T!Dispatch(p) \/ T!Interrupt(p) PROVE TermInv'
  BY <1>3, TermCallInv, TermDispatchInv, TermInterruptInv
<1>4. ASSUME NEW p \in TtyProcs, T!Control(p) PROVE TermInv'
  BY <1>4, TermSetForegroundInv, TermSetAttrInv, TermStopInv, TermContInv, TermDieInv DEF T!Control
<1> QED
  BY <1>1, <1>2, <1>3, <1>4 DEF T!Next

LEMMA TermStill == ASSUME TermInv, UNCHANGED T!vars PROVE TermInv'
  BY DEF T!vars, T!procVars, T!lineVars, TermInv, TermTypeIO, TermTypeRest, TermQueue, TermServed,
         TermEofs, TermAll, T!Groups

LEMMA TermInvOnce == ASSUME TermInv PROVE T!InputOnceInOrder
  BY DEF TermInv, TermInput, TermAll, T!InputOnceInOrder

LEMMA TermInvServed == ASSUME TermInv PROVE T!ReaderServed
  BY DEF TermInv, TermServed, T!ReaderServed, T!Parked

LEMMA TermInvEofs == ASSUME TermInv PROVE T!EofEndsOneRead
<1>1. zeros \in Nat /\ eofs \in Nat
  BY DEF TermInv, TermTypeIO, TermTypeRest
<1> QED
  BY <1>1 DEF TermInv, TermEofs, T!EofEndsOneRead

LEMMA TermInvTypeOK == ASSUME TermInv PROVE T!TypeOK
<1>1. T!Range(waiters) \subseteq TtyProcs
  BY DEF TermInv, TermTypeIO, T!Range
<1>2. typed \in Nat /\ dropped \subseteq 1..typed
  BY TermBytes DEF TermInput
<1> QED
  BY <1>1, <1>2 DEF TermInv, TermTypeIO, TermTypeRest, TermQueue, T!TypeOK, TermLife

-----------------------------------------------------------------------------
(* Unix sockets (o names the object)                                         *)

LEMMA SockBounds ==
  ASSUME NEW o
  PROVE  /\ MaxSocks \in Nat /\ SockCap \in Nat \ {0} /\ ConnsOn(o) \in Nat /\ SockBacklog \in Nat
         /\ (SockServers \cup SockClients) \subseteq SockProcs(o)
  BY ObjectsAssumption DEF ConnsOn, SockProcs

LEMMA SockWithoutIs ==
  ASSUME NEW o, NEW Z, NEW q \in Seq(Z), NEW gone
  PROVE  /\ S(o)!Without(q, gone) \in Seq(Z)
         /\ S(o)!Range(S(o)!Without(q, gone)) = S(o)!Range(q) \ gone
         /\ Len(S(o)!Without(q, gone)) <= Len(q)
         /\ S(o)!Range(q) \cap gone # {} => Len(S(o)!Without(q, gone)) < Len(q)
         /\ S(o)!IsInjective(q) => S(o)!IsInjective(S(o)!Without(q, gone))
<1>1. \A r : S(o)!Range(r) = T!Range(r) /\ S(o)!IsInjective(r) = T!IsInjective(r)
  BY DEF S!Range, T!Range, S!IsInjective, T!IsInjective
<1>2. S(o)!Without(q, gone) = T!Without(q, gone)
  BY DEF S!Without, T!Without
<1> QED
  BY <1>1, <1>2, WithoutIs

-----------------------------------------------------------------------------
(* Who is registered where                                                  *)

SockWaits(o) == {S(o)!Idle} \cup {[op |-> "accept", on |-> s] : s \in S(o)!Socks}
                            \cup {[op |-> "read", on |-> d] : d \in S(o)!Dirs}
                            \cup {[op |-> "write", on |-> d] : d \in S(o)!Dirs}

SockRecords(o) ==
    [st : {"free", "fresh", "bound", "listening", "conn"}, holders : SUBSET SockProcs(o),
                   rx : {0} \cup S(o)!Dirs, tx : {0} \cup S(o)!Dirs, pending : Seq(S(o)!Conns),
                   accepts : Seq(SockProcs(o))]

SockDirs(o) == [buf : 0..SockCap, rOpen : BOOLEAN, wOpen : BOOLEAN,
                readers : Seq(SockProcs(o)), writers : Seq(SockProcs(o))]

SockStates(o) == [socks : [S(o)!Socks -> SockRecords(o)], dirs : [S(o)!Dirs -> SockDirs(o)],
                  waiter : [SockProcs(o) -> SockWaits(o)], bound : S(o)!Socks \cup {0}]

\* A queue holds exactly those who wait there, once each.
SockRegistered(o, q, wt, w) ==
  S(o)!IsInjective(q) /\ \A p \in SockProcs(o) : p \in S(o)!Range(q) <=> wt[p] = w

SockBooks(o, x) ==
  /\ \A s \in S(o)!Socks : SockRegistered(o, x.socks[s].accepts, x.waiter, [op |-> "accept", on |-> s])
  /\ \A d \in S(o)!Dirs : SockRegistered(o, x.dirs[d].readers, x.waiter, [op |-> "read", on |-> d])
  /\ \A d \in S(o)!Dirs : SockRegistered(o, x.dirs[d].writers, x.waiter, [op |-> "write", on |-> d])

\* The same socket, direction, up to their queues of processes.
SockSame(k, j) == /\ j.st = k.st /\ j.holders = k.holders /\ j.rx = k.rx /\ j.tx = k.tx
                  /\ j.pending = k.pending
DirSame(e, d) == d.buf = e.buf /\ d.rOpen = e.rOpen /\ d.wOpen = e.wOpen

LEMMA SockUnqueue ==
  ASSUME NEW o, NEW q \in Seq(SockProcs(o)), NEW wt \in [SockProcs(o) -> SockWaits(o)], NEW w,
         SockRegistered(o, q, wt, w),
         w # S(o)!Idle, NEW p \in SockProcs(o), NEW v, v = [wt EXCEPT ![p] = S(o)!Idle]
  PROVE  /\ wt[p] # w => SockRegistered(o, q, v, w)
         /\ SockRegistered(o, S(o)!Without(q, {p}), v, w)
         /\ S(o)!Without(q, {p}) \in Seq(SockProcs(o))
            /\ S(o)!Range(S(o)!Without(q, {p})) \subseteq S(o)!Range(q)
         /\ Len(S(o)!Without(q, {p})) <= Len(q)
         /\ wt[p] = w => Len(S(o)!Without(q, {p})) < Len(q)
<1>0. /\ S(o)!Without(q, {p}) \in Seq(SockProcs(o))
      /\ S(o)!Range(S(o)!Without(q, {p})) = S(o)!Range(q) \ {p}
      /\ Len(S(o)!Without(q, {p})) <= Len(q)
      /\ S(o)!Range(q) \cap {p} # {} => Len(S(o)!Without(q, {p})) < Len(q)
      /\ S(o)!IsInjective(q) => S(o)!IsInjective(S(o)!Without(q, {p}))
  BY SockWithoutIs
<1>1. PICK u : u = S(o)!Without(q, {p})
  OBVIOUS
<1>2. /\ u \in Seq(SockProcs(o)) /\ S(o)!Range(u) = S(o)!Range(q) \ {p}
      /\ Len(u) <= Len(q)
      /\ S(o)!Range(q) \cap {p} # {} => Len(u) < Len(q)
      /\ S(o)!IsInjective(q) => S(o)!IsInjective(u)
  BY <1>0, <1>1
<1>3. \A r \in SockProcs(o) : v[r] = IF r = p THEN S(o)!Idle ELSE wt[r]
  OBVIOUS
<1>4. SockRegistered(o, u, v, w)
  BY <1>2, <1>3 DEF SockRegistered
<1>5. wt[p] # w => SockRegistered(o, q, v, w)
  BY <1>3 DEF SockRegistered
<1>6. wt[p] = w => S(o)!Range(q) \cap {p} # {}
  BY DEF SockRegistered
<1> QED
  BY <1>1, <1>2, <1>4, <1>5, <1>6

\* From x to y one process left the queue it was in.
SockLeft(o, x, y, p) ==
  /\ y \in SockStates(o) /\ SockBooks(o, y) /\ y.bound = x.bound
  /\ y.waiter = [x.waiter EXCEPT ![p] = S(o)!Idle]
  /\ \A s \in S(o)!Socks : /\ SockSame(x.socks[s], y.socks[s])
                           /\ S(o)!Range(y.socks[s].accepts) \subseteq S(o)!Range(x.socks[s].accepts)
  /\ \A d \in S(o)!Dirs : /\ DirSame(x.dirs[d], y.dirs[d])
                          /\ S(o)!Range(y.dirs[d].readers) \subseteq S(o)!Range(x.dirs[d].readers)
                          /\ S(o)!Range(y.dirs[d].writers) \subseteq S(o)!Range(x.dirs[d].writers)

\* It was one of those who read or write on d.
SockLeftDir(o, x, y, d) ==
  /\ y.socks = x.socks
  /\ \A e \in S(o)!Dirs : e # d => y.dirs[e] = x.dirs[e]
  /\ Len(y.dirs[d].readers) + Len(y.dirs[d].writers) < Len(x.dirs[d].readers) + Len(x.dirs[d].writers)

LEMMA SockCancelAccept ==
  ASSUME NEW o, NEW x \in SockStates(o), SockBooks(o, x), NEW p \in SockProcs(o),
         NEW s \in S(o)!Socks,
         x.waiter[p] = [op |-> "accept", on |-> s]
  PROVE  SockLeft(o, x, S(o)!Cancel(x, p), p)
<1>1. PICK v : v = [x.waiter EXCEPT ![p] = S(o)!Idle]
  OBVIOUS
<1>2. PICK a : a = S(o)!Without(x.socks[s].accepts, {p})
  OBVIOUS
<1>3. PICK k : k = [x.socks[s] EXCEPT !.accepts = a]
  OBVIOUS
<1>4. PICK so : so = [x.socks EXCEPT ![s] = k]
  OBVIOUS
<1>5. PICK y : y = [x EXCEPT !.waiter = v, !.socks = so]
  OBVIOUS
<1>6. /\ x.socks \in [S(o)!Socks -> SockRecords(o)] /\ x.dirs \in [S(o)!Dirs -> SockDirs(o)]
      /\ x.waiter \in [SockProcs(o) -> SockWaits(o)] /\ x.bound \in S(o)!Socks \cup {0}
  BY DEF SockStates
<1>7. S(o)!Cancel(x, p) = y
  BY <1>1, <1>2, <1>3, <1>4, <1>5, <1>6 DEF S!Cancel, SockStates
<1>8. x.socks[s] \in SockRecords(o) /\ x.socks[s].accepts \in Seq(SockProcs(o))
  BY <1>6 DEF SockRecords
<1>9. SockRegistered(o, x.socks[s].accepts, x.waiter, [op |-> "accept", on |-> s])
  BY DEF SockBooks
<1>10. [op |-> "accept", on |-> s] # S(o)!Idle
  BY DEF S!Idle
<1>11. SockRegistered(o, a, v, [op |-> "accept", on |-> s]) /\ a \in Seq(SockProcs(o))
       /\ S(o)!Range(a) \subseteq S(o)!Range(x.socks[s].accepts)
  <2>1. x.waiter \in [SockProcs(o) -> SockWaits(o)]
    BY <1>6
  <2>2. /\ SockRegistered(o, S(o)!Without(x.socks[s].accepts, {p}), v, [op |-> "accept", on |-> s])
        /\ S(o)!Without(x.socks[s].accepts, {p}) \in Seq(SockProcs(o))
        /\ S(o)!Range(S(o)!Without(x.socks[s].accepts, {p})) \subseteq S(o)!Range(x.socks[s].accepts)
    BY <1>1, <1>8, <1>9, <1>10, <2>1, SockUnqueue
  <2> QED
    BY <1>2, <2>2
<1>12. k \in SockRecords(o) /\ k.accepts = a /\ SockSame(x.socks[s], k)
  BY <1>3, <1>8, <1>11 DEF SockRecords, SockSame
<1>13. so \in [S(o)!Socks -> SockRecords(o)] /\ so[s] = k
       /\ \A t \in S(o)!Socks : t # s => so[t] = x.socks[t]
  BY <1>4, <1>6, <1>12
<1>14. v \in [SockProcs(o) -> SockWaits(o)]
  BY <1>1, <1>6 DEF SockWaits
<1>15. y \in SockStates(o) /\ y.socks = so /\ y.dirs = x.dirs /\ y.waiter = v /\ y.bound = x.bound
  BY <1>5, <1>13, <1>14 DEF SockStates
<1>16. ASSUME NEW t \in S(o)!Socks
              PROVE SockRegistered(o, so[t].accepts, v, [op |-> "accept", on |-> t])
  <2>1. CASE t = s
    BY <1>11, <1>12, <1>13, <2>1
  <2>2. CASE t # s
    <3>1. x.socks[t].accepts \in Seq(SockProcs(o))
      BY <1>6 DEF SockRecords
    <3>2. SockRegistered(o, x.socks[t].accepts, x.waiter, [op |-> "accept", on |-> t])
      BY DEF SockBooks
    <3>3. [op |-> "accept", on |-> t] # S(o)!Idle /\ x.waiter[p] # [op |-> "accept", on |-> t]
      BY <2>2 DEF S!Idle
    <3>4. SockRegistered(o, x.socks[t].accepts, v, [op |-> "accept", on |-> t])
      BY <1>1, <1>6, <3>1, <3>2, <3>3, SockUnqueue
    <3> QED
      BY <1>13, <2>2, <3>4
  <2> QED
    BY <2>1, <2>2
<1>17. ASSUME NEW d \in S(o)!Dirs
       PROVE  /\ SockRegistered(o, x.dirs[d].readers, v, [op |-> "read", on |-> d])
              /\ SockRegistered(o, x.dirs[d].writers, v, [op |-> "write", on |-> d])
  <2>1. x.dirs[d].readers \in Seq(SockProcs(o)) /\ x.dirs[d].writers \in Seq(SockProcs(o))
    BY <1>6 DEF SockDirs
  <2>2. /\ SockRegistered(o, x.dirs[d].readers, x.waiter, [op |-> "read", on |-> d])
        /\ SockRegistered(o, x.dirs[d].writers, x.waiter, [op |-> "write", on |-> d])
    BY DEF SockBooks
  <2>3. /\ [op |-> "read", on |-> d] # S(o)!Idle /\ x.waiter[p] # [op |-> "read", on |-> d]
        /\ [op |-> "write", on |-> d] # S(o)!Idle /\ x.waiter[p] # [op |-> "write", on |-> d]
    BY DEF S!Idle
  <2>4. SockRegistered(o, x.dirs[d].readers, v, [op |-> "read", on |-> d])
    BY <1>1, <1>6, <2>1, <2>2, <2>3, SockUnqueue
  <2>5. SockRegistered(o, x.dirs[d].writers, v, [op |-> "write", on |-> d])
    BY <1>1, <1>6, <2>1, <2>2, <2>3, SockUnqueue
  <2> QED
    BY <2>4, <2>5
<1>18. SockBooks(o, y)
  BY <1>15, <1>16, <1>17 DEF SockBooks
<1>19. \A t \in S(o)!Socks : SockSame(x.socks[t], y.socks[t])
                             /\ S(o)!Range(y.socks[t].accepts)
                                \subseteq S(o)!Range(x.socks[t].accepts)
  BY <1>11, <1>12, <1>13, <1>15 DEF SockSame
<1>20. \A d \in S(o)!Dirs : DirSame(x.dirs[d], y.dirs[d])
  BY <1>15 DEF DirSame
<1> QED
  BY <1>1, <1>7, <1>15, <1>18, <1>19, <1>20 DEF SockLeft

LEMMA SockCancelRead ==
  ASSUME NEW o, NEW x \in SockStates(o), SockBooks(o, x), NEW p \in SockProcs(o), NEW d \in S(o)!Dirs,
         x.waiter[p] = [op |-> "read", on |-> d]
  PROVE  SockLeft(o, x, S(o)!Cancel(x, p), p) /\ SockLeftDir(o, x, S(o)!Cancel(x, p), d)
<1>1. PICK v : v = [x.waiter EXCEPT ![p] = S(o)!Idle]
  OBVIOUS
<1>2. PICK a : a = S(o)!Without(x.dirs[d].readers, {p})
  OBVIOUS
<1>3. PICK k : k = [x.dirs[d] EXCEPT !.readers = a]
  OBVIOUS
<1>4. PICK ds : ds = [x.dirs EXCEPT ![d] = k]
  OBVIOUS
<1>5. PICK y : y = [x EXCEPT !.waiter = v, !.dirs = ds]
  OBVIOUS
<1>6. /\ x.socks \in [S(o)!Socks -> SockRecords(o)] /\ x.dirs \in [S(o)!Dirs -> SockDirs(o)]
      /\ x.waiter \in [SockProcs(o) -> SockWaits(o)] /\ x.bound \in S(o)!Socks \cup {0}
  BY DEF SockStates
<1>7. S(o)!Cancel(x, p) = y
  BY <1>1, <1>2, <1>3, <1>4, <1>5, <1>6 DEF S!Cancel, SockStates
<1>8. /\ x.dirs[d] \in SockDirs(o) /\ x.dirs[d].readers \in Seq(SockProcs(o))
         /\ x.dirs[d].writers \in Seq(SockProcs(o))
  BY <1>6 DEF SockDirs
<1>9. SockRegistered(o, x.dirs[d].readers, x.waiter, [op |-> "read", on |-> d])
  BY DEF SockBooks
<1>10. [op |-> "read", on |-> d] # S(o)!Idle
  BY DEF S!Idle
<1>11. SockRegistered(o, a, v, [op |-> "read", on |-> d]) /\ a \in Seq(SockProcs(o))
       /\ S(o)!Range(a) \subseteq S(o)!Range(x.dirs[d].readers)
       /\ Len(a) < Len(x.dirs[d].readers)
  <2>1. x.waiter \in [SockProcs(o) -> SockWaits(o)]
    BY <1>6
  <2>2. /\ SockRegistered(o, S(o)!Without(x.dirs[d].readers, {p}), v, [op |-> "read", on |-> d])
        /\ S(o)!Without(x.dirs[d].readers, {p}) \in Seq(SockProcs(o))
        /\ S(o)!Range(S(o)!Without(x.dirs[d].readers, {p})) \subseteq S(o)!Range(x.dirs[d].readers)
        /\ Len(S(o)!Without(x.dirs[d].readers, {p})) < Len(x.dirs[d].readers)
    BY <1>1, <1>8, <1>9, <1>10, <2>1, SockUnqueue
  <2> QED
    BY <1>2, <2>2
<1>12. k \in SockDirs(o) /\ k.readers = a /\ k.writers = x.dirs[d].writers /\ DirSame(x.dirs[d], k)
  BY <1>3, <1>8, <1>11 DEF SockDirs, DirSame
<1>13. ds \in [S(o)!Dirs -> SockDirs(o)] /\ ds[d] = k
       /\ \A e \in S(o)!Dirs : e # d => ds[e] = x.dirs[e]
  BY <1>4, <1>6, <1>12
<1>14. v \in [SockProcs(o) -> SockWaits(o)]
  BY <1>1, <1>6 DEF SockWaits
<1>15. y \in SockStates(o) /\ y.socks = x.socks /\ y.dirs = ds /\ y.waiter = v /\ y.bound = x.bound
  BY <1>5, <1>13, <1>14 DEF SockStates
<1>16. ASSUME NEW t \in S(o)!Socks
              PROVE SockRegistered(o, x.socks[t].accepts, v, [op |-> "accept", on |-> t])
  <2>1. x.socks[t].accepts \in Seq(SockProcs(o))
    BY <1>6 DEF SockRecords
  <2>2. SockRegistered(o, x.socks[t].accepts, x.waiter, [op |-> "accept", on |-> t])
    BY DEF SockBooks
  <2>3. [op |-> "accept", on |-> t] # S(o)!Idle /\ x.waiter[p] # [op |-> "accept", on |-> t]
    BY DEF S!Idle
  <2> QED
    BY <1>1, <1>6, <2>1, <2>2, <2>3, SockUnqueue
<1>17. ASSUME NEW e \in S(o)!Dirs
              PROVE SockRegistered(o, ds[e].writers, v, [op |-> "write", on |-> e])
  <2>1. x.dirs[e].writers \in Seq(SockProcs(o))
    BY <1>6 DEF SockDirs
  <2>2. SockRegistered(o, x.dirs[e].writers, x.waiter, [op |-> "write", on |-> e])
    BY DEF SockBooks
  <2>3. [op |-> "write", on |-> e] # S(o)!Idle /\ x.waiter[p] # [op |-> "write", on |-> e]
    BY DEF S!Idle
  <2>4. SockRegistered(o, x.dirs[e].writers, v, [op |-> "write", on |-> e])
    BY <1>1, <1>6, <2>1, <2>2, <2>3, SockUnqueue
  <2>5. ds[e].writers = x.dirs[e].writers
    BY <1>12, <1>13
  <2> QED
    BY <2>4, <2>5
<1>18. ASSUME NEW e \in S(o)!Dirs PROVE SockRegistered(o, ds[e].readers, v, [op |-> "read", on |-> e])
  <2>1. CASE e = d
    BY <1>11, <1>12, <1>13, <2>1
  <2>2. CASE e # d
    <3>1. x.dirs[e].readers \in Seq(SockProcs(o))
      BY <1>6 DEF SockDirs
    <3>2. SockRegistered(o, x.dirs[e].readers, x.waiter, [op |-> "read", on |-> e])
      BY DEF SockBooks
    <3>3. [op |-> "read", on |-> e] # S(o)!Idle /\ x.waiter[p] # [op |-> "read", on |-> e]
      BY <2>2 DEF S!Idle
    <3>4. SockRegistered(o, x.dirs[e].readers, v, [op |-> "read", on |-> e])
      BY <1>1, <1>6, <3>1, <3>2, <3>3, SockUnqueue
    <3> QED
      BY <1>13, <2>2, <3>4
  <2> QED
    BY <2>1, <2>2
<1>19. SockBooks(o, y)
  BY <1>15, <1>16, <1>17, <1>18 DEF SockBooks
<1>20. \A t \in S(o)!Socks : SockSame(x.socks[t], y.socks[t])
                             /\ S(o)!Range(y.socks[t].accepts)
                                \subseteq S(o)!Range(x.socks[t].accepts)
  BY <1>15 DEF SockSame
<1>21. \A e \in S(o)!Dirs : /\ DirSame(x.dirs[e], y.dirs[e])
                            /\ S(o)!Range(y.dirs[e].readers) \subseteq S(o)!Range(x.dirs[e].readers)
                            /\ S(o)!Range(y.dirs[e].writers) \subseteq S(o)!Range(x.dirs[e].writers)
  BY <1>11, <1>12, <1>13, <1>15 DEF DirSame
<1>22. SockLeftDir(o, x, y, d)
  <2>1. Len(k.readers) < Len(x.dirs[d].readers) /\ Len(k.writers) = Len(x.dirs[d].writers)
    BY <1>11, <1>12
  <2>2. /\ Len(k.readers) \in Nat /\ Len(x.dirs[d].readers) \in Nat
        /\ Len(x.dirs[d].writers) \in Nat
    BY <1>8, <1>11, <1>12
  <2>3. y.dirs[d] = k /\ y.socks = x.socks /\ \A e \in S(o)!Dirs : e # d => y.dirs[e] = x.dirs[e]
    BY <1>13, <1>15
  <2>4. Len(k.readers) + Len(k.writers) < Len(x.dirs[d].readers) + Len(x.dirs[d].writers)
    <3>1. \A i, j, m \in Nat : i < j => i + m < j + m /\ m + i < m + j
      OBVIOUS
    <3> QED
      BY <2>1, <2>2, <3>1
  <2> QED
    BY <2>3, <2>4 DEF SockLeftDir
<1> QED
  BY <1>1, <1>7, <1>15, <1>19, <1>20, <1>21, <1>22 DEF SockLeft

LEMMA SockCancelWrite ==
  ASSUME NEW o, NEW x \in SockStates(o), SockBooks(o, x), NEW p \in SockProcs(o), NEW d \in S(o)!Dirs,
         x.waiter[p] = [op |-> "write", on |-> d]
  PROVE  SockLeft(o, x, S(o)!Cancel(x, p), p) /\ SockLeftDir(o, x, S(o)!Cancel(x, p), d)
<1>1. PICK v : v = [x.waiter EXCEPT ![p] = S(o)!Idle]
  OBVIOUS
<1>2. PICK a : a = S(o)!Without(x.dirs[d].writers, {p})
  OBVIOUS
<1>3. PICK k : k = [x.dirs[d] EXCEPT !.writers = a]
  OBVIOUS
<1>4. PICK ds : ds = [x.dirs EXCEPT ![d] = k]
  OBVIOUS
<1>5. PICK y : y = [x EXCEPT !.waiter = v, !.dirs = ds]
  OBVIOUS
<1>6. /\ x.socks \in [S(o)!Socks -> SockRecords(o)] /\ x.dirs \in [S(o)!Dirs -> SockDirs(o)]
      /\ x.waiter \in [SockProcs(o) -> SockWaits(o)] /\ x.bound \in S(o)!Socks \cup {0}
  BY DEF SockStates
<1>7. S(o)!Cancel(x, p) = y
  BY <1>1, <1>2, <1>3, <1>4, <1>5, <1>6 DEF S!Cancel, SockStates
<1>8. /\ x.dirs[d] \in SockDirs(o) /\ x.dirs[d].writers \in Seq(SockProcs(o))
         /\ x.dirs[d].readers \in Seq(SockProcs(o))
  BY <1>6 DEF SockDirs
<1>9. SockRegistered(o, x.dirs[d].writers, x.waiter, [op |-> "write", on |-> d])
  BY DEF SockBooks
<1>10. [op |-> "write", on |-> d] # S(o)!Idle
  BY DEF S!Idle
<1>11. SockRegistered(o, a, v, [op |-> "write", on |-> d]) /\ a \in Seq(SockProcs(o))
       /\ S(o)!Range(a) \subseteq S(o)!Range(x.dirs[d].writers)
       /\ Len(a) < Len(x.dirs[d].writers)
  <2>1. x.waiter \in [SockProcs(o) -> SockWaits(o)]
    BY <1>6
  <2>2. /\ SockRegistered(o, S(o)!Without(x.dirs[d].writers, {p}), v, [op |-> "write", on |-> d])
        /\ S(o)!Without(x.dirs[d].writers, {p}) \in Seq(SockProcs(o))
        /\ S(o)!Range(S(o)!Without(x.dirs[d].writers, {p})) \subseteq S(o)!Range(x.dirs[d].writers)
        /\ Len(S(o)!Without(x.dirs[d].writers, {p})) < Len(x.dirs[d].writers)
    BY <1>1, <1>8, <1>9, <1>10, <2>1, SockUnqueue, ZenonT(60)
  <2> QED
    BY <1>2, <2>2
<1>12. k \in SockDirs(o) /\ k.writers = a /\ k.readers = x.dirs[d].readers /\ DirSame(x.dirs[d], k)
  BY <1>3, <1>8, <1>11 DEF SockDirs, DirSame
<1>13. ds \in [S(o)!Dirs -> SockDirs(o)] /\ ds[d] = k
       /\ \A e \in S(o)!Dirs : e # d => ds[e] = x.dirs[e]
  BY <1>4, <1>6, <1>12
<1>14. v \in [SockProcs(o) -> SockWaits(o)]
  BY <1>1, <1>6 DEF SockWaits
<1>15. y \in SockStates(o) /\ y.socks = x.socks /\ y.dirs = ds /\ y.waiter = v /\ y.bound = x.bound
  BY <1>5, <1>13, <1>14 DEF SockStates
<1>16. ASSUME NEW t \in S(o)!Socks
              PROVE SockRegistered(o, x.socks[t].accepts, v, [op |-> "accept", on |-> t])
  <2>1. x.socks[t].accepts \in Seq(SockProcs(o))
    BY <1>6 DEF SockRecords
  <2>2. SockRegistered(o, x.socks[t].accepts, x.waiter, [op |-> "accept", on |-> t])
    BY DEF SockBooks
  <2>3. [op |-> "accept", on |-> t] # S(o)!Idle /\ x.waiter[p] # [op |-> "accept", on |-> t]
    BY DEF S!Idle
  <2> QED
    BY <1>1, <1>6, <2>1, <2>2, <2>3, SockUnqueue
<1>17. ASSUME NEW e \in S(o)!Dirs PROVE SockRegistered(o, ds[e].readers, v, [op |-> "read", on |-> e])
  <2>1. x.dirs[e].readers \in Seq(SockProcs(o))
    BY <1>6 DEF SockDirs
  <2>2. SockRegistered(o, x.dirs[e].readers, x.waiter, [op |-> "read", on |-> e])
    BY DEF SockBooks
  <2>3. [op |-> "read", on |-> e] # S(o)!Idle /\ x.waiter[p] # [op |-> "read", on |-> e]
    BY DEF S!Idle
  <2>4. SockRegistered(o, x.dirs[e].readers, v, [op |-> "read", on |-> e])
    BY <1>1, <1>6, <2>1, <2>2, <2>3, SockUnqueue
  <2>5. ds[e].readers = x.dirs[e].readers
    BY <1>12, <1>13
  <2> QED
    BY <2>4, <2>5
<1>18. ASSUME NEW e \in S(o)!Dirs
              PROVE SockRegistered(o, ds[e].writers, v, [op |-> "write", on |-> e])
  <2>1. CASE e = d
    BY <1>11, <1>12, <1>13, <2>1
  <2>2. CASE e # d
    <3>1. x.dirs[e].writers \in Seq(SockProcs(o))
      BY <1>6 DEF SockDirs
    <3>2. SockRegistered(o, x.dirs[e].writers, x.waiter, [op |-> "write", on |-> e])
      BY DEF SockBooks
    <3>3. [op |-> "write", on |-> e] # S(o)!Idle /\ x.waiter[p] # [op |-> "write", on |-> e]
      BY <2>2 DEF S!Idle
    <3>4. SockRegistered(o, x.dirs[e].writers, v, [op |-> "write", on |-> e])
      BY <1>1, <1>6, <3>1, <3>2, <3>3, SockUnqueue
    <3> QED
      BY <1>13, <2>2, <3>4
  <2> QED
    BY <2>1, <2>2
<1>19. SockBooks(o, y)
  BY <1>15, <1>16, <1>17, <1>18 DEF SockBooks
<1>20. \A t \in S(o)!Socks : SockSame(x.socks[t], y.socks[t])
                             /\ S(o)!Range(y.socks[t].accepts)
                                \subseteq S(o)!Range(x.socks[t].accepts)
  BY <1>15 DEF SockSame
<1>21. \A e \in S(o)!Dirs : /\ DirSame(x.dirs[e], y.dirs[e])
                            /\ S(o)!Range(y.dirs[e].writers) \subseteq S(o)!Range(x.dirs[e].writers)
                            /\ S(o)!Range(y.dirs[e].readers) \subseteq S(o)!Range(x.dirs[e].readers)
  BY <1>11, <1>12, <1>13, <1>15 DEF DirSame
<1>22. SockLeftDir(o, x, y, d)
  <2>1. Len(k.writers) < Len(x.dirs[d].writers) /\ Len(k.readers) = Len(x.dirs[d].readers)
    BY <1>11, <1>12
  <2>2. /\ Len(k.writers) \in Nat /\ Len(x.dirs[d].writers) \in Nat
        /\ Len(x.dirs[d].readers) \in Nat
    BY <1>8, <1>11, <1>12
  <2>3. y.dirs[d] = k /\ y.socks = x.socks /\ \A e \in S(o)!Dirs : e # d => y.dirs[e] = x.dirs[e]
    BY <1>13, <1>15
  <2>4. Len(k.readers) + Len(k.writers) < Len(x.dirs[d].readers) + Len(x.dirs[d].writers)
    <3>1. \A i, j, m \in Nat : i < j => i + m < j + m /\ m + i < m + j
      OBVIOUS
    <3> QED
      BY <2>1, <2>2, <3>1
  <2> QED
    BY <2>3, <2>4 DEF SockLeftDir
<1> QED
  BY <1>1, <1>7, <1>15, <1>19, <1>20, <1>21, <1>22 DEF SockLeft

LEMMA SockCancel ==
  ASSUME NEW o, NEW x \in SockStates(o), SockBooks(o, x), NEW p \in SockProcs(o)
  PROVE  SockLeft(o, x, S(o)!Cancel(x, p), p)
<1>1. x.waiter \in [SockProcs(o) -> SockWaits(o)]
  BY DEF SockStates
<1>2. CASE x.waiter[p] = S(o)!Idle
  <2>1. S(o)!Cancel(x, p) = x
    BY <1>2 DEF S!Cancel, S!Idle
  <2>2. x.waiter = [x.waiter EXCEPT ![p] = S(o)!Idle]
    BY <1>1, <1>2
  <2> QED
    BY <2>1, <2>2 DEF SockLeft, SockSame, DirSame
<1>3. CASE \E s \in S(o)!Socks : x.waiter[p] = [op |-> "accept", on |-> s]
  BY <1>3, SockCancelAccept
<1>4. CASE \E d \in S(o)!Dirs : x.waiter[p] = [op |-> "read", on |-> d]
  BY <1>4, SockCancelRead
<1>5. CASE \E d \in S(o)!Dirs : x.waiter[p] = [op |-> "write", on |-> d]
  BY <1>5, SockCancelWrite
<1> QED
  BY <1>1, <1>2, <1>3, <1>4, <1>5 DEF SockWaits

-----------------------------------------------------------------------------
(* _pipeNotify                                                              *)

\* Nobody who waits on d could be served.
SockSettled(x, d) ==
  /\ x.dirs[d].readers # <<>> => x.dirs[d].buf = 0 /\ x.dirs[d].wOpen
  /\ x.dirs[d].writers # <<>> => x.dirs[d].buf = SockCap /\ x.dirs[d].rOpen /\ x.dirs[d].wOpen

SockWaiting(x, d) == Len(x.dirs[d].readers) + Len(x.dirs[d].writers)

\* What services on d change.
SockServed(o, x, y, d) ==
  /\ y \in SockStates(o) /\ SockBooks(o, y) /\ y.socks = x.socks /\ y.bound = x.bound
  /\ \A e \in S(o)!Dirs : e # d => y.dirs[e] = x.dirs[e]
  /\ y.dirs[d].rOpen = x.dirs[d].rOpen /\ y.dirs[d].wOpen = x.dirs[d].wOpen
  /\ S(o)!Range(y.dirs[d].readers) \subseteq S(o)!Range(x.dirs[d].readers)
  /\ S(o)!Range(y.dirs[d].writers) \subseteq S(o)!Range(x.dirs[d].writers)
  /\ \A p \in SockProcs(o) : y.waiter[p] = x.waiter[p] \/ y.waiter[p] = S(o)!Idle

LEMMA SockServedTrans ==
  ASSUME NEW o, NEW x, NEW y, NEW z, NEW d, SockServed(o, x, y, d), SockServed(o, y, z, d)
  PROVE  SockServed(o, x, z, d)
  BY DEF SockServed

LEMMA SockBuffer ==
  ASSUME NEW o, NEW x \in SockStates(o), SockBooks(o, x), NEW d \in S(o)!Dirs, NEW b \in 0..SockCap,
         NEW y, y = S(o)!Filled(x, d, b)
  PROVE  SockServed(o, x, y, d) /\ SockWaiting(y, d) = SockWaiting(x, d)
         /\ y.dirs[d].buf = b
         /\ y.dirs[d].readers = x.dirs[d].readers /\ y.dirs[d].writers = x.dirs[d].writers
<1>1. PICK k : k = [x.dirs[d] EXCEPT !.buf = b]
  OBVIOUS
<1>2. PICK ds : ds = [x.dirs EXCEPT ![d] = k]
  OBVIOUS
<1>3. x.dirs \in [S(o)!Dirs -> SockDirs(o)] /\ x.dirs[d] \in SockDirs(o)
  BY DEF SockStates
<1>4. y = [x EXCEPT !.dirs = ds]
  BY <1>1, <1>2, <1>3 DEF S!Filled
<1>5. k \in SockDirs(o) /\ k.readers = x.dirs[d].readers /\ k.writers = x.dirs[d].writers
      /\ k.rOpen = x.dirs[d].rOpen /\ k.wOpen = x.dirs[d].wOpen /\ k.buf = b
  BY <1>1, <1>3 DEF SockDirs
<1>6. ds \in [S(o)!Dirs -> SockDirs(o)] /\ ds[d] = k
      /\ \A e \in S(o)!Dirs : e # d => ds[e] = x.dirs[e]
  BY <1>2, <1>3, <1>5
<1>7. y \in SockStates(o) /\ y.socks = x.socks /\ y.dirs = ds /\ y.waiter = x.waiter
      /\ y.bound = x.bound
  BY <1>4, <1>6 DEF SockStates
<1>8. \A e \in S(o)!Dirs : ds[e].readers = x.dirs[e].readers /\ ds[e].writers = x.dirs[e].writers
  BY <1>5, <1>6
<1>9. SockBooks(o, y)
  BY <1>7, <1>8 DEF SockBooks
<1>10. SockWaiting(y, d) = SockWaiting(x, d)
  BY <1>7, <1>8 DEF SockWaiting
<1>11. SockServed(o, x, y, d)
  BY <1>5, <1>6, <1>7, <1>9 DEF SockServed
<1> QED
  BY <1>5, <1>6, <1>7, <1>10, <1>11

\* One who waits on d leaves.
LEMMA SockOneLeaves ==
  ASSUME NEW o, NEW x \in SockStates(o), SockBooks(o, x), NEW d \in S(o)!Dirs, NEW p \in SockProcs(o),
         x.waiter[p] \in {[op |-> "read", on |-> d], [op |-> "write", on |-> d]}
  PROVE  /\ SockServed(o, x, S(o)!Cancel(x, p), d)
            /\ SockWaiting(S(o)!Cancel(x, p), d) < SockWaiting(x, d)
         /\ S(o)!Cancel(x, p).dirs[d].buf = x.dirs[d].buf
<1>1. PICK c : c = S(o)!Cancel(x, p)
  OBVIOUS
<1>2. SockLeft(o, x, c, p) /\ SockLeftDir(o, x, c, d)
  BY <1>1, SockCancelRead, SockCancelWrite
<1>3. x.waiter \in [SockProcs(o) -> SockWaits(o)]
  BY DEF SockStates
<1>4. \A r \in SockProcs(o) : c.waiter[r] = x.waiter[r] \/ c.waiter[r] = S(o)!Idle
  BY <1>2, <1>3 DEF SockLeft
<1>5. SockServed(o, x, c, d)
  BY <1>2, <1>4 DEF SockServed, SockLeft, SockLeftDir, DirSame
<1> QED
  BY <1>1, <1>2, <1>5 DEF SockLeft, SockLeftDir, DirSame, SockWaiting

LEMMA SockHead ==
  ASSUME NEW o, NEW q \in Seq(SockProcs(o)), q # <<>> PROVE Head(q) \in S(o)!Range(q)
         /\ Head(q) \in SockProcs(o)
<1>1. Len(q) \in Nat /\ Len(q) # 0 /\ DOMAIN q = 1..Len(q) /\ Head(q) = q[1]
  BY EmptySeq
<1>2. 1 \in DOMAIN q
  BY <1>1
<1> QED
  BY <1>1, <1>2 DEF S!Range

LEMMA SockServeOne ==
  ASSUME NEW o, NEW x \in SockStates(o), SockBooks(o, x), NEW d \in S(o)!Dirs, NEW y,
         y = S(o)!ServeOne(x, d)
  PROVE  /\ SockServed(o, x, y, d)
         /\ \/ SockSettled(x, d) /\ y = x
            \/ SockWaiting(y, d) < SockWaiting(x, d)
<1>1. x.dirs[d] \in SockDirs(o)
  BY DEF SockStates
<1>2. /\ x.dirs[d].readers \in Seq(SockProcs(o)) /\ x.dirs[d].writers \in Seq(SockProcs(o))
      /\ x.dirs[d].buf \in 0..SockCap /\ x.dirs[d].rOpen \in BOOLEAN /\ x.dirs[d].wOpen \in BOOLEAN
  BY <1>1 DEF SockDirs
<1>3. /\ SockRegistered(o, x.dirs[d].readers, x.waiter, [op |-> "read", on |-> d])
      /\ SockRegistered(o, x.dirs[d].writers, x.waiter, [op |-> "write", on |-> d])
  BY DEF SockBooks
<1>4. PICK r : r = x.dirs[d].readers
  OBVIOUS
<1>5. PICK w : w = x.dirs[d].writers
  OBVIOUS
<1>6. PICK isopen \in BOOLEAN : isopen <=> x.dirs[d].rOpen /\ x.dirs[d].wOpen
  BY Zenon
<1>7. CASE r # <<>> /\ x.dirs[d].buf > 0
  <2>1. Head(r) \in S(o)!Range(r) /\ Head(r) \in SockProcs(o)
    BY <1>2, <1>4, <1>7, SockHead
  <2>2. PICK p \in SockProcs(o) : p = Head(r)
    BY <2>1
  <2>3. x.waiter[p] = [op |-> "read", on |-> d]
    BY <1>3, <1>4, <2>1, <2>2 DEF SockRegistered
  <2>4. PICK c : c = S(o)!Cancel(x, p)
    OBVIOUS
  <2>5. SockServed(o, x, c, d) /\ SockWaiting(c, d) < SockWaiting(x, d)
        /\ c.dirs[d].buf = x.dirs[d].buf
    BY <2>3, <2>4, SockOneLeaves
  <2>10. PICK b : b = x.dirs[d].buf - 1
    OBVIOUS
  <2>6. y = S(o)!Filled(c, d, b)
    BY <1>4, <1>7, <2>2, <2>4, <2>10 DEF S!ServeOne
  <2>7. b \in 0..SockCap
    BY <1>2, <1>7, <2>10, SockBounds
  <2>8. SockServed(o, c, y, d) /\ SockWaiting(y, d) = SockWaiting(c, d)
    <3>1. c \in SockStates(o)
      BY <2>5 DEF SockServed
    <3>2. SockBooks(o, c)
      BY <2>5 DEF SockServed
    <3> QED
      BY <2>6, <2>7, <3>1, <3>2, SockBuffer
  <2>9. SockServed(o, x, y, d)
    BY <2>5, <2>8, SockServedTrans
  <2> QED
    BY <2>5, <2>8, <2>9
<1>8. CASE r # <<>> /\ x.dirs[d].buf = 0 /\ ~x.dirs[d].wOpen
  <2>1. Head(r) \in S(o)!Range(r) /\ Head(r) \in SockProcs(o)
    BY <1>2, <1>4, <1>8, SockHead
  <2>2. PICK p \in SockProcs(o) : p = Head(r)
    BY <2>1
  <2>3. x.waiter[p] = [op |-> "read", on |-> d]
    BY <1>3, <1>4, <2>1, <2>2 DEF SockRegistered
  <2>4. y = S(o)!Cancel(x, p)
    BY <1>4, <1>8, <2>2 DEF S!ServeOne
  <2> QED
    BY <2>3, <2>4, SockOneLeaves
<1>9. CASE /\ ~(r # <<>> /\ x.dirs[d].buf > 0) /\ ~(r # <<>> /\ x.dirs[d].buf = 0 /\ ~x.dirs[d].wOpen)
           /\ w = <<>> \/ (isopen /\ x.dirs[d].buf >= SockCap)
  <2>1. y = x
    BY <1>4, <1>5, <1>6, <1>9 DEF S!ServeOne
  <2>2. x.dirs[d].buf = 0 \/ x.dirs[d].buf > 0
    BY <1>2
  <2>3. x.dirs[d].buf >= SockCap => x.dirs[d].buf = SockCap
    BY <1>2, SockBounds, SMTT(30)
  <2>4. SockSettled(x, d)
    BY <1>4, <1>5, <1>6, <1>9, <2>2, <2>3 DEF SockSettled
  <2>5. SockServed(o, x, x, d)
    BY DEF SockServed
  <2> QED
    BY <2>1, <2>4, <2>5
<1>10. CASE /\ ~(r # <<>> /\ x.dirs[d].buf > 0) /\ ~(r # <<>> /\ x.dirs[d].buf = 0 /\ ~x.dirs[d].wOpen)
            /\ ~(w = <<>> \/ (isopen /\ x.dirs[d].buf >= SockCap))
  <2>1. Head(w) \in S(o)!Range(w) /\ Head(w) \in SockProcs(o)
    BY <1>2, <1>5, <1>10, SockHead
  <2>2. PICK p \in SockProcs(o) : p = Head(w)
    BY <2>1
  <2>3. x.waiter[p] = [op |-> "write", on |-> d]
    BY <1>3, <1>5, <2>1, <2>2 DEF SockRegistered
  <2>4. PICK c : c = S(o)!Cancel(x, p)
    OBVIOUS
  <2>5. SockServed(o, x, c, d) /\ SockWaiting(c, d) < SockWaiting(x, d)
        /\ c.dirs[d].buf = x.dirs[d].buf
    BY <2>3, <2>4, SockOneLeaves
  <2>6. PICK b : b = IF isopen THEN x.dirs[d].buf + 1 ELSE x.dirs[d].buf
    OBVIOUS
  <2>7. y = S(o)!Filled(c, d, b)
    BY <1>4, <1>5, <1>6, <1>10, <2>2, <2>4, <2>6 DEF S!ServeOne
  <2>8. b \in 0..SockCap
    BY <1>2, <1>10, <2>6, SockBounds
  <2>9. SockServed(o, c, y, d) /\ SockWaiting(y, d) = SockWaiting(c, d)
    <3>1. c \in SockStates(o)
      BY <2>5 DEF SockServed
    <3>2. SockBooks(o, c)
      BY <2>5 DEF SockServed
    <3> QED
      BY <2>7, <2>8, <3>1, <3>2, SockBuffer
  <2>10. SockServed(o, x, y, d)
    BY <2>5, <2>9, SockServedTrans
  <2> QED
    BY <2>5, <2>9, <2>10
<1> QED
  BY <1>7, <1>8, <1>9, <1>10

\* The loop ends with nobody left who could be served.
LEMMA SockNotify ==
  ASSUME NEW o, NEW x \in SockStates(o), SockBooks(o, x), NEW d \in S(o)!Dirs, NEW y,
         y = S(o)!Notify(x, d)
  PROVE  SockServed(o, x, y, d) /\ SockSettled(y, d)
<1>1. PICK N : N = SockWaiting(x, d)
  OBVIOUS
<1>2. ASSUME NEW z \in SockStates(o) PROVE SockWaiting(z, d) \in Nat
             /\ (SockWaiting(z, d) = 0 => SockSettled(z, d))
  <2>1. z.dirs[d].readers \in Seq(SockProcs(o)) /\ z.dirs[d].writers \in Seq(SockProcs(o))
    BY DEF SockStates, SockDirs
  <2>2. Len(z.dirs[d].readers) \in Nat /\ Len(z.dirs[d].writers) \in Nat
    BY <2>1
  <2>3. ASSUME SockWaiting(z, d) = 0 PROVE z.dirs[d].readers = <<>> /\ z.dirs[d].writers = <<>>
    <3>2. \A i, j \in Nat : i + j = 0 => i = 0 /\ j = 0
      OBVIOUS
    <3>1. Len(z.dirs[d].readers) = 0 /\ Len(z.dirs[d].writers) = 0
      BY <2>2, <2>3, <3>2 DEF SockWaiting
    <3> QED
      BY <2>1, <3>1, EmptySeq
  <2>4. SockWaiting(z, d) \in Nat
    <3>1. \A i, j \in Nat : i + j \in Nat
      OBVIOUS
    <3> QED
      BY <2>2, <3>1 DEF SockWaiting
  <2> QED
    BY <2>3, <2>4 DEF SockSettled
<1>3. N \in Nat
  BY <1>1, <1>2
<1> DEFINE Fine(z, n) == /\ SockServed(o, x, z, d)
                         /\ SockSettled(z, d) \/ SockWaiting(z, d) + n <= N
           G == [n \in 0..N |-> {z \in SockStates(o) : Fine(z, n)}]
           step == [n \in 1..N |-> [z \in G[n - 1] |-> S(o)!ServeOne(z, d)]]
<1>4. \A n \in 0..N : G[n] = {z \in SockStates(o) : Fine(z, n)}
  OBVIOUS
<1> HIDE DEF G
<1>5. x \in G[0]
  <2>1. SockServed(o, x, x, d)
    BY DEF SockServed
  <2>2. SockWaiting(x, d) + 0 <= N
    BY <1>1, <1>3
  <2>3. 0 \in 0..N
    BY <1>3
  <2> QED
    BY <1>4, <2>1, <2>2, <2>3
<1>6. ASSUME NEW n \in 1..N, NEW z \in G[n - 1] PROVE S(o)!ServeOne(z, d) \in G[n]
  <2>1. z \in SockStates(o) /\ Fine(z, n - 1)
    BY <1>3, <1>4
  <2>2. PICK u : u = S(o)!ServeOne(z, d)
    OBVIOUS
  <2>3. SockBooks(o, z) /\ SockServed(o, x, z, d)
    BY <2>1 DEF SockServed
  <2>4. /\ SockServed(o, z, u, d)
        /\ \/ SockSettled(z, d) /\ u = z
           \/ SockWaiting(u, d) < SockWaiting(z, d)
    BY <2>1, <2>2, <2>3, SockServeOne
  <2>5. SockServed(o, x, u, d) /\ u \in SockStates(o)
    BY <2>3, <2>4, SockServedTrans DEF SockServed
  <2>6. SockWaiting(u, d) \in Nat /\ (SockWaiting(u, d) = 0 => SockSettled(u, d))
        /\ SockWaiting(z, d) \in Nat
    BY <1>2, <2>1, <2>5
  <2>7. SockSettled(z, d) \/ SockWaiting(z, d) + (n - 1) <= N
    BY <2>1
  <2>8. SockSettled(u, d) \/ SockWaiting(u, d) + n <= N
    <3>1. CASE SockSettled(z, d) /\ u = z
      BY <3>1
    <3>2. CASE SockWaiting(u, d) < SockWaiting(z, d) /\ SockWaiting(z, d) + (n - 1) <= N
      BY <1>3, <2>6, <3>2
    <3>3. CASE SockSettled(z, d) /\ SockWaiting(u, d) < SockWaiting(z, d)
      \* A settled direction is left alone.
      <4>1. z.dirs[d] \in SockDirs(o)
        BY <2>1 DEF SockStates
      <4>2. z.dirs[d].buf \in 0..SockCap
        BY <4>1 DEF SockDirs
      <4>3. S(o)!ServeOne(z, d) = z
        BY <3>3, <4>2, SockBounds DEF SockSettled, S!ServeOne
      <4> QED
        BY <2>2, <2>6, <3>3, <4>3
    <3> QED
      BY <2>4, <2>7, <3>1, <3>2, <3>3
  <2>9. n \in 0..N
    BY <1>3
  <2> QED
    BY <1>4, <2>2, <2>5, <2>8, <2>9
<1>7. \A n \in 1..N : step[n] \in [G[n - 1] -> G[n]]
  BY <1>6
<1> DEFINE Is(h) == h = [n \in 0..N |-> IF n = 0 THEN x ELSE S(o)!ServeOne(h[n - 1], d)]
<1>8. \E h : Is(h)
  <2>1. \A n \in 1..N : \A k \in G[n - 1] : step[n][k] = S(o)!ServeOne(k, d)
    OBVIOUS
  <2> HIDE DEF step
  <2>2. PICK h : IsHistory(h, N, x, step) /\ \A n \in 0..N : h[n] \in G[n]
    BY <1>3, <1>5, <1>7, History
  <2>3. \A n \in 1..N : h[n - 1] \in G[n - 1] /\ step[n][h[n - 1]] = S(o)!ServeOne(h[n - 1], d)
    BY <1>3, <2>1, <2>2
  <2>4. \A n \in 0..N : (IF n = 0 THEN x ELSE step[n][h[n - 1]])
                       = (IF n = 0 THEN x ELSE S(o)!ServeOne(h[n - 1], d))
    BY <1>3, <2>3
  <2>5. [n \in 0..N |-> IF n = 0 THEN x ELSE step[n][h[n - 1]]]
        = [n \in 0..N |-> IF n = 0 THEN x ELSE S(o)!ServeOne(h[n - 1], d)]
    BY <2>4, Zenon
  <2> QED
    BY <2>2, <2>5, Zenon DEF IsHistory
<1>9. PICK h : h = CHOOSE f : Is(f)
  OBVIOUS
<1>10. Is(h)
  BY <1>8, <1>9
<1>11. y = h[N]
  BY <1>1, <1>9 DEF S!Notify, SockWaiting
<1>12. h[0] = x /\ \A n \in 1..N : h[n] = S(o)!ServeOne(h[n - 1], d)
  BY <1>3, <1>10
<1> HIDE DEF Is
<1>13. \A n \in 1..N : h[n - 1] \in G[n - 1] => h[n] \in G[n]
  BY <1>6, <1>12
<1>14. h[0] = x
  BY <1>12
<1>15. \A n \in 0..N : h[n] \in G[n]
  BY <1>3, <1>5, <1>13, <1>14, HistoryIn
<1>16. y \in SockStates(o) /\ Fine(y, N)
  BY <1>3, <1>4, <1>11, <1>15
<1>17. SockWaiting(y, d) \in Nat /\ (SockWaiting(y, d) = 0 => SockSettled(y, d))
  BY <1>2, <1>16
<1> QED
  BY <1>3, <1>16, <1>17

-----------------------------------------------------------------------------
(* Shutting directions down                                                 *)

\* From x to y bytes moved, directions lost sides and calls were answered;
\* outside D nobody was left who could be served.
SockMoves(o, x, y, D) ==
  /\ y \in SockStates(o) /\ SockBooks(o, y) /\ y.socks = x.socks /\ y.bound = x.bound
  /\ \A p \in SockProcs(o) : y.waiter[p] = x.waiter[p] \/ y.waiter[p] = S(o)!Idle
  /\ \A e \in S(o)!Dirs : /\ y.dirs[e].rOpen => x.dirs[e].rOpen
                          /\ y.dirs[e].wOpen => x.dirs[e].wOpen
                          /\ e \notin D => (SockSettled(x, e) => SockSettled(y, e))

LEMMA SockMovesTrans ==
  ASSUME NEW o, NEW x, NEW y, NEW z, NEW D, NEW B, SockMoves(o, x, y, D), SockMoves(o, y, z, B)
  PROVE  SockMoves(o, x, z, D \cup B)
  BY DEF SockMoves

LEMMA SockMovesNotify ==
  ASSUME NEW o, NEW x, NEW z, NEW D, SockMoves(o, x, z, D), NEW d \in S(o)!Dirs, NEW y,
         y = S(o)!Notify(z, d)
  PROVE  SockMoves(o, x, y, D \ {d})
<1>1. z \in SockStates(o) /\ SockBooks(o, z)
  BY DEF SockMoves
<1>2. SockServed(o, z, y, d) /\ SockSettled(y, d)
  BY <1>1, SockNotify
<1>3. \A e \in S(o)!Dirs : e # d => (SockSettled(z, e) => SockSettled(y, e))
  BY <1>2 DEF SockServed, SockSettled
<1>4. \A e \in S(o)!Dirs : /\ y.dirs[e].rOpen => x.dirs[e].rOpen
                           /\ y.dirs[e].wOpen => x.dirs[e].wOpen
  BY <1>2 DEF SockMoves, SockServed
<1>5. \A e \in S(o)!Dirs : e \notin D \ {d} => (SockSettled(x, e) => SockSettled(y, e))
  BY <1>2, <1>3 DEF SockMoves
<1>6. \A p \in SockProcs(o) : y.waiter[p] = x.waiter[p] \/ y.waiter[p] = S(o)!Idle
  BY <1>2 DEF SockMoves, SockServed
<1> QED
  BY <1>2, <1>4, <1>5, <1>6 DEF SockMoves, SockServed

\* A direction that keeps its queues, whatever becomes of its buffer and sides.
SockTouched(o, e, k) ==
  /\ k \in SockDirs(o) /\ k.readers = e.readers /\ k.writers = e.writers
  /\ k.rOpen => e.rOpen
  /\ k.wOpen => e.wOpen

LEMMA SockTouch ==
  ASSUME NEW o, NEW x \in SockStates(o), SockBooks(o, x), NEW d \in S(o)!Dirs, NEW k,
         SockTouched(o, x.dirs[d], k),
         NEW ds, ds = [x.dirs EXCEPT ![d] = k], NEW y, y = [x EXCEPT !.dirs = ds]
  PROVE  SockMoves(o, x, y, {d})
<1>1. x.dirs \in [S(o)!Dirs -> SockDirs(o)]
  BY DEF SockStates
<1>0. k \in SockDirs(o)
  BY DEF SockTouched
<1>2. ds \in [S(o)!Dirs -> SockDirs(o)] /\ ds[d] = k
      /\ \A e \in S(o)!Dirs : e # d => ds[e] = x.dirs[e]
  BY <1>0, <1>1
<1>3. y \in SockStates(o) /\ y.socks = x.socks /\ y.dirs = ds /\ y.waiter = x.waiter
      /\ y.bound = x.bound
  BY <1>2 DEF SockStates
<1>4. \A e \in S(o)!Dirs : ds[e].readers = x.dirs[e].readers /\ ds[e].writers = x.dirs[e].writers
  BY <1>2 DEF SockTouched
<1>5. SockBooks(o, y)
  BY <1>3, <1>4 DEF SockBooks
<1>6. \A e \in S(o)!Dirs : /\ y.dirs[e].rOpen => x.dirs[e].rOpen
                           /\ y.dirs[e].wOpen => x.dirs[e].wOpen
  BY <1>2, <1>3 DEF SockTouched
<1>7. \A e \in S(o)!Dirs : e \notin {d} => (SockSettled(x, e) => SockSettled(y, e))
  BY <1>2, <1>3 DEF SockSettled
<1> QED
  BY <1>2, <1>3, <1>5, <1>6, <1>7 DEF SockMoves

LEMMA SockFill ==
  ASSUME NEW o, NEW x \in SockStates(o), SockBooks(o, x), NEW d \in S(o)!Dirs, NEW b \in 0..SockCap,
         NEW y, y = S(o)!Filled(x, d, b)
  PROVE  SockMoves(o, x, y, {d})
<1>1. PICK k : k = [x.dirs[d] EXCEPT !.buf = b]
  OBVIOUS
<1>2. PICK ds : ds = [x.dirs EXCEPT ![d] = k]
  OBVIOUS
<1>3. x.dirs \in [S(o)!Dirs -> SockDirs(o)] /\ x.dirs[d] \in SockDirs(o)
  BY DEF SockStates
<1>4. y = [x EXCEPT !.dirs = ds]
  BY <1>1, <1>2, <1>3 DEF S!Filled
<1>5. k \in SockDirs(o) /\ k.readers = x.dirs[d].readers /\ k.writers = x.dirs[d].writers
      /\ k.rOpen = x.dirs[d].rOpen /\ k.wOpen = x.dirs[d].wOpen
  BY <1>1, <1>3 DEF SockDirs
<1>6. SockTouched(o, x.dirs[d], k)
  BY <1>5 DEF SockTouched
<1> QED
  BY <1>2, <1>4, <1>6, SockTouch

LEMMA SockShutR ==
  ASSUME NEW o, NEW x \in SockStates(o), SockBooks(o, x), NEW d \in S(o)!Dirs, NEW y,
         y = S(o)!ShutR(x, d)
  PROVE  SockMoves(o, x, y, {d}) /\ ~y.dirs[d].rOpen
<1>1. PICK k : k = [x.dirs[d] EXCEPT !.rOpen = FALSE]
  OBVIOUS
<1>2. PICK ds : ds = [x.dirs EXCEPT ![d] = k]
  OBVIOUS
<1>3. x.dirs \in [S(o)!Dirs -> SockDirs(o)] /\ x.dirs[d] \in SockDirs(o)
  BY DEF SockStates
<1>4. y = [x EXCEPT !.dirs = ds]
  BY <1>1, <1>2, <1>3 DEF S!ShutR
<1>5. k \in SockDirs(o) /\ k.readers = x.dirs[d].readers /\ k.writers = x.dirs[d].writers
      /\ k.rOpen = FALSE /\ k.wOpen = x.dirs[d].wOpen
  BY <1>1, <1>3 DEF SockDirs
<1>7. SockTouched(o, x.dirs[d], k)
  BY <1>5 DEF SockTouched
<1>6. SockMoves(o, x, y, {d})
  BY <1>2, <1>4, <1>7, SockTouch
<1>8. y.dirs[d] = k
  BY <1>2, <1>3, <1>4 DEF SockStates
<1> QED
  BY <1>5, <1>6, <1>8

LEMMA SockShutW ==
  ASSUME NEW o, NEW x \in SockStates(o), SockBooks(o, x), NEW d \in S(o)!Dirs, NEW y,
         y = S(o)!ShutW(x, d)
  PROVE  SockMoves(o, x, y, {d}) /\ ~y.dirs[d].wOpen
<1>1. PICK k : k = [x.dirs[d] EXCEPT !.wOpen = FALSE]
  OBVIOUS
<1>2. PICK ds : ds = [x.dirs EXCEPT ![d] = k]
  OBVIOUS
<1>3. x.dirs \in [S(o)!Dirs -> SockDirs(o)] /\ x.dirs[d] \in SockDirs(o)
  BY DEF SockStates
<1>4. y = [x EXCEPT !.dirs = ds]
  BY <1>1, <1>2, <1>3 DEF S!ShutW
<1>5. k \in SockDirs(o) /\ k.readers = x.dirs[d].readers /\ k.writers = x.dirs[d].writers
      /\ k.rOpen = x.dirs[d].rOpen /\ k.wOpen = FALSE
  BY <1>1, <1>3 DEF SockDirs
<1>7. SockTouched(o, x.dirs[d], k)
  BY <1>5 DEF SockTouched
<1>6. SockMoves(o, x, y, {d})
  BY <1>2, <1>4, <1>7, SockTouch
<1>8. y.dirs[d] = k
  BY <1>2, <1>3, <1>4 DEF SockStates
<1> QED
  BY <1>5, <1>6, <1>8

\* The peer of a connection that hangs up is answered, on both directions.
LEMMA SockHangUp ==
  ASSUME NEW o, NEW x \in SockStates(o), SockBooks(o, x), NEW r \in S(o)!Dirs, NEW w \in S(o)!Dirs,
         NEW y, y = S(o)!HangUp(x, r, w)
  PROVE  SockMoves(o, x, y, {}) /\ ~y.dirs[r].rOpen /\ ~y.dirs[w].wOpen
<1>1. PICK x1 : x1 = S(o)!ShutR(x, r)
  OBVIOUS
<1>2. PICK x2 : x2 = S(o)!ShutW(x1, w)
  OBVIOUS
<1>3. PICK x3 : x3 = S(o)!Notify(x2, r)
  OBVIOUS
<1>4. y = S(o)!Notify(x3, w)
  BY <1>1, <1>2, <1>3 DEF S!HangUp
<1>5. SockMoves(o, x, x1, {r}) /\ ~x1.dirs[r].rOpen
  BY <1>1, SockShutR
<1>6. x1 \in SockStates(o) /\ SockBooks(o, x1)
  BY <1>5 DEF SockMoves
<1>7. SockMoves(o, x1, x2, {w}) /\ ~x2.dirs[w].wOpen
  BY <1>2, <1>6, SockShutW
<1>8. SockMoves(o, x, x2, {r} \cup {w})
  BY <1>5, <1>7, SockMovesTrans
<1>9. SockMoves(o, x, x3, ({r} \cup {w}) \ {r})
  BY <1>3, <1>8, SockMovesNotify
<1>10. SockMoves(o, x, y, (({r} \cup {w}) \ {r}) \ {w})
  BY <1>4, <1>9, SockMovesNotify
<1>11. (({r} \cup {w}) \ {r}) \ {w} = {}
  OBVIOUS
<1>12. SockMoves(o, x, y, {})
  BY <1>10, <1>11
<1>13. x2 \in SockStates(o) /\ SockBooks(o, x2) /\ ~x2.dirs[r].rOpen
  BY <1>5, <1>7 DEF SockMoves
<1>14. SockServed(o, x2, x3, r)
  BY <1>3, <1>13, SockNotify
<1>15. x3 \in SockStates(o) /\ SockBooks(o, x3) /\ ~x3.dirs[r].rOpen /\ ~x3.dirs[w].wOpen
  BY <1>7, <1>13, <1>14 DEF SockServed
<1>16. SockServed(o, x3, y, w)
  BY <1>4, <1>15, SockNotify
<1>17. ~y.dirs[r].rOpen /\ ~y.dirs[w].wOpen
  BY <1>15, <1>16 DEF SockServed
<1> QED
  BY <1>12, <1>17

-----------------------------------------------------------------------------
(* What every handler keeps                                                 *)

\* A socket in which n connections were made: only a listener has parked
\* accepts, their processes hold it, and no connection waits beside them.
SockShape(o, k, n) ==
  /\ k.rx <= 2 * n /\ k.tx <= 2 * n
  /\ k.st = "conn" => k.rx # 0 /\ k.tx # 0
  /\ k.st # "conn" => k.rx = 0 /\ k.tx = 0
  /\ S(o)!Range(k.pending) \subseteq 1..n /\ Len(k.pending) <= SockBacklog
  /\ S(o)!Range(k.accepts) \subseteq k.holders
  /\ k.accepts # <<>> => k.st = "listening" /\ k.pending = <<>>
  /\ k.st = "free" <=> k.holders = {}

\* The server's end of connection c is queued, held, or closed; so is the
\* client's, which is never queued.
SockFar(o, x, c) ==
  \/ \E s \in S(o)!Socks : x.socks[s].st = "listening" /\ c \in S(o)!Range(x.socks[s].pending)
  \/ \E s \in S(o)!Socks : x.socks[s].rx = S(o)!Up(c) /\ x.socks[s].tx = S(o)!DownOf(c)
  \/ ~x.dirs[S(o)!Up(c)].rOpen /\ ~x.dirs[S(o)!DownOf(c)].wOpen
SockNear(o, x, c) ==
  \/ \E s \in S(o)!Socks : x.socks[s].rx = S(o)!DownOf(c) /\ x.socks[s].tx = S(o)!Up(c)
  \/ ~x.dirs[S(o)!DownOf(c)].rOpen /\ ~x.dirs[S(o)!Up(c)].wOpen

\* Whoever reads or writes does so on a connection that was made.
SockCalls(o, x, n) ==
  \A p \in SockProcs(o) : x.waiter[p].op \in {"read", "write"} => x.waiter[p].on <= 2 * n

SockSound(o, x, n) ==
  /\ x \in SockStates(o) /\ SockBooks(o, x) /\ SockCalls(o, x, n)
  /\ \A d \in S(o)!Dirs : SockSettled(x, d)
  /\ \A s \in S(o)!Socks : SockShape(o, x.socks[s], n)

\* The connections of M have a far end, those of L a near one.
SockLinks(o, x, M, L) == (\A c \in M : SockFar(o, x, c)) /\ (\A c \in L : SockNear(o, x, c))

SockGood(o, x, n) == SockSound(o, x, n) /\ SockLinks(o, x, 1..n, 1..n)

LEMMA SockConns ==
  ASSUME NEW o, NEW c \in S(o)!Conns PROVE S(o)!Up(c) \in S(o)!Dirs /\ S(o)!DownOf(c) \in S(o)!Dirs
  BY SockBounds DEF S!Up, S!DownOf, S!Dirs, S!Conns

LEMMA SockMade == ASSUME NEW o, NEW n \in 0..ConnsOn(o) PROVE 1..n \subseteq S(o)!Conns /\ n \in Nat
  BY SockBounds DEF S!Conns

LEMMA SockMovesSound ==
  ASSUME NEW o, NEW n, NEW x, SockSound(o, x, n), NEW y, SockMoves(o, x, y, {})
         PROVE SockSound(o, y, n)
<1>1. SockCalls(o, y, n)
  BY DEF SockMoves, SockSound, SockCalls, S!Idle
<1>2. \A d \in S(o)!Dirs : SockSettled(y, d)
  BY DEF SockMoves, SockSound
<1>3. \A s \in S(o)!Socks : SockShape(o, y.socks[s], n)
  BY DEF SockMoves, SockSound
<1> QED
  BY <1>1, <1>2, <1>3 DEF SockMoves, SockSound

LEMMA SockMovesLinks ==
  ASSUME NEW o, NEW M \in SUBSET S(o)!Conns, NEW L \in SUBSET S(o)!Conns, NEW x,
         SockLinks(o, x, M, L),
         NEW y, NEW D, SockMoves(o, x, y, D)
  PROVE  SockLinks(o, y, M, L)
<1>1. \A c \in S(o)!Conns : S(o)!Up(c) \in S(o)!Dirs /\ S(o)!DownOf(c) \in S(o)!Dirs
  BY SockConns
<1>2. y.socks = x.socks
  BY DEF SockMoves
<1>3. \A e \in S(o)!Dirs : /\ y.dirs[e].rOpen => x.dirs[e].rOpen
                           /\ y.dirs[e].wOpen => x.dirs[e].wOpen
  BY DEF SockMoves
<1>4. ASSUME NEW c \in M PROVE SockFar(o, y, c)
  <2>1. SockFar(o, x, c) /\ c \in S(o)!Conns
    BY DEF SockLinks
  <2> QED
    BY <1>1, <1>2, <1>3, <2>1 DEF SockFar
<1>5. ASSUME NEW c \in L PROVE SockNear(o, y, c)
  <2>1. SockNear(o, x, c) /\ c \in S(o)!Conns
    BY DEF SockLinks
  <2> QED
    BY <1>1, <1>2, <1>3, <2>1 DEF SockNear
<1> QED
  BY <1>4, <1>5 DEF SockLinks

LEMMA SockCancelSound ==
  ASSUME NEW o, NEW n, NEW x, SockSound(o, x, n), NEW p \in SockProcs(o), NEW y, y = S(o)!Cancel(x, p)
  PROVE  SockSound(o, y, n) /\ y.waiter = [x.waiter EXCEPT ![p] = S(o)!Idle]
<1>1. x \in SockStates(o) /\ SockBooks(o, x)
  BY DEF SockSound
<1>2. SockLeft(o, x, y, p)
  BY <1>1, SockCancel
<1>3. x.waiter \in [SockProcs(o) -> SockWaits(o)] /\ y.socks \in [S(o)!Socks -> SockRecords(o)]
      /\ y.dirs \in [S(o)!Dirs -> SockDirs(o)]
  BY <1>1, <1>2 DEF SockStates, SockLeft
<1>4. SockCalls(o, y, n)
  <2>1. \A r \in SockProcs(o) : y.waiter[r] = x.waiter[r] \/ y.waiter[r] = S(o)!Idle
    BY <1>2, <1>3 DEF SockLeft
  <2> QED
    BY <2>1 DEF SockSound, SockCalls, S!Idle
<1>5. ASSUME NEW q \in Seq(SockProcs(o)), NEW u, S(o)!Range(q) \subseteq S(o)!Range(u),
             u = <<>> PROVE q = <<>>
  <2>1. S(o)!Range(u) = {}
    BY <1>5 DEF S!Range
  <2> QED
    BY <1>5, <2>1, SockHead
<1>6. ASSUME NEW d \in S(o)!Dirs PROVE SockSettled(y, d)
  <2>1. y.dirs[d].readers \in Seq(SockProcs(o)) /\ y.dirs[d].writers \in Seq(SockProcs(o))
    BY <1>3 DEF SockDirs
  <2>2. /\ DirSame(x.dirs[d], y.dirs[d])
        /\ S(o)!Range(y.dirs[d].readers) \subseteq S(o)!Range(x.dirs[d].readers)
        /\ S(o)!Range(y.dirs[d].writers) \subseteq S(o)!Range(x.dirs[d].writers)
    BY <1>2 DEF SockLeft
  <2>3. /\ y.dirs[d].readers # <<>> => x.dirs[d].readers # <<>>
        /\ y.dirs[d].writers # <<>> => x.dirs[d].writers # <<>>
    BY <1>5, <2>1, <2>2
  <2>4. SockSettled(x, d)
    BY DEF SockSound
  <2> QED
    BY <2>2, <2>3, <2>4 DEF SockSettled, DirSame
<1>7. ASSUME NEW s \in S(o)!Socks PROVE SockShape(o, y.socks[s], n)
  <2>1. y.socks[s].accepts \in Seq(SockProcs(o))
    BY <1>3 DEF SockRecords
  <2>2. SockSame(x.socks[s], y.socks[s])
        /\ S(o)!Range(y.socks[s].accepts) \subseteq S(o)!Range(x.socks[s].accepts)
    BY <1>2 DEF SockLeft
  <2>3. y.socks[s].accepts # <<>> => x.socks[s].accepts # <<>>
    BY <1>5, <2>1, <2>2
  <2>4. SockShape(o, x.socks[s], n)
    BY DEF SockSound
  <2> QED
    BY <2>2, <2>3, <2>4 DEF SockShape, SockSame
<1>8. SockSound(o, y, n)
  BY <1>2, <1>4, <1>6, <1>7 DEF SockSound, SockLeft
<1> QED
  BY <1>2, <1>8 DEF SockLeft

LEMMA SockCancelLinks ==
  ASSUME NEW o, NEW M \in SUBSET S(o)!Conns, NEW L \in SUBSET S(o)!Conns, NEW x,
         x \in SockStates(o), SockBooks(o, x),
         SockLinks(o, x, M, L), NEW p \in SockProcs(o), NEW y, y = S(o)!Cancel(x, p)
  PROVE  SockLinks(o, y, M, L) /\ \A s \in S(o)!Socks : SockSame(x.socks[s], y.socks[s])
<1>1. SockLeft(o, x, y, p)
  BY SockCancel
<1>2. \A c \in S(o)!Conns : S(o)!Up(c) \in S(o)!Dirs /\ S(o)!DownOf(c) \in S(o)!Dirs
  BY SockConns
<1>3. \A s \in S(o)!Socks : SockSame(x.socks[s], y.socks[s])
  BY <1>1 DEF SockLeft
<1>4. \A d \in S(o)!Dirs : DirSame(x.dirs[d], y.dirs[d])
  BY <1>1 DEF SockLeft
<1>5. ASSUME NEW c \in M PROVE SockFar(o, y, c)
  <2>1. SockFar(o, x, c) /\ c \in S(o)!Conns
    BY DEF SockLinks
  <2> QED
    BY <1>2, <1>3, <1>4, <2>1 DEF SockFar, SockSame, DirSame
<1>6. ASSUME NEW c \in L PROVE SockNear(o, y, c)
  <2>1. SockNear(o, x, c) /\ c \in S(o)!Conns
    BY DEF SockLinks
  <2> QED
    BY <1>2, <1>3, <1>4, <2>1 DEF SockNear, SockSame, DirSame
<1> QED
  BY <1>3, <1>5, <1>6 DEF SockLinks

-----------------------------------------------------------------------------
(* A description that loses a holder                                        *)

SockSwapped(o, x, y, s, k) ==
  /\ y.dirs = x.dirs /\ y.waiter = x.waiter
  /\ y.socks[s] = k /\ \A t \in S(o)!Socks : t # s => y.socks[t] = x.socks[t]

\* One socket is replaced by k, whose queue of accepts is the old one.
LEMMA SockReplace ==
  ASSUME NEW o, NEW n \in 0..ConnsOn(o), NEW x, SockSound(o, x, n), NEW s \in S(o)!Socks,
         NEW k \in SockRecords(o),
         SockShape(o, k, n), k.accepts = x.socks[s].accepts,
         NEW b \in S(o)!Socks \cup {0}, NEW so, so = [x.socks EXCEPT ![s] = k],
         NEW y, y = [x EXCEPT !.socks = so, !.bound = b]
  PROVE  SockSound(o, y, n) /\ SockSwapped(o, x, y, s, k)
<1>2. x \in SockStates(o) /\ SockBooks(o, x)
  BY DEF SockSound
<1>3. x.socks \in [S(o)!Socks -> SockRecords(o)]
  BY <1>2 DEF SockStates
<1>4. so \in [S(o)!Socks -> SockRecords(o)] /\ so[s] = k
      /\ \A t \in S(o)!Socks : t # s => so[t] = x.socks[t]
  BY <1>3
<1>5. y \in SockStates(o) /\ y.socks = so /\ y.dirs = x.dirs /\ y.waiter = x.waiter
  BY <1>2, <1>4 DEF SockStates
<1>6. \A t \in S(o)!Socks : so[t].accepts = x.socks[t].accepts
  BY <1>4
<1>7. SockBooks(o, y)
  BY <1>2, <1>5, <1>6 DEF SockBooks
<1>8. \A t \in S(o)!Socks : SockShape(o, so[t], n)
  BY <1>4 DEF SockSound
<1>9. \A d \in S(o)!Dirs : SockSettled(y, d)
  BY <1>5 DEF SockSound, SockSettled
<1>10. SockCalls(o, y, n)
  BY <1>5 DEF SockSound, SockCalls
<1> QED
  BY <1>4, <1>5, <1>7, <1>8, <1>9, <1>10 DEF SockSound, SockSwapped

LEMMA SockNoSock ==
  ASSUME NEW o, NEW n \in Nat PROVE S(o)!NoSock \in SockRecords(o)
         /\ SockShape(o, S(o)!NoSock, n) /\ S(o)!NoSock.accepts = <<>>
<1>1. <<>> \in Seq(S(o)!Conns) /\ <<>> \in Seq(SockProcs(o))
  OBVIOUS
<1>2. S(o)!Range(<<>>) = {} /\ Len(<<>>) = 0
  BY DEF S!Range
<1>3. S(o)!NoSock \in SockRecords(o)
  BY <1>1 DEF S!NoSock, SockRecords
<1> QED
  BY <1>2, <1>3, SockBounds DEF S!NoSock, SockShape

\* Every connection that waited at a listener is hung up with it.
LEMMA SockRefused ==
  ASSUME NEW o, NEW n \in 0..ConnsOn(o), NEW u \in SockStates(o), SockBooks(o, u),
         NEW q \in Seq(S(o)!Conns),
         S(o)!Range(q) \subseteq 1..n, NEW N, N = Len(q), NEW h,
         h = CHOOSE f : f = [i \in 0..N |->
               IF i = 0 THEN u ELSE S(o)!HangUp(f[i - 1], S(o)!Up(q[i]), S(o)!DownOf(q[i]))]
  PROVE  /\ SockMoves(o, u, h[N], {})
         /\ \A c \in S(o)!Range(q) : ~h[N].dirs[S(o)!Up(c)].rOpen /\ ~h[N].dirs[S(o)!DownOf(c)].wOpen
<1> DEFINE F(z, i) == S(o)!HangUp(z, S(o)!Up(q[i]), S(o)!DownOf(q[i]))
           Closed(z, c) == ~z.dirs[S(o)!Up(c)].rOpen /\ ~z.dirs[S(o)!DownOf(c)].wOpen
           Fine(z, i) == SockMoves(o, u, z, {}) /\ \A j \in 1..i : Closed(z, q[j])
           G == [i \in 0..N |-> {z \in SockStates(o) : Fine(z, i)}]
           step == [i \in 1..N |-> [z \in G[i - 1] |-> F(z, i)]]
<1>1. N \in Nat /\ DOMAIN q = 1..N
  OBVIOUS
<1>2. \A i \in 1..N : q[i] \in 1..n
  BY <1>1 DEF S!Range
<1>3. \A i \in 0..N : G[i] = {z \in SockStates(o) : Fine(z, i)}
  OBVIOUS
<1> HIDE DEF G
<1>4. u \in G[0]
  <2>1. SockMoves(o, u, u, {})
    BY DEF SockMoves
  <2>2. Fine(u, 0)
    BY <2>1
  <2>3. 0 \in 0..N
    BY <1>1
  <2> QED
    BY <1>3, <2>2, <2>3
<1>5. ASSUME NEW i \in 1..N, NEW z \in G[i - 1] PROVE F(z, i) \in G[i]
  <2>1. z \in SockStates(o) /\ Fine(z, i - 1)
    BY <1>1, <1>3
  <2>2. PICK c \in 1..n : c = q[i]
    BY <1>2
  <2>3. S(o)!Up(c) \in S(o)!Dirs /\ S(o)!DownOf(c) \in S(o)!Dirs
    BY SockConns, SockMade
  <2>4. PICK y : y = S(o)!HangUp(z, S(o)!Up(c), S(o)!DownOf(c))
    OBVIOUS
  <2>5. SockBooks(o, z) /\ SockMoves(o, u, z, {})
    BY <2>1 DEF SockMoves
  <2>6. SockMoves(o, z, y, {}) /\ ~y.dirs[S(o)!Up(c)].rOpen /\ ~y.dirs[S(o)!DownOf(c)].wOpen
    BY <2>1, <2>3, <2>4, <2>5, SockHangUp
  <2>7. SockMoves(o, u, y, {} \cup {})
    BY <2>5, <2>6, SockMovesTrans
  <2>8. SockMoves(o, u, y, {}) /\ y \in SockStates(o)
    BY <2>7 DEF SockMoves
  <2>9. ASSUME NEW j \in 1..i PROVE Closed(y, q[j])
    <3>1. CASE j = i
      BY <2>2, <2>6, <3>1
    <3>2. CASE j # i
      <4>1. j \in 1..(i - 1) /\ j \in 1..N
        BY <1>1, <3>2
      <4>2. Closed(z, q[j])
        BY <2>1, <4>1
      <4>3. PICK b \in 1..n : b = q[j]
        BY <1>2, <4>1
      <4>4. S(o)!Up(b) \in S(o)!Dirs /\ S(o)!DownOf(b) \in S(o)!Dirs
        BY SockConns, SockMade
      <4>5. ~z.dirs[S(o)!Up(b)].rOpen /\ ~z.dirs[S(o)!DownOf(b)].wOpen
        BY <4>2, <4>3
      <4>6. ~y.dirs[S(o)!Up(b)].rOpen /\ ~y.dirs[S(o)!DownOf(b)].wOpen
        BY <2>6, <4>4, <4>5 DEF SockMoves
      <4> QED
        BY <4>3, <4>6
    <3> QED
      BY <3>1, <3>2
  <2>10. Fine(y, i)
    BY <2>8, <2>9
  <2>11. F(z, i) = y /\ i \in 0..N
    BY <1>1, <2>2, <2>4
  <2> HIDE DEF F, Fine
  <2> QED
    BY <1>3, <2>8, <2>10, <2>11
<1>6. \A i \in 1..N : step[i] \in [G[i - 1] -> G[i]]
  BY <1>5
<1> DEFINE Is(f) == f = [i \in 0..N |-> IF i = 0 THEN u ELSE F(f[i - 1], i)]
<1>7. \E f : Is(f)
  <2>1. \A i \in 1..N : \A z \in G[i - 1] : step[i][z] = F(z, i)
    OBVIOUS
  <2> HIDE DEF step, F
  <2>2. PICK f : IsHistory(f, N, u, step) /\ \A i \in 0..N : f[i] \in G[i]
    BY <1>1, <1>4, <1>6, History
  <2>3. \A i \in 1..N : f[i - 1] \in G[i - 1] /\ step[i][f[i - 1]] = F(f[i - 1], i)
    BY <1>1, <2>1, <2>2
  <2>4. \A i \in 0..N : (IF i = 0 THEN u ELSE step[i][f[i - 1]])
                       = (IF i = 0 THEN u ELSE F(f[i - 1], i))
    BY <1>1, <2>3
  <2>5. [i \in 0..N |-> IF i = 0 THEN u ELSE step[i][f[i - 1]]]
        = [i \in 0..N |-> IF i = 0 THEN u ELSE F(f[i - 1], i)]
    BY <2>4, Zenon
  <2> QED
    BY <2>2, <2>5, Zenon DEF IsHistory
<1>8. h = CHOOSE f : Is(f)
  OBVIOUS
<1>9. Is(h)
  BY <1>7, <1>8
<1> HIDE DEF F
<1>10. h[0] = u /\ \A i \in 1..N : h[i] = F(h[i - 1], i)
  <2>1. \A i \in 0..N : h[i] = IF i = 0 THEN u ELSE F(h[i - 1], i)
    BY <1>9, Zenon
  <2>2. 0 \in 0..N /\ \A i \in 1..N : i \in 0..N /\ i # 0
    BY <1>1
  <2> HIDE DEF Is
  <2> QED
    BY <2>1, <2>2
<1> HIDE DEF Is
<1>11. \A i \in 1..N : h[i - 1] \in G[i - 1] => h[i] \in G[i]
  BY <1>5, <1>10
<1>12. h[0] = u
  BY <1>10
<1>13. \A i \in 0..N : h[i] \in G[i]
  BY <1>1, <1>4, <1>11, <1>12, HistoryIn
<1>14. Fine(h[N], N)
  BY <1>1, <1>3, <1>13
<1>15. \A c \in S(o)!Range(q) : \E j \in 1..N : c = q[j]
  BY <1>1 DEF S!Range
<1> QED
  BY <1>14, <1>15

\* From x to y only p let go of s, and calls were answered.
SockLetGo(o, x, y, s, p) ==
  /\ \A r \in SockProcs(o) : y.waiter[r] = x.waiter[r] \/ y.waiter[r] = S(o)!Idle
  /\ y.socks[s].holders = x.socks[s].holders \ {p}
  /\ \A t \in S(o)!Socks : t # s => y.socks[t].holders = x.socks[t].holders

\* A process that waits nowhere lets go of a socket.
LEMMA SockUnref ==
  ASSUME NEW o, NEW n \in 0..ConnsOn(o), NEW x, SockGood(o, x, n), NEW s \in S(o)!Socks,
         NEW p \in SockProcs(o),
         x.waiter[p] = S(o)!Idle, p \in x.socks[s].holders, NEW y, y = S(o)!Unref(x, s, p)
  PROVE  SockGood(o, y, n) /\ SockLetGo(o, x, y, s, p)
<1>1. SockSound(o, x, n) /\ SockLinks(o, x, 1..n, 1..n) /\ x \in SockStates(o) /\ SockBooks(o, x)
  BY DEF SockGood, SockSound
<1>2. x.socks \in [S(o)!Socks -> SockRecords(o)] /\ x.socks[s] \in SockRecords(o)
      /\ x.bound \in S(o)!Socks \cup {0}
  BY <1>1 DEF SockStates
<1>3. PICK hs : hs = x.socks[s].holders \ {p}
  OBVIOUS
<1>4. PICK k : k = [x.socks[s] EXCEPT !.holders = hs]
  OBVIOUS
<1>5. k \in SockRecords(o) /\ k.holders = hs /\ k.accepts = x.socks[s].accepts
      /\ k.st = x.socks[s].st /\ k.rx = x.socks[s].rx /\ k.tx = x.socks[s].tx
      /\ k.pending = x.socks[s].pending
  BY <1>2, <1>3, <1>4 DEF SockRecords
<1>6. PICK y0 : y0 = [x EXCEPT !.socks = [x.socks EXCEPT ![s] = k]]
  OBVIOUS
<1>7. y0 = [x EXCEPT !.socks[s].holders = @ \ {p}]
  BY <1>1, <1>2, <1>3, <1>4, <1>6 DEF SockStates
<1>8. y0.socks[s] = k
  BY <1>1, <1>2, <1>6 DEF SockStates
<1>9. y = IF hs = {} THEN S(o)!Released(y0, s) ELSE y0
  BY <1>5, <1>7, <1>8 DEF S!Unref
<1>10. SockShape(o, x.socks[s], n)
  BY <1>1 DEF SockSound
<1>11. p \notin S(o)!Range(x.socks[s].accepts)
  <2>1. SockRegistered(o, x.socks[s].accepts, x.waiter, [op |-> "accept", on |-> s])
    BY <1>1 DEF SockBooks
  <2> QED
    BY <2>1 DEF SockRegistered, S!Idle
<1>12. S(o)!Range(x.socks[s].accepts) \subseteq hs
  BY <1>3, <1>10, <1>11 DEF SockShape
<1>13. CASE hs # {}
  <2>1. SockShape(o, k, n)
    BY <1>5, <1>10, <1>12, <1>13 DEF SockShape
  <2>2. y0 = [x EXCEPT !.socks = [x.socks EXCEPT ![s] = k], !.bound = x.bound]
    BY <1>1, <1>6 DEF SockStates
  <2>3. PICK b \in S(o)!Socks \cup {0} : b = x.bound
    BY <1>2
  <2>9. PICK so : so = [x.socks EXCEPT ![s] = k]
    OBVIOUS
  <2>4. y0 = [x EXCEPT !.socks = so, !.bound = b]
    BY <2>2, <2>3, <2>9
  <2>5. /\ SockSound(o, y0, n) /\ y0.dirs = x.dirs /\ y0.waiter = x.waiter
        /\ \A t \in S(o)!Socks : t # s => y0.socks[t] = x.socks[t]
    <3>1. SockSound(o, y0, n) /\ SockSwapped(o, x, y0, s, k)
      BY <1>1, <1>5, <2>1, <2>4, <2>9, SockReplace
    <3> QED
      BY <3>1 DEF SockSwapped
  <2>6. \A t \in S(o)!Socks : /\ y0.socks[t].st = x.socks[t].st /\ y0.socks[t].rx = x.socks[t].rx
                              /\ y0.socks[t].tx = x.socks[t].tx
                                 /\ y0.socks[t].pending = x.socks[t].pending
    BY <1>5, <1>8, <2>5
  <2>7. SockLinks(o, y0, 1..n, 1..n)
    BY <1>1, <2>5, <2>6 DEF SockLinks, SockFar, SockNear
  <2>8. y = y0
    BY <1>9, <1>13
  <2> QED
    BY <1>3, <1>5, <1>8, <2>5, <2>7, <2>8 DEF SockGood, SockLetGo
<1>14. CASE hs = {}
  <2>1. PICK b \in S(o)!Socks \cup {0} : b = IF x.bound = s THEN 0 ELSE x.bound
    BY <1>2
  <2>14. PICK so : so = [x.socks EXCEPT ![s] = S(o)!NoSock]
    OBVIOUS
  <2>2. PICK u : u = [x EXCEPT !.socks = so, !.bound = b]
    OBVIOUS
  <2>3. [y0 EXCEPT !.socks[s] = S(o)!NoSock, !.bound = IF @ = s THEN 0 ELSE @] = u
    <3>1. y0.socks = [x.socks EXCEPT ![s] = k] /\ y0.bound = x.bound
      BY <1>1, <1>6 DEF SockStates
    <3>2. [y0.socks EXCEPT ![s] = S(o)!NoSock] = [x.socks EXCEPT ![s] = S(o)!NoSock]
      BY <1>2, <3>1
    <3>3. [y0 EXCEPT !.socks[s] = S(o)!NoSock, !.bound = IF @ = s THEN 0 ELSE @]
          = [y0 EXCEPT !.socks = [y0.socks EXCEPT ![s] = S(o)!NoSock],
                     !.bound = IF y0.bound = s THEN 0 ELSE y0.bound]
      BY <1>1, <1>6 DEF SockStates
    <3> QED
      BY <1>1, <1>6, <2>1, <2>2, <2>14, <3>1, <3>2, <3>3 DEF SockStates
  <2>4. x.socks[s].accepts = <<>>
    <3>1. S(o)!Range(x.socks[s].accepts) = {}
      BY <1>12, <1>14
    <3>2. x.socks[s].accepts \in Seq(SockProcs(o))
      BY <1>2 DEF SockRecords
    <3> QED
      BY <3>1, <3>2, SockHead
  <2>5. S(o)!NoSock \in SockRecords(o) /\ SockShape(o, S(o)!NoSock, n)
        /\ S(o)!NoSock.accepts = x.socks[s].accepts
    <3>1. n \in Nat
      BY SockBounds
    <3> QED
      BY <2>4, <3>1, SockNoSock
  <2>6. /\ SockSound(o, u, n) /\ u.dirs = x.dirs /\ u.waiter = x.waiter
        /\ u.socks[s] = S(o)!NoSock /\ \A t \in S(o)!Socks : t # s => u.socks[t] = x.socks[t]
    <3>1. SockSound(o, u, n) /\ SockSwapped(o, x, u, s, S(o)!NoSock)
      BY <1>1, <2>2, <2>5, <2>14, SockReplace
    <3> QED
      BY <3>1 DEF SockSwapped
  <2>7. u \in SockStates(o) /\ SockBooks(o, u)
    BY <2>6 DEF SockSound
  <2>8. ASSUME SockMoves(o, u, y, {}),
               NEW c \in 1..n,
               x.socks[s].st = "listening" /\ c \in S(o)!Range(x.socks[s].pending) =>
                 ~y.dirs[S(o)!Up(c)].rOpen /\ ~y.dirs[S(o)!DownOf(c)].wOpen,
               x.socks[s].rx = S(o)!Up(c) /\ x.socks[s].tx = S(o)!DownOf(c) =>
                 ~y.dirs[S(o)!Up(c)].rOpen /\ ~y.dirs[S(o)!DownOf(c)].wOpen,
               x.socks[s].rx = S(o)!DownOf(c) /\ x.socks[s].tx = S(o)!Up(c) =>
                 ~y.dirs[S(o)!DownOf(c)].rOpen /\ ~y.dirs[S(o)!Up(c)].wOpen
        PROVE  SockFar(o, y, c) /\ SockNear(o, y, c)
    <3>1. SockFar(o, x, c) /\ SockNear(o, x, c) /\ S(o)!Up(c) \in S(o)!Dirs
          /\ S(o)!DownOf(c) \in S(o)!Dirs
      BY <1>1, SockConns, SockMade DEF SockLinks
    <3>2. \A e \in S(o)!Dirs : /\ y.dirs[e].rOpen => x.dirs[e].rOpen
                               /\ y.dirs[e].wOpen => x.dirs[e].wOpen
      BY <2>6, <2>8 DEF SockMoves
    <3>3. \A t \in S(o)!Socks : t # s => y.socks[t] = x.socks[t]
      BY <2>6, <2>8 DEF SockMoves
    <3>4. SockFar(o, y, c)
      <4>1. CASE \E t \in S(o)!Socks : x.socks[t].st = "listening"
            /\ c \in S(o)!Range(x.socks[t].pending)
        <5>1. PICK t \in S(o)!Socks : x.socks[t].st = "listening"
              /\ c \in S(o)!Range(x.socks[t].pending)
          BY <4>1
        <5>2. CASE t = s
          BY <2>8, <5>1, <5>2 DEF SockFar
        <5>3. CASE t # s
          BY <3>3, <5>1, <5>3 DEF SockFar
        <5> QED
          BY <5>2, <5>3
      <4>2. CASE \E t \in S(o)!Socks : x.socks[t].rx = S(o)!Up(c) /\ x.socks[t].tx = S(o)!DownOf(c)
        <5>1. PICK t \in S(o)!Socks : x.socks[t].rx = S(o)!Up(c) /\ x.socks[t].tx = S(o)!DownOf(c)
          BY <4>2
        <5>2. CASE t = s
          BY <2>8, <5>1, <5>2 DEF SockFar
        <5>3. CASE t # s
          BY <3>3, <5>1, <5>3 DEF SockFar
        <5> QED
          BY <5>2, <5>3
      <4>3. CASE ~x.dirs[S(o)!Up(c)].rOpen /\ ~x.dirs[S(o)!DownOf(c)].wOpen
        BY <3>1, <3>2, <4>3 DEF SockFar
      <4> QED
        BY <3>1, <4>1, <4>2, <4>3 DEF SockFar
    <3>5. SockNear(o, y, c)
      <4>2. CASE \E t \in S(o)!Socks : x.socks[t].rx = S(o)!DownOf(c) /\ x.socks[t].tx = S(o)!Up(c)
        <5>1. PICK t \in S(o)!Socks : x.socks[t].rx = S(o)!DownOf(c) /\ x.socks[t].tx = S(o)!Up(c)
          BY <4>2
        <5>2. CASE t = s
          BY <2>8, <5>1, <5>2 DEF SockNear
        <5>3. CASE t # s
          BY <3>3, <5>1, <5>3 DEF SockNear
        <5> QED
          BY <5>2, <5>3
      <4>3. CASE ~x.dirs[S(o)!DownOf(c)].rOpen /\ ~x.dirs[S(o)!Up(c)].wOpen
        BY <3>1, <3>2, <4>3 DEF SockNear
      <4> QED
        BY <3>1, <4>2, <4>3 DEF SockNear
    <3> QED
      BY <3>4, <3>5
  <2>9. ASSUME NEW c \in 1..n PROVE S(o)!Up(c) # 0 /\ S(o)!DownOf(c) # 0
    BY <2>9, SockBounds DEF S!Up, S!DownOf
  <2>10. SockMoves(o, u, y, {}) /\ SockLinks(o, y, 1..n, 1..n)
    <3>1. CASE k.st = "conn"
      <4>1. y = S(o)!HangUp(u, k.rx, k.tx)
        BY <1>8, <1>9, <1>14, <2>3, <3>1 DEF S!Released
      <4>2. PICK r \in S(o)!Dirs : r = x.socks[s].rx
        <5>1. x.socks[s].rx \in {0} \cup S(o)!Dirs
          BY <1>2 DEF SockRecords
        <5> QED
          BY <1>5, <1>10, <3>1, <5>1 DEF SockShape
      <4>3. PICK w \in S(o)!Dirs : w = x.socks[s].tx
        <5>1. x.socks[s].tx \in {0} \cup S(o)!Dirs
          BY <1>2 DEF SockRecords
        <5> QED
          BY <1>5, <1>10, <3>1, <5>1 DEF SockShape
      <4>4. SockMoves(o, u, y, {}) /\ ~y.dirs[r].rOpen /\ ~y.dirs[w].wOpen
        BY <1>5, <2>7, <4>1, <4>2, <4>3, SockHangUp
      <4>5. x.socks[s].st # "listening"
        BY <1>5, <3>1
      <4>6. ASSUME NEW c \in 1..n PROVE SockFar(o, y, c) /\ SockNear(o, y, c)
        BY <2>8, <4>2, <4>3, <4>4, <4>5
      <4> QED
        BY <4>4, <4>6 DEF SockLinks
    <3>2. CASE k.st # "conn"
      <4>1. PICK q \in Seq(S(o)!Conns) : q = x.socks[s].pending
        BY <1>2 DEF SockRecords
      <4>2. S(o)!Range(q) \subseteq 1..n
        BY <1>10, <4>1 DEF SockShape
      <4>3. PICK N : N = Len(q)
        OBVIOUS
      <4>4. PICK h : h = CHOOSE f : f = [i \in 0..N |->
              IF i = 0 THEN u ELSE S(o)!HangUp(f[i - 1], S(o)!Up(q[i]), S(o)!DownOf(q[i]))]
        OBVIOUS
      <4>5. y = h[N]
        <5>1. y = S(o)!Released(y0, s)
          BY <1>9, <1>14
        <5>2. y0.socks[s].st # "conn" /\ y0.socks[s].pending = q
          BY <1>5, <1>8, <3>2, <4>1
        <5>3. S(o)!Released(y0, s) = h[N]
          BY ONLY <2>3, <4>3, <4>4, <5>2 DEF S!Released
        <5> QED
          BY ONLY <5>1, <5>3
      <4>6. /\ SockMoves(o, u, h[N], {})
            /\ \A c \in S(o)!Range(q) : ~h[N].dirs[S(o)!Up(c)].rOpen
               /\ ~h[N].dirs[S(o)!DownOf(c)].wOpen
        BY <2>7, <4>2, <4>3, <4>4, SockRefused
      <4>7. SockMoves(o, u, y, {})
        BY <4>5, <4>6
      <4>8. \A c \in S(o)!Range(q) : ~y.dirs[S(o)!Up(c)].rOpen /\ ~y.dirs[S(o)!DownOf(c)].wOpen
        BY <4>5, <4>6
      <4>9. x.socks[s].rx = 0 /\ x.socks[s].tx = 0
        BY <1>5, <1>10, <3>2 DEF SockShape
      <4>10. ASSUME NEW c \in 1..n PROVE SockFar(o, y, c) /\ SockNear(o, y, c)
        BY <2>8, <2>9, <4>1, <4>7, <4>8, <4>9
      <4> QED
        BY <4>7, <4>10 DEF SockLinks
    <3> QED
      BY <3>1, <3>2
  <2>11. SockSound(o, y, n)
    BY <2>6, <2>10, SockMovesSound
  <2>12. y.socks = u.socks
         /\ \A r \in SockProcs(o) : y.waiter[r] = u.waiter[r] \/ y.waiter[r] = S(o)!Idle
    BY <2>10 DEF SockMoves
  <2>13. y.socks[s].holders = x.socks[s].holders \ {p}
         /\ \A t \in S(o)!Socks : t # s => y.socks[t].holders = x.socks[t].holders
    <3>1. S(o)!NoSock.holders = {}
      BY DEF S!NoSock
    <3>2. \A t \in S(o)!Socks : t # s => y.socks[t] = x.socks[t]
      BY <2>6, <2>12
    <3>3. y.socks[s].holders = x.socks[s].holders \ {p}
      BY <1>3, <1>14, <2>6, <2>12, <3>1
    <3> QED
      BY <3>2, <3>3
  <2>15. SockLetGo(o, x, y, s, p)
    BY <2>6, <2>12, <2>13 DEF SockLetGo
  <2> QED
    BY <2>10, <2>11, <2>15 DEF SockGood
<1> QED
  BY <1>13, <1>14

\* A process that died lets go of every socket.
LEMMA SockDied ==
  ASSUME NEW o, NEW n \in 0..ConnsOn(o), NEW x, SockGood(o, x, n), NEW p \in SockProcs(o),
         x.waiter[p] = S(o)!Idle,
         \A s \in S(o)!Socks : x.socks[s].holders = socks[s].holders, NEW h,
         h = CHOOSE f : f = [s \in 0..MaxSocks |->
               IF s = 0 THEN x
               ELSE IF p \in socks[s].holders THEN S(o)!Unref(f[s - 1], s, p) ELSE f[s - 1]]
  PROVE  /\ SockGood(o, h[MaxSocks], n)
         /\ \A r \in SockProcs(o) : h[MaxSocks].waiter[r] = x.waiter[r] \/ h[MaxSocks].waiter[r]
            = S(o)!Idle
         /\ \A s \in S(o)!Socks : h[MaxSocks].socks[s].holders = socks[s].holders \ {p}
<1> DEFINE F(z, s) == IF p \in socks[s].holders THEN S(o)!Unref(z, s, p) ELSE z
           Fine(z, m) == /\ SockGood(o, z, n)
                         /\ \A r \in SockProcs(o) : z.waiter[r] = x.waiter[r] \/ z.waiter[r]
                            = S(o)!Idle
                         /\ \A s \in S(o)!Socks : z.socks[s].holders
                            = IF s <= m THEN socks[s].holders \ {p}
                                                                       ELSE socks[s].holders
           G == [m \in 0..MaxSocks |-> {z \in SockStates(o) : Fine(z, m)}]
           step == [m \in 1..MaxSocks |-> [z \in G[m - 1] |-> F(z, m)]]
<1>1. MaxSocks \in Nat /\ S(o)!Socks = 1..MaxSocks
  BY SockBounds DEF S!Socks
<1>2. \A m \in 0..MaxSocks : G[m] = {z \in SockStates(o) : Fine(z, m)}
  OBVIOUS
<1> HIDE DEF G
<1>3. x \in G[0]
  <2>1. 0 \in 0..MaxSocks /\ \A s \in S(o)!Socks : ~(s <= 0)
    BY <1>1
  <2>2. Fine(x, 0)
    BY <2>1
  <2>3. x \in SockStates(o)
    BY DEF SockGood, SockSound
  <2> HIDE DEF Fine
  <2> QED
    BY <1>2, <2>1, <2>2, <2>3
<1>4. ASSUME NEW m \in 1..MaxSocks, NEW z \in G[m - 1] PROVE F(z, m) \in G[m]
  <2>1. m - 1 \in 0..MaxSocks /\ m \in 0..MaxSocks /\ m \in S(o)!Socks
    BY <1>1
  <2>2. Fine(z, m - 1) /\ z \in SockStates(o)
    <3> HIDE DEF Fine
    <3> QED
      BY <1>2, <2>1
  <2>3. z.socks[m].holders = socks[m].holders
    <3>1. ~(m <= m - 1)
      BY <1>1
    <3> QED
      BY <2>1, <2>2, <3>1
  <2>4. \A s \in S(o)!Socks : s # m => (s <= m <=> s <= m - 1)
    BY <1>1
  <2>5. m <= m
    BY <1>1
  <2>6. CASE p \in socks[m].holders
    <3>1. PICK y : y = S(o)!Unref(z, m, p)
      OBVIOUS
    <3>2. z.waiter[p] = S(o)!Idle
      BY <2>2
    <3>8. p \in z.socks[m].holders /\ SockGood(o, z, n)
      BY <2>2, <2>3, <2>6
    <3>9. SockGood(o, y, n) /\ SockLetGo(o, z, y, m, p)
      <4> HIDE DEF Fine
      <4> QED
        BY <2>1, <3>1, <3>2, <3>8, SockUnref
    <3>3. /\ SockGood(o, y, n)
          /\ \A r \in SockProcs(o) : y.waiter[r] = z.waiter[r] \/ y.waiter[r] = S(o)!Idle
          /\ y.socks[m].holders = z.socks[m].holders \ {p}
          /\ \A t \in S(o)!Socks : t # m => y.socks[t].holders = z.socks[t].holders
      BY <3>9 DEF SockLetGo
    <3>4. \A r \in SockProcs(o) : y.waiter[r] = x.waiter[r] \/ y.waiter[r] = S(o)!Idle
      BY <2>2, <3>3
    <3>5. \A s \in S(o)!Socks : y.socks[s].holders = IF s <= m THEN socks[s].holders \ {p}
                                                     ELSE socks[s].holders
      BY <2>2, <2>3, <2>4, <2>5, <3>3
    <3>6. y \in SockStates(o)
      BY <3>3 DEF SockGood, SockSound
    <3>7. F(z, m) = y
      BY <2>6, <3>1
    <3>10. Fine(y, m)
      BY <3>3, <3>4, <3>5
    <3> HIDE DEF Fine, F
    <3> QED
      BY <1>2, <2>1, <3>6, <3>7, <3>10
  <2>7. CASE p \notin socks[m].holders
    <3>1. F(z, m) = z
      BY <2>7
    <3>2. \A s \in S(o)!Socks : z.socks[s].holders = IF s <= m THEN socks[s].holders \ {p}
                                                     ELSE socks[s].holders
      <4>1. socks[m].holders \ {p} = socks[m].holders
        BY <2>7
      <4> QED
        BY <2>2, <2>3, <2>4, <2>5, <4>1
    <3>3. Fine(z, m)
      BY <2>2, <3>2
    <3> HIDE DEF Fine, F
    <3> QED
      BY <1>2, <2>1, <2>2, <3>1, <3>3
  <2> QED
    BY <2>6, <2>7
<1>5. \A m \in 1..MaxSocks : step[m] \in [G[m - 1] -> G[m]]
  BY <1>4
<1> DEFINE Is(f) == f = [s \in 0..MaxSocks |-> IF s = 0 THEN x ELSE F(f[s - 1], s)]
<1>6. \E f : Is(f)
  <2>1. \A m \in 1..MaxSocks : \A z \in G[m - 1] : step[m][z] = F(z, m)
    OBVIOUS
  <2> HIDE DEF step, F
  <2>2. PICK f : IsHistory(f, MaxSocks, x, step) /\ \A m \in 0..MaxSocks : f[m] \in G[m]
    BY <1>1, <1>3, <1>5, History
  <2>3. \A m \in 1..MaxSocks : f[m - 1] \in G[m - 1] /\ step[m][f[m - 1]] = F(f[m - 1], m)
    BY <1>1, <2>1, <2>2
  <2>4. \A m \in 0..MaxSocks : (IF m = 0 THEN x ELSE step[m][f[m - 1]])
                              = (IF m = 0 THEN x ELSE F(f[m - 1], m))
    BY <1>1, <2>3
  <2>5. [m \in 0..MaxSocks |-> IF m = 0 THEN x ELSE step[m][f[m - 1]]]
        = [m \in 0..MaxSocks |-> IF m = 0 THEN x ELSE F(f[m - 1], m)]
    BY <2>4, Zenon
  <2> QED
    BY <2>2, <2>5, Zenon DEF IsHistory
<1>7. h = CHOOSE f : Is(f)
  OBVIOUS
<1>8. Is(h)
  BY <1>6, <1>7
<1> HIDE DEF F
<1>9. h[0] = x /\ \A m \in 1..MaxSocks : h[m] = F(h[m - 1], m)
  <2>1. \A m \in 0..MaxSocks : h[m] = IF m = 0 THEN x ELSE F(h[m - 1], m)
    BY <1>8, Zenon
  <2>2. 0 \in 0..MaxSocks /\ \A m \in 1..MaxSocks : m \in 0..MaxSocks /\ m # 0
    BY <1>1
  <2> HIDE DEF Is
  <2> QED
    BY <2>1, <2>2
<1> HIDE DEF Is
<1>10. \A m \in 1..MaxSocks : h[m - 1] \in G[m - 1] => h[m] \in G[m]
  BY <1>4, <1>9
<1>11. h[0] = x
  BY <1>9
<1>12. \A m \in 0..MaxSocks : h[m] \in G[m]
  BY <1>1, <1>3, <1>10, <1>11, HistoryIn
<1>13. Fine(h[MaxSocks], MaxSocks)
  <2> HIDE DEF Fine
  <2> QED
    BY <1>1, <1>2, <1>12
<1>14. \A s \in S(o)!Socks : s <= MaxSocks
  BY <1>1
<1> QED
  BY <1>13, <1>14

-----------------------------------------------------------------------------
(* Sockets that are made                                                    *)

LEMMA SockFresh ==
  ASSUME NEW o, S(o)!FreeSocks # {} PROVE S(o)!Fresh \in S(o)!Socks /\ socks[S(o)!Fresh].st = "free"
<1>1. S(o)!FreeSocks \subseteq Nat
  BY SockBounds DEF S!FreeSocks, S!Socks
<1>2. PICK s \in S(o)!FreeSocks : \A t \in S(o)!FreeSocks : ~ (<<t, s>> \in OpToRel(<, Nat))
  BY <1>1, NatLessThanWellFounded, WFMin, Zenon
<1>3. \A t \in S(o)!FreeSocks : s <= t
  <2> TAKE t \in S(o)!FreeSocks
  <2>1. ~(t < s)
    <3>1. ASSUME t < s PROVE <<t, s>> \in {ss \in Nat \X Nat : ss[1] < ss[2]}
      BY <1>1, <3>1
    <3> QED
      BY <1>2, <3>1 DEF OpToRel
  <2> QED
    BY <1>1, <2>1
<1>4. S(o)!Fresh \in S(o)!FreeSocks
  BY <1>3 DEF S!Fresh
<1> QED
  BY <1>4 DEF S!FreeSocks

\* A socket that keeps its ends and its queues.
LEMMA SockRename ==
  ASSUME NEW o, NEW n \in 0..ConnsOn(o), NEW x, SockGood(o, x, n), NEW s \in S(o)!Socks,
         NEW k \in SockRecords(o),
         SockShape(o, k, n), k.accepts = x.socks[s].accepts, k.pending = x.socks[s].pending,
         k.rx = x.socks[s].rx, k.tx = x.socks[s].tx,
         x.socks[s].st = "listening" => k.st = "listening",
         NEW b \in S(o)!Socks \cup {0}, NEW so, so = [x.socks EXCEPT ![s] = k],
         NEW y, y = [x EXCEPT !.socks = so, !.bound = b]
  PROVE  SockGood(o, y, n) /\ SockSwapped(o, x, y, s, k)
<1>1. SockSound(o, x, n) /\ SockLinks(o, x, 1..n, 1..n)
  BY DEF SockGood
<1>2. SockSound(o, y, n) /\ SockSwapped(o, x, y, s, k)
  BY <1>1, SockReplace
<1>3. y.dirs = x.dirs
  BY <1>2 DEF SockSwapped
<1>4. \A t \in S(o)!Socks : /\ y.socks[t].rx = x.socks[t].rx /\ y.socks[t].tx = x.socks[t].tx
                            /\ y.socks[t].pending = x.socks[t].pending
                            /\ x.socks[t].st = "listening" => y.socks[t].st = "listening"
  BY <1>2 DEF SockSwapped
<1>5. SockLinks(o, y, 1..n, 1..n)
  BY <1>1, <1>3, <1>4 DEF SockLinks, SockFar, SockNear
<1> QED
  BY <1>2, <1>5 DEF SockGood

\* From x to y the free socket f became an end of a connection, held by p.
SockJoined(o, x, y, f, p, r, w) ==
  /\ y.waiter = x.waiter /\ y.socks[f].rx = r /\ y.socks[f].tx = w /\ y.socks[f].holders = {p}
  /\ \A t \in S(o)!Socks : t # f => y.socks[t] = x.socks[t]

\* Nothing is lost: a free socket was nobody's end.
LEMMA SockJoin ==
  ASSUME NEW o, NEW n \in 0..ConnsOn(o), NEW M \in SUBSET S(o)!Conns, NEW L \in SUBSET S(o)!Conns,
         NEW x, SockSound(o, x, n), SockLinks(o, x, M, L), NEW f \in S(o)!Socks,
         x.socks[f].st = "free",
         NEW p \in SockProcs(o), NEW r \in S(o)!Dirs, NEW w \in S(o)!Dirs, r <= 2 * n, w <= 2 * n,
         NEW y, y = S(o)!Joined(x, f, p, r, w)
  PROVE  SockSound(o, y, n) /\ SockLinks(o, y, M, L) /\ SockJoined(o, x, y, f, p, r, w)
<1>1. PICK k : k = [S(o)!NoSock EXCEPT !.st = "conn", !.holders = {p}, !.rx = r, !.tx = w]
  OBVIOUS
<1>2. x \in SockStates(o) /\ SockBooks(o, x)
  BY DEF SockSound
<1>3. x.socks \in [S(o)!Socks -> SockRecords(o)] /\ x.bound \in S(o)!Socks \cup {0}
  BY <1>2 DEF SockStates
<1>4. n \in Nat
  BY SockBounds
<1>5. S(o)!NoSock \in SockRecords(o) /\ SockShape(o, S(o)!NoSock, n) /\ S(o)!NoSock.accepts = <<>>
  BY <1>4, SockNoSock
<1>6. /\ k.st = "conn" /\ k.holders = {p} /\ k.rx = r /\ k.tx = w /\ k.pending = <<>>
      /\ k.accepts = <<>> /\ k \in SockRecords(o)
  BY <1>1, <1>5 DEF S!NoSock, SockRecords
<1>7. r # 0 /\ w # 0
  BY DEF S!Dirs
<1>8. SockShape(o, k, n)
  <2>1. S(o)!Range(<<>>) = {} /\ Len(<<>>) = 0
    BY DEF S!Range
  <2> QED
    BY <1>6, <1>7, <2>1, SockBounds DEF SockShape
<1>9. x.socks[f].accepts = <<>> /\ x.socks[f].rx = 0 /\ x.socks[f].tx = 0
  BY DEF SockSound, SockShape
<1>10. PICK so : so = [x.socks EXCEPT ![f] = k]
  OBVIOUS
<1>11. PICK b \in S(o)!Socks \cup {0} : b = x.bound
  BY <1>3
<1>12. y = [x EXCEPT !.socks = so, !.bound = b]
  BY <1>1, <1>2, <1>10, <1>11 DEF S!Joined, SockStates
<1>13. k.accepts = x.socks[f].accepts
  BY <1>6, <1>9
<1>14. SockSound(o, y, n) /\ SockSwapped(o, x, y, f, k)
  BY <1>6, <1>8, <1>10, <1>12, <1>13, SockReplace
<1>15. y.dirs = x.dirs /\ y.waiter = x.waiter /\ y.socks[f] = k
       /\ \A t \in S(o)!Socks : t # f => y.socks[t] = x.socks[t]
  BY <1>14 DEF SockSwapped
<1>16. \A c \in S(o)!Conns : S(o)!Up(c) # 0 /\ S(o)!DownOf(c) # 0
  <2>1. \A c \in S(o)!Conns : S(o)!Up(c) \in S(o)!Dirs /\ S(o)!DownOf(c) \in S(o)!Dirs
    BY SockConns
  <2> QED
    BY <2>1 DEF S!Dirs
<1>17. ASSUME NEW c \in M PROVE SockFar(o, y, c)
  <2>1. SockFar(o, x, c) /\ c \in S(o)!Conns
    BY DEF SockLinks
  <2>2. ASSUME NEW t \in S(o)!Socks,
               \/ x.socks[t].st = "listening" /\ c \in S(o)!Range(x.socks[t].pending)
               \/ x.socks[t].rx = S(o)!Up(c) /\ x.socks[t].tx = S(o)!DownOf(c)
        PROVE  t # f
    BY <1>9, <1>16, <2>1, <2>2
  <2> QED
    BY <1>15, <2>1, <2>2 DEF SockFar
<1>18. ASSUME NEW c \in L PROVE SockNear(o, y, c)
  <2>1. SockNear(o, x, c) /\ c \in S(o)!Conns
    BY DEF SockLinks
  <2>2. ASSUME NEW t \in S(o)!Socks, x.socks[t].rx = S(o)!DownOf(c) /\ x.socks[t].tx = S(o)!Up(c)
        PROVE  t # f
    BY <1>9, <1>16, <2>1, <2>2
  <2> QED
    BY <1>15, <2>1, <2>2 DEF SockNear
<1> QED
  BY <1>6, <1>14, <1>15, <1>17, <1>18 DEF SockLinks, SockJoined

-----------------------------------------------------------------------------
(* The invariant                                                            *)

SockInv(o) ==
  /\ SockGood(o, S(o)!Now, conns)
  /\ conns \in 0..ConnsOn(o)
  /\ alive \subseteq SockProcs(o) \ unborn /\ unborn \subseteq SockProcs(o) /\ node \in BOOLEAN
  /\ \A s \in S(o)!Socks : socks[s].holders \subseteq alive
  /\ \A p \in SockProcs(o) : waiter[p] # S(o)!Idle => p \in alive

\* Who is awake in x and holds sockets in x is alive.
SockLive(o, x, live) ==
  /\ \A s \in S(o)!Socks : x.socks[s].holders \subseteq live
  /\ \A p \in SockProcs(o) : x.waiter[p] # S(o)!Idle => p \in live

LEMMA SockNow ==
  ASSUME NEW o, NEW x, x \in SockStates(o), S(o)!Become(x) PROVE S(o)!Now' = x
  BY DEF S!Become, S!Now, SockStates

LEMMA SockStep ==
  ASSUME NEW o, SockInv(o), NEW n \in 0..ConnsOn(o), NEW x, SockGood(o, x, n), S(o)!Become(x),
         conns' = n,
         alive' \subseteq SockProcs(o) \ unborn', unborn' \subseteq SockProcs(o), node' \in BOOLEAN,
         SockLive(o, x, alive')
  PROVE  SockInv(o)'
<1>1. x \in SockStates(o)
  BY DEF SockGood, SockSound
<1>2. S(o)!Now' = x
  BY <1>1, SockNow
<1>3. SockGood(o, S(o)!Now, conns)'
  <2>1. SockGood(o, S(o)!Now', conns')
    BY <1>2
  <2> QED
    BY <2>1 DEF SockGood, SockSound, SockCalls, SockSettled, SockLinks, SockFar, SockNear, SockBooks,
       SockRegistered, S!Now
<1> QED
  BY <1>3 DEF SockInv, SockLive, S!Become

\* A handler that only moves bytes or shuts directions down.
LEMMA SockMovesStep ==
  ASSUME NEW o, SockInv(o), NEW x, SockMoves(o, S(o)!Now, x, {}), S(o)!Become(x), UNCHANGED <<alive,
         unborn, node, conns>>
  PROVE  SockInv(o)'
<1>1. conns \in 0..ConnsOn(o) /\ SockSound(o, S(o)!Now, conns)
      /\ SockLinks(o, S(o)!Now, 1..conns, 1..conns)
  BY DEF SockInv, SockGood
<1>2. PICK n \in 0..ConnsOn(o) : n = conns
  BY <1>1
<1>3. SockSound(o, x, n)
  BY <1>1, <1>2, SockMovesSound
<1>4. SockLinks(o, x, 1..n, 1..n)
  BY <1>1, <1>2, SockMovesLinks, SockMade
<1>5. SockLive(o, x, alive)
  BY DEF SockMoves, SockLive, SockInv, S!Now
<1>6. SockGood(o, x, n)
  BY <1>3, <1>4 DEF SockGood
<1>7. conns' = n /\ SockLive(o, x, alive')
  BY <1>2, <1>5
<1>8. alive' \subseteq SockProcs(o) \ unborn' /\ unborn' \subseteq SockProcs(o) /\ node' \in BOOLEAN
  BY DEF SockInv
<1> QED
  BY <1>6, <1>7, <1>8, SockStep

LEMMA SockNowIs ==
  ASSUME NEW o, SockInv(o)
  PROVE  /\ S(o)!Now.socks = socks /\ S(o)!Now.dirs = dirs /\ S(o)!Now.waiter = waiter
            /\ S(o)!Now.bound = bound
         /\ S(o)!Now \in SockStates(o) /\ SockBooks(o, S(o)!Now)
         /\ socks \in [S(o)!Socks -> SockRecords(o)] /\ dirs \in [S(o)!Dirs -> SockDirs(o)]
         /\ waiter \in [SockProcs(o) -> SockWaits(o)] /\ bound \in S(o)!Socks \cup {0}
         /\ conns \in 0..ConnsOn(o) /\ conns \in Nat
<1>1. S(o)!Now \in SockStates(o) /\ SockBooks(o, S(o)!Now)
  BY DEF SockInv, SockGood, SockSound
<1>2. S(o)!Now.socks = socks /\ S(o)!Now.dirs = dirs /\ S(o)!Now.waiter = waiter
      /\ S(o)!Now.bound = bound
  BY DEF S!Now
<1> QED
  BY <1>1, <1>2, SockBounds DEF SockStates, SockInv

LEMMA SockInit == ASSUME NEW o, S(o)!Init PROVE SockInv(o)
<1>1. \A s \in S(o)!Socks : socks[s] = S(o)!NoSock
  BY DEF S!Init
<1>2. \A d \in S(o)!Dirs : dirs[d] = S(o)!NewDir
  BY DEF S!Init
<1>3. \A p \in SockProcs(o) : waiter[p] = S(o)!Idle
  BY DEF S!Init
<1>4. <<>> \in Seq(SockProcs(o)) /\ S(o)!Range(<<>>) = {} /\ S(o)!IsInjective(<<>>)
  BY DEF S!Range, S!IsInjective
<1>5. S(o)!NoSock \in SockRecords(o) /\ SockShape(o, S(o)!NoSock, 0) /\ S(o)!NoSock.accepts = <<>>
  BY SockNoSock
<1>6. S(o)!NewDir \in SockDirs(o) /\ S(o)!NewDir.readers = <<>> /\ S(o)!NewDir.writers = <<>>
  BY <1>4, SockBounds DEF S!NewDir, SockDirs
<1>7. S(o)!Now \in SockStates(o)
  <2>1. socks \in [S(o)!Socks -> SockRecords(o)]
    BY <1>5 DEF S!Init
  <2>2. dirs \in [S(o)!Dirs -> SockDirs(o)]
    BY <1>6 DEF S!Init
  <2>3. waiter \in [SockProcs(o) -> SockWaits(o)] /\ bound \in S(o)!Socks \cup {0}
    BY DEF S!Init, SockWaits
  <2> QED
    BY <2>1, <2>2, <2>3 DEF S!Now, SockStates
<1>8. ASSUME NEW op, NEW on, op # "none"
      PROVE  SockRegistered(o, <<>>, waiter, [op |-> op, on |-> on])
  <2>1. S(o)!Idle # [op |-> op, on |-> on]
    BY <1>8 DEF S!Idle
  <2> QED
    BY <1>3, <1>4, <2>1 DEF SockRegistered
<1>9. SockBooks(o, S(o)!Now)
  BY <1>1, <1>2, <1>5, <1>6, <1>8 DEF SockBooks, S!Now
<1>10. SockCalls(o, S(o)!Now, 0)
  BY <1>3 DEF SockCalls, S!Now, S!Idle
<1>11. \A d \in S(o)!Dirs : SockSettled(S(o)!Now, d)
  BY <1>2, <1>6 DEF SockSettled, S!Now
<1>12. \A s \in S(o)!Socks : SockShape(o, S(o)!Now.socks[s], 0)
  BY <1>1, <1>5 DEF S!Now
<1>13. SockLinks(o, S(o)!Now, 1..0, 1..0)
  BY DEF SockLinks
<1>14. SockGood(o, S(o)!Now, 0)
  BY <1>7, <1>9, <1>10, <1>11, <1>12, <1>13 DEF SockGood, SockSound
<1>15. conns = 0 /\ 0 \in 0..ConnsOn(o) /\ alive = (SockServers \cup SockClients)
       /\ unborn = SockProcs(o) \ (SockServers \cup SockClients) /\ node = FALSE
  BY SockBounds DEF S!Init
<1>16. \A s \in S(o)!Socks : socks[s].holders \subseteq alive
  BY <1>1 DEF S!NoSock
<1> QED
  BY <1>3, <1>14, <1>15, <1>16, SockBounds DEF SockInv

-----------------------------------------------------------------------------
(* The handlers keep it                                                     *)

LEMMA SockHas ==
  ASSUME NEW o, SockInv(o), NEW p, NEW s \in S(o)!Socks, NEW st, S(o)!Has(p, s, st)
  PROVE  /\ p \in SockProcs(o) /\ p \in alive /\ waiter[p] = S(o)!Idle /\ p \in socks[s].holders
         /\ socks[s].st = st /\ socks[s] \in SockRecords(o) /\ SockShape(o, socks[s], conns)
<1>1. SockShape(o, S(o)!Now.socks[s], conns)
  BY DEF SockInv, SockGood, SockSound
<1> QED
  BY <1>1, SockNowIs DEF S!Has, S!Free, SockInv

LEMMA SockEnds ==
  ASSUME NEW o, SockInv(o), NEW p, NEW s \in S(o)!Socks, S(o)!Has(p, s, "conn")
  PROVE  /\ socks[s].rx \in S(o)!Dirs /\ socks[s].tx \in S(o)!Dirs
         /\ socks[s].rx <= 2 * conns /\ socks[s].tx <= 2 * conns
<1>1. socks[s].st = "conn" /\ socks[s] \in SockRecords(o) /\ SockShape(o, socks[s], conns)
  BY SockHas
<1> QED
  BY <1>1 DEF SockRecords, SockShape

\* A socket is made, bound or opened for connections.
LEMMA SockRenamed ==
  ASSUME NEW o, SockInv(o), NEW s \in S(o)!Socks, NEW k \in SockRecords(o), SockShape(o, k, conns),
         k.accepts = socks[s].accepts, k.pending = socks[s].pending,
         k.rx = socks[s].rx, k.tx = socks[s].tx, socks[s].st # "listening",
         k.holders \subseteq alive, socks' = [socks EXCEPT ![s] = k],
         bound' \in S(o)!Socks \cup {0}, node' \in BOOLEAN,
         UNCHANGED <<dirs, waiter, alive, unborn, conns>>
  PROVE  SockInv(o)'
<1>1. PICK so : so = [socks EXCEPT ![s] = k]
  OBVIOUS
<1>2. PICK b \in S(o)!Socks \cup {0} : b = bound'
  OBVIOUS
<1>3. PICK x : x = [S(o)!Now EXCEPT !.socks = so, !.bound = b]
  OBVIOUS
<1>4. PICK n \in 0..ConnsOn(o) : n = conns
  BY SockNowIs
<1>5. SockGood(o, x, n) /\ SockSwapped(o, S(o)!Now, x, s, k)
  <2>1. SockGood(o, S(o)!Now, n)
    BY <1>4 DEF SockInv
  <2>2. SockShape(o, k, n)
    BY <1>4
  <2>3. k.accepts = S(o)!Now.socks[s].accepts
    BY SockNowIs
  <2>4. k.pending = S(o)!Now.socks[s].pending
    BY SockNowIs
  <2>5. k.rx = S(o)!Now.socks[s].rx
    BY SockNowIs
  <2>6. k.tx = S(o)!Now.socks[s].tx
    BY SockNowIs
  <2>7. S(o)!Now.socks[s].st = "listening" => k.st = "listening"
    BY SockNowIs
  <2>8. so = [S(o)!Now.socks EXCEPT ![s] = k]
    BY <1>1, SockNowIs
  <2> QED
    BY <1>3, <2>1, <2>2, <2>3, <2>4, <2>5, <2>6, <2>7, <2>8, SockRename
<1>6. S(o)!Become(x)
  <2>1. x.socks = so /\ x.dirs = dirs /\ x.waiter = waiter /\ x.bound = b
    BY <1>3 DEF S!Now
  <2> QED
    BY <1>1, <1>2, <2>1 DEF S!Become
<1>7. SockLive(o, x, alive)
  <2>1. x.waiter = waiter /\ x.socks[s] = k /\ \A t \in S(o)!Socks : t # s => x.socks[t] = socks[t]
    BY <1>5, SockNowIs DEF SockSwapped
  <2> QED
    BY <2>1 DEF SockLive, SockInv
<1>8. /\ conns' = n /\ SockLive(o, x, alive')
      /\ alive' \subseteq SockProcs(o) \ unborn' /\ unborn' \subseteq SockProcs(o)
         /\ node' \in BOOLEAN
  BY <1>4, <1>7 DEF SockInv
<1> QED
  BY <1>5, <1>6, <1>8, SockStep

LEMMA SockSocket == ASSUME NEW o, SockInv(o), NEW p, S(o)!Socket(p) PROVE SockInv(o)'
<1>1. S(o)!Fresh \in S(o)!Socks /\ socks[S(o)!Fresh].st = "free"
  BY SockFresh DEF S!Socket
<1>2. PICK f \in S(o)!Socks : f = S(o)!Fresh
  BY <1>1
<1>3. PICK k : k = [socks[f] EXCEPT !.st = "fresh", !.holders = {p}]
  OBVIOUS
<1>4. socks[f] \in SockRecords(o) /\ p \in SockProcs(o) /\ p \in alive
  BY SockNowIs DEF S!Socket, S!Free, SockInv
<1>5. k \in SockRecords(o) /\ k.st = "fresh" /\ k.holders = {p} /\ k.rx = socks[f].rx
      /\ k.tx = socks[f].tx
      /\ k.pending = socks[f].pending /\ k.accepts = socks[f].accepts
  BY <1>3, <1>4 DEF SockRecords
<1>6. SockShape(o, socks[f], conns) /\ socks[f].accepts = <<>>
  <2>1. SockShape(o, S(o)!Now.socks[f], conns)
    BY DEF SockInv, SockGood, SockSound
  <2> QED
    BY <1>1, <1>2, <2>1, SockNowIs DEF SockShape
<1>7. SockShape(o, k, conns)
  <2>1. S(o)!Range(<<>>) = {}
    BY DEF S!Range
  <2> QED
    BY <1>1, <1>2, <1>5, <1>6, <2>1 DEF SockShape
<1>8. socks' = [socks EXCEPT ![f] = k]
  BY <1>1, <1>2, <1>3, SockNowIs DEF S!Socket
<1>9. /\ k.holders \subseteq alive /\ socks[f].st # "listening"
      /\ bound' \in S(o)!Socks \cup {0} /\ node' \in BOOLEAN
  BY <1>1, <1>2, <1>4, <1>5, SockNowIs DEF S!Socket, SockInv
<1>10. UNCHANGED <<dirs, waiter, alive, unborn, conns>>
  BY DEF S!Socket
<1> QED
  BY <1>5, <1>7, <1>8, <1>9, <1>10, SockRenamed

\* A bind or a listen: only the state changes.
LEMMA SockRestated ==
  ASSUME NEW o, SockInv(o), NEW p, NEW s \in S(o)!Socks, NEW st, NEW next \in {"bound", "listening"},
         S(o)!Has(p, s, st), st \in {"fresh", "bound"}, socks' = [socks EXCEPT ![s].st = next],
         bound' \in S(o)!Socks \cup {0}, node' \in BOOLEAN,
         UNCHANGED <<dirs, waiter, alive, unborn, conns>>
  PROVE  SockInv(o)'
<1>1. PICK k : k = [socks[s] EXCEPT !.st = next]
  OBVIOUS
<1>2. socks[s] \in SockRecords(o) /\ SockShape(o, socks[s], conns) /\ socks[s].st = st
  BY SockHas
<1>3. k \in SockRecords(o) /\ k.st = next /\ k.holders = socks[s].holders
      /\ k.rx = socks[s].rx /\ k.tx = socks[s].tx
      /\ k.pending = socks[s].pending /\ k.accepts = socks[s].accepts
  BY <1>1, <1>2 DEF SockRecords
<1>4. SockShape(o, k, conns)
  BY <1>2, <1>3 DEF SockShape
<1>5. socks' = [socks EXCEPT ![s] = k]
  BY <1>1, SockNowIs
<1>6. k.holders \subseteq alive /\ socks[s].st # "listening"
  BY <1>2, <1>3 DEF SockInv
<1> QED
  BY <1>3, <1>4, <1>5, <1>6, SockRenamed

LEMMA SockBind == ASSUME NEW o, SockInv(o), NEW p, NEW s \in S(o)!Socks, S(o)!Bind(p, s)
    PROVE SockInv(o)'
<1>1. S(o)!Has(p, s, "fresh") /\ socks' = [socks EXCEPT ![s].st = "bound"]
  BY DEF S!Bind
<1>2. bound' \in S(o)!Socks \cup {0} /\ node' \in BOOLEAN
  BY DEF S!Bind
<1>3. UNCHANGED <<dirs, waiter, alive, unborn, conns>>
  BY DEF S!Bind
<1> QED
  BY <1>1, <1>2, <1>3, SockRestated

LEMMA SockListen == ASSUME NEW o, SockInv(o), NEW p, NEW s \in S(o)!Socks, S(o)!Listen(p, s)
    PROVE SockInv(o)'
<1>1. S(o)!Has(p, s, "bound") /\ socks' = [socks EXCEPT ![s].st = "listening"]
  BY DEF S!Listen
<1>2. bound' \in S(o)!Socks \cup {0} /\ node' \in BOOLEAN
  BY SockNowIs DEF S!Listen, SockInv
<1>3. UNCHANGED <<dirs, waiter, alive, unborn, conns>>
  BY DEF S!Listen
<1> QED
  BY <1>1, <1>2, <1>3, SockRestated

LEMMA SockUnlink == ASSUME NEW o, SockInv(o), S(o)!Unlink PROVE SockInv(o)'
<1>1. S(o)!Now' = S(o)!Now /\ conns' = conns
  BY DEF S!Unlink, S!Now
<1>2. SockGood(o, S(o)!Now, conns)'
  BY <1>1 DEF SockInv, SockGood, SockSound, SockCalls, SockSettled, SockLinks, SockFar, SockNear,
     SockBooks, SockRegistered, S!Now
<1> QED
  BY <1>2 DEF SockInv, S!Unlink

LEMMA SockInterrupt == ASSUME NEW o, SockInv(o), NEW p \in SockProcs(o), S(o)!Interrupt(p)
    PROVE SockInv(o)'
<1>1. PICK x : x = S(o)!Cancel(S(o)!Now, p)
  OBVIOUS
<1>2. PICK n \in 0..ConnsOn(o) : n = conns
  BY SockNowIs
<1>3. SockSound(o, S(o)!Now, n) /\ SockLinks(o, S(o)!Now, 1..n, 1..n)
  BY <1>2 DEF SockInv, SockGood
<1>4. SockSound(o, x, n) /\ x.waiter = [waiter EXCEPT ![p] = S(o)!Idle]
  <2>1. SockSound(o, x, n) /\ x.waiter = [S(o)!Now.waiter EXCEPT ![p] = S(o)!Idle]
    BY <1>1, <1>3, SockCancelSound
  <2> QED
    BY <2>1, SockNowIs
<1>5. SockLinks(o, x, 1..n, 1..n) /\ \A s \in S(o)!Socks : SockSame(socks[s], x.socks[s])
  <2>1. 1..n \in SUBSET S(o)!Conns
    BY SockMade
  <2>2. SockLinks(o, x, 1..n, 1..n) /\ \A s \in S(o)!Socks : SockSame(S(o)!Now.socks[s], x.socks[s])
    BY <1>1, <1>3, <2>1, SockNowIs, SockCancelLinks
  <2> QED
    BY <2>2, SockNowIs
<1>6. SockLive(o, x, alive)
  BY <1>4, <1>5, SockNowIs DEF SockLive, SockInv, SockSame
<1>7. SockGood(o, x, n) /\ S(o)!Become(x)
  BY <1>1, <1>4, <1>5 DEF SockGood, S!Interrupt
<1>8. /\ conns' = n /\ SockLive(o, x, alive')
      /\ alive' \subseteq SockProcs(o) \ unborn' /\ unborn' \subseteq SockProcs(o)
         /\ node' \in BOOLEAN
  BY <1>2, <1>6 DEF SockInv, S!Interrupt
<1> QED
  BY <1>7, <1>8, SockStep

-----------------------------------------------------------------------------
(* Reads, writes, shutdowns                                                 *)

\* p is at the end of q, and waits for w.
SockEnqueued(o, q, p, v, w) ==
  /\ SockRegistered(o, Append(q, p), v, w) /\ Append(q, p) \in Seq(SockProcs(o))
  /\ S(o)!Range(Append(q, p)) = S(o)!Range(q) \cup {p}

LEMMA SockEnqueue ==
  ASSUME NEW o, NEW q \in Seq(SockProcs(o)), NEW wt \in [SockProcs(o) -> SockWaits(o)], NEW w,
         SockRegistered(o, q, wt, w), w # S(o)!Idle,
         NEW p \in SockProcs(o), wt[p] = S(o)!Idle, NEW v, v = [wt EXCEPT ![p] = w]
  PROVE  SockEnqueued(o, q, p, v, w)
<1>1. PICK u : u = Append(q, p)
  OBVIOUS
<1>2. /\ u \in Seq(SockProcs(o)) /\ Len(u) = Len(q) + 1
      /\ \A i \in 1..Len(q) : u[i] = q[i]
      /\ u[Len(q) + 1] = p
  BY <1>1, AppendProperties
<1>3. Len(q) \in Nat /\ DOMAIN q = 1..Len(q) /\ DOMAIN u = 1..(Len(q) + 1)
  BY <1>2
<1>4. S(o)!Range(u) = S(o)!Range(q) \cup {p}
  BY <1>2, <1>3 DEF S!Range
<1>5. p \notin S(o)!Range(q)
  BY DEF SockRegistered
<1>6. S(o)!IsInjective(u)
  <2>1. \A i, j \in 1..Len(q) : q[i] = q[j] => i = j
    BY <1>3 DEF SockRegistered, S!IsInjective
  <2>2. \A i \in 1..Len(q) : q[i] # p
    BY <1>3, <1>5 DEF S!Range
  <2> QED
    BY <1>2, <1>3, <2>1, <2>2 DEF S!IsInjective
<1>7. \A r \in SockProcs(o) : v[r] = IF r = p THEN w ELSE wt[r]
  OBVIOUS
<1> QED
  BY <1>1, <1>2, <1>4, <1>6, <1>7 DEF SockRegistered, SockEnqueued

LEMMA SockOther ==
  ASSUME NEW o, NEW q, NEW wt \in [SockProcs(o) -> SockWaits(o)], NEW u, SockRegistered(o, q, wt, u),
         NEW w, u # w, u # S(o)!Idle, NEW p \in SockProcs(o), wt[p] = S(o)!Idle, NEW v,
         v = [wt EXCEPT ![p] = w]
  PROVE  SockRegistered(o, q, v, u)
<1>1. \A r \in SockProcs(o) : v[r] = IF r = p THEN w ELSE wt[r]
  OBVIOUS
<1> QED
  BY <1>1 DEF SockRegistered

\* From now to the sockets so and the directions ds p joined the queue of w.
SockParked(o, so, ds, w, p) ==
  /\ \A t \in S(o)!Socks : /\ SockSame(socks[t], so[t])
                           /\ so[t].accepts = IF w = [op |-> "accept", on |-> t]
                                              THEN Append(socks[t].accepts, p) ELSE socks[t].accepts
  /\ \A e \in S(o)!Dirs : /\ DirSame(dirs[e], ds[e])
                          /\ ds[e].readers = IF w = [op |-> "read", on |-> e]
                                             THEN Append(dirs[e].readers, p) ELSE dirs[e].readers
                          /\ ds[e].writers = IF w = [op |-> "write", on |-> e]
                                             THEN Append(dirs[e].writers, p) ELSE dirs[e].writers

SockParks(o, x, w, p) ==
  /\ x \in SockStates(o) /\ SockParked(o, x.socks, x.dirs, w, p)
  /\ x.waiter = [waiter EXCEPT ![p] = w] /\ x.bound = bound
  /\ \A e \in S(o)!Dirs : SockSettled(x, e)
  /\ \A t \in S(o)!Socks : SockShape(o, x.socks[t], conns)
  /\ w.op \in {"read", "write"} => w.on <= 2 * conns

LEMMA SockParkedQueue ==
  ASSUME NEW o, NEW q \in Seq(SockProcs(o)), waiter \in [SockProcs(o) -> SockWaits(o)], NEW u,
         SockRegistered(o, q, waiter, u),
         u # S(o)!Idle, NEW w, w # S(o)!Idle, NEW p \in SockProcs(o), waiter[p] = S(o)!Idle,
         NEW v, v = [waiter EXCEPT ![p] = w],
         NEW r, r = IF w = u THEN Append(q, p) ELSE q
  PROVE  SockRegistered(o, r, v, u)
<1>1. CASE w = u
  <2>1. SockEnqueued(o, q, p, v, u)
    BY <1>1, SockEnqueue
  <2> QED
    BY <1>1, <2>1 DEF SockEnqueued
<1>2. CASE w # u
  <2>1. SockRegistered(o, q, v, u)
    BY <1>2, SockOther
  <2> QED
    BY <1>2, <2>1
<1> QED
  BY <1>1, <1>2

\* A call parks.
LEMMA SockPark ==
  ASSUME NEW o, SockInv(o), NEW p \in SockProcs(o), p \in alive, waiter[p] = S(o)!Idle,
         NEW w \in SockWaits(o), w # S(o)!Idle,
         NEW x, SockParks(o, x, w, p), S(o)!Become(x), UNCHANGED <<alive, unborn, node, conns>>
  PROVE  SockInv(o)'
<1> DEFINE so == x.socks
           ds == x.dirs
           v == x.waiter
<1>0. /\ x \in SockStates(o) /\ SockParked(o, so, ds, w, p)
      /\ v = [waiter EXCEPT ![p] = w] /\ x.bound = bound
      /\ \A e \in S(o)!Dirs : SockSettled(x, e)
      /\ \A t \in S(o)!Socks : SockShape(o, so[t], conns)
      /\ w.op \in {"read", "write"} => w.on <= 2 * conns
  BY DEF SockParks
<1>1. waiter \in [SockProcs(o) -> SockWaits(o)]
  BY SockNowIs
<1>2. v \in [SockProcs(o) -> SockWaits(o)]
      /\ \A r \in SockProcs(o) : v[r] = IF r = p THEN w ELSE waiter[r]
  BY <1>0, <1>1
<1>3. SockBooks(o, x)
  <2>1. ASSUME NEW t \in S(o)!Socks
               PROVE SockRegistered(o, so[t].accepts, v, [op |-> "accept", on |-> t])
    <3>1. PICK u : u = [op |-> "accept", on |-> t]
      OBVIOUS
    <3>2. u # S(o)!Idle
      BY <3>1 DEF S!Idle
    <3>3. SockRegistered(o, socks[t].accepts, waiter, u)
      BY <3>1, SockNowIs DEF SockBooks
    <3>4. socks[t].accepts \in Seq(SockProcs(o))
      BY SockNowIs DEF SockRecords
    <3>5. so[t].accepts = IF w = u THEN Append(socks[t].accepts, p) ELSE socks[t].accepts
      BY <1>0, <3>1 DEF SockParked
    <3>6. SockRegistered(o, so[t].accepts, v, u)
      BY <1>0, <1>1, <3>2, <3>3, <3>4, <3>5, SockParkedQueue
    <3> QED
      BY <3>1, <3>6
  <2>2. ASSUME NEW e \in S(o)!Dirs
               PROVE SockRegistered(o, ds[e].readers, v, [op |-> "read", on |-> e])
    <3>1. PICK u : u = [op |-> "read", on |-> e]
      OBVIOUS
    <3>2. u # S(o)!Idle
      BY <3>1 DEF S!Idle
    <3>3. SockRegistered(o, dirs[e].readers, waiter, u)
      BY <3>1, SockNowIs DEF SockBooks
    <3>4. dirs[e].readers \in Seq(SockProcs(o))
      BY SockNowIs DEF SockDirs
    <3>5. ds[e].readers = IF w = u THEN Append(dirs[e].readers, p) ELSE dirs[e].readers
      BY <1>0, <3>1 DEF SockParked
    <3>6. SockRegistered(o, ds[e].readers, v, u)
      BY <1>0, <1>1, <3>2, <3>3, <3>4, <3>5, SockParkedQueue
    <3> QED
      BY <3>1, <3>6
  <2>3. ASSUME NEW e \in S(o)!Dirs
               PROVE SockRegistered(o, ds[e].writers, v, [op |-> "write", on |-> e])
    <3>1. PICK u : u = [op |-> "write", on |-> e]
      OBVIOUS
    <3>2. u # S(o)!Idle
      BY <3>1 DEF S!Idle
    <3>3. SockRegistered(o, dirs[e].writers, waiter, u)
      BY <3>1, SockNowIs DEF SockBooks
    <3>4. dirs[e].writers \in Seq(SockProcs(o))
      BY SockNowIs DEF SockDirs
    <3>5. ds[e].writers = IF w = u THEN Append(dirs[e].writers, p) ELSE dirs[e].writers
      BY <1>0, <3>1 DEF SockParked
    <3>6. SockRegistered(o, ds[e].writers, v, u)
      BY <1>0, <1>1, <3>2, <3>3, <3>4, <3>5, SockParkedQueue
    <3> QED
      BY <3>1, <3>6
  <2> QED
    BY <1>0, <2>1, <2>2, <2>3 DEF SockBooks
<1>4. SockCalls(o, x, conns)
  <2>1. SockCalls(o, S(o)!Now, conns)
    BY DEF SockInv, SockGood, SockSound
  <2>2. ASSUME NEW r \in SockProcs(o), x.waiter[r].op \in {"read", "write"}
               PROVE x.waiter[r].on <= 2 * conns
    <3>1. CASE r = p
      BY <1>0, <1>2, <2>2, <3>1
    <3>2. CASE r # p
      <4>1. x.waiter[r] = S(o)!Now.waiter[r]
        BY <1>2, <3>2, SockNowIs
      <4> QED
        BY <2>1, <2>2, <4>1 DEF SockCalls
    <3> QED
      BY <3>1, <3>2
  <2> QED
    BY <2>2 DEF SockCalls
<1>5. \A e \in S(o)!Dirs : x.dirs[e].rOpen = dirs[e].rOpen /\ x.dirs[e].wOpen = dirs[e].wOpen
  BY <1>0 DEF SockParked, DirSame
<1>6. \A t \in S(o)!Socks : SockSame(socks[t], x.socks[t])
  BY <1>0 DEF SockParked
<1>7. SockLinks(o, x, 1..conns, 1..conns)
  <2>1. \A c \in 1..conns : c \in S(o)!Conns
    BY SockMade, SockNowIs
  <2>2. \A c \in 1..conns : S(o)!Up(c) \in S(o)!Dirs /\ S(o)!DownOf(c) \in S(o)!Dirs
    BY <2>1, SockConns
  <2>3. SockLinks(o, S(o)!Now, 1..conns, 1..conns)
    BY DEF SockInv, SockGood
  <2> QED
    BY <1>5, <1>6, <2>2, <2>3, SockNowIs DEF SockLinks, SockFar, SockNear, SockSame
<1>8. SockGood(o, x, conns)
  BY <1>0, <1>3, <1>4, <1>7 DEF SockGood, SockSound
<1>9. SockLive(o, x, alive)
  BY <1>2, <1>6 DEF SockLive, SockInv, SockSame
<1>10. /\ conns' = conns /\ SockLive(o, x, alive') /\ conns \in 0..ConnsOn(o)
       /\ alive' \subseteq SockProcs(o) \ unborn' /\ unborn' \subseteq SockProcs(o)
          /\ node' \in BOOLEAN
  BY <1>9, SockNowIs DEF SockInv
<1>11. PICK n \in 0..ConnsOn(o) : n = conns
  BY <1>10
<1>12. SockGood(o, x, n) /\ conns' = n
  BY <1>8, <1>10, <1>11
<1> QED
  BY <1>10, <1>12, SockStep

LEMMA SockRead == ASSUME NEW o, SockInv(o), NEW p, NEW s \in S(o)!Socks, S(o)!Read(p, s)
    PROVE SockInv(o)'
<1>1. S(o)!Has(p, s, "conn") /\ UNCHANGED <<alive, unborn, node, conns, binds>>
  BY DEF S!Read
<1>2. PICK d : d = socks[s].rx
  OBVIOUS
<1>3. d \in S(o)!Dirs /\ d <= 2 * conns /\ p \in SockProcs(o) /\ p \in alive /\ waiter[p] = S(o)!Idle
  BY <1>1, <1>2, SockEnds, SockHas
<1>4. dirs[d] \in SockDirs(o) /\ dirs[d].buf \in 0..SockCap /\ dirs[d].readers \in Seq(SockProcs(o))
  BY <1>3, SockNowIs DEF SockDirs
<1>5. CASE dirs[d].buf > 0
  <2>1. PICK b : b = dirs[d].buf - 1
    OBVIOUS
  <2>2. PICK z : z = S(o)!Filled(S(o)!Now, d, b)
    OBVIOUS
  <2>3. PICK x : x = S(o)!Notify(z, d)
    OBVIOUS
  <2>4. S(o)!Become(x)
    BY <1>2, <1>5, <2>1, <2>2, <2>3 DEF S!Read
  <2>5. b \in 0..SockCap
    BY <1>4, <1>5, <2>1, SockBounds
  <2>6. SockMoves(o, S(o)!Now, z, {d})
    BY <1>3, <2>2, <2>5, SockFill, SockNowIs
  <2>7. SockMoves(o, S(o)!Now, x, {d} \ {d})
    BY <1>3, <2>3, <2>6, SockMovesNotify
  <2>8. {d} \ {d} = {}
    OBVIOUS
  <2> QED
    BY <1>1, <2>4, <2>7, <2>8, SockMovesStep
<1>6. CASE dirs[d].buf = 0 /\ ~dirs[d].wOpen
  <2>1. UNCHANGED <<socks, dirs, waiter, bound>>
    BY <1>2, <1>6 DEF S!Read
  <2>2. SockMoves(o, S(o)!Now, S(o)!Now, {}) /\ S(o)!Become(S(o)!Now)
    BY <2>1, SockNowIs DEF SockMoves, S!Become
  <2> QED
    BY <1>1, <2>2, SockMovesStep
<1>7. CASE dirs[d].buf = 0 /\ dirs[d].wOpen
  <2>1. PICK w : w = [op |-> "read", on |-> d]
    OBVIOUS
  <2>2. PICK k : k = [dirs[d] EXCEPT !.readers = Append(dirs[d].readers, p)]
    OBVIOUS
  <2>3. PICK ds : ds = [dirs EXCEPT ![d] = k]
    OBVIOUS
  <2>4. PICK v : v = [waiter EXCEPT ![p] = w]
    OBVIOUS
  <2>5. PICK x : x = [S(o)!Now EXCEPT !.waiter = v, !.dirs = ds]
    OBVIOUS
  <2>6. S(o)!Become(x)
    <3>1. S(o)!Become([S(o)!Now EXCEPT !.waiter[p] = [op |-> "read", on |-> d],
                                       !.dirs[d].readers = Append(@, p)])
      BY <1>2, <1>7 DEF S!Read
    <3>2. [S(o)!Now EXCEPT !.waiter[p] = [op |-> "read", on |-> d],
                           !.dirs[d].readers = Append(@, p)] = x
      BY <1>3, <2>1, <2>2, <2>3, <2>4, <2>5, SockNowIs DEF S!Now
    <3> QED
      BY <3>1, <3>2
  <2>7. x.socks = socks /\ x.dirs = ds /\ x.waiter = v /\ x.bound = bound
    BY <2>5 DEF S!Now
  <2>8. w # S(o)!Idle /\ w \in SockWaits(o) /\ w.op = "read" /\ w.on = d
    BY <1>3, <2>1 DEF S!Idle, SockWaits
  <2>9. Append(dirs[d].readers, p) \in Seq(SockProcs(o))
    BY <1>3, <1>4
  <2>10. /\ k \in SockDirs(o) /\ DirSame(dirs[d], k)
         /\ k.readers = Append(dirs[d].readers, p) /\ k.writers = dirs[d].writers
    BY <1>4, <2>2, <2>9 DEF SockDirs, DirSame
  <2>11. ds \in [S(o)!Dirs -> SockDirs(o)] /\ ds[d] = k
         /\ \A e \in S(o)!Dirs : e # d => ds[e] = dirs[e]
    BY <1>3, <2>3, <2>10, SockNowIs
  <2>12. v \in [SockProcs(o) -> SockWaits(o)]
    BY <1>3, <2>4, <2>8, SockNowIs
  <2>13. x \in SockStates(o)
    BY <2>5, <2>7, <2>11, <2>12, SockNowIs DEF SockStates, S!Now
  <2>14. SockParked(o, socks, ds, w, p)
    <3>1. \A t \in S(o)!Socks : SockSame(socks[t], socks[t]) /\ w # [op |-> "accept", on |-> t]
      BY <2>1 DEF SockSame
    <3>2. ASSUME NEW e \in S(o)!Dirs
          PROVE  /\ DirSame(dirs[e], ds[e])
                 /\ ds[e].readers = IF w = [op |-> "read", on |-> e]
                                    THEN Append(dirs[e].readers, p) ELSE dirs[e].readers
                 /\ ds[e].writers = IF w = [op |-> "write", on |-> e]
                                    THEN Append(dirs[e].writers, p) ELSE dirs[e].writers
      <4>1. w # [op |-> "write", on |-> e] /\ (w = [op |-> "read", on |-> e] <=> e = d)
        BY <2>1
      <4>2. CASE e = d
        BY <2>10, <2>11, <4>1, <4>2
      <4>3. CASE e # d
        BY <2>11, <4>1, <4>3 DEF DirSame
      <4> QED
        BY <4>2, <4>3
    <3> QED
      BY <3>1, <3>2 DEF SockParked
  <2>15. ASSUME NEW e \in S(o)!Dirs PROVE SockSettled(x, e)
    <3>1. SockSettled(S(o)!Now, e)
      BY DEF SockInv, SockGood, SockSound
    <3>2. CASE e = d
      BY <1>7, <2>7, <2>10, <2>11, <3>1, <3>2, SockNowIs DEF SockSettled, DirSame
    <3>3. CASE e # d
      BY <2>7, <2>11, <3>1, <3>3, SockNowIs DEF SockSettled
    <3> QED
      BY <3>2, <3>3
  <2>16. \A e \in S(o)!Dirs : SockSettled(x, e)
    BY <2>15
  <2>17. \A t \in S(o)!Socks : SockShape(o, socks[t], conns)
    BY SockNowIs DEF SockInv, SockGood, SockSound
  <2>18. w.op \in {"read", "write"} => w.on <= 2 * conns
    BY <1>3, <2>8
  <2>19. SockParks(o, x, w, p)
    BY <2>4, <2>7, <2>13, <2>14, <2>16, <2>17, <2>18 DEF SockParks
  <2>20. UNCHANGED <<alive, unborn, node, conns>>
    BY <1>1
  <2> QED
    BY <1>3, <2>6, <2>8, <2>19, <2>20, SockPark
<1>8. dirs[d].buf > 0 \/ dirs[d].buf = 0
  BY <1>4
<1> QED
  BY <1>5, <1>6, <1>7, <1>8
LEMMA SockWrite == ASSUME NEW o, SockInv(o), NEW p, NEW s \in S(o)!Socks, S(o)!Write(p, s)
    PROVE SockInv(o)'
<1>1. S(o)!Has(p, s, "conn") /\ UNCHANGED <<alive, unborn, node, conns, binds>>
  BY DEF S!Write
<1>2. PICK d : d = socks[s].tx
  OBVIOUS
<1>3. d \in S(o)!Dirs /\ d <= 2 * conns /\ p \in SockProcs(o) /\ p \in alive /\ waiter[p] = S(o)!Idle
  BY <1>1, <1>2, SockEnds, SockHas
<1>4. dirs[d] \in SockDirs(o) /\ dirs[d].buf \in 0..SockCap /\ dirs[d].writers \in Seq(SockProcs(o))
  BY <1>3, SockNowIs DEF SockDirs
<1>5. CASE dirs[d].rOpen /\ dirs[d].wOpen /\ dirs[d].buf < SockCap
  <2>1. PICK b : b = dirs[d].buf + 1
    OBVIOUS
  <2>2. PICK z : z = S(o)!Filled(S(o)!Now, d, b)
    OBVIOUS
  <2>3. PICK x : x = S(o)!Notify(z, d)
    OBVIOUS
  <2>4. S(o)!Become(x)
    BY <1>2, <1>5, <2>1, <2>2, <2>3 DEF S!Write
  <2>5. b \in 0..SockCap
    BY <1>4, <1>5, <2>1, SockBounds
  <2>6. SockMoves(o, S(o)!Now, z, {d})
    BY <1>3, <2>2, <2>5, SockFill, SockNowIs
  <2>7. SockMoves(o, S(o)!Now, x, {d} \ {d})
    BY <1>3, <2>3, <2>6, SockMovesNotify
  <2>8. {d} \ {d} = {}
    OBVIOUS
  <2> QED
    BY <1>1, <2>4, <2>7, <2>8, SockMovesStep
<1>6. CASE ~dirs[d].rOpen \/ ~dirs[d].wOpen
  <2>1. UNCHANGED <<socks, dirs, waiter, bound>>
    BY <1>2, <1>6 DEF S!Write
  <2>2. SockMoves(o, S(o)!Now, S(o)!Now, {}) /\ S(o)!Become(S(o)!Now)
    BY <2>1, SockNowIs DEF SockMoves, S!Become
  <2> QED
    BY <1>1, <2>2, SockMovesStep
<1>7. CASE dirs[d].rOpen /\ dirs[d].wOpen /\ dirs[d].buf = SockCap
  <2>1. PICK w : w = [op |-> "write", on |-> d]
    OBVIOUS
  <2>2. PICK k : k = [dirs[d] EXCEPT !.writers = Append(dirs[d].writers, p)]
    OBVIOUS
  <2>3. PICK ds : ds = [dirs EXCEPT ![d] = k]
    OBVIOUS
  <2>4. PICK v : v = [waiter EXCEPT ![p] = w]
    OBVIOUS
  <2>5. PICK x : x = [S(o)!Now EXCEPT !.waiter = v, !.dirs = ds]
    OBVIOUS
  <2>6. S(o)!Become(x)
    <3>1. S(o)!Become([S(o)!Now EXCEPT !.waiter[p] = [op |-> "write", on |-> d],
                                       !.dirs[d].writers = Append(@, p)])
      BY <1>2, <1>4, <1>7, SockBounds DEF S!Write
    <3>2. [S(o)!Now EXCEPT !.waiter[p] = [op |-> "write", on |-> d],
                           !.dirs[d].writers = Append(@, p)] = x
      BY <1>3, <2>1, <2>2, <2>3, <2>4, <2>5, SockNowIs DEF S!Now
    <3> QED
      BY <3>1, <3>2
  <2>7. x.socks = socks /\ x.dirs = ds /\ x.waiter = v /\ x.bound = bound
    BY <2>5 DEF S!Now
  <2>8. w # S(o)!Idle /\ w \in SockWaits(o) /\ w.op = "write" /\ w.on = d
    BY <1>3, <2>1 DEF S!Idle, SockWaits
  <2>9. Append(dirs[d].writers, p) \in Seq(SockProcs(o))
    BY <1>3, <1>4
  <2>10. /\ k \in SockDirs(o) /\ DirSame(dirs[d], k)
         /\ k.writers = Append(dirs[d].writers, p) /\ k.readers = dirs[d].readers
    BY <1>4, <2>2, <2>9 DEF SockDirs, DirSame
  <2>11. ds \in [S(o)!Dirs -> SockDirs(o)] /\ ds[d] = k
         /\ \A e \in S(o)!Dirs : e # d => ds[e] = dirs[e]
    BY <1>3, <2>3, <2>10, SockNowIs
  <2>12. v \in [SockProcs(o) -> SockWaits(o)]
    BY <1>3, <2>4, <2>8, SockNowIs
  <2>13. x \in SockStates(o)
    BY <2>5, <2>7, <2>11, <2>12, SockNowIs DEF SockStates, S!Now
  <2>14. SockParked(o, socks, ds, w, p)
    <3>1. \A t \in S(o)!Socks : SockSame(socks[t], socks[t]) /\ w # [op |-> "accept", on |-> t]
      BY <2>1 DEF SockSame
    <3>2. ASSUME NEW e \in S(o)!Dirs
          PROVE  /\ DirSame(dirs[e], ds[e])
                 /\ ds[e].readers = IF w = [op |-> "read", on |-> e]
                                    THEN Append(dirs[e].readers, p) ELSE dirs[e].readers
                 /\ ds[e].writers = IF w = [op |-> "write", on |-> e]
                                    THEN Append(dirs[e].writers, p) ELSE dirs[e].writers
      <4>1. w # [op |-> "read", on |-> e] /\ (w = [op |-> "write", on |-> e] <=> e = d)
        BY <2>1
      <4>2. CASE e = d
        BY <2>10, <2>11, <4>1, <4>2
      <4>3. CASE e # d
        BY <2>11, <4>1, <4>3 DEF DirSame
      <4> QED
        BY <4>2, <4>3
    <3> QED
      BY <3>1, <3>2 DEF SockParked
  <2>15. ASSUME NEW e \in S(o)!Dirs PROVE SockSettled(x, e)
    <3>1. SockSettled(S(o)!Now, e)
      BY DEF SockInv, SockGood, SockSound
    <3>2. CASE e = d
      BY <1>7, <2>7, <2>10, <2>11, <3>1, <3>2, SockNowIs DEF SockSettled, DirSame
    <3>3. CASE e # d
      BY <2>7, <2>11, <3>1, <3>3, SockNowIs DEF SockSettled
    <3> QED
      BY <3>2, <3>3
  <2>16. \A e \in S(o)!Dirs : SockSettled(x, e)
    BY <2>15
  <2>17. \A t \in S(o)!Socks : SockShape(o, socks[t], conns)
    BY SockNowIs DEF SockInv, SockGood, SockSound
  <2>18. w.op \in {"read", "write"} => w.on <= 2 * conns
    BY <1>3, <2>8
  <2>19. SockParks(o, x, w, p)
    BY <2>4, <2>7, <2>13, <2>14, <2>16, <2>17, <2>18 DEF SockParks
  <2>20. UNCHANGED <<alive, unborn, node, conns>>
    BY <1>1
  <2> QED
    BY <1>3, <2>6, <2>8, <2>19, <2>20, SockPark
<1>8. dirs[d].buf < SockCap \/ dirs[d].buf = SockCap
  BY <1>4, SockBounds
<1> QED
  BY <1>5, <1>6, <1>7, <1>8

LEMMA SockShutdown ==
  ASSUME NEW o, SockInv(o), NEW p, NEW s \in S(o)!Socks, NEW how, S(o)!Shutdown(p, s, how)
         PROVE SockInv(o)'
<1>1. S(o)!Has(p, s, "conn") /\ UNCHANGED <<alive, unborn, node, conns>>
  BY DEF S!Shutdown
<1>2. PICK d \in S(o)!Dirs : d = socks[s].rx
  BY <1>1, SockEnds
<1>3. PICK e \in S(o)!Dirs : e = socks[s].tx
  BY <1>1, SockEnds
<1>4. PICK x1 : x1 = S(o)!ShutR(S(o)!Now, d)
  OBVIOUS
<1>5. PICK x2 : x2 = IF how # "WR" THEN S(o)!Notify(x1, d) ELSE S(o)!Now
  OBVIOUS
<1>6. SockMoves(o, S(o)!Now, x2, {})
  <2>1. CASE how # "WR"
    <3>1. SockMoves(o, S(o)!Now, x1, {d})
      BY <1>4, SockShutR, SockNowIs
    <3>2. SockMoves(o, S(o)!Now, x2, {d} \ {d})
      BY <1>5, <2>1, <3>1, SockMovesNotify
    <3>3. {d} \ {d} = {}
      OBVIOUS
    <3> QED
      BY <3>2, <3>3
  <2>2. CASE how = "WR"
    BY <1>5, <2>2, SockNowIs DEF SockMoves
  <2> QED
    BY <2>1, <2>2
<1>7. PICK x3 : x3 = S(o)!ShutW(x2, e)
  OBVIOUS
<1>8. PICK x : x = IF how # "RD" THEN S(o)!Notify(x3, e) ELSE x2
  OBVIOUS
<1>9. SockMoves(o, S(o)!Now, x, {})
  <2>1. CASE how # "RD"
    <3>1. x2 \in SockStates(o) /\ SockBooks(o, x2)
      BY <1>6 DEF SockMoves
    <3>2. SockMoves(o, x2, x3, {e})
      BY <1>7, <3>1, SockShutW
    <3>3. SockMoves(o, S(o)!Now, x3, {} \cup {e})
      BY <1>6, <3>2, SockMovesTrans
    <3>4. SockMoves(o, S(o)!Now, x, ({} \cup {e}) \ {e})
      BY <1>8, <2>1, <3>3, SockMovesNotify
    <3>5. ({} \cup {e}) \ {e} = {}
      OBVIOUS
    <3> QED
      BY <3>4, <3>5
  <2>2. CASE how = "RD"
    BY <1>6, <1>8, <2>2
  <2> QED
    BY <2>1, <2>2
<1>10. S(o)!Become(x)
  BY <1>2, <1>3, <1>4, <1>5, <1>7, <1>8 DEF S!Shutdown
<1> QED
  BY <1>1, <1>9, <1>10, SockMovesStep

LEMMA SockClose == ASSUME NEW o, SockInv(o), NEW p, NEW s \in S(o)!Socks, S(o)!Close(p, s)
    PROVE SockInv(o)'
<1>1. /\ p \in alive /\ p \in SockProcs(o) /\ waiter[p] = S(o)!Idle /\ p \in socks[s].holders
      /\ UNCHANGED <<alive, unborn, node, conns>>
  BY DEF S!Close, S!Free, SockInv
<1>2. PICK x : x = S(o)!Unref(S(o)!Now, s, p)
  OBVIOUS
<1>3. PICK n \in 0..ConnsOn(o) : n = conns
  BY SockNowIs
<1>4. SockGood(o, x, n) /\ SockLetGo(o, S(o)!Now, x, s, p)
  <2>1. SockGood(o, S(o)!Now, n) /\ S(o)!Now.waiter[p] = S(o)!Idle /\ p \in S(o)!Now.socks[s].holders
    BY <1>1, <1>3, SockNowIs DEF SockInv
  <2> QED
    BY <1>1, <1>2, <2>1, SockUnref
<1>5. SockLive(o, x, alive)
  BY <1>4, SockNowIs DEF SockLetGo, SockLive, SockInv
<1>6. S(o)!Become(x)
  BY <1>2 DEF S!Close
<1>7. /\ conns' = n /\ SockLive(o, x, alive')
      /\ alive' \subseteq SockProcs(o) \ unborn' /\ unborn' \subseteq SockProcs(o)
         /\ node' \in BOOLEAN
  BY <1>1, <1>3, <1>5 DEF SockInv
<1> QED
  BY <1>4, <1>6, <1>7, SockStep

LEMMA SockDie == ASSUME NEW o, SockInv(o), NEW p \in SockProcs(o), S(o)!Die(p) PROVE SockInv(o)'
<1>1. PICK x : x = S(o)!Cancel(S(o)!Now, p)
  OBVIOUS
<1>2. PICK n \in 0..ConnsOn(o) : n = conns
  BY SockNowIs
<1>3. SockSound(o, S(o)!Now, n) /\ SockLinks(o, S(o)!Now, 1..n, 1..n)
  BY <1>2 DEF SockInv, SockGood
<1>4. SockSound(o, x, n) /\ x.waiter = [waiter EXCEPT ![p] = S(o)!Idle]
  <2>1. SockSound(o, x, n) /\ x.waiter = [S(o)!Now.waiter EXCEPT ![p] = S(o)!Idle]
    BY <1>1, <1>3, SockCancelSound
  <2> QED
    BY <2>1, SockNowIs
<1>5. SockLinks(o, x, 1..n, 1..n) /\ \A s \in S(o)!Socks : x.socks[s].holders = socks[s].holders
  <2>1. 1..n \in SUBSET S(o)!Conns
    BY SockMade
  <2>2. SockLinks(o, x, 1..n, 1..n) /\ \A s \in S(o)!Socks : SockSame(S(o)!Now.socks[s], x.socks[s])
    BY <1>1, <1>3, <2>1, SockNowIs, SockCancelLinks
  <2> QED
    BY <2>2, SockNowIs DEF SockSame
<1>6. SockGood(o, x, n) /\ x.waiter[p] = S(o)!Idle
  BY <1>4, <1>5, SockNowIs DEF SockGood
<1>7. PICK h : h = CHOOSE f : f = [s \in 0..MaxSocks |->
               IF s = 0 THEN x
               ELSE IF p \in socks[s].holders THEN S(o)!Unref(f[s - 1], s, p) ELSE f[s - 1]]
  OBVIOUS
<1>8. /\ SockGood(o, h[MaxSocks], n)
      /\ \A r \in SockProcs(o) : h[MaxSocks].waiter[r] = x.waiter[r] \/ h[MaxSocks].waiter[r]
         = S(o)!Idle
      /\ \A s \in S(o)!Socks : h[MaxSocks].socks[s].holders = socks[s].holders \ {p}
  <2>1. \A s \in S(o)!Socks : x.socks[s].holders = socks[s].holders
    BY <1>5
  <2> QED
    BY <1>6, <1>7, <2>1, SockDied
<1>9. PICK y : y = h[MaxSocks]
  OBVIOUS
<1>10. S(o)!Become(y) /\ alive' = alive \ {p} /\ UNCHANGED <<unborn, node, conns>>
  BY <1>1, <1>7, <1>9 DEF S!Die
<1>11. SockLive(o, y, alive')
  <2>1. \A r \in SockProcs(o) : y.waiter[r] # S(o)!Idle => r # p /\ waiter[r] # S(o)!Idle
    BY <1>4, <1>8, <1>9, SockNowIs
  <2>2. \A s \in S(o)!Socks : y.socks[s].holders = socks[s].holders \ {p}
    BY <1>8, <1>9
  <2> QED
    BY <1>10, <2>1, <2>2 DEF SockLive, SockInv
<1>12. SockGood(o, y, n)
  BY <1>8, <1>9
<1>13. /\ conns' = n
       /\ alive' \subseteq SockProcs(o) \ unborn' /\ unborn' \subseteq SockProcs(o)
          /\ node' \in BOOLEAN
  BY <1>2, <1>10 DEF SockInv
<1> QED
  BY <1>10, <1>11, <1>12, <1>13, SockStep

LEMMA SockSpawn == ASSUME NEW o, SockInv(o), NEW p, NEW q, S(o)!Spawn(p, q) PROVE SockInv(o)'
<1>1. /\ p \in alive /\ q \in unborn /\ q \in SockProcs(o) /\ alive' = alive \cup {q}
         /\ unborn' = unborn \ {q}
      /\ UNCHANGED <<dirs, waiter, bound, node, conns>>
  BY DEF S!Spawn, S!Free, SockInv
<1>2. PICK so : so = [s \in S(o)!Socks |-> IF p \in socks[s].holders
                                           THEN [socks[s] EXCEPT !.holders = @ \cup {q}] ELSE socks[s]]
  OBVIOUS
<1>3. PICK n \in 0..ConnsOn(o) : n = conns
  BY SockNowIs
<1>4. ASSUME NEW s \in S(o)!Socks
      PROVE  /\ so[s] \in SockRecords(o)
                /\ SockSame([socks[s] EXCEPT !.holders = so[s].holders], so[s])
             /\ so[s].accepts = socks[s].accepts /\ SockShape(o, so[s], n)
             /\ so[s].holders \subseteq alive \cup {q}
             /\ so[s].st = socks[s].st /\ so[s].rx = socks[s].rx /\ so[s].tx = socks[s].tx
             /\ so[s].pending = socks[s].pending
  <2>1. socks[s] \in SockRecords(o) /\ SockShape(o, socks[s], n) /\ socks[s].holders \subseteq alive
    BY <1>3, SockNowIs DEF SockInv, SockGood, SockSound
  <2>2. CASE p \in socks[s].holders
    <3>1. PICK k : k = [socks[s] EXCEPT !.holders = @ \cup {q}]
      OBVIOUS
    <3>2. so[s] = k
      BY <1>2, <2>2, <3>1
    <3>3. /\ k \in SockRecords(o) /\ k.holders = socks[s].holders \cup {q}
             /\ k.accepts = socks[s].accepts
          /\ k.st = socks[s].st /\ k.rx = socks[s].rx /\ k.tx = socks[s].tx
          /\ k.pending = socks[s].pending
      BY <1>1, <2>1, <3>1 DEF SockRecords
    <3>4. SockShape(o, k, n)
      BY <2>1, <2>2, <3>3 DEF SockShape
    <3> QED
      BY <2>1, <3>2, <3>3, <3>4 DEF SockSame, SockRecords
  <2>3. CASE p \notin socks[s].holders
    <3>1. so[s] = socks[s]
      BY <1>2, <2>3
    <3> QED
      BY <2>1, <3>1 DEF SockSame, SockRecords
  <2> QED
    BY <2>2, <2>3
<1>5. PICK x : x = [S(o)!Now EXCEPT !.socks = so]
  OBVIOUS
<1>6. x.socks = so /\ x.dirs = dirs /\ x.waiter = waiter /\ x.bound = bound
  BY <1>5 DEF S!Now
<1>7. S(o)!Become(x)
  BY <1>1, <1>2, <1>6 DEF S!Become, S!Spawn
<1>8. so \in [S(o)!Socks -> SockRecords(o)]
  BY <1>2, <1>4
<1>9. x \in SockStates(o)
  BY <1>5, <1>8, SockNowIs DEF SockStates, S!Now
<1>10. SockBooks(o, x)
  BY <1>4, <1>6, SockNowIs DEF SockBooks
<1>11. SockCalls(o, x, n) /\ \A d \in S(o)!Dirs : SockSettled(x, d)
  <2>1. SockCalls(o, S(o)!Now, n) /\ \A d \in S(o)!Dirs : SockSettled(S(o)!Now, d)
    BY <1>3 DEF SockInv, SockGood, SockSound
  <2> QED
    BY <1>6, <2>1, SockNowIs DEF SockCalls, SockSettled
<1>12. SockLinks(o, x, 1..n, 1..n)
  <2>1. SockLinks(o, S(o)!Now, 1..n, 1..n)
    BY <1>3 DEF SockInv, SockGood
  <2>2. \A s \in S(o)!Socks : /\ x.socks[s].st = S(o)!Now.socks[s].st
                                 /\ x.socks[s].rx = S(o)!Now.socks[s].rx
                              /\ x.socks[s].tx = S(o)!Now.socks[s].tx
                                 /\ x.socks[s].pending = S(o)!Now.socks[s].pending
    BY <1>4, <1>6, SockNowIs
  <2>3. x.dirs = S(o)!Now.dirs
    BY <1>6, SockNowIs
  <2> QED
    BY <2>1, <2>2, <2>3 DEF SockLinks, SockFar, SockNear
<1>13. SockGood(o, x, n)
  BY <1>4, <1>6, <1>9, <1>10, <1>11, <1>12 DEF SockGood, SockSound
<1>14. SockLive(o, x, alive')
  BY <1>1, <1>4, <1>6 DEF SockLive, SockInv
<1>15. /\ conns' = n
       /\ alive' \subseteq SockProcs(o) \ unborn' /\ unborn' \subseteq SockProcs(o)
          /\ node' \in BOOLEAN
  BY <1>1, <1>3 DEF SockInv
<1> QED
  BY <1>7, <1>13, <1>14, <1>15, SockStep

-----------------------------------------------------------------------------
(* Connect and accept                                                       *)

LEMMA SockQueueFacts ==
  ASSUME NEW o, NEW X, NEW q \in Seq(X), q # <<>>
  PROVE  /\ Head(q) \in X /\ Tail(q) \in Seq(X) /\ Len(Tail(q)) <= Len(q)
         /\ S(o)!Range(q) = {Head(q)} \cup S(o)!Range(Tail(q))
<1>1. Len(q) \in Nat /\ Len(q) # 0 /\ DOMAIN q = 1..Len(q) /\ Head(q) = q[1] /\ q[1] \in X
  BY EmptySeq
<1>2. Tail(q) \in Seq(X) /\ Len(Tail(q)) = Len(q) - 1
      /\ \A i \in 1..(Len(q) - 1) : Tail(q)[i] = q[i + 1]
  BY HeadTailProperties
<1>3. DOMAIN Tail(q) = 1..(Len(q) - 1)
  BY <1>2
<1>4. S(o)!Range(Tail(q)) = {q[i] : i \in 2..Len(q)}
  <2>1. ASSUME NEW j \in 2..Len(q) PROVE q[j] \in S(o)!Range(Tail(q))
    <3>1. j - 1 \in 1..(Len(q) - 1) /\ (j - 1) + 1 = j
      BY <1>1
    <3>2. Tail(q)[j - 1] = q[j]
      BY <1>2, <3>1
    <3> QED
      BY <1>3, <3>1, <3>2 DEF S!Range
  <2>2. ASSUME NEW i \in 1..(Len(q) - 1) PROVE Tail(q)[i] \in {q[j] : j \in 2..Len(q)}
    BY <1>1, <1>2
  <2> QED
    BY <1>3, <2>1, <2>2 DEF S!Range
<1>5. 1..Len(q) = {1} \cup 2..Len(q)
  BY <1>1
<1>6. S(o)!Range(q) = {q[i] : i \in 1..Len(q)}
  BY <1>1 DEF S!Range
<1>7. S(o)!Range(q) = {q[1]} \cup {q[i] : i \in 2..Len(q)}
  BY <1>5, <1>6
<1> QED
  BY <1>1, <1>2, <1>4, <1>7

LEMMA SockAccept == ASSUME NEW o, SockInv(o), NEW p, NEW s \in S(o)!Socks, S(o)!Accept(p, s)
    PROVE SockInv(o)'
<1>1. S(o)!Has(p, s, "listening") /\ UNCHANGED <<alive, unborn, node, conns>>
  BY DEF S!Accept
<1>2. /\ p \in SockProcs(o) /\ p \in alive /\ waiter[p] = S(o)!Idle /\ p \in socks[s].holders
      /\ socks[s].st = "listening" /\ socks[s] \in SockRecords(o) /\ SockShape(o, socks[s], conns)
  BY <1>1, SockHas
<1>3. socks[s].pending \in Seq(S(o)!Conns) /\ socks[s].accepts \in Seq(SockProcs(o))
  BY <1>2 DEF SockRecords
<1>4. PICK n \in 0..ConnsOn(o) : n = conns
  BY SockNowIs
<1>5. CASE socks[s].pending # <<>>
  <2>1. PICK q : q = Tail(socks[s].pending)
    OBVIOUS
  <2>2. PICK c : c = Head(socks[s].pending)
    OBVIOUS
  <2>3. c \in S(o)!Conns /\ q \in Seq(S(o)!Conns) /\ Len(q) <= Len(socks[s].pending)
        /\ S(o)!Range(socks[s].pending) = {c} \cup S(o)!Range(q)
    BY <1>3, <1>5, <2>1, <2>2, SockQueueFacts
  <2>4. c \in 1..n
    BY <1>2, <1>4, <2>3 DEF SockShape
  <2>5. PICK k : k = [socks[s] EXCEPT !.pending = q]
    OBVIOUS
  <2>6. /\ k \in SockRecords(o) /\ k.st = "listening" /\ k.holders = socks[s].holders
        /\ k.rx = socks[s].rx /\ k.tx = socks[s].tx /\ k.pending = q /\ k.accepts = socks[s].accepts
    BY <1>2, <2>3, <2>5 DEF SockRecords
  <2>7. SockShape(o, k, n)
    <3>1. socks[s].accepts = <<>>
      BY <1>2, <1>5 DEF SockShape
    <3>2. Len(q) \in Nat /\ Len(socks[s].pending) \in Nat
      BY <1>3, <2>3
    <3> QED
      BY <1>2, <1>4, <2>3, <2>6, <3>1, <3>2, SockBounds DEF SockShape
  <2>8. PICK so : so = [S(o)!Now.socks EXCEPT ![s] = k]
    OBVIOUS
  <2>9. PICK b \in S(o)!Socks \cup {0} : b = bound
    BY SockNowIs
  <2>10. PICK x1 : x1 = [S(o)!Now EXCEPT !.socks = so, !.bound = b]
    OBVIOUS
  <2>11. SockSound(o, x1, n) /\ SockSwapped(o, S(o)!Now, x1, s, k)
    <3>1. SockSound(o, S(o)!Now, n)
      BY <1>4 DEF SockInv, SockGood
    <3>2. k.accepts = S(o)!Now.socks[s].accepts
      BY <2>6, SockNowIs
    <3> QED
      BY <2>6, <2>7, <2>8, <2>10, <3>1, <3>2, SockReplace
  <2>12. /\ x1.dirs = dirs /\ x1.waiter = waiter /\ x1.socks[s] = k
         /\ \A t \in S(o)!Socks : t # s => x1.socks[t] = socks[t]
    BY <2>11, SockNowIs DEF SockSwapped
  <2>13. SockLinks(o, x1, (1..n) \ {c}, 1..n)
    <3>1. SockLinks(o, S(o)!Now, 1..n, 1..n)
      BY <1>4 DEF SockInv, SockGood
    <3>2. \A t \in S(o)!Socks : /\ x1.socks[t].rx = socks[t].rx /\ x1.socks[t].tx = socks[t].tx
                                /\ x1.socks[t].st = socks[t].st
                                /\ \A e \in (1..n) \ {c} : e \in S(o)!Range(socks[t].pending)
                                                            => e \in S(o)!Range(x1.socks[t].pending)
      <4>1. \A e \in (1..n) \ {c} : e \in S(o)!Range(socks[s].pending) => e \in S(o)!Range(k.pending)
        BY <2>3, <2>6
      <4> QED
        BY <1>2, <2>6, <2>12, <4>1
    <3>3. ASSUME NEW e \in (1..n) \ {c} PROVE SockFar(o, x1, e)
      <4>1. SockFar(o, S(o)!Now, e)
        BY <3>1 DEF SockLinks
      <4> QED
        BY <2>12, <3>2, <4>1, SockNowIs DEF SockFar
    <3>4. ASSUME NEW e \in 1..n PROVE SockNear(o, x1, e)
      <4>1. SockNear(o, S(o)!Now, e)
        BY <3>1 DEF SockLinks
      <4> QED
        BY <2>12, <3>2, <4>1, SockNowIs DEF SockNear
    <3> QED
      BY <3>3, <3>4 DEF SockLinks
  <2>14. PICK f \in S(o)!Socks : f = S(o)!Fresh /\ socks[f].st = "free"
    BY <1>5, SockFresh DEF S!Accept
  <2>15. f # s /\ x1.socks[f].st = "free"
    BY <1>2, <2>12, <2>14
  <2>16. PICK r \in S(o)!Dirs : r = S(o)!Up(c)
    BY <2>3, SockConns
  <2>17. PICK w \in S(o)!Dirs : w = S(o)!DownOf(c)
    BY <2>3, SockConns
  <2>18. r <= 2 * n /\ w <= 2 * n
    BY <2>4, <2>16, <2>17, SockBounds DEF S!Up, S!DownOf
  <2>19. PICK y : y = S(o)!Joined(x1, f, p, r, w)
    OBVIOUS
  <2>20. /\ SockSound(o, y, n) /\ SockLinks(o, y, (1..n) \ {c}, 1..n) /\ y.waiter = x1.waiter
         /\ y.socks[f].rx = r /\ y.socks[f].tx = w /\ y.socks[f].holders = {p}
         /\ \A t \in S(o)!Socks : t # f => y.socks[t] = x1.socks[t]
    <3>1. (1..n) \ {c} \in SUBSET S(o)!Conns /\ 1..n \in SUBSET S(o)!Conns
      BY SockMade
    <3>2. SockSound(o, x1, n)
      BY <2>11
    <3>3. SockSound(o, y, n) /\ SockLinks(o, y, (1..n) \ {c}, 1..n)
          /\ SockJoined(o, x1, y, f, p, r, w)
      BY <1>2, <2>13, <2>15, <2>18, <2>19, <3>1, <3>2, SockJoin, ZenonT(60)
    <3> QED
      BY <3>3 DEF SockJoined
  <2>21. SockFar(o, y, c)
    BY <2>16, <2>17, <2>20 DEF SockFar
  <2>22. SockGood(o, y, n)
    BY <2>20, <2>21 DEF SockGood, SockLinks
  <2>23. S(o)!Become(y)
    <3>1. [S(o)!Now EXCEPT !.socks[s].pending = Tail(@)] = x1
      BY <2>1, <2>5, <2>8, <2>9, <2>10, SockNowIs DEF S!Now
    <3>2. S(o)!Become(S(o)!Joined([S(o)!Now EXCEPT !.socks[s].pending = Tail(@)],
                                  S(o)!Fresh, p, S(o)!Up(c), S(o)!DownOf(c)))
      BY <1>5, <2>2 DEF S!Accept
    <3> QED
      BY <2>14, <2>16, <2>17, <2>19, <3>1, <3>2
  <2>24. SockLive(o, y, alive)
    <3>1. ASSUME NEW t \in S(o)!Socks PROVE y.socks[t].holders \subseteq alive
      <4>1. CASE t = f
        BY <1>2, <2>20, <4>1
      <4>2. CASE t = s
        BY <2>6, <2>12, <2>15, <2>20, <4>2 DEF SockInv
      <4>3. CASE t # f /\ t # s
        BY <2>12, <2>20, <4>3 DEF SockInv
      <4> QED
        BY <4>1, <4>2, <4>3
    <3>2. \A r2 \in SockProcs(o) : y.waiter[r2] # S(o)!Idle => r2 \in alive
      BY <2>12, <2>20 DEF SockInv
    <3> QED
      BY <3>1, <3>2 DEF SockLive
  <2>25. /\ conns' = n /\ SockLive(o, y, alive')
         /\ alive' \subseteq SockProcs(o) \ unborn' /\ unborn' \subseteq SockProcs(o)
            /\ node' \in BOOLEAN
    BY <1>1, <1>4, <2>24 DEF SockInv
  <2> QED
    BY <2>22, <2>23, <2>25, SockStep
<1>6. CASE socks[s].pending = <<>>
  <2>1. PICK w : w = [op |-> "accept", on |-> s]
    OBVIOUS
  <2>2. PICK k : k = [socks[s] EXCEPT !.accepts = Append(socks[s].accepts, p)]
    OBVIOUS
  <2>3. PICK so : so = [socks EXCEPT ![s] = k]
    OBVIOUS
  <2>4. PICK v : v = [waiter EXCEPT ![p] = w]
    OBVIOUS
  <2>5. PICK x : x = [S(o)!Now EXCEPT !.waiter = v, !.socks = so]
    OBVIOUS
  <2>6. S(o)!Become(x)
    <3>1. S(o)!Become([S(o)!Now EXCEPT !.waiter[p] = [op |-> "accept", on |-> s],
                                       !.socks[s].accepts = Append(@, p)])
      BY <1>6 DEF S!Accept
    <3>2. [S(o)!Now EXCEPT !.waiter[p] = [op |-> "accept", on |-> s],
                           !.socks[s].accepts = Append(@, p)] = x
      BY <2>1, <2>2, <2>3, <2>4, <2>5, SockNowIs DEF S!Now
    <3> QED
      BY <3>1, <3>2
  <2>7. x.socks = so /\ x.dirs = dirs /\ x.waiter = v /\ x.bound = bound
    BY <2>5 DEF S!Now
  <2>8. w # S(o)!Idle /\ w \in SockWaits(o) /\ w.op = "accept"
    BY <2>1 DEF S!Idle, SockWaits
  <2>9. Append(socks[s].accepts, p) \in Seq(SockProcs(o))
    BY <1>2, <1>3
  <2>10. /\ k \in SockRecords(o) /\ SockSame(socks[s], k) /\ k.accepts = Append(socks[s].accepts, p)
    BY <1>2, <2>2, <2>9 DEF SockRecords, SockSame
  <2>11. so \in [S(o)!Socks -> SockRecords(o)] /\ so[s] = k
         /\ \A t \in S(o)!Socks : t # s => so[t] = socks[t]
    BY <2>3, <2>10, SockNowIs
  <2>12. v \in [SockProcs(o) -> SockWaits(o)]
    BY <1>2, <2>4, <2>8, SockNowIs
  <2>13. x \in SockStates(o)
    BY <2>5, <2>7, <2>11, <2>12, SockNowIs DEF SockStates, S!Now
  <2>14. SockParked(o, so, dirs, w, p)
    <3>1. ASSUME NEW t \in S(o)!Socks
          PROVE  /\ SockSame(socks[t], so[t])
                 /\ so[t].accepts = IF w = [op |-> "accept", on |-> t]
                                   THEN Append(socks[t].accepts, p) ELSE socks[t].accepts
      <4>1. w = [op |-> "accept", on |-> t] <=> t = s
        BY <2>1
      <4>2. CASE t = s
        BY <2>10, <2>11, <4>1, <4>2
      <4>3. CASE t # s
        BY <2>11, <4>1, <4>3 DEF SockSame
      <4> QED
        BY <4>2, <4>3
    <3>2. \A e \in S(o)!Dirs : DirSame(dirs[e], dirs[e]) /\ w # [op |-> "read", on |-> e]
                               /\ w # [op |-> "write", on |-> e]
      BY <2>1 DEF DirSame
    <3> QED
      BY <3>1, <3>2 DEF SockParked
  <2>15. \A e \in S(o)!Dirs : SockSettled(x, e)
    <3>1. \A e \in S(o)!Dirs : SockSettled(S(o)!Now, e)
      BY DEF SockInv, SockGood, SockSound
    <3> QED
      BY <2>7, <3>1, SockNowIs DEF SockSettled
  <2>16. SockShape(o, k, conns)
    <3>1. SockRegistered(o, socks[s].accepts, waiter, [op |-> "accept", on |-> s])
      BY SockNowIs DEF SockBooks
    <3>2. SockRegistered(o, socks[s].accepts, waiter, w) /\ waiter \in [SockProcs(o) -> SockWaits(o)]
      BY <2>1, <3>1, SockNowIs
    <3>3. PICK q \in Seq(SockProcs(o)) : q = socks[s].accepts
      BY <1>2 DEF SockRecords
    <3>4. SockEnqueued(o, q, p, v, w)
      BY <1>2, <2>4, <2>8, <3>2, <3>3, SockEnqueue
    <3>5. S(o)!Range(Append(socks[s].accepts, p)) = S(o)!Range(socks[s].accepts) \cup {p}
      BY <3>3, <3>4 DEF SockEnqueued
    <3> QED
      BY <1>2, <1>6, <2>10, <3>5 DEF SockShape, SockSame
  <2>17. \A t \in S(o)!Socks : SockShape(o, so[t], conns)
    <3>1. \A t \in S(o)!Socks : SockShape(o, socks[t], conns)
      BY SockNowIs DEF SockInv, SockGood, SockSound
    <3> QED
      BY <2>11, <2>16, <3>1
  <2>18. SockParks(o, x, w, p)
    BY <2>4, <2>7, <2>8, <2>13, <2>14, <2>15, <2>17 DEF SockParks
  <2>19. UNCHANGED <<alive, unborn, node, conns>>
    BY <1>1
  <2> QED
    BY <1>2, <2>6, <2>8, <2>18, <2>19, SockPark
<1> QED
  BY <1>5, <1>6

SockLonger(o, q, e, u) ==
  u \in Seq(S(o)!Conns) /\ Len(u) = Len(q) + 1 /\ S(o)!Range(u) = S(o)!Range(q) \cup {e}

LEMMA SockAppended ==
  ASSUME NEW o, NEW q \in Seq(S(o)!Conns), NEW e \in S(o)!Conns, NEW u, u = Append(q, e)
  PROVE  SockLonger(o, q, e, u)
<1>1. /\ u \in Seq(S(o)!Conns) /\ Len(u) = Len(q) + 1
      /\ \A i \in 1..Len(q) : u[i] = q[i]
      /\ u[Len(q) + 1] = e
  BY AppendProperties
<1>2. Len(q) \in Nat /\ DOMAIN q = 1..Len(q) /\ DOMAIN u = 1..(Len(q) + 1)
  BY <1>1
<1>3. S(o)!Range(u) = S(o)!Range(q) \cup {e}
  BY <1>1, <1>2 DEF S!Range
<1> QED
  BY <1>1, <1>3 DEF SockLonger

LEMMA SockSoundMore ==
  ASSUME NEW o, NEW n \in Nat, NEW x, SockSound(o, x, n) PROVE SockSound(o, x, n + 1)
<1>1. SockCalls(o, x, n + 1)
  <2>1. x.waiter \in [SockProcs(o) -> SockWaits(o)]
    BY DEF SockSound, SockStates
  <2>2. ASSUME NEW p \in SockProcs(o), x.waiter[p].op \in {"read", "write"}
               PROVE x.waiter[p].on \in Nat
    BY <2>1, <2>2, SockBounds DEF SockWaits, S!Idle, S!Dirs
  <2> QED
    BY <2>2 DEF SockSound, SockCalls
<1>2. ASSUME NEW s \in S(o)!Socks PROVE SockShape(o, x.socks[s], n + 1)
  <2>1. x.socks[s] \in SockRecords(o) /\ SockShape(o, x.socks[s], n)
    BY DEF SockSound, SockStates
  <2>2. x.socks[s].rx \in Nat /\ x.socks[s].tx \in Nat
    <3>1. {0} \cup S(o)!Dirs \subseteq Nat
      BY SockBounds DEF S!Dirs
    <3>2. x.socks[s].rx \in {0} \cup S(o)!Dirs /\ x.socks[s].tx \in {0} \cup S(o)!Dirs
      BY <2>1 DEF SockRecords
    <3> QED
      BY <3>1, <3>2
  <2>3. 1..n \subseteq 1..(n + 1)
    OBVIOUS
  <2> QED
    BY <2>1, <2>2, <2>3 DEF SockShape
<1> QED
  BY <1>1, <1>2 DEF SockSound

LEMMA SockConnect == ASSUME NEW o, SockInv(o), NEW p, NEW s \in S(o)!Socks, S(o)!Connect(p, s)
    PROVE SockInv(o)'
<1>1. /\ S(o)!Has(p, s, "fresh") /\ UNCHANGED <<alive, unborn, node>> /\ conns < ConnsOn(o)
      /\ conns' = conns + 1 /\ bound # 0 /\ socks[bound].st = "listening"
  BY DEF S!Connect
<1>2. /\ p \in SockProcs(o) /\ p \in alive /\ waiter[p] = S(o)!Idle /\ p \in socks[s].holders
      /\ socks[s].st = "fresh" /\ socks[s] \in SockRecords(o) /\ SockShape(o, socks[s], conns)
  BY <1>1, SockHas
<1>3. PICK m \in 0..ConnsOn(o) : m = conns
  BY SockNowIs
<1>4. PICK c \in 1..ConnsOn(o) : c = m + 1
  BY <1>1, <1>3, SockBounds
<1>5. c \in S(o)!Conns /\ c \in 0..ConnsOn(o) /\ c = conns + 1 /\ 1..c = 1..m \cup {c} /\ m \in Nat
  BY <1>3, <1>4, SockBounds DEF S!Conns
<1>6. PICK l \in S(o)!Socks : l = bound
  BY <1>1, SockNowIs
<1>7. PICK r \in S(o)!Dirs : r = S(o)!DownOf(c)
  BY <1>5, SockConns
<1>8. PICK w \in S(o)!Dirs : w = S(o)!Up(c)
  BY <1>5, SockConns
<1>9. r <= 2 * c /\ w <= 2 * c /\ r # 0 /\ w # 0
  BY <1>5, <1>7, <1>8, SockBounds DEF S!Up, S!DownOf, S!Dirs
<1>10. PICK k : k = [socks[s] EXCEPT !.st = "conn", !.rx = r, !.tx = w]
  OBVIOUS
<1>11. /\ k \in SockRecords(o) /\ k.st = "conn" /\ k.holders = socks[s].holders /\ k.rx = r
          /\ k.tx = w
       /\ k.pending = socks[s].pending /\ k.accepts = socks[s].accepts
  BY <1>2, <1>10 DEF SockRecords
<1>12. SockSound(o, S(o)!Now, c)
  <2>1. SockSound(o, S(o)!Now, m)
    BY <1>3 DEF SockInv, SockGood
  <2> QED
    BY <1>4, <1>5, <2>1, SockSoundMore
<1>13. SockShape(o, k, c)
  <2>1. SockShape(o, socks[s], c)
    BY <1>12, SockNowIs DEF SockSound
  <2>2. socks[s].accepts = <<>>
    BY <1>2, <2>1 DEF SockShape
  <2> QED
    BY <1>2, <1>9, <1>11, <2>1, <2>2 DEF SockShape
<1>14. PICK so : so = [S(o)!Now.socks EXCEPT ![s] = k]
  OBVIOUS
<1>15. PICK b \in S(o)!Socks \cup {0} : b = bound
  BY SockNowIs
<1>16. PICK x1 : x1 = [S(o)!Now EXCEPT !.socks = so, !.bound = b]
  OBVIOUS
<1>17. x1 = [S(o)!Now EXCEPT !.socks[s].st = "conn", !.socks[s].rx = S(o)!DownOf(c),
                             !.socks[s].tx = S(o)!Up(c)]
  BY <1>7, <1>8, <1>10, <1>14, <1>15, <1>16, SockNowIs, ZenonT(60) DEF S!Now
<1>18. SockSound(o, x1, c) /\ SockSwapped(o, S(o)!Now, x1, s, k)
  <2>1. k.accepts = S(o)!Now.socks[s].accepts
    BY <1>11, SockNowIs
  <2> QED
    BY <1>5, <1>11, <1>12, <1>13, <1>14, <1>16, <2>1, SockReplace
<1>19. /\ x1.dirs = dirs /\ x1.waiter = waiter /\ x1.socks[s] = k
       /\ \A t \in S(o)!Socks : t # s => x1.socks[t] = socks[t]
  BY <1>18, SockNowIs DEF SockSwapped
<1>20. 1..m \subseteq S(o)!Conns /\ 1..c \subseteq S(o)!Conns
  BY <1>5, SockMade
<1>21. SockLinks(o, x1, 1..m, 1..c)
  <2>1. SockLinks(o, S(o)!Now, 1..m, 1..m)
    BY <1>3 DEF SockInv, SockGood
  <2>2. socks[s].rx = 0 /\ socks[s].tx = 0
    BY <1>2 DEF SockShape
  <2>3. \A e \in 1..m : S(o)!Up(e) # 0 /\ S(o)!DownOf(e) # 0
    BY <1>5, SockBounds DEF S!Up, S!DownOf
  <2>4. ASSUME NEW e \in 1..m PROVE SockFar(o, x1, e)
    <3>1. SockFar(o, S(o)!Now, e)
      BY <2>1 DEF SockLinks
    <3>2. ASSUME NEW t \in S(o)!Socks,
                 \/ socks[t].st = "listening" /\ e \in S(o)!Range(socks[t].pending)
                 \/ socks[t].rx = S(o)!Up(e) /\ socks[t].tx = S(o)!DownOf(e)
          PROVE  t # s
      BY <1>2, <2>2, <2>3, <3>2
    <3> QED
      BY <1>19, <3>1, <3>2, SockNowIs DEF SockFar
  <2>5. ASSUME NEW e \in 1..m PROVE SockNear(o, x1, e)
    <3>1. SockNear(o, S(o)!Now, e)
      BY <2>1 DEF SockLinks
    <3>2. ASSUME NEW t \in S(o)!Socks, socks[t].rx = S(o)!DownOf(e) /\ socks[t].tx = S(o)!Up(e)
          PROVE  t # s
      BY <2>2, <2>3, <3>2
    <3> QED
      BY <1>19, <3>1, <3>2, SockNowIs DEF SockNear
  <2>6. SockNear(o, x1, c)
    BY <1>7, <1>8, <1>11, <1>19 DEF SockNear
  <2> QED
    BY <1>5, <2>4, <2>5, <2>6 DEF SockLinks
<1>22. l # s /\ socks[l].st = "listening" /\ socks[l] \in SockRecords(o)
       /\ socks[l].holders \subseteq alive /\ x1.socks[l] = socks[l]
  BY <1>1, <1>2, <1>6, <1>19, SockNowIs DEF SockInv
<1>23. socks[l].accepts \in Seq(SockProcs(o)) /\ socks[l].pending \in Seq(S(o)!Conns)
  BY <1>22 DEF SockRecords
<1>24. SockLive(o, x1, alive)
  <2>1. \A t \in S(o)!Socks : x1.socks[t].holders = socks[t].holders
    BY <1>11, <1>19
  <2> QED
    BY <1>19, <2>1 DEF SockLive, SockInv
<1>25. ASSUME NEW y, SockSound(o, y, c), SockLinks(o, y, 1..m, 1..c), SockFar(o, y, c),
              S(o)!Become(y), SockLive(o, y, alive)
       PROVE  SockInv(o)'
  <2>1. SockGood(o, y, c)
    BY <1>5, <1>25 DEF SockGood, SockLinks
  <2>2. /\ conns' = c /\ SockLive(o, y, alive')
        /\ alive' \subseteq SockProcs(o) \ unborn' /\ unborn' \subseteq SockProcs(o)
           /\ node' \in BOOLEAN
    BY <1>1, <1>5, <1>25 DEF SockInv
  <2> QED
    BY <1>5, <1>25, <2>1, <2>2, SockStep
<1>26. CASE socks[l].accepts # <<>>
  <2>1. PICK a : a = Head(socks[l].accepts)
    OBVIOUS
  <2>2. a \in S(o)!Range(socks[l].accepts) /\ a \in SockProcs(o)
    BY <1>23, <1>26, <2>1, SockHead
  <2>3. a \in alive
    <3>1. SockShape(o, S(o)!Now.socks[l], c)
      BY <1>12 DEF SockSound
    <3> QED
      BY <1>22, <2>2, <3>1, SockNowIs DEF SockShape
  <2>4. PICK x2 : x2 = S(o)!Cancel(x1, a)
    OBVIOUS
  <2>5. SockSound(o, x2, c) /\ x2.waiter = [x1.waiter EXCEPT ![a] = S(o)!Idle]
    BY <1>18, <2>2, <2>4, SockCancelSound
  <2>6. SockLinks(o, x2, 1..m, 1..c) /\ \A t \in S(o)!Socks : SockSame(x1.socks[t], x2.socks[t])
    <3>1. x1 \in SockStates(o) /\ SockBooks(o, x1)
      BY <1>18 DEF SockSound
    <3>2. 1..m \in SUBSET S(o)!Conns /\ 1..c \in SUBSET S(o)!Conns
      BY <1>20
    <3> QED
      BY <1>21, <2>2, <2>4, <3>1, <3>2, SockCancelLinks
  <2>7. S(o)!FreeSocks # {}
        /\ S(o)!Become(S(o)!Joined(S(o)!Cancel(x1, a), S(o)!Fresh, a, S(o)!Up(c), S(o)!DownOf(c)))
    BY <1>5, <1>6, <1>17, <1>26, <2>1 DEF S!Connect
  <2>8. PICK f \in S(o)!Socks : f = S(o)!Fresh /\ socks[f].st = "free"
    BY <2>7, SockFresh
  <2>9. f # s /\ x2.socks[f].st = "free"
    BY <1>2, <1>19, <2>6, <2>8 DEF SockSame
  <2>10. PICK y : y = S(o)!Joined(x2, f, a, w, r)
    OBVIOUS
  <2>11. SockSound(o, y, c) /\ SockLinks(o, y, 1..m, 1..c) /\ SockJoined(o, x2, y, f, a, w, r)
    <3>1. 1..m \in SUBSET S(o)!Conns /\ 1..c \in SUBSET S(o)!Conns
      BY <1>20
    <3>2. SockSound(o, x2, c) /\ SockLinks(o, x2, 1..m, 1..c)
      BY <2>5, <2>6
    <3>3. /\ c \in 0..ConnsOn(o) /\ w <= 2 * c /\ r <= 2 * c
          /\ a \in SockProcs(o) /\ x2.socks[f].st = "free"
      BY <1>5, <1>9, <2>2, <2>9
    <3> QED
      BY <2>10, <3>1, <3>2, <3>3, SockJoin
  <2>12. SockFar(o, y, c)
    BY <1>7, <1>8, <2>11 DEF SockFar, SockJoined
  <2>13. S(o)!Become(y)
    BY <1>7, <1>8, <2>4, <2>7, <2>8, <2>10
  <2>14. SockLive(o, y, alive)
    <3>1. ASSUME NEW t \in S(o)!Socks PROVE y.socks[t].holders \subseteq alive
      <4>1. CASE t = f
        BY <2>3, <2>11, <4>1 DEF SockJoined
      <4>2. CASE t # f
        BY <1>24, <2>6, <2>11, <4>2 DEF SockJoined, SockSame, SockLive
      <4> QED
        BY <4>1, <4>2
    <3>2. ASSUME NEW q \in SockProcs(o), y.waiter[q] # S(o)!Idle PROVE q \in alive
      <4>1. x2.waiter[q] # S(o)!Idle
        BY <2>11, <3>2 DEF SockJoined
      <4>2. x1.waiter[q] # S(o)!Idle
        BY <1>19, <2>2, <2>5, <4>1, SockNowIs
      <4> QED
        BY <1>24, <4>2 DEF SockLive
    <3> QED
      BY <3>1, <3>2 DEF SockLive
  <2> QED
    BY <1>25, <2>11, <2>12, <2>13, <2>14
<1>27. CASE socks[l].accepts = <<>>
  <2>1. /\ Len(socks[l].pending) < SockBacklog
        /\ S(o)!Become([x1 EXCEPT !.socks[l].pending = Append(@, c)])
    BY <1>5, <1>6, <1>17, <1>27 DEF S!Connect
  <2>2. PICK q : q = Append(socks[l].pending, c)
    OBVIOUS
  <2>3. q \in Seq(S(o)!Conns) /\ Len(q) = Len(socks[l].pending) + 1
        /\ S(o)!Range(q) = S(o)!Range(socks[l].pending) \cup {c}
    <3>1. PICK u \in Seq(S(o)!Conns) : u = socks[l].pending
      BY <1>23
    <3>2. c \in S(o)!Conns
      BY <1>5
    <3>3. q = Append(u, c)
      BY <2>2, <3>1
    <3>4. SockLonger(o, u, c, q)
      BY <3>1, <3>2, <3>3, SockAppended
    <3> QED
      BY <3>1, <3>4 DEF SockLonger
  <2>4. Len(socks[l].pending) \in Nat
    BY <1>23
  <2>5. S(o)!Range(q) = S(o)!Range(socks[l].pending) \cup {c}
    BY <2>3
  <2>6. PICK j : j = [socks[l] EXCEPT !.pending = q]
    OBVIOUS
  <2>7. /\ j \in SockRecords(o) /\ j.st = "listening" /\ j.holders = socks[l].holders
        /\ j.rx = socks[l].rx /\ j.tx = socks[l].tx /\ j.pending = q /\ j.accepts = socks[l].accepts
    BY <1>22, <2>3, <2>6 DEF SockRecords
  <2>8. SockShape(o, j, c)
    <3>1. SockShape(o, socks[l], c)
      BY <1>12, SockNowIs DEF SockSound
    <3>2. Len(q) <= SockBacklog
      BY <2>1, <2>3, <2>4, SockBounds
    <3> QED
      BY <1>5, <1>22, <1>27, <2>5, <2>7, <3>1, <3>2 DEF SockShape
  <2>9. PICK sp : sp = [x1.socks EXCEPT ![l] = j]
    OBVIOUS
  <2>10. PICK y : y = [x1 EXCEPT !.socks = sp, !.bound = b]
    OBVIOUS
  <2>11. SockSound(o, y, c) /\ SockSwapped(o, x1, y, l, j)
    <3>1. j.accepts = x1.socks[l].accepts
      BY <1>22, <2>7
    <3>2. SockSound(o, x1, c)
      BY <1>18
    <3> QED
      BY <1>5, <2>7, <2>8, <2>9, <2>10, <3>1, <3>2, SockReplace
  <2>12. y = [x1 EXCEPT !.socks[l].pending = Append(@, c)]
    <3>1. x1 \in SockStates(o)
      BY <1>18 DEF SockSound
    <3>2. x1.bound = b
      BY <1>16 DEF S!Now
    <3> QED
      BY <1>22, <2>2, <2>6, <2>9, <2>10, <3>1, <3>2 DEF SockStates
  <2>13. \A t \in S(o)!Socks : /\ y.socks[t].rx = x1.socks[t].rx /\ y.socks[t].tx = x1.socks[t].tx
                               /\ y.socks[t].st = x1.socks[t].st
                                  /\ y.socks[t].holders = x1.socks[t].holders
                               /\ S(o)!Range(x1.socks[t].pending)
                                  \subseteq S(o)!Range(y.socks[t].pending)
    BY <1>22, <2>5, <2>7, <2>11 DEF SockSwapped
  <2>14. y.dirs = x1.dirs /\ y.waiter = x1.waiter
    BY <2>11 DEF SockSwapped
  <2>15. SockLinks(o, y, 1..m, 1..c)
    <3>1. ASSUME NEW e \in 1..m PROVE SockFar(o, y, e)
      <4>1. SockFar(o, x1, e)
        BY <1>21 DEF SockLinks
      <4> QED
        BY <2>13, <2>14, <4>1 DEF SockFar
    <3>2. ASSUME NEW e \in 1..c PROVE SockNear(o, y, e)
      <4>1. SockNear(o, x1, e)
        BY <1>21 DEF SockLinks
      <4> QED
        BY <2>13, <2>14, <4>1 DEF SockNear
    <3> QED
      BY <3>1, <3>2 DEF SockLinks
  <2>16. SockFar(o, y, c)
    BY <2>5, <2>7, <2>11 DEF SockFar, SockSwapped
  <2>17. SockLive(o, y, alive)
    BY <1>24, <2>13, <2>14 DEF SockLive
  <2>18. S(o)!Become(y)
    BY <2>1, <2>12
  <2> QED
    BY <1>25, <2>11, <2>15, <2>16, <2>17, <2>18
<1> QED
  BY <1>26, <1>27

-----------------------------------------------------------------------------
(* A step of the sockets                                                    *)

LEMMA SockNext ==
  ASSUME NEW o
  PROVE  SockInv(o) /\ (S(o)!Next \/ UNCHANGED S(o)!vars) => SockInv(o)'
<1> SUFFICES ASSUME SockInv(o), S(o)!Next \/ UNCHANGED S(o)!vars PROVE SockInv(o)'
  OBVIOUS
<1>1. CASE S(o)!Unlink
  BY <1>1, SockUnlink
<1>2. ASSUME NEW p \in SockProcs(o), S(o)!Socket(p) PROVE SockInv(o)'
  BY <1>2, SockSocket
<1>3. ASSUME NEW p \in SockProcs(o), S(o)!Interrupt(p) PROVE SockInv(o)'
  BY <1>3, SockInterrupt
<1>4. ASSUME NEW p \in SockProcs(o), S(o)!Die(p) PROVE SockInv(o)'
  BY <1>4, SockDie
<1>5. ASSUME NEW p \in SockProcs(o), NEW q \in SockProcs(o), S(o)!Spawn(p, q) PROVE SockInv(o)'
  BY <1>5, SockSpawn
<1>6. ASSUME NEW p \in SockProcs(o), NEW s \in S(o)!Socks, S(o)!Bind(p, s) PROVE SockInv(o)'
  BY <1>6, SockBind
<1>7. ASSUME NEW p \in SockProcs(o), NEW s \in S(o)!Socks, S(o)!Listen(p, s) PROVE SockInv(o)'
  BY <1>7, SockListen
<1>8. ASSUME NEW p \in SockProcs(o), NEW s \in S(o)!Socks, S(o)!Connect(p, s) PROVE SockInv(o)'
  BY <1>8, SockConnect
<1>9. ASSUME NEW p \in SockProcs(o), NEW s \in S(o)!Socks, S(o)!Accept(p, s) PROVE SockInv(o)'
  BY <1>9, SockAccept
<1>10. ASSUME NEW p \in SockProcs(o), NEW s \in S(o)!Socks, S(o)!Read(p, s) PROVE SockInv(o)'
  BY <1>10, SockRead
<1>11. ASSUME NEW p \in SockProcs(o), NEW s \in S(o)!Socks, S(o)!Write(p, s) PROVE SockInv(o)'
  BY <1>11, SockWrite
<1>12. ASSUME NEW p \in SockProcs(o), NEW s \in S(o)!Socks, S(o)!Close(p, s) PROVE SockInv(o)'
  BY <1>12, SockClose
<1>13. ASSUME NEW p \in SockProcs(o), NEW s \in S(o)!Socks, NEW how, S(o)!Shutdown(p, s, how)
              PROVE SockInv(o)'
  BY <1>13, SockShutdown
<1>14. CASE UNCHANGED S(o)!vars
  <2>1. UNCHANGED <<socks, dirs, waiter, alive, unborn, bound, node, conns>>
    BY <1>14 DEF S!vars
  <2>2. SockGood(o, S(o)!Now, conns)'
    BY <2>1 DEF SockInv, SockGood, SockSound, SockCalls, SockSettled, SockLinks, SockFar, SockNear,
       SockBooks, SockRegistered, S!Now
  <2> QED
    BY <2>1, <2>2 DEF SockInv
<1> QED
  BY <1>1, <1>2, <1>3, <1>4, <1>5, <1>6, <1>7, <1>8, <1>9, <1>10, <1>11, <1>12, <1>13,
     <1>14 DEF S!Next

LEMMA SockServer ==
  ASSUME NEW o
  PROVE  SockInv(o) => S(o)!AcceptorServed
<1> SUFFICES ASSUME SockInv(o), NEW p \in SockProcs(o), waiter[p].op = "accept"
             PROVE  socks[waiter[p].on].st = "listening" /\ socks[waiter[p].on].pending = <<>>
  BY DEF S!AcceptorServed
<1>1. waiter[p] \in SockWaits(o)
  BY SockNowIs
<1>2. PICK s \in S(o)!Socks : waiter[p] = [op |-> "accept", on |-> s]
  BY <1>1 DEF SockWaits, S!Idle
<1>3. waiter[p].on = s
  BY <1>2
<1>4. SockRegistered(o, socks[s].accepts, waiter, [op |-> "accept", on |-> s])
  BY SockNowIs DEF SockBooks
<1>5. p \in S(o)!Range(socks[s].accepts)
  BY <1>2, <1>4 DEF SockRegistered
<1>6. socks[s].accepts # <<>>
  BY <1>5 DEF S!Range
<1>7. SockShape(o, socks[s], conns)
  BY SockNowIs DEF SockInv, SockGood, SockSound
<1> QED
  BY <1>3, <1>6, <1>7 DEF SockShape

LEMMA SockPeers ==
  ASSUME NEW o
  PROVE  SockInv(o) => S(o)!PeerCanAnswer
<1> SUFFICES ASSUME SockInv(o), NEW p \in SockProcs(o), NEW c \in S(o)!Conns
             PROVE  LET far == S(o)!Queued(c) \/ S(o)!AtServer(c)
                    IN  /\ waiter[p] = [op |-> "read", on |-> S(o)!DownOf(c)] =>
                               far /\ dirs[S(o)!DownOf(c)].buf = 0 /\ dirs[S(o)!DownOf(c)].wOpen
                        /\ waiter[p] = [op |-> "write", on |-> S(o)!Up(c)] =>
                               far /\ dirs[S(o)!Up(c)].buf = SockCap /\ dirs[S(o)!Up(c)].rOpen
                        /\ waiter[p] = [op |-> "read", on |-> S(o)!Up(c)] =>
                               S(o)!AtClient(c) /\ dirs[S(o)!Up(c)].buf = 0 /\ dirs[S(o)!Up(c)].wOpen
                        /\ waiter[p] = [op |-> "write", on |-> S(o)!DownOf(c)] =>
                               S(o)!AtClient(c) /\ dirs[S(o)!DownOf(c)].buf = SockCap
                               /\ dirs[S(o)!DownOf(c)].rOpen
  BY DEF S!PeerCanAnswer
<1>1. S(o)!Up(c) \in S(o)!Dirs /\ S(o)!DownOf(c) \in S(o)!Dirs
  BY SockConns
<1>2. ASSUME NEW d \in S(o)!Dirs, waiter[p] = [op |-> "read", on |-> d]
      PROVE  dirs[d].buf = 0 /\ dirs[d].wOpen
  <2>1. SockRegistered(o, dirs[d].readers, waiter, [op |-> "read", on |-> d])
    BY SockNowIs DEF SockBooks
  <2>2. p \in S(o)!Range(dirs[d].readers)
    BY <1>2, <2>1 DEF SockRegistered
  <2>3. dirs[d].readers # <<>>
    BY <2>2 DEF S!Range
  <2>4. SockSettled(S(o)!Now, d)
    BY DEF SockInv, SockGood, SockSound
  <2> QED
    BY <2>3, <2>4, SockNowIs DEF SockSettled
<1>3. ASSUME NEW d \in S(o)!Dirs, waiter[p] = [op |-> "write", on |-> d]
      PROVE  dirs[d].buf = SockCap /\ dirs[d].rOpen
  <2>1. SockRegistered(o, dirs[d].writers, waiter, [op |-> "write", on |-> d])
    BY SockNowIs DEF SockBooks
  <2>2. p \in S(o)!Range(dirs[d].writers)
    BY <1>3, <2>1 DEF SockRegistered
  <2>3. dirs[d].writers # <<>>
    BY <2>2 DEF S!Range
  <2>4. SockSettled(S(o)!Now, d)
    BY DEF SockInv, SockGood, SockSound
  <2> QED
    BY <2>3, <2>4, SockNowIs DEF SockSettled
<1>4. ASSUME NEW d \in S(o)!Dirs, d \in {S(o)!Up(c), S(o)!DownOf(c)}, NEW op \in {"read", "write"},
             waiter[p] = [op |-> op, on |-> d]
      PROVE  SockFar(o, S(o)!Now, c) /\ SockNear(o, S(o)!Now, c)
  <2>1. d <= 2 * conns
    BY <1>4, SockNowIs DEF SockInv, SockGood, SockSound, SockCalls
  <2>2. c \in 1..conns
    BY <1>4, <2>1, SockNowIs, SockBounds DEF S!Up, S!DownOf, S!Conns
  <2> QED
    BY <2>2 DEF SockInv, SockGood, SockLinks
<1>5. SockFar(o, S(o)!Now, c) =>
        S(o)!Queued(c) \/ S(o)!AtServer(c) \/ (~dirs[S(o)!Up(c)].rOpen /\ ~dirs[S(o)!DownOf(c)].wOpen)
  BY SockNowIs DEF SockFar, S!Queued, S!AtServer
<1>6. SockNear(o, S(o)!Now, c) =>
        S(o)!AtClient(c) \/ (~dirs[S(o)!DownOf(c)].rOpen /\ ~dirs[S(o)!Up(c)].wOpen)
  BY SockNowIs DEF SockNear, S!AtClient
<1>7. waiter[p] = [op |-> "read", on |-> S(o)!DownOf(c)] =>
        (S(o)!Queued(c) \/ S(o)!AtServer(c)) /\ dirs[S(o)!DownOf(c)].buf = 0
        /\ dirs[S(o)!DownOf(c)].wOpen
  BY <1>1, <1>2, <1>4, <1>5
<1>8. waiter[p] = [op |-> "write", on |-> S(o)!Up(c)] =>
        (S(o)!Queued(c) \/ S(o)!AtServer(c)) /\ dirs[S(o)!Up(c)].buf = SockCap
        /\ dirs[S(o)!Up(c)].rOpen
  BY <1>1, <1>3, <1>4, <1>5
<1>9. waiter[p] = [op |-> "read", on |-> S(o)!Up(c)] =>
        S(o)!AtClient(c) /\ dirs[S(o)!Up(c)].buf = 0 /\ dirs[S(o)!Up(c)].wOpen
  BY <1>1, <1>2, <1>4, <1>6
<1>10. waiter[p] = [op |-> "write", on |-> S(o)!DownOf(c)] =>
        S(o)!AtClient(c) /\ dirs[S(o)!DownOf(c)].buf = SockCap /\ dirs[S(o)!DownOf(c)].rOpen
  BY <1>1, <1>3, <1>4, <1>6
<1> QED
  BY <1>7, <1>8, <1>9, <1>10

LEMMA SockTypeOK ==
  ASSUME NEW o
  PROVE  SockInv(o) => S(o)!TypeOK
<1> SUFFICES ASSUME SockInv(o) PROVE S(o)!TypeOK
  OBVIOUS
<1>1. ASSUME NEW s \in S(o)!Socks
      PROVE  /\ socks[s].st \in {"free", "fresh", "bound", "listening", "conn"}
             /\ socks[s].holders \subseteq alive
             /\ socks[s].st = "free" <=> socks[s].holders = {}
             /\ Len(socks[s].pending) <= SockBacklog /\ S(o)!IsInjective(socks[s].accepts)
  <2>1. socks[s] \in SockRecords(o)
    BY SockNowIs
  <2>2. SockShape(o, socks[s], conns)
    BY SockNowIs DEF SockInv, SockGood, SockSound
  <2>3. SockRegistered(o, socks[s].accepts, waiter, [op |-> "accept", on |-> s])
    BY SockNowIs DEF SockBooks
  <2> QED
    BY <2>1, <2>2, <2>3 DEF SockRecords, SockShape, SockRegistered, SockInv
<1>2. ASSUME NEW d \in S(o)!Dirs
      PROVE  dirs[d].buf \in 0..SockCap /\ S(o)!IsInjective(dirs[d].readers)
             /\ S(o)!IsInjective(dirs[d].writers)
  <2>1. dirs[d] \in SockDirs(o)
    BY SockNowIs
  <2>2. /\ SockRegistered(o, dirs[d].readers, waiter, [op |-> "read", on |-> d])
        /\ SockRegistered(o, dirs[d].writers, waiter, [op |-> "write", on |-> d])
    BY SockNowIs DEF SockBooks
  <2> QED
    BY <2>1, <2>2 DEF SockDirs, SockRegistered
<1>3. ASSUME NEW p \in SockProcs(o)
      PROVE  /\ waiter[p] # S(o)!Idle => p \in alive
             /\ \A s \in S(o)!Socks :
                 p \in S(o)!Range(socks[s].accepts) <=> waiter[p] = [op |-> "accept", on |-> s]
             /\ \A d \in S(o)!Dirs :
                 /\ p \in S(o)!Range(dirs[d].readers) <=> waiter[p] = [op |-> "read", on |-> d]
                 /\ p \in S(o)!Range(dirs[d].writers) <=> waiter[p] = [op |-> "write", on |-> d]
  BY SockNowIs DEF SockBooks, SockRegistered, SockInv
<1>4. alive \subseteq SockProcs(o) \ unborn /\ bound \in S(o)!Socks \cup {0} /\ node \in BOOLEAN
  BY SockNowIs DEF SockInv
<1> QED
  BY <1>1, <1>2, <1>3, <1>4 DEF S!TypeOK

----------------------------------------------------------------------------
(* The objects together                                                      *)

\* The watches that move are those of the object chosen at the start.
WatchesInv ==
  /\ object = "file" => WatchInv("file")
  /\ object # "file" => WatchInv("dir")

\* So are the sockets.
SocksInv ==
  /\ object = "queue" => SockInv("queue")
  /\ object # "queue" => SockInv("share")

ObjectsInv ==
  /\ object \in {"vdso", "dir", "file", "terminal", "close", "share", "queue"}
  /\ PageInv /\ CloseInv /\ WatchesInv /\ TermInv /\ SocksInv

LEMMA ObjectsInitInv == ObjectsInit => ObjectsInv
  BY PageInitInv, CloseInitInv, WatchInitInv, TermInitInv, SockInit
  DEF ObjectsInit, ObjectsInv, WatchesInv, SocksInv

everything == <<vars, object, watchVars, ttyVars, closeVars, sockVars>>

LEMMA ObjectsStepInv == ObjectsInv /\ [ObjectsNext]_everything => ObjectsInv'
<1> SUFFICES ASSUME ObjectsInv, [ObjectsNext]_everything PROVE ObjectsInv'
  OBVIOUS
<1>1. [Next]_vars
  BY DEF ObjectsNext, Still, everything
<1>2. PageInv'
  BY <1>1, PageStepInv DEF ObjectsInv
<1>3. C!Next \/ UNCHANGED closeVars
  BY DEF ObjectsNext, Still, everything
<1>4. CloseInv'
  BY <1>3, CloseStepInv, CloseStillInv DEF ObjectsInv, closeVars
<1>5. WatchesInv'
  <2>1. CASE object = "file"
    <3>1. W("file")!Next \/ UNCHANGED watchVars
      BY <2>1 DEF ObjectsNext, Still, everything
    <3>2. WatchInv("file") /\ object' = object
      BY <2>1 DEF ObjectsInv, WatchesInv, ObjectsNext, everything
    <3>3. WatchInv("file")'
      BY <3>1, <3>2, WatchNextInv, WatchStillInv DEF watchVars, W!vars
    <3> QED
      BY <2>1, <3>2, <3>3 DEF WatchesInv
  <2>2. CASE object # "file"
    <3>1. W("dir")!Next \/ UNCHANGED watchVars
      BY <2>2 DEF ObjectsNext, Still, everything
    <3>2. WatchInv("dir") /\ object' = object
      BY <2>2 DEF ObjectsInv, WatchesInv, ObjectsNext, everything
    <3>3. WatchInv("dir")'
      BY <3>1, <3>2, WatchNextInv, WatchStillInv DEF watchVars, W!vars
    <3> QED
      BY <2>2, <3>2, <3>3 DEF WatchesInv
  <2> QED
    BY <2>1, <2>2
<1>6. T!Next \/ UNCHANGED ttyVars
  BY DEF ObjectsNext, Still, everything
<1>7. TermInv'
  <2>1. TermInv
    BY DEF ObjectsInv
  <2> QED
    BY <1>6, <2>1, TermNextInv, TermStill DEF ttyVars, T!vars, T!procVars, T!lineVars
<1>8. SocksInv'
  <2>1. CASE object = "queue"
    <3>1. S("queue")!Next \/ UNCHANGED sockVars
      BY <2>1 DEF ObjectsNext, Still, everything
    <3>2. SockInv("queue") /\ object' = object
      BY <2>1 DEF ObjectsInv, SocksInv, ObjectsNext, everything
    <3>3. SockInv("queue")'
      BY <3>1, <3>2, SockNext DEF sockVars, S!vars
    <3> QED
      BY <2>1, <3>2, <3>3 DEF SocksInv
  <2>2. CASE object # "queue"
    <3>1. S("share")!Next \/ UNCHANGED sockVars
      BY <2>2 DEF ObjectsNext, Still, everything
    <3>2. SockInv("share") /\ object' = object
      BY <2>2 DEF ObjectsInv, SocksInv, ObjectsNext, everything
    <3>3. SockInv("share")'
      BY <3>1, <3>2, SockNext DEF sockVars, S!vars
    <3> QED
      BY <2>2, <3>2, <3>3 DEF SocksInv
  <2> QED
    BY <2>1, <2>2
<1>10. object' = object
  BY DEF ObjectsNext, everything
<1> QED
  BY <1>2, <1>4, <1>5, <1>7, <1>8, <1>10 DEF ObjectsInv

(* The invariant behind the theorems below.                                  *)
THEOREM Invariant == ObjectsSpec => []ObjectsInv
  BY ObjectsInitInv, ObjectsStepInv, PTL DEF ObjectsSpec, everything

(* The page, the sequence word and the reader keep their types.              *)
THEOREM PageTypeCorrect == ObjectsSpec => []TypeOK
<1>1. ObjectsInv => TypeOK
  BY DEF ObjectsInv, PageInv
<1> QED BY <1>1, Invariant, PTL

(* A successful read returns words of one publication (_vdsoRead, with the   *)
(* sequence word wrapping).                                                  *)
THEOREM SnapshotsArePublished == ObjectsSpec => []SnapshotIsPublished
<1>1. ObjectsInv => SnapshotIsPublished
  BY DEF ObjectsInv, PageInv, PageReadInv
<1> QED BY <1>1, Invariant, PTL

(* A read never returns facts older than those on the page when it began.    *)
THEOREM ReadsAreFresh == ObjectsSpec => []NeverOlder
<1>1. ObjectsInv => NeverOlder
  BY DEF ObjectsInv, PageInv, PageReadInv
<1> QED BY <1>1, Invariant, PTL

(* Whenever the kernel is between handlers the page shows its fields, so an  *)
(* answered setpgid, setsid or reparenting is visible.                       *)
THEOREM IdleKernelHasPublished == ObjectsSpec => []PublishedWhenIdle
<1>1. ObjectsInv => PublishedWhenIdle
  BY DEF ObjectsInv, PageInv, PageKernelInv, PublishedWhenIdle
<1> QED BY <1>1, Invariant, PTL

(* A process is killed for a close request only while its QUIT is unread,    *)
(* and let off only when it has read it (wmCloseRequest, _wmCloseWdPoll).    *)
THEOREM VerdictsAreRight == ObjectsSpec => []VerdictIsRight
<1>1. ObjectsInv => VerdictIsRight
  BY DEF ObjectsInv, CloseInv, VerdictIsRight, C!VerdictIsRight
<1> QED BY <1>1, Invariant, PTL

(* A consumer asleep on a watch has seen every settled content it watches,    *)
(* whatever the cap, the coalescing and the mask dropped (_watchQueue).       *)
THEOREM SleepersAreCurrent == ObjectsSpec => []SleeperIsCurrent
<1>1. ObjectsInv => SleeperIsCurrent
  BY WatchInvCurrent DEF ObjectsInv, WatchesInv, SleeperIsCurrent
<1> QED BY <1>1, Invariant, PTL

(* Whatever is erased, flushed or interrupted, what was typed and is neither *)
(* dropped nor still to come is read, once and in the order of the keys      *)
(* (Tty.input, _ttyNotify, TCSETATTR).                                       *)
THEOREM KeystrokesOnceInOrder == ObjectsSpec => []InputOnceInOrder
<1>1. ObjectsInv => InputOnceInOrder
  BY TermInvOnce DEF ObjectsInv, InputOnceInOrder
<1> QED BY <1>1, Invariant, PTL

(* No foreground reader sleeps beside input, an end of file or a hangup      *)
(* (_ttyNotify), whatever the groups, the dispositions and the stops.        *)
THEOREM ReadersAreServed == ObjectsSpec => []ReaderServed
<1>1. ObjectsInv => ReaderServed
  BY TermInvServed DEF ObjectsInv, ReaderServed
<1> QED BY <1>1, Invariant, PTL

(* A VEOF ends at most one read (_consumeEof).                               *)
THEOREM VEofsAreSpent == ObjectsSpec => []EofEndsOneRead
<1>1. ObjectsInv => EofEndsOneRead
  BY TermInvEofs DEF ObjectsInv, EofEndsOneRead
<1> QED BY <1>1, Invariant, PTL

(* No accept sleeps beside a queued connection, nor at a listener that is    *)
(* gone (SOCK_CONNECT, SOCK_ACCEPT, _ofdUnref).                              *)
THEOREM AcceptorsAreServed == ObjectsSpec => []AcceptorServed
<1>1. ObjectsInv => AcceptorServed
  BY SockServer DEF ObjectsInv, SocksInv, AcceptorServed
<1> QED BY <1>1, Invariant, PTL

(* A parked read or write has a far end that can answer it, through shutdowns,*)
(* listeners that close with connections queued, and deaths (_pipeNotify).   *)
THEOREM PeersCanAnswer == ObjectsSpec => []PeerCanAnswer
<1>1. ObjectsInv => PeerCanAnswer
  BY SockPeers DEF ObjectsInv, SocksInv, PeerCanAnswer
<1> QED BY <1>1, Invariant, PTL

(* The types of the object that moves, with what the types of the code hide: *)
(* a latched watch queue is empty, a process waits on a terminal once, a     *)
(* watchdog has a surface, a parked call is registered once, where it waits. *)
THEOREM ObjectsTypesHold == ObjectsSpec => []ObjectsTypeOK
<1>1. ObjectsInv => ObjectsTypeOK
  <2> SUFFICES ASSUME ObjectsInv PROVE ObjectsTypeOK
    OBVIOUS
  <2>1. TypeOK /\ T!TypeOK /\ C!TypeOK
    BY TermInvTypeOK, CloseTypesAre DEF ObjectsInv, PageInv
  <2>2. (object = "dir" => W("dir")!TypeOK) /\ (object = "file" => W("file")!TypeOK)
    BY WatchInvTypeOK DEF ObjectsInv, WatchesInv
  <2>3. (object = "share" => S("share")!TypeOK) /\ (object = "queue" => S("queue")!TypeOK)
    BY SockTypeOK DEF ObjectsInv, SocksInv
  <2>4. object \in {"vdso", "dir", "file", "terminal", "close", "share", "queue"}
    BY DEF ObjectsInv
  <2> QED
    BY <2>1, <2>2, <2>3, <2>4 DEF ObjectsTypeOK
<1> QED BY <1>1, Invariant, PTL
==============================================================================
