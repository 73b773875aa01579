--------------------------------- MODULE Vdso ---------------------------------
(* The published facts of a process (pid, ppid, pgid, sid, boot time, screen *)
(* size) on its kernel page, under a sequence lock: the kernel is the only   *)
(* writer, the process reads several words as one snapshot without a lock    *)
(* and asks the kernel when it cannot get one. The stores of a publication   *)
(* and the loads of a snapshot come in any order here, which includes the    *)
(* code's.                                                                   *)
EXTENDS Integers, FiniteSets

CONSTANTS
  Words,      \* the published words
  Changes,    \* the sets of words the kernel's handlers change together
  Snapshots,  \* the sets of words the process reads together
  Wrap,       \* number of values of the sequence word
  Tries,      \* attempts of a read
  Behind,     \* bound: bumps of the sequence word during one attempt
  MaxChanges  \* bound: changes

ASSUME VdsoAssumption ==
  /\ Changes \subseteq SUBSET Words /\ Snapshots \subseteq SUBSET Words
  /\ Wrap \in Nat /\ Wrap > 1 /\ Wrap % 2 = 0
  /\ Behind \in Nat /\ Behind < Wrap
  /\ Tries \in Nat /\ MaxChanges \in Nat

VARIABLES
  facts,   \* the kernel's own fields
  page,    \* the published words
  seq,     \* KP_VD_SEQ
  kpc,     \* kernel: "idle", "begin", "store"
  todo,    \* words this publication has still to store
  changes, \* changes so far
  pc,      \* process: "idle", "start", "load", "check", "done", "ask"
  want,    \* indices: the words being read
  s1,      \* the sequence word at the start of the attempt
  out,     \* what was loaded
  left,    \* words still to load
  tries,
  moved,   \* history: bumps of the sequence word since s1 was loaded
  snap,      \* history: the page when s1 was loaded
  asked,     \* history: the page when the read was called
  pubs       \* history: the pages published

kernelVars == <<facts, page, seq, kpc, todo, changes>>
readerVars == <<pc, want, s1, out, left, tries, snap, asked>>
vars == <<kernelVars, readerVars, moved, pubs>>

Values == [Words -> Nat]

\* Fault: the sequence word does not wrap.
BumpedOn(n) == n + 1

Bumped(n) == IF n + 1 = Wrap THEN 0 ELSE n + 1

\* The facts, the page, the sequence word and the reader's registers are what
\* their words can hold.
TypeOK ==
  /\ facts \in Values /\ page \in Values /\ out \in Values
  /\ snap \in Values /\ asked \in Values /\ pubs \subseteq Values
  /\ seq \in 0 .. (Wrap - 1) /\ s1 \in 0 .. (Wrap - 1)
  /\ kpc \in {"idle", "begin", "store"}
  /\ todo \in SUBSET Words /\ left \in SUBSET Words /\ want \in SUBSET Words
  /\ pc \in {"idle", "start", "load", "check", "done", "ask"}
  /\ tries \in Nat /\ changes \in Nat /\ moved \in 0 .. Behind

\* A fresh page, about to be published for the first time.
Init ==
  /\ facts = [w \in Words |-> 1] /\ page = [w \in Words |-> 0]
  /\ seq = 0 /\ kpc = "begin" /\ todo = {} /\ changes = 1
  /\ pc = "idle" /\ want = {} /\ s1 = 0 /\ left = {} /\ tries = 0
  /\ out = page /\ snap = page /\ asked = page /\ moved = 0
  /\ pubs = {}

Reading == pc \in {"load", "check"}
\* During an attempt the sequence word moves less often than it takes to wrap.
Moves == IF Reading THEN moved < Behind /\ moved' = moved + 1
         ELSE UNCHANGED moved

-----------------------------------------------------------------------------
(* The kernel. *)

\* setpgid, setsid, a reparenting, wmSetScreen: the handler's fields, then
\* _vdsoPublish in the same turn.
Change(S) ==
  /\ kpc = "idle" /\ changes < MaxChanges
  /\ changes' = changes + 1
  /\ facts' = [w \in Words |-> IF w \in S THEN changes' ELSE facts[w]]
  /\ kpc' = "begin"
  /\ UNCHANGED <<page, seq, todo, readerVars, moved, pubs>>

Publish ==
  /\ kpc = "begin"
  /\ seq' = Bumped(seq) /\ Moves
  /\ kpc' = "store" /\ todo' = Words
  /\ UNCHANGED <<facts, page, changes, readerVars, pubs>>

Store(w) ==
  /\ kpc = "store" /\ w \in todo
  /\ page' = [page EXCEPT ![w] = facts[w]]
  /\ todo' = todo \ {w}
  /\ UNCHANGED <<facts, seq, kpc, changes, readerVars, moved, pubs>>

Published ==
  /\ kpc = "store" /\ todo = {}
  /\ seq' = Bumped(seq) /\ Moves
  /\ kpc' = "idle"
  /\ pubs' = pubs \cup {page}
  /\ UNCHANGED <<facts, page, todo, changes, readerVars>>

-----------------------------------------------------------------------------
(* The process: _vdsoRead returns what it loaded, or null (it then asks the  *)
(* kernel).                                                                  *)

Read(I) ==
  /\ pc = "idle"
  /\ pc' = "start" /\ want' = I /\ tries' = 0 /\ asked' = page
  /\ UNCHANGED <<kernelVars, s1, out, left, moved, snap, pubs>>

\* Fault: out of attempts, the last loads are returned.
AttemptGivesLast ==
  /\ pc = "start"
  /\ IF tries = Tries \/ seq = 0
     THEN pc' = "done" /\ UNCHANGED <<s1, left, tries, moved, snap>>
     ELSE /\ tries' = tries + 1
          /\ IF seq % 2 = 1
             THEN UNCHANGED <<pc, s1, left, moved, snap>>
             ELSE /\ pc' = "load" /\ s1' = seq /\ left' = want
                  /\ moved' = 0 /\ snap' = page
  /\ UNCHANGED <<kernelVars, want, out, asked, pubs>>

Attempt ==
  /\ pc = "start"
  /\ IF tries = Tries \/ seq = 0
     THEN pc' = "ask" /\ UNCHANGED <<s1, left, tries, moved, snap>>
     ELSE /\ tries' = tries + 1
          /\ IF seq % 2 = 1
             THEN UNCHANGED <<pc, s1, left, moved, snap>>
             ELSE /\ pc' = "load" /\ s1' = seq /\ left' = want
                  /\ moved' = 0 /\ snap' = page
  /\ UNCHANGED <<kernelVars, want, out, asked, pubs>>

Load(w) ==
  /\ pc = "load" /\ w \in left
  /\ out' = [out EXCEPT ![w] = page[w]]
  /\ left' = left \ {w}
  /\ pc' = IF left' = {} THEN "check" ELSE "load"
  /\ UNCHANGED <<kernelVars, want, s1, tries, moved, snap, asked, pubs>>

Check ==
  /\ pc = "check"
  /\ pc' = IF seq = s1 THEN "done" ELSE "start"
  /\ UNCHANGED <<kernelVars, want, s1, out, left, tries, moved, snap, asked,
                 pubs>>

Return ==
  /\ pc \in {"done", "ask"} /\ pc' = "idle"
  /\ UNCHANGED <<kernelVars, want, s1, out, left, tries, moved, snap, asked,
                 pubs>>

Next ==
  \/ \E S \in Changes : Change(S)
  \/ Publish \/ Published \/ \E w \in Words : Store(w) \/ Load(w)
  \/ \E I \in Snapshots : Read(I)
  \/ Attempt \/ Check \/ Return

Spec == Init /\ [][Next]_vars

-----------------------------------------------------------------------------
(* A read that succeeds returns words of one publication: never the pid of  *)
(* one with the pgid of another, and never what the kernel had stored only  *)
(* a part of, wherever its stores fall between the reader's loads and when  *)
(* the sequence word wraps.                                                 *)
SnapshotIsPublished ==
  pc = "done" => \E p \in pubs : \A w \in want : out[w] = p[w]

(* A read returns nothing older than what was published when it was called: *)
(* values count changes here. A process that saw a fact never reads back a  *)
(* past one.                                                                *)
NeverOlder == pc = "done" => \A w \in want : out[w] >= asked[w]

(* Between its handlers the kernel has published everything it changed, so a *)
(* process that was answered a setpgid or setsid reads its own change.       *)
PublishedWhenIdle == kpc = "idle" => page = facts
=============================================================================
