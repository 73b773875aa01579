--------------------------- MODULE ExecutionProofs ---------------------------
(* The exit event of an execution is final, for any executions, streams and  *)
(* lengths of the timers.                                                    *)
(*                                                                           *)
(* The argument: until an execution is done, what its group wrote was taken  *)
(* from the pipes or is still in them, and no exit event exists; only a live *)
(* execution has timers, so the last drain or the leak timer posts the one   *)
(* event and nothing comes after it.  An abort that overtook the spawn is    *)
(* remembered until the shell is there, and then is the cause.               *)
EXTENDS Execution, TLAPS

TypeOK ==
  /\ phase \in [Ids -> {"idle", "opening", "failed", "live", "done"}]
  /\ stopping \in [Ids -> {None, "abort", "timeout"}]
  /\ root \in [Ids -> {None, "exit", "signal"}]
  /\ timer \in [Ids -> [Kinds -> Int]] /\ forget \in [Ids -> Int]
  /\ {sent, total, buf, wrote} \subseteq [Ids -> [Streams -> Nat]]
  /\ group \in [Ids -> SUBSET Members]
  /\ aborted \in [Ids -> {"no", "yes", "dropped"}]
  /\ exits = [i \in Ids |-> exits[i]]

\* What the group wrote was taken or is in the pipes.
InPipes == \A i \in Ids : phase[i] # "done" =>
  \A s \in Streams : wrote[i][s] = total[i][s] + buf[i][s]

\* Timers run, and an exit is posted, only where they may.
TimersOfLive == \A i \in Ids : phase[i] # "live" => timer[i] = Idle
ExitWhenDone == \A i \in Ids : phase[i] # "done" => exits[i] = {}

\* An acknowledged abort waits for the shell or ends it.
AbortRemembered == \A i \in Ids : aborted[i] = "yes" =>
  /\ phase[i] \in {"idle", "opening"} => forget[i] # Off
  /\ phase[i] = "live" => stopping[i] # None

IInv == TypeOK /\ InPipes /\ TimersOfLive /\ ExitWhenDone /\ AbortRemembered /\ ExitIsFinal

----------------------------------------------------------------------------
LEMMA OffValue == Off \in Int /\ Off < 0 /\ Off + 1 = 0
  BY DEF Off

LEMMA Names == None \notin {"abort", "timeout", "exit", "signal", "leaked-group"}
  BY DEF None

LEMMA DownOff == ASSUME NEW n \in Int PROVE Down(n) \in Int /\ (Down(n) = Off <=> n = Off)
  BY OffValue DEF Down

LEMMA SetTimer ==
  ASSUME NEW f \in [Kinds -> Int], NEW k, NEW n \in Int
  PROVE  [f EXCEPT ![k] = n] \in [Kinds -> Int]
  OBVIOUS

LEMMA IdleTimers == Idle \in [Kinds -> Int] /\ \A k \in Kinds : Idle[k] = Off
  BY OffValue DEF Idle

\* Taking a chunk moves bytes from the pipes to the totals.
LEMMA TakenMoves ==
  ASSUME TypeOK, NEW i \in Ids
  PROVE  /\ {Taken(i), Totals(i), SentNow(i), Rest(i)} \subseteq [Streams -> Nat]
         /\ \A s \in Streams : Totals(i)[s] + Rest(i)[s] = total[i][s] + buf[i][s]
<1> DEFINE t == Taken(i)
<1>1. \A s \in Streams : /\ buf[i][s] \in Nat /\ total[i][s] \in Nat /\ sent[i][s] \in Nat
  BY DEF TypeOK
<1>2. Chunk \in Nat /\ Cap \in Nat
  BY ExecutionAssumption
<1>3. t = [s \in Streams |-> Least(Chunk, buf[i][s])]
  BY DEF Taken
<1>4. \A s \in Streams : t[s] \in Nat /\ buf[i][s] - t[s] \in Nat
  BY <1>1, <1>2, <1>3 DEF Least
<1>5. t \in [Streams -> Nat]
  BY <1>3, <1>4
<1>6. /\ Totals(i) = [s \in Streams |-> total[i][s] + t[s]]
      /\ SentNow(i) = [s \in Streams |-> Least(Cap, sent[i][s] + t[s])]
      /\ Rest(i) = [s \in Streams |-> buf[i][s] - t[s]]
  BY DEF Totals, SentNow, Rest
<1> HIDE DEF t
<1>7. Totals(i) \in [Streams -> Nat] /\ Rest(i) \in [Streams -> Nat]
  BY <1>1, <1>4, <1>6
<1>8. \A s \in Streams : Least(Cap, sent[i][s] + t[s]) \in Nat
  BY <1>1, <1>2, <1>4 DEF Least
<1>9. SentNow(i) \in [Streams -> Nat]
  BY <1>6, <1>8
<1>10. \A s \in Streams : Totals(i)[s] + Rest(i)[s] = total[i][s] + buf[i][s]
  BY <1>1, <1>4, <1>6
<1> QED
  BY <1>5, <1>7, <1>9, <1>10 DEF t

----------------------------------------------------------------------------
(* The program's steps move no exit.                                         *)

\* The fields an exit event is judged by; the group of a finished execution is
\* free to change.
LEMMA SameExits ==
  ASSUME ExitIsFinal, UNCHANGED <<exits, total, sent>>,
         \A i \in Ids : root[i] # None => root'[i] # None
  PROVE  ExitIsFinal'
  BY DEF ExitIsFinal

LEMMA InitInv == Init => IInv
<1> SUFFICES ASSUME Init PROVE IInv
  OBVIOUS
<1>1. Zero \in [Streams -> Nat] /\ \A s \in Streams : Zero[s] = 0
  BY DEF Zero
<1>2. TypeOK
  <2>1. phase \in [Ids -> {"idle", "opening", "failed", "live", "done"}]
        /\ stopping \in [Ids -> {None, "abort", "timeout"}]
        /\ root \in [Ids -> {None, "exit", "signal"}]
        /\ group \in [Ids -> SUBSET Members] /\ aborted \in [Ids -> {"no", "yes", "dropped"}]
    BY DEF Init
  <2>2. timer \in [Ids -> [Kinds -> Int]] /\ forget \in [Ids -> Int]
    BY IdleTimers, OffValue DEF Init
  <2>3. {sent, total, buf, wrote} \subseteq [Ids -> [Streams -> Nat]]
    BY <1>1 DEF Init
  <2>4. exits = [i \in Ids |-> exits[i]]
    BY DEF Init
  <2> QED
    BY <2>1, <2>2, <2>3, <2>4 DEF TypeOK
<1>3. InPipes
  BY <1>1 DEF Init, InPipes
<1>4. TimersOfLive /\ ExitWhenDone /\ AbortRemembered /\ ExitIsFinal
  BY DEF Init, TimersOfLive, ExitWhenDone, AbortRemembered, ExitIsFinal
<1> QED
  BY <1>2, <1>3, <1>4 DEF IInv

\* Members of the group die.
LEMMA ReapedKeeps ==
  ASSUME TypeOK, NEW i \in Ids, NEW gone, NEW how \in {"exit", "signal"}, Reaped(i, gone, how)
  PROVE  /\ group' \in [Ids -> SUBSET Members]
         /\ root' \in [Ids -> {None, "exit", "signal"}]
         /\ \A j \in Ids : root[j] # None => root'[j] # None
  BY Names DEF TypeOK, Reaped

LEMMA GroupInv == ASSUME IInv, NEW i \in Ids, Group(i) PROVE IInv'
<1>1. UNCHANGED <<phase, stopping, timer, forget, sent, total, aborted, exits>>
  BY DEF Group, Write, Exit, Fork, Forked
<1>2. CASE \E s \in Streams : Write(i, s)
  <2> PICK s \in Streams : Write(i, s)
    BY <1>2
  <2>1. /\ UNCHANGED <<root, group>>
        /\ buf' = [buf EXCEPT ![i] = [buf[i] EXCEPT ![s] = buf[i][s] + 1]]
        /\ wrote' = [wrote EXCEPT ![i] = [wrote[i] EXCEPT ![s] = wrote[i][s] + 1]]
    BY DEF Write
  <2>2. /\ buf[i] \in [Streams -> Nat] /\ wrote[i] \in [Streams -> Nat]
    BY DEF IInv, TypeOK
  <2>3. /\ [buf[i] EXCEPT ![s] = buf[i][s] + 1] \in [Streams -> Nat]
        /\ [wrote[i] EXCEPT ![s] = wrote[i][s] + 1] \in [Streams -> Nat]
    BY <2>2
  <2>4. buf' \in [Ids -> [Streams -> Nat]] /\ wrote' \in [Ids -> [Streams -> Nat]]
    BY <2>1, <2>3 DEF IInv, TypeOK
  <2>5. TypeOK'
    BY <1>1, <2>1, <2>4 DEF IInv, TypeOK
  <2>6. InPipes'
    <3> SUFFICES ASSUME NEW j \in Ids, phase[j] # "done", NEW z \in Streams
        PROVE  wrote'[j][z] = total[j][z] + buf'[j][z]
      BY <1>1 DEF InPipes
    <3>1. wrote[j][z] = total[j][z] + buf[j][z]
      BY DEF IInv, InPipes
    <3>2. wrote[j][z] \in Nat /\ total[j][z] \in Nat /\ buf[j][z] \in Nat
      BY DEF IInv, TypeOK
    <3>3. \/ wrote'[j][z] = wrote[j][z] /\ buf'[j][z] = buf[j][z]
          \/ wrote'[j][z] = wrote[j][z] + 1 /\ buf'[j][z] = buf[j][z] + 1
      BY <2>1, <2>2 DEF IInv, TypeOK
    <3> QED
      BY <3>1, <3>2, <3>3
  <2> QED
    BY <1>1, <2>1, <2>5, <2>6, SameExits
       DEF IInv, TimersOfLive, ExitWhenDone, AbortRemembered
<1>3. CASE ~\E s \in Streams : Write(i, s)
  <2>1. UNCHANGED <<buf, wrote>>
    BY <1>3 DEF Group, Exit, Fork, Forked
  <2>2. /\ group' \in [Ids -> SUBSET Members]
        /\ root' \in [Ids -> {None, "exit", "signal"}]
        /\ \A j \in Ids : root[j] # None => root'[j] # None
    <3>1. CASE \E p \in Members : Exit(i, p)
      <4> PICK p \in Members : Reaped(i, {p}, "exit")
        BY <3>1 DEF Exit
      <4> QED
        BY ReapedKeeps DEF IInv
    <3>2. CASE Fork(i)
      BY <3>2 DEF Fork, IInv, TypeOK
    <3>3. CASE \E ok \in BOOLEAN : Forked(i, ok)
      <4>1. group' = group \/ group' = [group EXCEPT ![i] = group[i] \cup {"child"}]
        BY <3>3 DEF Forked
      <4>2. group \in [Ids -> SUBSET Members] /\ "child" \in Members
        BY DEF IInv, TypeOK, Members
      <4>3. group' \in [Ids -> SUBSET Members]
        BY <4>1, <4>2
      <4> QED
        BY <3>3, <4>3 DEF Forked, IInv, TypeOK
    <3> QED
      BY <1>3, <3>1, <3>2, <3>3 DEF Group
  <2>3. TypeOK'
    BY <1>1, <2>1, <2>2 DEF IInv, TypeOK
  <2> QED
    BY <1>1, <2>1, <2>2, <2>3, SameExits
       DEF IInv, InPipes, TimersOfLive, ExitWhenDone, AbortRemembered
<1> QED
  BY <1>2, <1>3

----------------------------------------------------------------------------
(* The end of an execution.                                                  *)

\* The one exit event says what is true when it is posted and stays true.
LEMMA FinishInv ==
  ASSUME IInv, NEW i \in Ids, NEW status \in {None, "exit", "signal"},
         NEW override \in {None, "leaked-group"}, NEW left,
         Finish(i, status, override, left),
         phase[i] = "live", left = group[i],
         override = None => root[i] # None /\ status = root[i] /\ Rest(i) = Zero,
         UNCHANGED <<stopping, root, forget, group, wrote, aborted>>
  PROVE  IInv'
<1> DEFINE e == ExitEvent(i, status, override, left)
<1>1. /\ phase' = [phase EXCEPT ![i] = "done"] /\ timer' = [timer EXCEPT ![i] = Idle]
      /\ sent' = [sent EXCEPT ![i] = SentNow(i)] /\ total' = [total EXCEPT ![i] = Totals(i)]
      /\ buf' = [buf EXCEPT ![i] = Zero] /\ exits' = [exits EXCEPT ![i] = exits[i] \cup {e}]
  BY DEF Finish
<1>2. TypeOK'
  <2>1. /\ phase' \in [Ids -> {"idle", "opening", "failed", "live", "done"}]
        /\ timer' \in [Ids -> [Kinds -> Int]]
    BY <1>1, IdleTimers DEF IInv, TypeOK
  <2>2. Zero \in [Streams -> Nat]
    BY DEF Zero
  <2>3. {sent', total', buf', wrote'} \subseteq [Ids -> [Streams -> Nat]]
    BY <1>1, <2>2, TakenMoves DEF IInv, TypeOK
  <2>4. exits' = [j \in Ids |-> exits'[j]]
    BY <1>1 DEF IInv, TypeOK
  <2> QED
    BY <2>1, <2>3, <2>4 DEF IInv, TypeOK
<1>3. InPipes' /\ TimersOfLive' /\ ExitWhenDone' /\ AbortRemembered'
  BY <1>1 DEF IInv, TypeOK, InPipes, TimersOfLive, ExitWhenDone, AbortRemembered
<1>4. exits'[i] = {e}
  BY <1>1 DEF IInv, TypeOK, ExitWhenDone
<1>5. /\ e.left = left /\ e.alive = group[i] /\ e.aborted = (aborted[i] = "yes")
      /\ e.cause = IF override # None THEN override
                   ELSE IF stopping[i] # None THEN stopping[i] ELSE status
      /\ e.truncated = (\E s \in Streams : Totals(i)[s] > SentNow(i)[s])
      /\ e.lost = {s \in Streams : wrote[i][s] > Totals(i)[s]}
  BY DEF ExitEvent
<1> HIDE DEF e
<1>6. e.cause # "leaked-group" => override = None
  BY <1>5, Names
<1>7. override = None => e.lost = {}
  <2> SUFFICES ASSUME override = None, NEW s \in Streams PROVE ~(wrote[i][s] > Totals(i)[s])
    BY <1>5
  <2>1. wrote[i][s] = total[i][s] + buf[i][s]
    BY DEF IInv, InPipes
  <2>2. Rest(i)[s] = 0
    BY DEF Zero
  <2>3. Totals(i)[s] + Rest(i)[s] = total[i][s] + buf[i][s] /\ Totals(i)[s] \in Nat
    BY TakenMoves DEF IInv
  <2> QED
    BY <2>1, <2>2, <2>3
<1>8. e.aborted => e.cause \notin {"exit", "signal"}
  <2> SUFFICES ASSUME aborted[i] = "yes" PROVE e.cause \notin {"exit", "signal"}
    BY <1>5
  <2>1. stopping[i] \in {"abort", "timeout"}
    BY DEF IInv, TypeOK, AbortRemembered
  <2> QED
    BY <1>5, <2>1, Names
<1>9. e.truncated <=> \E s \in Streams : total'[i][s] > sent'[i][s]
  BY <1>1, <1>5 DEF IInv, TypeOK
<1>10. ExitIsFinal'
  <2> SUFFICES ASSUME NEW j \in Ids, NEW x \in exits'[j]
      PROVE  /\ x.alive = x.left
             /\ x.cause # "leaked-group" => root[j] # None /\ x.lost = {}
             /\ x.truncated <=> \E s \in Streams : total'[j][s] > sent'[j][s]
             /\ x.aborted => x.cause \notin {"exit", "signal"}
    BY DEF ExitIsFinal
  <2>1. CASE j = i
    BY <1>4, <1>5, <1>6, <1>7, <1>8, <1>9, <2>1
  <2>2. CASE j # i
    <3>1. exits'[j] = exits[j] /\ total'[j] = total[j] /\ sent'[j] = sent[j]
      BY <1>1, <2>2 DEF IInv, TypeOK
    <3> QED
      BY <3>1 DEF IInv, ExitIsFinal
  <2> QED
    BY <2>1, <2>2
<1> QED
  BY <1>2, <1>3, <1>10 DEF IInv

LEMMA DrainInv == ASSUME IInv, NEW i \in Ids, Drain(i) PROVE IInv'
<1>1. /\ phase[i] = "live"
      /\ UNCHANGED <<stopping, root, forget, group, wrote, aborted>>
  BY DEF Drain, groupVars
<1>2. CASE Over(i)
  <2>1. Finish(i, root[i], None, {})
    BY <1>2 DEF Drain
  <2>2. root[i] # None /\ group[i] = {} /\ Rest(i) = Zero
    BY <1>2 DEF Over
  <2>3. root[i] \in {None, "exit", "signal"}
    BY DEF IInv, TypeOK
  <2> QED
    BY <1>1, <2>1, <2>2, <2>3, FinishInv
<1>3. CASE ~Over(i)
  <2>1. /\ sent' = [sent EXCEPT ![i] = SentNow(i)] /\ total' = [total EXCEPT ![i] = Totals(i)]
        /\ buf' = [buf EXCEPT ![i] = Rest(i)]
        /\ timer' = [timer EXCEPT ![i] = [timer[i] EXCEPT !["drain"] = 1]]
        /\ UNCHANGED <<phase, exits>>
    BY <1>3 DEF Drain
  <2>2. TypeOK'
    <3>1. {sent', total', buf', wrote'} \subseteq [Ids -> [Streams -> Nat]]
      BY <1>1, <2>1, TakenMoves DEF IInv, TypeOK
    <3>2. timer[i] \in [Kinds -> Int]
      BY DEF IInv, TypeOK
    <3>3. [timer[i] EXCEPT !["drain"] = 1] \in [Kinds -> Int]
      BY <3>2, SetTimer
    <3>4. timer' \in [Ids -> [Kinds -> Int]]
      BY <2>1, <3>3 DEF IInv, TypeOK
    <3> QED
      BY <1>1, <2>1, <3>1, <3>4 DEF IInv, TypeOK
  <2>3. InPipes'
    <3> SUFFICES ASSUME NEW j \in Ids, phase[j] # "done", NEW s \in Streams
        PROVE  wrote[j][s] = total'[j][s] + buf'[j][s]
      BY <1>1, <2>1 DEF InPipes
    <3>1. wrote[j][s] = total[j][s] + buf[j][s]
      BY DEF IInv, InPipes
    <3>2. CASE j = i
      <4>1. total'[j] = Totals(i) /\ buf'[j] = Rest(i)
        BY <2>1, <3>2 DEF IInv, TypeOK
      <4>2. Totals(i)[s] + Rest(i)[s] = total[i][s] + buf[i][s]
        BY TakenMoves DEF IInv
      <4> QED
        BY <3>1, <3>2, <4>1, <4>2
    <3>3. CASE j # i
      BY <2>1, <3>1, <3>3 DEF IInv, TypeOK
    <3> QED
      BY <3>2, <3>3
  <2>4. TimersOfLive' /\ ExitWhenDone' /\ AbortRemembered'
    BY <1>1, <2>1 DEF IInv, TypeOK, TimersOfLive, ExitWhenDone, AbortRemembered
  <2>5. ExitIsFinal'
    <3>1. exits[i] = {}
      BY <1>1 DEF IInv, ExitWhenDone
    <3>2. \A j \in Ids : j # i => total'[j] = total[j] /\ sent'[j] = sent[j]
      BY <2>1 DEF IInv, TypeOK
    <3> QED
      BY <1>1, <2>1, <3>1, <3>2 DEF IInv, ExitIsFinal
  <2> QED
    BY <2>2, <2>3, <2>4, <2>5 DEF IInv
<1> QED
  BY <1>2, <1>3

LEMMA LeakTimerInv == ASSUME IInv, NEW i \in Ids, LeakTimer(i) PROVE IInv'
<1>1. "leak" \in Kinds /\ "drain" \in Kinds /\ "kill" \in Kinds /\ "timeout" \in Kinds
  BY DEF Kinds
<1>2. timer[i]["leak"] # Off
  BY OffValue DEF LeakTimer
<1>3. phase[i] = "live"
  BY <1>1, <1>2, IdleTimers DEF IInv, TimersOfLive
<1>4. UNCHANGED <<stopping, root, forget, group, wrote, aborted>>
  BY DEF LeakTimer, groupVars
<1>5. CASE group[i] # {}
  <2>1. Finish(i, None, "leaked-group", group[i])
    BY <1>5 DEF LeakTimer
  <2>2. "leaked-group" # None
    BY Names
  <2> QED
    BY <1>3, <1>4, <2>1, <2>2, FinishInv
<1>6. CASE group[i] = {}
  <2>1. /\ timer' = [timer EXCEPT ![i] = [timer[i] EXCEPT !["leak"] = Off]]
        /\ UNCHANGED <<phase, sent, total, buf, exits>>
    BY <1>6 DEF LeakTimer
  <2>2. timer' \in [Ids -> [Kinds -> Int]]
    BY <2>1, OffValue DEF IInv, TypeOK
  <2>3. TypeOK' /\ TimersOfLive'
    BY <1>3, <1>4, <2>1, <2>2 DEF IInv, TypeOK, TimersOfLive
  <2> QED
    BY <1>4, <2>1, <2>3, SameExits DEF IInv, InPipes, ExitWhenDone, AbortRemembered
<1> QED
  BY <1>5, <1>6

----------------------------------------------------------------------------
(* Steps that move no bytes.                                                 *)

\* What such a step must keep.
LEMMA NoBytes ==
  ASSUME IInv, UNCHANGED <<sent, total, buf, wrote, exits>>, TypeOK',
         \A i \in Ids : root[i] # None => root'[i] # None,
         \A i \in Ids : phase[i] = "done" <=> phase'[i] = "done",
         TimersOfLive', AbortRemembered'
  PROVE  IInv'
  BY SameExits DEF IInv, InPipes, ExitWhenDone

LEMMA StartInv ==
  ASSUME IInv, NEW i \in Ids, Start(i) \/ StartFails(i)
  PROVE  IInv'
<1>1. /\ phase[i] \in {"idle", "opening"}
      /\ \/ phase' = [phase EXCEPT ![i] = "opening"]
         \/ phase' = [phase EXCEPT ![i] = "failed"]
      /\ UNCHANGED <<stopping, root, timer, forget, sent, total, group, wrote, buf, aborted, exits>>
  BY DEF Start, StartFails, groupVars
<1>2. TypeOK' /\ TimersOfLive' /\ AbortRemembered'
  BY <1>1, ZenonT(60) DEF IInv, TypeOK, TimersOfLive, AbortRemembered
<1>3. \A j \in Ids : phase[j] = "done" <=> phase'[j] = "done"
  BY <1>1 DEF IInv, TypeOK
<1> QED
  BY <1>1, <1>2, <1>3, NoBytes

LEMMA OpenedInv == ASSUME IInv, NEW i \in Ids, NEW t \in Timeouts, Opened(i, t) PROVE IInv'
<1>1. /\ phase[i] = "opening" /\ phase' = [phase EXCEPT ![i] = "live"]
      /\ forget' = [forget EXCEPT ![i] = Off]
      /\ UNCHANGED <<sent, total, wrote, buf, aborted, exits>>
  BY DEF Opened, groupVars
<1>2. t \in Int /\ KillTicks \in Int
  BY ExecutionAssumption
<1>3. /\ stopping' \in [Ids -> {None, "abort", "timeout"}]
      /\ \A j \in Ids : j # i => stopping'[j] = stopping[j]
      /\ forget[i] # Off => stopping'[i] = "abort"
  BY DEF Opened, IInv, TypeOK
<1>4. /\ timer' \in [Ids -> [Kinds -> Int]]
      /\ \A j \in Ids : j # i => timer'[j] = timer[j]
  <2>1. PICK f : f \in [Kinds -> Int] /\ timer' = [timer EXCEPT ![i] = f]
    <3> DEFINE f1 == [Idle EXCEPT !["timeout"] = t, !["drain"] = 1, !["kill"] = KillTicks]
               f2 == [Idle EXCEPT !["timeout"] = t, !["drain"] = 1]
    <3>1. f1 \in [Kinds -> Int] /\ f2 \in [Kinds -> Int]
      <4> DEFINE a == [Idle EXCEPT !["timeout"] = t]
                 b == [a EXCEPT !["drain"] = 1]
      <4>1. a \in [Kinds -> Int]
        BY <1>2, IdleTimers, SetTimer
      <4> HIDE DEF a
      <4>2. b \in [Kinds -> Int]
        BY <4>1, SetTimer
      <4>3. f2 = b
        BY DEF a
      <4> HIDE DEF b
      <4>4. [b EXCEPT !["kill"] = KillTicks] \in [Kinds -> Int]
        BY <1>2, <4>2, SetTimer
      <4>5. f1 = [b EXCEPT !["kill"] = KillTicks]
        BY DEF a, b
      <4> QED
        BY <4>2, <4>3, <4>4, <4>5
    <3>2. timer' = [timer EXCEPT ![i] = f1] \/ timer' = [timer EXCEPT ![i] = f2]
      BY DEF Opened
    <3> QED
      BY <3>1, <3>2
  <2> QED
    BY <2>1 DEF IInv, TypeOK
<1>5. /\ group' \in [Ids -> SUBSET Members]
      /\ root' \in [Ids -> {None, "exit", "signal"}]
      /\ \A j \in Ids : root[j] # None => root'[j] # None
  <2>1. {"shell"} \subseteq Members
    BY DEF Members
  <2>2. CASE forget[i] # Off
    <3> PICK gone \in SUBSET {"shell"} :
             /\ group' = [group EXCEPT ![i] = {"shell"} \ gone]
             /\ root' = IF gone = {} THEN root ELSE [root EXCEPT ![i] = "signal"]
      BY <2>2 DEF Opened
    <3> QED
      BY <2>1, Names DEF IInv, TypeOK
  <2>3. CASE forget[i] = Off
    BY <2>1, <2>3 DEF Opened, IInv, TypeOK
  <2> QED
    BY <2>2, <2>3
<1>6. TypeOK'
  <2>1. phase' \in [Ids -> {"idle", "opening", "failed", "live", "done"}]
        /\ forget' \in [Ids -> Int]
    BY <1>1, OffValue DEF IInv, TypeOK
  <2> QED
    BY <1>1, <1>3, <1>4, <1>5, <2>1 DEF IInv, TypeOK
<1>7. \A j \in Ids : j # i => phase'[j] = phase[j] /\ forget'[j] = forget[j]
  BY <1>1 DEF IInv, TypeOK
<1>8. phase'[i] = "live"
  BY <1>1 DEF IInv, TypeOK
<1>9. TimersOfLive'
  BY <1>4, <1>7, <1>8 DEF IInv, TimersOfLive
<1>10. AbortRemembered'
  BY <1>1, <1>3, <1>7, <1>8, Names DEF IInv, AbortRemembered
<1>11. \A j \in Ids : phase[j] = "done" <=> phase'[j] = "done"
  BY <1>1, <1>7, <1>8
<1> QED
  BY <1>1, <1>5, <1>6, <1>9, <1>10, <1>11, NoBytes

\* A cause, once noted, stays; the timers stay those of a live execution.
LEMMA SignalKeeps ==
  ASSUME TypeOK, NEW i \in Ids, NEW cause \in {"abort", "timeout"},
         NEW ts \in [Kinds -> Int], Signal(i, cause, ts)
  PROVE  /\ stopping' \in [Ids -> {None, "abort", "timeout"}]
         /\ stopping'[i] # None /\ \A j \in Ids : stopping[j] # None => stopping'[j] # None
         /\ timer' \in [Ids -> [Kinds -> Int]]
         /\ \A j \in Ids : j # i => timer'[j] = timer[j]
         /\ group' \in [Ids -> SUBSET Members]
         /\ root' \in [Ids -> {None, "exit", "signal"}]
         /\ \A j \in Ids : root[j] # None => root'[j] # None
<1>1. KillTicks \in Int
  BY ExecutionAssumption
<1>2. CASE stopping[i] # None
  BY <1>2 DEF Signal, TypeOK
<1>3. CASE stopping[i] = None
  <2>1. stopping' = [stopping EXCEPT ![i] = cause]
        /\ timer' = [timer EXCEPT ![i] = [ts EXCEPT !["kill"] = KillTicks]] /\ Term(i)
    BY <1>3 DEF Signal
  <2>2. PICK gone \in SUBSET group[i] : Reaped(i, gone, "signal")
    BY <2>1 DEF Term
  <2>3. [ts EXCEPT !["kill"] = KillTicks] \in [Kinds -> Int]
    BY <1>1
  <2>4. /\ timer' \in [Ids -> [Kinds -> Int]]
        /\ \A j \in Ids : j # i => timer'[j] = timer[j]
    BY <2>1, <2>3 DEF TypeOK
  <2>5. /\ stopping' \in [Ids -> {None, "abort", "timeout"}]
        /\ stopping'[i] # None /\ \A j \in Ids : stopping[j] # None => stopping'[j] # None
    BY <2>1, Names DEF TypeOK
  <2> QED
    BY <2>2, <2>4, <2>5, ReapedKeeps
<1> QED
  BY <1>2, <1>3

LEMMA AbortInv == ASSUME IInv, NEW i \in Ids, Abort(i) PROVE IInv'
<1>1. /\ aborted' = [aborted EXCEPT ![i] = "yes"]
      /\ UNCHANGED <<phase, sent, total, wrote, buf, exits>>
  BY DEF Abort, groupVars
<1>2. aborted' \in [Ids -> {"no", "yes", "dropped"}]
      /\ \A j \in Ids : j # i => aborted'[j] = aborted[j]
  BY <1>1 DEF IInv, TypeOK
<1>3. CASE phase[i] = "live"
  <2>1. Signal(i, "abort", timer[i]) /\ forget' = forget
    BY <1>3 DEF Abort
  <2>2. timer[i] \in [Kinds -> Int]
    BY DEF IInv, TypeOK
  <2>3. /\ stopping' \in [Ids -> {None, "abort", "timeout"}]
        /\ stopping'[i] # None /\ \A j \in Ids : stopping[j] # None => stopping'[j] # None
        /\ timer' \in [Ids -> [Kinds -> Int]]
        /\ \A j \in Ids : j # i => timer'[j] = timer[j]
        /\ group' \in [Ids -> SUBSET Members]
        /\ root' \in [Ids -> {None, "exit", "signal"}]
        /\ \A j \in Ids : root[j] # None => root'[j] # None
    BY <2>1, <2>2, SignalKeeps DEF IInv
  <2>4. TypeOK'
    BY <1>1, <1>2, <2>1, <2>3 DEF IInv, TypeOK
  <2>5. TimersOfLive'
    BY <1>1, <1>3, <2>3 DEF IInv, TimersOfLive
  <2>6. AbortRemembered'
    BY <1>1, <1>2, <1>3, <2>1, <2>3 DEF IInv, AbortRemembered
  <2> QED
    BY <1>1, <2>3, <2>4, <2>5, <2>6, NoBytes
<1>4. CASE phase[i] # "live"
  <2>1. forget' = [forget EXCEPT ![i] = ForgetTicks] /\ UNCHANGED <<stopping, timer, group, root>>
    BY <1>4 DEF Abort
  <2>2. ForgetTicks \in Int /\ ForgetTicks # Off
    BY ExecutionAssumption, OffValue
  <2>3. TypeOK'
    BY <1>1, <1>2, <2>1, <2>2 DEF IInv, TypeOK
  <2>4. AbortRemembered'
    BY <1>1, <1>2, <1>4, <2>1, <2>2 DEF IInv, TypeOK, AbortRemembered
  <2>5. TimersOfLive'
    BY <1>1, <2>1 DEF IInv, TimersOfLive
  <2> QED
    BY <1>1, <2>1, <2>3, <2>4, <2>5, NoBytes
<1> QED
  BY <1>3, <1>4

\* A timer that is due belongs to a live execution.
LEMMA DueIsLive ==
  ASSUME IInv, NEW i \in Ids, NEW k \in Kinds, timer[i][k] = 0
  PROVE  phase[i] = "live"
  BY OffValue, IdleTimers DEF IInv, TimersOfLive

LEMMA TimeoutInv == ASSUME IInv, NEW i \in Ids, Timeout(i) PROVE IInv'
<1> DEFINE ts == [timer[i] EXCEPT !["timeout"] = Off]
<1>1. /\ timer[i]["timeout"] = 0 /\ Signal(i, "timeout", ts)
      /\ UNCHANGED <<phase, forget, sent, total, wrote, buf, aborted, exits>>
  BY DEF Timeout, groupVars
<1>2. phase[i] = "live"
  BY <1>1, DueIsLive DEF Kinds
<1>3. ts \in [Kinds -> Int]
  BY OffValue DEF IInv, TypeOK
<1> HIDE DEF ts
<1>4. /\ stopping' \in [Ids -> {None, "abort", "timeout"}]
      /\ stopping'[i] # None /\ \A j \in Ids : stopping[j] # None => stopping'[j] # None
      /\ timer' \in [Ids -> [Kinds -> Int]]
      /\ \A j \in Ids : j # i => timer'[j] = timer[j]
      /\ group' \in [Ids -> SUBSET Members]
      /\ root' \in [Ids -> {None, "exit", "signal"}]
      /\ \A j \in Ids : root[j] # None => root'[j] # None
  BY <1>1, <1>3, SignalKeeps DEF IInv
<1>5. TypeOK'
  BY <1>1, <1>4 DEF IInv, TypeOK
<1>6. TimersOfLive' /\ AbortRemembered'
  BY <1>1, <1>2, <1>4 DEF IInv, TimersOfLive, AbortRemembered
<1> QED
  BY <1>1, <1>4, <1>5, <1>6, NoBytes

LEMMA KillTimerInv == ASSUME IInv, NEW i \in Ids, KillTimer(i) PROVE IInv'
<1> DEFINE f == [timer[i] EXCEPT !["kill"] = Off, !["leak"] = LeakTicks]
<1>1. /\ timer[i]["kill"] = 0 /\ timer' = [timer EXCEPT ![i] = f] /\ Kill(i)
      /\ UNCHANGED <<phase, stopping, forget, sent, total, wrote, buf, aborted, exits>>
  BY DEF KillTimer, groupVars
<1>2. phase[i] = "live"
  BY <1>1, DueIsLive DEF Kinds
<1>3. f \in [Kinds -> Int]
  <2> DEFINE a == [timer[i] EXCEPT !["kill"] = Off]
  <2>1. timer[i] \in [Kinds -> Int] /\ LeakTicks \in Int
    BY ExecutionAssumption DEF IInv, TypeOK
  <2>2. a \in [Kinds -> Int]
    BY <2>1, OffValue, SetTimer
  <2>3. f = [a EXCEPT !["leak"] = LeakTicks]
    OBVIOUS
  <2> HIDE DEF a, f
  <2> QED
    BY <2>1, <2>2, <2>3, SetTimer
<1> HIDE DEF f
<1>4. /\ group' \in [Ids -> SUBSET Members]
      /\ root' \in [Ids -> {None, "exit", "signal"}]
      /\ \A j \in Ids : root[j] # None => root'[j] # None
  BY <1>1, ReapedKeeps DEF Kill, IInv
<1>5. timer' \in [Ids -> [Kinds -> Int]]
  BY <1>1, <1>3 DEF IInv, TypeOK
<1>6. TypeOK'
  BY <1>1, <1>4, <1>5 DEF IInv, TypeOK
<1>7. TimersOfLive' /\ AbortRemembered'
  BY <1>1, <1>2 DEF IInv, TypeOK, TimersOfLive, AbortRemembered
<1> QED
  BY <1>1, <1>4, <1>6, <1>7, NoBytes

LEMMA ForgetInv == ASSUME IInv, NEW i \in Ids, Forget(i) PROVE IInv'
<1>1. /\ forget' = [forget EXCEPT ![i] = Off] /\ aborted' = [aborted EXCEPT ![i] = "dropped"]
      /\ UNCHANGED <<phase, stopping, root, timer, sent, total, group, wrote, buf, exits>>
  BY DEF Forget, groupVars
<1>2. TypeOK' /\ TimersOfLive' /\ AbortRemembered'
  BY <1>1, OffValue DEF IInv, TypeOK, TimersOfLive, AbortRemembered
<1> QED
  BY <1>1, <1>2, NoBytes

\* Time passes: a clock that is off stays off, one that runs is not turned off.
LEMMA TickInv == ASSUME IInv, Tick PROVE IInv'
<1>1. /\ timer' = [i \in Ids |-> [k \in Kinds |-> Down(timer[i][k])]]
      /\ forget' = [i \in Ids |-> Down(forget[i])]
      /\ UNCHANGED <<phase, stopping, root, sent, total, group, wrote, buf, aborted, exits>>
  BY DEF Tick, groupVars
<1>2. \A i \in Ids, k \in Kinds : timer[i][k] \in Int
  BY DEF IInv, TypeOK
<1>3. \A i \in Ids, k \in Kinds : Down(timer[i][k]) \in Int
  BY <1>2, DownOff
<1>4. \A i \in Ids : Down(forget[i]) \in Int /\ (Down(forget[i]) = Off <=> forget[i] = Off)
  BY DownOff DEF IInv, TypeOK
<1>5. timer' \in [Ids -> [Kinds -> Int]] /\ forget' \in [Ids -> Int]
  BY <1>1, <1>3, <1>4
<1>6. TypeOK'
  BY <1>1, <1>5 DEF IInv, TypeOK
<1>7. TimersOfLive'
  <2> SUFFICES ASSUME NEW i \in Ids, phase[i] # "live" PROVE timer'[i] = Idle
    BY <1>1 DEF TimersOfLive
  <2>1. timer[i] = Idle
    BY DEF IInv, TimersOfLive
  <2>2. \A k \in Kinds : Down(timer[i][k]) = Off
    BY <2>1, IdleTimers, DownOff, OffValue
  <2>3. timer'[i] = [k \in Kinds |-> Off]
    BY <1>1, <2>2
  <2> QED
    BY <2>3 DEF Idle
<1>8. AbortRemembered'
  BY <1>1, <1>4 DEF IInv, AbortRemembered
<1> QED
  BY <1>1, <1>6, <1>7, <1>8, NoBytes

----------------------------------------------------------------------------
LEMMA WorkerInv == ASSUME IInv, NEW i \in Ids, Worker(i) PROVE IInv'
  BY OpenedInv, StartInv, DrainInv, TimeoutInv, KillTimerInv, LeakTimerInv, ForgetInv DEF Worker

LEMMA NextInv == ASSUME IInv, Next PROVE IInv'
  BY StartInv, AbortInv, WorkerInv, GroupInv, TickInv DEF Next

LEMMA KeptInv == ASSUME IInv, UNCHANGED vars PROVE IInv'
<1>1. TypeOK'
  BY DEF vars, IInv, TypeOK
<1>2. TimersOfLive' /\ AbortRemembered'
  BY DEF vars, IInv, TimersOfLive, AbortRemembered
<1> QED
  BY <1>1, <1>2, NoBytes DEF vars

\* What an exit event says is true when it is posted and stays true: all output
\* is out or counted, the group is gone or named, an abort is not passed off as
\* an ordinary end (os/kernel-worker.js drainExecution, finishExecution).
THEOREM ExitsStand == Spec => []ExitIsFinal
<1>1. IInv => ExitIsFinal
  BY DEF IInv
<1>2. IInv /\ [Next]_vars => IInv'
  BY NextInv, KeptInv
<1> QED
  BY <1>1, <1>2, InitInv, PTL DEF Spec
============================================================================
