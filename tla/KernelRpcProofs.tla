-------------------------- MODULE KernelRpcProofs --------------------------
(***************************************************************************)
(* Theorems about KernelRpc, for every set of signals and every number of  *)
(* calls.  The argument is that a request is a token: from the moment its  *)
(* krpc is posted to the moment DONE is stored it is in exactly one place, *)
(* the channel, the kernel's books or the stores under way, and before and *)
(* after that it is nowhere, so nothing can answer a call twice or answer  *)
(* the next one.                                                           *)
(***************************************************************************)
EXTENDS KernelRpc, SequenceTheorems, TLAPS

IsKrpc(q, i) == q[i].type = "krpc"
InChan == \E i \in 1 .. Len(chan) : IsKrpc(chan, i)
Answering == kans # None \/ kpc = "done"

\* The RPC state follows from where the client is.
StateByPc ==
  /\ pc = "call.post" => state = "request"
  /\ pc \in {"call.read", "call.idle"} => state = "done"
  /\ Waiting => state \in {"request", "done"}
  /\ state # "idle" => pc \in {"call.post", "call.read", "call.idle"} \/ Waiting
  /\ then = "call.state" => calls # 0
  /\ pc = "call.state" => then = "call.state"
  /\ pc \in {"run", "poll.load", "poll.claim", "park.seq", "park.check", "park.wait"} =>
       then = "poll.load"

\* The token is in one place while it is owed, and nowhere otherwise.
OneToken ==
  /\ InChan => ~Answering /\ owed = 0
  /\ Answering => owed = 0
  /\ InChan \/ Answering \/ owed # 0 => Waiting /\ state = "request"
  /\ Waiting /\ state = "request" => InChan \/ Answering \/ owed # 0
  /\ owed # 0 => owed = calls
  /\ waiter => owed # 0

Good(answer) ==
  /\ answer.call = calls
  /\ answer.kind \in {"result", "eintr"}
  /\ answer.kind = "eintr" => interruptible

\* Wherever the answer is, it is the right one, and its signal is on its way.
AnswerOk ==
  /\ kans # None => Good(kans) /\ kans.with \subseteq pend \cup ksig
  /\ kpc = "done" \/ state = "done" => Good(page)
  /\ kpc = "done" \/ (Waiting /\ state = "done") => page.with \subseteq pend
  /\ then = "call.state" /\ kpc # "done" /\ state # "done" => page.call = calls
  /\ state = "request" => then = "call.state"

\* The kernel's next store goes with what it has left to store.
KernelPc ==
  /\ kpc \in {"loop", "flag", "done"} => kans = None
  /\ kpc = "payload" => kans # None
  /\ ksig # {} => kpc = "post"

\* A krpc is followed by its own krpc-intr and preceded by an older one.
ChanShape ==
  /\ Len(chan) <= 3
  /\ Len(chan) = 2 => (IsKrpc(chan, 1) /\ ~IsKrpc(chan, 2)) \/ (~IsKrpc(chan, 1) /\ IsKrpc(chan, 2))
  /\ Len(chan) = 3 => ~IsKrpc(chan, 1) /\ IsKrpc(chan, 2) /\ ~IsKrpc(chan, 3)
  /\ Len(chan) = 3 => chan[3].call = calls /\ sent
  /\ Len(chan) = 2 /\ IsKrpc(chan, 1) => chan[2].call = calls /\ sent
  /\ Len(chan) = 1 /\ ~IsKrpc(chan, 1) /\ Waiting => chan[1].call = calls /\ sent
  /\ sent => interruptible

\* What the client is about to sleep on, or sleeps on, has not happened, or
\* the ring that tells it has yet to come.
WakeComing ==
  /\ asleep => pc \in {"call.seq", "stop.test", "park.seq"}
  /\ pc \in {"call.pending", "call.wait"} =>
       (state = "done" => rung \/ kpc = "bell")
  /\ pc = "call.wait" =>
       (interruptible /\ ~sent /\ Deliverable => rung \/ kpc = "bell")
  /\ pc = "stop.wait" => stop \/ rung \/ kpc = "bell"
  /\ pc = "park.wait" => (Deliverable => rung \/ kpc = "bell")

IInv ==
  /\ TypeOK /\ StateByPc /\ OneToken /\ AnswerOk /\ KernelPc /\ ChanShape
  /\ WakeComing /\ NoLostWakeup /\ NoSignalLost


-----------------------------------------------------------------------------
(* The channel.                                                            *)

\* The kernel takes the oldest message and the rest move up.
LEMMA Taken ==
  ASSUME NEW S, NEW q \in Seq(S), q # <<>>
  PROVE  /\ Len(q) \in Nat \ {0} /\ Head(q) = q[1]
         /\ Tail(q) \in Seq(S) /\ Len(Tail(q)) = Len(q) - 1
         /\ \A i \in 1 .. Len(q) - 1 : Tail(q)[i] = q[i + 1]
         /\ Len(q) = 2 \/ Len(q) = 3 => Tail(q)[1] = q[2]
         /\ Len(q) = 3 => Tail(q)[2] = q[3]
  OBVIOUS

\* A posted message goes last.
LEMMA Added ==
  ASSUME NEW S, NEW q \in Seq(S), NEW m \in S
  PROVE  /\ Append(q, m) \in Seq(S) /\ Len(Append(q, m)) = Len(q) + 1
         /\ \A i \in 1 .. Len(q) : Append(q, m)[i] = q[i]
         /\ Append(q, m)[Len(q) + 1] = m
  OBVIOUS

\* Its length is a small number.
LEMMA ChanLen ==
  ASSUME TypeOK
  PROVE  chan \in Seq(Message) /\ Len(chan) \in {0, 1, 2, 3}
  <1>1. chan \in Seq(Message) /\ Len(chan) <= 3
    BY DEF TypeOK
  <1>2. Len(chan) \in Nat
    BY <1>1, LenProperties
  <1>3. ASSUME NEW n \in Nat, n <= 3
        PROVE  n \in {0, 1, 2, 3}
    BY <1>3
  <1> QED
    BY <1>1, <1>2, <1>3

\* A channel the invariant allows holds at most one krpc.
LEMMA OneKrpc ==
  ASSUME TypeOK, ChanShape, NEW i \in 1 .. Len(chan), NEW j \in 1 .. Len(chan),
         IsKrpc(chan, i), IsKrpc(chan, j)
  PROVE  i = j
  <1> DEFINE n == Len(chan)
  <1>1. n \in {0, 1, 2, 3} /\ i \in 1 .. n /\ j \in 1 .. n
    BY ChanLen
  <1>2. /\ n = 2 => (IsKrpc(chan, 1) /\ ~IsKrpc(chan, 2)) \/ (~IsKrpc(chan, 1) /\ IsKrpc(chan, 2))
        /\ n = 3 => ~IsKrpc(chan, 1) /\ IsKrpc(chan, 2) /\ ~IsKrpc(chan, 3)
    BY DEF ChanShape
  <1> HIDE DEF n
  <1>3. /\ n = 0 => FALSE
        /\ n = 1 => i = 1 /\ j = 1
        /\ n = 2 => i \in {1, 2} /\ j \in {1, 2}
        /\ n = 3 => i \in {1, 2, 3} /\ j \in {1, 2, 3}
    BY <1>1
  <1> QED
    BY <1>1, <1>2, <1>3

\* Taking the krpc leaves the channel without one.
LEMMA TakeKrpcChan ==
  ASSUME IInv, TakeKrpc
  PROVE  InChan /\ ~InChan' /\ chan' \in Seq(Message) /\ Len(chan') <= 2
  <1> USE DEF IInv
  <1>1. chan \in Seq(Message) /\ chan # <<>> /\ chan' = Tail(chan) /\ Len(chan) <= 3
    BY DEF TypeOK, TakeKrpc
  <1>2. 1 \in 1 .. Len(chan) /\ IsKrpc(chan, 1)
    BY <1>1, Taken DEF TakeKrpc, IsKrpc
  <1>3. ASSUME NEW i \in 1 .. Len(chan'), IsKrpc(chan', i)
        PROVE  FALSE
    <2>1. i + 1 \in 1 .. Len(chan) /\ IsKrpc(chan, i + 1)
      BY <1>1, <1>3, Taken DEF IsKrpc
    <2> QED
      BY <1>2, <2>1, OneKrpc
  <1> QED
    BY <1>1, <1>2, <1>3, Taken DEF InChan

\* Taking a krpc-intr leaves the krpc where it was, one place further up.
LEMMA TakeIntrChan ==
  ASSUME IInv, TakeIntr
  PROVE  (InChan' <=> InChan) /\ chan' \in Seq(Message) /\ Len(chan') <= 2
  <1> USE DEF IInv
  <1>1. chan \in Seq(Message) /\ chan # <<>> /\ chan' = Tail(chan) /\ Len(chan) <= 3
    BY DEF TypeOK, TakeIntr
  <1>2. ~IsKrpc(chan, 1)
    BY <1>1, Taken DEF TakeIntr, IsKrpc
  <1>3. ASSUME NEW i \in 1 .. Len(chan), IsKrpc(chan, i)
        PROVE  InChan'
    <2>1. i - 1 \in 1 .. Len(chan') /\ IsKrpc(chan', i - 1)
      BY <1>1, <1>2, <1>3, Taken DEF IsKrpc
    <2> QED
      BY <2>1 DEF InChan
  <1>4. ASSUME NEW i \in 1 .. Len(chan'), IsKrpc(chan', i)
        PROVE  InChan
    <2>1. i + 1 \in 1 .. Len(chan) /\ IsKrpc(chan, i + 1)
      BY <1>1, <1>4, Taken DEF IsKrpc
    <2> QED
      BY <2>1 DEF InChan
  <1> QED
    BY <1>1, <1>3, <1>4, Taken DEF InChan

\* What is left after a message is taken keeps its shape.
LEMMA TakenShape ==
  ASSUME IInv, chan # <<>>, chan' = Tail(chan), UNCHANGED client
  PROVE  ChanShape'
  <1> USE DEF IInv
  <1> DEFINE n == Len(chan)
             k == Len(chan')
  <1>1. chan \in Seq(Message) /\ n \in {0, 1, 2, 3}
    BY ChanLen
  <1>2. /\ n # 0 /\ k = n - 1
        /\ n = 2 \/ n = 3 => chan'[1] = chan[2]
        /\ n = 3 => chan'[2] = chan[3]
    BY <1>1, Taken
  <1>3. UNCHANGED <<calls, sent, interruptible, Waiting>>
    BY DEF client, Waiting
  <1>4. /\ n = 2 => \/ IsKrpc(chan, 1) /\ ~IsKrpc(chan, 2) /\ chan[2].call = calls /\ sent
                    \/ ~IsKrpc(chan, 1) /\ IsKrpc(chan, 2)
        /\ n = 3 => /\ ~IsKrpc(chan, 1) /\ IsKrpc(chan, 2) /\ ~IsKrpc(chan, 3)
                    /\ chan[3].call = calls /\ sent
        /\ sent => interruptible
    BY DEF ChanShape
  <1> HIDE DEF n, k
  <1>5. (n = 1 /\ k = 0) \/ (n = 2 /\ k = 1) \/ (n = 3 /\ k = 2)
    BY <1>1, <1>2
  <1>6. k = 1 => n = 2 /\ chan'[1] = chan[2]
    BY <1>2, <1>5
  <1>7. k = 2 => n = 3 /\ chan'[1] = chan[2] /\ chan'[2] = chan[3]
    BY <1>2, <1>5
  <1>8. /\ k = 2 => IsKrpc(chan', 1) /\ ~IsKrpc(chan', 2) /\ chan'[2].call = calls' /\ sent'
        /\ k = 1 /\ ~IsKrpc(chan', 1) => chan'[1].call = calls' /\ sent'
    BY <1>3, <1>4, <1>6, <1>7 DEF IsKrpc
  <1>9. k <= 3 /\ k # 3 /\ (sent' => interruptible')
    BY <1>3, <1>4, <1>5
  <1> QED
    BY <1>8, <1>9 DEF ChanShape, n, k

\* Nothing but an old krpc-intr is in the channel when a call is posted.
LEMMA PostKrpcChan ==
  ASSUME IInv, PostKrpc
  PROVE  chan' \in Seq(Message) /\ Len(chan') <= 2 /\ InChan' /\ ChanShape'
  <1> USE DEF IInv
  <1> DEFINE m == [type |-> "krpc", call |-> calls]
  <1>1. chan \in Seq(Message) /\ m \in Message /\ chan' = Append(chan, m)
    BY DEF TypeOK, PostKrpc, Message
  <1>2. \A i \in 1 .. Len(chan) : ~IsKrpc(chan, i)
    BY DEF PostKrpc, Step, Waiting, OneToken, InChan
  <1>3. Len(chan) \in {0, 1}
    BY <1>1, <1>2, ChanLen DEF ChanShape
  <1> HIDE DEF m
  <1>4. /\ Len(chan') = Len(chan) + 1 /\ chan' \in Seq(Message)
        /\ chan'[Len(chan) + 1] = m
        /\ \A i \in 1 .. Len(chan) : chan'[i] = chan[i]
    BY <1>1, Added
  <1>5. IsKrpc(chan', Len(chan) + 1) /\ \A i \in 1 .. Len(chan) : ~IsKrpc(chan', i)
    BY <1>2, <1>4 DEF IsKrpc, m
  <1>6. ChanShape'
    BY <1>3, <1>4, <1>5 DEF ChanShape, PostKrpc
  <1> QED
    BY <1>3, <1>4, <1>5, <1>6 DEF InChan

\* A krpc-intr goes behind at most the krpc and one older krpc-intr.
LEMMA CheckPendingChan ==
  ASSUME IInv, CheckPending
  PROVE  chan' \in Seq(Message) /\ Len(chan') <= 3 /\ (InChan' <=> InChan) /\ ChanShape'
  <1> USE DEF IInv
  <1> DEFINE m == [type |-> "krpc-intr", call |-> calls]
  <1>1. CASE chan' = chan /\ sent' = sent
    BY <1>1 DEF TypeOK, CheckPending, ChanShape, InChan, IsKrpc, Step, Waiting
  <1>2. CASE interruptible /\ ~sent /\ sent' = TRUE /\ chan' = Append(chan, m)
    <2>1. chan \in Seq(Message) /\ m \in Message
      BY DEF TypeOK, Message
    <2>2. Waiting /\ calls' = calls /\ interruptible' = interruptible
      BY DEF CheckPending, Step, Waiting
    <2>3. \/ Len(chan) = 0
          \/ Len(chan) = 1 /\ IsKrpc(chan, 1)
          \/ Len(chan) = 2 /\ ~IsKrpc(chan, 1) /\ IsKrpc(chan, 2)
      BY <1>2, <2>1, <2>2, ChanLen DEF ChanShape
    <2>4. m.type = "krpc-intr" /\ m.call = calls
      OBVIOUS
    <2> HIDE DEF m
    <2>5. /\ Len(chan') = Len(chan) + 1 /\ chan' \in Seq(Message)
          /\ chan'[Len(chan) + 1] = m
          /\ \A i \in 1 .. Len(chan) : chan'[i] = chan[i]
      BY <1>2, <2>1, Added
    <2>6. /\ ~IsKrpc(chan', Len(chan) + 1)
          /\ \A i \in 1 .. Len(chan) : IsKrpc(chan', i) <=> IsKrpc(chan, i)
      BY <2>4, <2>5 DEF IsKrpc
    <2>7. ChanShape'
      BY <1>2, <2>2, <2>3, <2>4, <2>5, <2>6 DEF ChanShape
    <2>8. InChan' <=> InChan
      BY <2>3, <2>5, <2>6 DEF InChan
    <2> QED
      BY <2>3, <2>5, <2>7, <2>8
  <1> QED
    BY <1>1, <1>2 DEF CheckPending
\* A krpc is taken when the kernel owes nothing and the request is on the page.
LEMMA TakeKrpcFinds ==
  ASSUME IInv, TakeKrpc
  PROVE  /\ Waiting /\ state = "request" /\ then = "call.state"
         /\ page.call = calls /\ owed = 0 /\ ~waiter /\ kans = None /\ ksig = {}
         /\ kpc = "loop"
  <1> USE DEF IInv
  <1>1. ~Answering /\ owed = 0 /\ Waiting /\ state = "request" /\ ~waiter
    BY TakeKrpcChan DEF OneToken
  <1>2. then = "call.state" /\ page.call = calls /\ kpc = "loop"
    BY <1>1 DEF AnswerOk, TakeKrpc, Free
  <1> QED
    BY <1>1, <1>2 DEF KernelPc, Answering

-----------------------------------------------------------------------------
(* Types that take more than the definitions.                              *)

\* The request is a payload, of a call within the bound.
LEMMA StartCallType ==
  ASSUME TypeOK, StartCall PROVE TypeOK'
  <1>1. page' \in Payload
    BY DEF StartCall, TypeOK, Payload
  <1>2. calls' \in 0 .. MaxCalls
    BY MaxCallsAssumption DEF StartCall, TypeOK
  <1> QED
    BY <1>1, <1>2 DEF TypeOK, StartCall, Step, Pcs, client, kernel

\* Loading the doorbell in _stopWait disturbs no type.
LEMMA StopSeqType ==
  ASSUME TypeOK, StopSeq PROVE TypeOK'
  BY ZenonT(60) DEF TypeOK, StopSeq, Step, Pcs, client, kernel

\* The same, in _finish.
LEMMA LoadSeqType ==
  ASSUME TypeOK, LoadSeq PROVE TypeOK'
  BY ZenonT(60) DEF TypeOK, LoadSeq, Step, Pcs, client, kernel

\* The same, in park.
LEMMA ParkSeqType ==
  ASSUME TypeOK, ParkSeq PROVE TypeOK'
  BY ZenonT(60) DEF TypeOK, ParkSeq, Step, Pcs, client, kernel

\* After a ring the kernel makes the next store it has left.
LEMMA RingNotifyType ==
  ASSUME TypeOK, RingNotify PROVE TypeOK'
  BY DEF TypeOK, RingNotify, shared

\* A krpc-intr still fits the channel.
LEMMA CheckPendingType ==
  ASSUME IInv, CheckPending PROVE TypeOK'
  <1>1. chan' \in Seq(Message) /\ Len(chan') <= 3
    BY CheckPendingChan
  <1>2. sent' \in BOOLEAN /\ pc' \in Pcs
    BY DEF IInv, TypeOK, CheckPending, Step, Pcs
  <1> QED
    BY <1>1, <1>2 DEF IInv, TypeOK, CheckPending, shared

\* What a completed call answers is a payload.
LEMMA CompleteType ==
  ASSUME TypeOK, Complete PROVE TypeOK'
  <1>1. PICK sigs \in SUBSET Sigs : Begin(sigs, Answered("result", sigs))
    BY DEF Complete
  <1>2. owed \in Nat /\ sigs \in SUBSET Sigs
    BY MaxCallsAssumption DEF TypeOK
  <1>3. Answered("result", sigs) \in Payload
    BY <1>2 DEF Answered, Payload
  <1>4. /\ kpc' \in {"loop", "post", "payload"} /\ ksig' \subseteq Sigs
        /\ kans' \in Payload /\ kflag' = kflag
    BY <1>1, <1>3 DEF Begin
  <1>5. waiter' = FALSE /\ owed' = 0 /\ chan' = chan
    BY DEF Complete
  <1>6. 0 \in 0 .. MaxCalls
    BY MaxCallsAssumption
  <1> QED
    BY <1>4, <1>5, <1>6, ZenonT(60) DEF TypeOK, Complete, client, shared

\* EINTR is one.
LEMMA TakeIntrType ==
  ASSUME IInv, TakeIntr PROVE TypeOK'
  <1> USE DEF IInv
  <1>1. chan' \in Seq(Message) /\ Len(chan') <= 3
    BY TakeIntrChan, LenProperties
  <1>2. owed \in Nat
    BY MaxCallsAssumption DEF TypeOK
  <1>3. Answered("eintr", {}) \in Payload
    BY <1>2 DEF Answered, Payload
  <1>4. /\ kans' \in Payload /\ kpc' \in {"loop", "post", "payload"}
        /\ ksig' \subseteq Sigs /\ kflag' = kflag
    BY <1>3 DEF TypeOK, TakeIntr, Begin, Free
  <1>5. UNCHANGED <<waiter, owed>> \/ (waiter' = FALSE /\ owed' = 0)
    BY DEF TakeIntr
  <1>6. 0 \in 0 .. MaxCalls
    BY MaxCallsAssumption
  <1> QED
    BY <1>1, <1>4, <1>5, <1>6, ZenonT(60) DEF TypeOK, TakeIntr, client, shared

\* So is the answer to the request on the page, which is a call that was made.
LEMMA TakeKrpcType ==
  ASSUME IInv, TakeKrpc PROVE TypeOK'
  <1> USE DEF IInv
  <1>1. chan' \in Seq(Message) /\ Len(chan') <= 3
    BY TakeKrpcChan, LenProperties
  <1>2. page.call = calls /\ calls \in 0 .. MaxCalls /\ calls \in Nat
    BY TakeKrpcFinds, MaxCallsAssumption DEF TypeOK
  <1>3. [kind |-> "result", call |-> page.call, with |-> {}] \in Payload
    BY <1>2 DEF Payload
  <1>4. /\ kans' \in Payload /\ kpc' \in {"loop", "post", "payload"}
        /\ ksig' \subseteq Sigs /\ waiter' \in BOOLEAN /\ owed' \in 0 .. MaxCalls
        /\ kflag' = kflag
    BY <1>2, <1>3 DEF TypeOK, TakeKrpc, Begin, Free
  <1> QED
    BY <1>1, <1>4 DEF TypeOK, TakeKrpc, client, shared

-----------------------------------------------------------------------------
(* The token.                                                              *)

\* From the channel to the answer under way, or to the kernel's books.
LEMMA TakeKrpcToken ==
  ASSUME IInv, TakeKrpc PROVE OneToken' /\ AnswerOk'
  <1> USE TakeKrpcFinds
  <1>1. ~InChan'
    BY TakeKrpcChan
  <1>2. UNCHANGED <<shared, client, due>>
    BY DEF TakeKrpc
  <1>3. Waiting'
    BY <1>2 DEF Waiting, client
  <1> DEFINE answer == [kind |-> "result", call |-> page.call, with |-> {}]
  <1>4. CASE Begin({}, answer) /\ UNCHANGED <<waiter, owed>>
    <2>1. answer # None
      BY DEF None
    <2>2. kpc' = "payload" /\ kans' = answer /\ ksig' = {} /\ owed' = 0 /\ ~waiter'
      BY <1>4, <2>1 DEF Begin
    <2>3. OneToken'
      BY <1>1, <1>2, <1>3, <2>1, <2>2 DEF OneToken, Answering, shared
    <2>4. Good(answer)' /\ answer'.with \subseteq (pend \cup ksig)'
      BY <1>2 DEF Good, client, shared
    <2> QED
      BY <1>2, <2>2, <2>3, <2>4 DEF AnswerOk, IInv, Good, shared, client
  <1>5. CASE /\ waiter' \in BOOLEAN /\ owed' = page.call
             /\ UNCHANGED <<kpc, ksig, kflag, kans>>
    <2>1. calls # 0
      BY DEF IInv, StateByPc
    <2>2. OneToken'
      BY <1>1, <1>2, <1>3, <1>5, <2>1 DEF OneToken, Answering, shared, client
    <2> QED
      BY <1>2, <1>5, <2>2 DEF AnswerOk, IInv, Good, Waiting, shared, client
  <1> QED
    BY <1>4, <1>5 DEF TakeKrpc

\* With a waiter registered, a krpc-intr in the channel is the waiter's own.
LEMMA WaiterIntr ==
  ASSUME IInv, waiter, chan # <<>>
  PROVE  Head(chan).call = owed /\ interruptible
  <1> USE DEF IInv
  <1>1. owed = calls /\ Waiting /\ ~InChan
    BY DEF OneToken
  <1>2. /\ chan \in Seq(Message) /\ Head(chan) = chan[1] /\ Len(chan) # 0
        /\ Len(chan) \in {0, 1, 2, 3}
    BY ChanLen, Taken
  <1> DEFINE n == Len(chan)
  <1>3. n \in {1, 2, 3} /\ \A i \in 1 .. n : ~IsKrpc(chan, i)
    BY <1>1, <1>2 DEF InChan
  <1>4. /\ n = 2 => IsKrpc(chan, 1) \/ IsKrpc(chan, 2)
        /\ n = 3 => IsKrpc(chan, 2)
        /\ n = 1 /\ ~IsKrpc(chan, 1) => chan[1].call = calls /\ sent
        /\ sent => interruptible
    BY <1>1 DEF ChanShape
  <1> HIDE DEF n
  <1>5. n = 1
    BY <1>3, <1>4
  <1> QED
    BY <1>1, <1>2, <1>3, <1>4, <1>5

\* A late krpc-intr changes nothing; one that finds a waiter answers it.
LEMMA TakeIntrToken ==
  ASSUME IInv, TakeIntr PROVE OneToken' /\ AnswerOk'
  <1>1. UNCHANGED <<shared, client, due>> /\ (InChan' <=> InChan)
    BY TakeIntrChan DEF TakeIntr
  <1>2. CASE ~waiter
    <2>1. UNCHANGED <<kpc, ksig, kflag, kans, waiter, owed>>
      BY <1>2 DEF TakeIntr
    <2> QED
      BY <1>1, <2>1 DEF IInv, OneToken, AnswerOk, Answering, Good, Waiting, shared, client
  <1>3. CASE waiter
    <2> DEFINE answer == Answered("eintr", {})
    <2>1. Begin({}, answer) /\ waiter' = FALSE /\ owed' = 0 /\ kpc = "loop"
      BY <1>3 DEF TakeIntr, Free
    <2>2. owed # 0 /\ owed = calls /\ Waiting /\ state = "request" /\ ~InChan
      BY <1>3 DEF IInv, OneToken
    <2>3. answer # None /\ answer.call = calls /\ answer.kind = "eintr" /\ answer.with = {}
      BY <2>2 DEF Answered, None
    <2>4. interruptible
      BY <1>3, WaiterIntr DEF TakeIntr
    <2> HIDE DEF answer
    <2>5. kpc' = "payload" /\ kans' = answer /\ ksig' = {}
      BY <2>1, <2>3 DEF Begin
    <2>6. OneToken'
      BY <1>1, <2>1, <2>2, <2>3, <2>5 DEF OneToken, Answering, Waiting, shared, client
    <2>7. Good(kans)' /\ (kans.with \subseteq pend \cup ksig)'
      BY <1>1, <2>3, <2>4, <2>5 DEF Good, client, shared
    <2> QED
      BY <1>1, <2>1, <2>2, <2>5, <2>6, <2>7 DEF IInv, AnswerOk, Good, Waiting, shared, client
  <1> QED
    BY <1>2, <1>3

\* A krpc-intr posted is not another token.
LEMMA CheckPendingToken ==
  ASSUME IInv, CheckPending PROVE OneToken'
  <1>1. InChan' <=> InChan
    BY CheckPendingChan
  <1>2. UNCHANGED <<kans, kpc, owed, calls, state, waiter>> /\ Waiting /\ Waiting'
    BY DEF CheckPending, Step, Waiting, shared
  <1> QED
    BY <1>1, <1>2 DEF IInv, OneToken, Answering

\* The posted krpc is the token.
LEMMA PostKrpcToken ==
  ASSUME IInv, PostKrpc PROVE OneToken'
  <1>1. InChan' /\ ~InChan /\ ~Answering /\ owed = 0 /\ state = "request"
    BY PostKrpcChan DEF IInv, OneToken, StateByPc, PostKrpc, Step, Waiting
  <1>2. UNCHANGED <<kans, kpc, owed, calls, state, waiter>> /\ Waiting'
    BY DEF PostKrpc, Step, Waiting, shared
  <1> QED
    BY <1>1, <1>2 DEF IInv, OneToken, Answering

-----------------------------------------------------------------------------
(* The steps of the client.                                                *)

\* Whatever the client does next keeps the invariant.
LEMMA ClientStep ==
  ASSUME IInv, CallStep \/ ProgramStep
  PROVE  IInv'
  <1> USE DEF IInv, StateByPc, OneToken, InChan, Answering, AnswerOk, Good, KernelPc, ChanShape,
              WakeComing, NoLostWakeup, NoSignalLost, TypeOK, Pcs, Waiting, Deliverable,
              Step, shared, client, kernel
  <1>1. CASE StopTest
    BY <1>1 DEF StopTest
  <1>2. CASE StopSeq
    <2>1. TypeOK'
      BY <1>2, StopSeqType
    <2>2. /\ StateByPc' /\ OneToken' /\ AnswerOk' /\ KernelPc' /\ ChanShape'
          /\ WakeComing' /\ NoLostWakeup' /\ NoSignalLost'
      BY <1>2 DEF StopSeq
    <2> QED
      BY <2>1, <2>2
  <1>3. CASE StopAgain
    BY <1>3 DEF StopAgain
  <1>4. CASE StopWait
    BY <1>4 DEF StopWait
  <1>5. CASE StoreRequest
    <2>1. TypeOK'
      BY <1>5 DEF StoreRequest
    <2>2. /\ StateByPc' /\ OneToken' /\ AnswerOk' /\ KernelPc' /\ ChanShape'
          /\ WakeComing' /\ NoLostWakeup' /\ NoSignalLost'
      BY <1>5 DEF StoreRequest
    <2> QED
      BY <2>1, <2>2
  <1>6. CASE PostKrpc
    <2>1. TypeOK'
      BY <1>6, PostKrpcChan, LenProperties DEF PostKrpc
    <2>2. OneToken'
      BY <1>6, PostKrpcToken
    <2>3. ChanShape'
      BY <1>6, PostKrpcChan
    <2>4. /\ StateByPc' /\ AnswerOk' /\ KernelPc' /\ WakeComing'
          /\ NoLostWakeup' /\ NoSignalLost'
      BY <1>6 DEF PostKrpc
    <2> QED
      BY <2>1, <2>2, <2>3, <2>4
  <1>7. CASE LoadSeq
    <2>1. TypeOK'
      BY <1>7, LoadSeqType
    <2>2. /\ StateByPc' /\ OneToken' /\ AnswerOk' /\ KernelPc' /\ ChanShape'
          /\ WakeComing' /\ NoLostWakeup' /\ NoSignalLost'
      BY <1>7 DEF LoadSeq
    <2> QED
      BY <2>1, <2>2
  <1>8. CASE CheckDone
    BY <1>8 DEF CheckDone
  <1>9. CASE CheckPending
    <2>1. TypeOK'
      BY <1>9, CheckPendingType
    <2>2. OneToken'
      BY <1>9, CheckPendingToken
    <2>3. ChanShape'
      BY <1>9, CheckPendingChan
    <2>4. /\ StateByPc' /\ AnswerOk' /\ KernelPc' /\ WakeComing'
          /\ NoLostWakeup' /\ NoSignalLost'
      BY <1>9 DEF CheckPending
    <2> QED
      BY <2>1, <2>2, <2>3, <2>4
  <1>10. CASE CallWait
    BY <1>10 DEF CallWait
  <1>11. CASE ReadAnswer
    BY <1>11 DEF ReadAnswer
  <1>12. CASE StoreIdle
    BY <1>12 DEF StoreIdle
  <1>13. CASE PollLoad
    BY <1>13 DEF PollLoad
  <1>14. CASE PollClaim
    BY <1>14 DEF PollClaim
  <1>15. CASE ParkSeq
    <2>1. TypeOK'
      BY <1>15, ParkSeqType
    <2>2. /\ StateByPc' /\ OneToken' /\ AnswerOk' /\ KernelPc' /\ ChanShape'
          /\ WakeComing' /\ NoLostWakeup' /\ NoSignalLost'
      BY <1>15 DEF ParkSeq
    <2> QED
      BY <2>1, <2>2
  <1>16. CASE ParkCheck
    BY <1>16 DEF ParkCheck
  <1>17. CASE ParkWait
    BY <1>17 DEF ParkWait
  <1>18. CASE StartCall
    <2>1. TypeOK'
      BY <1>18, StartCallType
    <2>2. /\ StateByPc' /\ OneToken' /\ AnswerOk' /\ KernelPc' /\ ChanShape'
          /\ WakeComing' /\ NoLostWakeup' /\ NoSignalLost'
      BY <1>18 DEF StartCall
    <2> QED
      BY <2>1, <2>2
  <1>19. CASE SafePoint
    BY <1>19 DEF SafePoint
  <1>20. CASE SetMask
    BY <1>20 DEF SetMask
  <1>21. CASE Park
    BY <1>21 DEF Park
  <1> QED
    BY <1>1, <1>2, <1>3, <1>4, <1>5, <1>6, <1>7, <1>8, <1>9, <1>10,
       <1>11, <1>12, <1>13, <1>14, <1>15, <1>16, <1>17, <1>18, <1>19, <1>20,
       <1>21 DEF CallStep, ProgramStep

-----------------------------------------------------------------------------
(* The steps of the kernel.                                                *)

\* Whatever the kernel does next keeps the invariant.
LEMMA KernelSteps ==
  ASSUME IInv, KernelStep \/ Event
  PROVE  IInv'
  <1> USE DEF IInv, StateByPc, OneToken, InChan, Answering, AnswerOk, Good, KernelPc, ChanShape,
              WakeComing, NoLostWakeup, NoSignalLost, TypeOK, Waiting, Deliverable,
              Payload, None, Free, Begin, Answered, shared, client, kernel
  <1>1. CASE TakeKrpc
    <2>1. TypeOK'
      BY <1>1, TakeKrpcType
    <2>2. OneToken' /\ AnswerOk'
      BY <1>1, TakeKrpcToken
    <2>3. ChanShape'
      BY <1>1, TakenShape DEF TakeKrpc
    <2>4. StateByPc' /\ KernelPc' /\ WakeComing' /\ NoLostWakeup' /\ NoSignalLost'
      BY <1>1 DEF TakeKrpc
    <2> QED
      BY <2>1, <2>2, <2>3, <2>4
  <1>2. CASE TakeIntr
    <2>1. TypeOK'
      BY <1>2, TakeIntrType
    <2>2. OneToken' /\ AnswerOk'
      BY <1>2, TakeIntrToken
    <2>3. ChanShape'
      BY <1>2, TakenShape DEF TakeIntr
    <2>4. StateByPc' /\ KernelPc' /\ WakeComing' /\ NoLostWakeup' /\ NoSignalLost'
      BY <1>2 DEF TakeIntr
    <2> QED
      BY <2>1, <2>2, <2>3, <2>4
  <1>3. CASE StorePend
    BY <1>3 DEF StorePend
  <1>4. CASE StoreFlag
    BY <1>4 DEF StoreFlag
  <1>5. CASE StorePayload
    BY <1>5 DEF StorePayload
  <1>6. CASE StoreDone
    BY <1>6 DEF StoreDone
  <1>7. CASE RingAdd
    BY <1>7 DEF RingAdd
  <1>8. CASE RingNotify
    <2>1. TypeOK'
      BY <1>8, RingNotifyType
    <2>2. /\ StateByPc' /\ OneToken' /\ AnswerOk' /\ KernelPc' /\ ChanShape'
          /\ WakeComing' /\ NoLostWakeup' /\ NoSignalLost'
      BY <1>8 DEF RingNotify
    <2> QED
      BY <2>1, <2>2
  <1>9. CASE Complete
    <2>1. TypeOK'
      BY <1>9, CompleteType
    <2>2. /\ StateByPc' /\ OneToken' /\ AnswerOk' /\ KernelPc' /\ ChanShape'
          /\ WakeComing' /\ NoLostWakeup' /\ NoSignalLost'
      BY <1>9 DEF Complete
    <2> QED
      BY <2>1, <2>2
  <1>10. CASE Signal
    BY <1>10 DEF Signal
  <1>11. CASE StopOrCont
    BY <1>11 DEF StopOrCont
  <1> QED
    BY <1>1, <1>2, <1>3, <1>4, <1>5, <1>6, <1>7, <1>8, <1>9, <1>10,
       <1>11 DEF KernelStep, Event

-----------------------------------------------------------------------------
(* The invariant, and what follows from it.                                *)

\* A fresh page satisfies the invariant.
LEMMA Initially == Init => IInv
  <1> SUFFICES ASSUME Init PROVE IInv
    OBVIOUS
  <1>1. chan \in Seq(Message) /\ Len(chan) = 0
    BY DEF Init
  <1>2. page \in Payload /\ kans \in Payload
    BY DEF Init, Payload, None
  <1>3. calls \in 0 .. MaxCalls /\ owed \in 0 .. MaxCalls
    BY MaxCallsAssumption DEF Init
  <1>4. TypeOK
    <2>1. chan \in Seq(Message) /\ Len(chan) <= 3
      BY <1>1
    <2>2. pc \in Pcs
      BY DEF Init, Pcs
    <2> QED
      BY <1>2, <1>3, <2>1, <2>2 DEF Init, TypeOK
  <1>5. ~InChan /\ ~Answering
    BY <1>1 DEF Init, InChan, Answering
  <1>6. ChanShape
    BY <1>1 DEF Init, ChanShape
  <1> QED
    BY <1>4, <1>5, <1>6 DEF Init, IInv, StateByPc, OneToken, AnswerOk, KernelPc,
       WakeComing, NoLostWakeup, NoSignalLost, Waiting

\* Every step keeps it.
LEMMA Inductive == IInv /\ [Next]_vars => IInv'
  <1>1. ASSUME IInv, UNCHANGED vars PROVE IInv'
    BY <1>1 DEF IInv, TypeOK, StateByPc, OneToken, InChan, Answering, AnswerOk, Good,
       KernelPc, ChanShape, IsKrpc, WakeComing, NoLostWakeup, NoSignalLost, Waiting,
       Deliverable, vars, shared, client, kernel
  <1> QED
    BY <1>1, ClientStep, KernelSteps DEF Next

\* The invariant holds of the page protocol, whatever the signals and the calls.
THEOREM Invariant == Spec => []IInv
  BY Initially, Inductive, PTL DEF Spec

\* What the client and the kernel write and hold is of its type, and the
\* channel never holds more than three messages.
THEOREM TypeCorrect == Spec => []TypeOK
  <1>1. IInv => TypeOK
    BY DEF IInv
  <1> QED
    BY <1>1, Invariant, PTL

\* The answer a client reads in _finish is the answer to the call it made.
THEOREM AnswersAreOwn == Spec => []AnswerIsMine
  <1>1. IInv => AnswerIsMine
    BY DEF IInv, AnswerIsMine, StateByPc, AnswerOk, Good
  <1> QED
    BY <1>1, Invariant, PTL

\* _respond never writes the payload while the client may be writing it.
THEOREM PageIsExclusive == Spec => []PageExclusive
  <1>1. IInv => PageExclusive
    BY DEF IInv, PageExclusive, OneToken, Answering, AnswerOk, KernelPc, Good
  <1> QED
    BY <1>1, Invariant, PTL

\* A krpc-intr never interrupts a call it was not sent for, however late.
THEOREM InterruptsAreOwn == Spec => []InterruptIsMine
  <1>1. IInv => InterruptIsMine
    BY WaiterIntr DEF InterruptIsMine
  <1> QED
    BY <1>1, Invariant, PTL

\* The doorbell loses no wakeup: of a call, of a stop or of a park.
THEOREM WakeupsArrive == Spec => []NoLostWakeup
  <1>1. IInv => NoLostWakeup
    BY DEF IInv
  <1> QED
    BY <1>1, Invariant, PTL

\* sigpoll's compareExchange claims a signal once and drops none.
THEOREM SignalsStay == Spec => []NoSignalLost
  <1>1. IInv => NoSignalLost
    BY DEF IInv
  <1> QED
    BY <1>1, Invariant, PTL

\* The signal a handler raises with an answer is pending before the answer is.
THEOREM SignalsPrecedeAnswers == Spec => []SignalBeforeAnswer
  <1>1. IInv => SignalBeforeAnswer
    BY DEF IInv, SignalBeforeAnswer, AnswerOk
  <1> QED
    BY <1>1, Invariant, PTL

-----------------------------------------------------------------------------
(* The refinement.                                                         *)

\* Three steps of the page are steps of the abstract call; the rest of what
\* the two sides do is not seen by the program.
LEMMA CallStepMaps ==
  ASSUME IInv, IInv', [Next]_vars
  PROVE  [Call!Next]_(Call!vars)
  <1> USE DEF IInv, Call!vars, Call!NoAnswer
  <1>1. CASE StoreRequest
    <2>1. state = "idle" /\ state' = "request" /\ then = "call.state" /\ calls \in Nat
      BY <1>1, MaxCallsAssumption DEF StoreRequest, Step, StateByPc, TypeOK, Waiting
    <2>2. UNCHANGED <<then, calls, interruptible>> /\ interruptible \in BOOLEAN
      BY <1>1 DEF StoreRequest, TypeOK
    <2>3. Call!Ask
      BY <2>1, <2>2 DEF Call!Ask
    <2> QED
      BY <2>3 DEF Call!Next
  <1>2. CASE StoreDone
    <2>1. state = "request" /\ state' = "done" /\ Good(page)
      BY <1>2 DEF StoreDone, OneToken, Answering, AnswerOk
    <2>2. UNCHANGED <<then, calls, interruptible, page>>
      BY <1>2 DEF StoreDone, client
    <2>3. Call!Answer
      BY <2>1, <2>2 DEF Call!Answer, Good
    <2> QED
      BY <2>3 DEF Call!Next
  <1>3. CASE StoreIdle
    <2>1. state = "done" /\ state' = "idle" /\ then' = "poll.load" /\ calls' = calls
      BY <1>3 DEF StoreIdle, Step, StateByPc
    <2>2. Call!Return
      BY <2>1 DEF Call!Return
    <2> QED
      BY <2>2 DEF Call!Next
  <1>4. CASE StartCall
    BY <1>4, MaxCallsAssumption DEF StartCall, Step, StateByPc, TypeOK, Waiting
  <1>5. CASE SafePoint \/ SetMask \/ ParkCheck
    BY <1>5 DEF SafePoint, SetMask, ParkCheck, Step, StateByPc, Waiting, shared
  <1>6. CASE StorePayload
    BY <1>6 DEF StorePayload, OneToken, Answering, KernelPc, client
  <1>7. CASE UNCHANGED <<state, page, then, calls, interruptible>>
    BY <1>7
  <1> QED
    BY <1>1, <1>2, <1>3, <1>4, <1>5, <1>6, <1>7 DEF Next, CallStep, ProgramStep, KernelStep,
       Event, StopTest, StopSeq, StopAgain, StopWait, PostKrpc, LoadSeq, CheckDone,
       CheckPending, CallWait, ReadAnswer, PollLoad, PollClaim, Park, ParkSeq, ParkWait,
       TakeKrpc, TakeIntr, StorePend, StoreFlag, RingAdd, RingNotify, Complete, Signal,
       StopOrCont, vars, shared, client

\* The page protocol implements the system call SysCall describes: one answer
\* to every call, its own, EINTR only where it may be.
THEOREM ImplementsSysCall == Spec => Call!Safety
  <1>1. Init => Call!Init
    BY DEF Init, Call!Init, Call!NoAnswer
  <1>2. IInv /\ IInv' /\ [Next]_vars => [Call!Next]_(Call!vars)
    BY CallStepMaps
  <1> QED
    BY <1>1, <1>2, Invariant, PTL DEF Spec, Call!Safety

=============================================================================
