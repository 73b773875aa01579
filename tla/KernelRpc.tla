----------------------------- MODULE KernelRpc -----------------------------
(***************************************************************************)
(* The kernel page of one process: the shared words through which its      *)
(* worker (KernelClient in src/guc/kernel.js) and the kernel thread make   *)
(* system calls, post signals and stop it.                                 *)
(*                                                                         *)
(* The two sides run in parallel and meet only in single Atomics, so each  *)
(* Atomics operation (and each write or read of the payload) is an action. *)
(* A handler of the kernel runs to completion but its stores are seen one  *)
(* by one: `kpc` is its place in the stores it still has to make.          *)
(*                                                                         *)
(* KP_DOORBELL only ever grows, and a client only compares it with the     *)
(* value it last loaded; `rung` says whether they differ.  (The real word  *)
(* is 32 bits wide: 2^32 rings inside one load-to-wait window would be     *)
(* needed to confuse the two.)                                             *)
(***************************************************************************)
EXTENDS Naturals, Sequences

CONSTANTS Sigs,     \* the signals in play
          MaxCalls  \* calls a program makes (bounds the call numbers)

ASSUME MaxCallsAssumption == MaxCalls \in Nat

VARIABLES
  \* the shared page
  pend, block,      \* KP_SIGPEND, KP_SIGBLOCK
  stop,             \* KF_STOP in KP_FLAGS
  state,            \* KP_RPC_STATE
  page,             \* the payload: a request or an answer, and its call
  rung,             \* KP_DOORBELL differs from the client's last load
  \* the client
  pc, then,         \* its next step; where _stopWait returns to
  asleep,           \* inside Atomics.wait
  calls,            \* number of the current call
  interruptible, sent,  \* of that call: the flag, and sentIntr
  seen,             \* SIGPEND as sigpoll loaded it
  \* the kernel
  chan,             \* messages posted by the worker, in order
  kpc, ksig, kflag, kans,  \* next store; what the handler will store
  waiter, owed,     \* pcb.waiter is set; the call it or a spawn will answer
  due               \* history: signals posted and not yet claimed

shared == <<pend, block, stop, state, page, rung>>
client == <<pc, then, asleep, calls, interruptible, sent, seen>>
kernel == <<chan, kpc, ksig, kflag, kans, waiter, owed>>
vars == <<shared, client, kernel, due>>

\* `with`: the signals the same handler posts (SIGCHLD with a child's status).
None == [kind |-> "none", call |-> 0, with |-> {}]
Payload == [kind : {"none", "request", "result", "eintr"}, call : Nat,
            with : SUBSET Sigs]
Message == [type : {"krpc", "krpc-intr"}, call : Nat]

-----------------------------------------------------------------------------
(* The client.  Step(from, to) moves it, when it is not asleep.            *)

Step(from, to) == pc = from /\ ~asleep /\ pc' = to

\* KernelClient.call writes the request, then _finish starts with _stopWait.
StartCall ==
  /\ Step("run", "stop.test")
  /\ calls < MaxCalls
  /\ calls' = calls + 1
  /\ interruptible' \in BOOLEAN
  /\ sent' = FALSE
  /\ page' = [kind |-> "request", call |-> calls + 1, with |-> {}]
  /\ then' = "call.state"
  /\ UNCHANGED <<pend, block, stop, state, rung, asleep, seen, kernel, due>>

\* _stopWait
StopTest ==
  /\ Step("stop.test", IF stop THEN "stop.seq" ELSE then)
  /\ UNCHANGED <<shared, then, asleep, calls, interruptible, sent, seen, kernel, due>>

StopSeq ==
  /\ Step("stop.seq", "stop.again")
  /\ rung' = FALSE
  /\ UNCHANGED <<pend, block, stop, state, page, then, asleep, calls,
                 interruptible, sent, seen, kernel, due>>

\* Fault: no second look at the flag after the sequence number is loaded.
StopAgainBlind ==
  /\ Step("stop.again", "stop.wait")
  /\ UNCHANGED <<shared, then, asleep, calls, interruptible, sent, seen, kernel, due>>

StopAgain ==
  /\ Step("stop.again", IF stop THEN "stop.wait" ELSE then)
  /\ UNCHANGED <<shared, then, asleep, calls, interruptible, sent, seen, kernel, due>>

\* Atomics.wait: returns at once if the word moved, else sleeps; a notify
\* clears `asleep`.
StopWait ==
  /\ Step("stop.wait", "stop.test")
  /\ asleep' = ~rung
  /\ UNCHANGED <<shared, then, calls, interruptible, sent, seen, kernel, due>>

\* _finish
StoreRequest ==
  /\ Step("call.state", "call.post")
  /\ state' = "request"
  /\ UNCHANGED <<pend, block, stop, page, rung, then, asleep, calls,
                 interruptible, sent, seen, kernel, due>>

PostKrpc ==
  /\ Step("call.post", "call.seq")
  /\ chan' = Append(chan, [type |-> "krpc", call |-> calls])
  /\ UNCHANGED <<shared, then, asleep, calls, interruptible, sent, seen,
                 kpc, ksig, kflag, kans, waiter, owed, due>>

LoadSeq ==
  /\ Step("call.seq", "call.check")
  /\ rung' = FALSE
  /\ UNCHANGED <<pend, block, stop, state, page, then, asleep, calls,
                 interruptible, sent, seen, kernel, due>>

CheckDone ==
  /\ Step("call.check", IF state = "done" THEN "call.read" ELSE "call.pending")
  /\ UNCHANGED <<shared, then, asleep, calls, interruptible, sent, seen, kernel, due>>

CheckPending ==
  /\ Step("call.pending", "call.wait")
  /\ IF interruptible /\ ~sent /\ pend \ block # {}
       THEN /\ sent' = TRUE
            /\ chan' = Append(chan, [type |-> "krpc-intr", call |-> calls])
       ELSE UNCHANGED <<sent, chan>>
  /\ UNCHANGED <<shared, then, asleep, calls, interruptible, seen,
                 kpc, ksig, kflag, kans, waiter, owed, due>>

\* Fault: sleeps on a sequence number loaded after the checks.
CallWaitFreshSeq ==
  /\ Step("call.wait", "call.seq")
  /\ asleep' = TRUE /\ rung' = FALSE
  /\ UNCHANGED <<pend, block, stop, state, page, then, calls, interruptible,
                 sent, seen, kernel, due>>

CallWait ==
  /\ Step("call.wait", "call.seq")
  /\ asleep' = ~rung
  /\ UNCHANGED <<shared, then, calls, interruptible, sent, seen, kernel, due>>

ReadAnswer ==
  /\ Step("call.read", "call.idle")
  /\ UNCHANGED <<shared, then, asleep, calls, interruptible, sent, seen, kernel, due>>

\* The import returns: a safe point, so sigpoll, which starts with _stopWait.
StoreIdle ==
  /\ Step("call.idle", "stop.test")
  /\ state' = "idle"
  /\ then' = "poll.load"
  /\ UNCHANGED <<pend, block, stop, page, rung, asleep, calls, interruptible,
                 sent, seen, kernel, due>>

\* Any other import is a safe point too.
SafePoint ==
  /\ Step("run", "stop.test")
  /\ then' = "poll.load"
  /\ UNCHANGED <<shared, asleep, calls, interruptible, sent, seen, kernel, due>>

\* sigpoll: load, and compareExchange; deliverSignals polls until nothing is
\* claimed, unless the handler it runs makes calls first.
PollLoad ==
  /\ Step("poll.load", IF pend \ block = {} THEN "run" ELSE "poll.claim")
  /\ seen' = pend
  /\ UNCHANGED <<shared, then, asleep, calls, interruptible, sent, kernel, due>>

\* Fault: a store where the compareExchange should be.
PollClaimByStore ==
  /\ Step("poll.claim", "run")
  /\ pend' = seen \cap block
  /\ due' = due \ (seen \ block)
  /\ UNCHANGED <<block, stop, state, page, rung, then, asleep, calls,
                 interruptible, sent, seen, kernel>>

PollClaim ==
  /\ IF pend = seen
       THEN /\ \E next \in {"run", "stop.test"} : Step("poll.claim", next)
            /\ pend' = seen \cap block
            /\ due' = due \ (seen \ block)
       ELSE /\ Step("poll.claim", "poll.load")
            /\ UNCHANGED <<pend, due>>
  /\ UNCHANGED <<block, stop, state, page, rung, then, asleep, calls,
                 interruptible, sent, seen, kernel>>

\* KernelClient.sigmask
SetMask ==
  /\ Step("run", "stop.test")
  /\ block' \in SUBSET Sigs
  /\ then' = "poll.load"
  /\ UNCHANGED <<pend, stop, state, page, rung, asleep, calls, interruptible,
                 sent, seen, kernel, due>>

\* KernelClient.park, with no timeout: pause() and sigsuspend().
Park ==
  /\ Step("run", "park.seq")
  /\ UNCHANGED <<shared, then, asleep, calls, interruptible, sent, seen, kernel, due>>

ParkSeq ==
  /\ Step("park.seq", "park.check")
  /\ rung' = FALSE
  /\ UNCHANGED <<pend, block, stop, state, page, then, asleep, calls,
                 interruptible, sent, seen, kernel, due>>

ParkCheck ==
  /\ Step("park.check", IF pend \ block # {} THEN "stop.test" ELSE "park.wait")
  /\ then' = "poll.load"
  /\ UNCHANGED <<shared, asleep, calls, interruptible, sent, seen, kernel, due>>

ParkWait ==
  /\ Step("park.wait", "park.seq")
  /\ asleep' = ~rung
  /\ UNCHANGED <<shared, then, calls, interruptible, sent, seen, kernel, due>>

-----------------------------------------------------------------------------
(* The kernel.  At "loop" it takes the next message or another process's   *)
(* handler acts on this one; the stores follow in the handler's order:     *)
(* signal bit, ring, payload, DONE, ring.                                  *)

Free == kpc = "loop"

\* Fault: the answer goes first.
BeginWithAnswer(sigs, answer) ==
  /\ kpc' = IF answer # None THEN "payload" ELSE IF sigs # {} THEN "post" ELSE "loop"
  /\ ksig' = sigs
  /\ kans' = answer
  /\ UNCHANGED kflag

\* What a handler has decided to do to this page: raise a signal, then answer.
Begin(sigs, answer) ==
  /\ kpc' = IF sigs # {} THEN "post" ELSE IF answer # None THEN "payload" ELSE "loop"
  /\ ksig' = sigs
  /\ kans' = answer
  /\ UNCHANGED kflag

Answered(kind, sigs) == [kind |-> kind, call |-> owed, with |-> sigs]

\* _onWorkerMessage 'krpc' and _dispatchRpc: answered now, or deferred to a
\* waiter (a wait, a read ...) or to a promise (SPAWN, never interruptible).
TakeKrpc ==
  /\ Free
  /\ chan # <<>> /\ Head(chan).type = "krpc"
  /\ chan' = Tail(chan)
  /\ IF state # "request"
       THEN UNCHANGED <<kpc, ksig, kflag, kans, waiter, owed>>
       ELSE \/ /\ Begin({}, [kind |-> "result", call |-> page.call, with |-> {}])
               /\ UNCHANGED <<waiter, owed>>
            \/ /\ waiter' \in {TRUE} \cup (IF interruptible THEN {} ELSE {FALSE})
               /\ owed' = page.call
               /\ UNCHANGED <<kpc, ksig, kflag, kans>>
  /\ UNCHANGED <<shared, client, due>>

\* Fault: answered, with the waiter left registered.
TakeIntrKeeping ==
  /\ Free
  /\ chan # <<>> /\ Head(chan).type = "krpc-intr"
  /\ chan' = Tail(chan)
  /\ IF waiter THEN Begin({}, Answered("eintr", {})) ELSE UNCHANGED <<kpc, ksig, kflag, kans>>
  /\ UNCHANGED <<shared, client, waiter, owed, due>>

\* _onWorkerMessage 'krpc-intr': a late one finds no waiter.
TakeIntr ==
  /\ Free
  /\ chan # <<>> /\ Head(chan).type = "krpc-intr"
  /\ chan' = Tail(chan)
  /\ IF waiter
       THEN Begin({}, Answered("eintr", {})) /\ waiter' = FALSE /\ owed' = 0
       ELSE UNCHANGED <<kpc, ksig, kflag, kans, waiter, owed>>
  /\ UNCHANGED <<shared, client, due>>

\* What the deferred call waited for has come: a child's exit posts SIGCHLD
\* first, anything else posts nothing.
Complete ==
  /\ Free
  /\ owed # 0
  /\ \E sigs \in {{}} \cup (IF waiter THEN {{s} : s \in Sigs} ELSE {}) :
       Begin(sigs, Answered("result", sigs))
  /\ waiter' = FALSE /\ owed' = 0
  /\ UNCHANGED <<shared, client, chan, due>>

\* _deliver of a signal the process handles or has blocked.
Signal ==
  /\ Free
  /\ \E s \in Sigs : Begin({s}, None)
  /\ UNCHANGED <<shared, client, chan, waiter, owed, due>>

\* _stopProcess and _contProcess.
StopOrCont ==
  /\ Free
  /\ kflag' = ~stop
  /\ kpc' = "flag"
  /\ UNCHANGED <<shared, client, chan, ksig, kans, waiter, owed, due>>

StorePend ==
  /\ kpc = "post"
  /\ pend' = pend \cup ksig
  /\ due' = due \cup ksig
  /\ ksig' = {}
  /\ kpc' = "bell"
  /\ UNCHANGED <<block, stop, state, page, rung, client, chan, kflag, kans, waiter, owed>>

StoreFlag ==
  /\ kpc = "flag"
  /\ stop' = kflag
  /\ kpc' = "bell"
  /\ UNCHANGED <<pend, block, state, page, rung, client, chan, ksig, kflag, kans, waiter, owed, due>>

\* _respond
StorePayload ==
  /\ kpc = "payload"
  /\ page' = kans
  /\ kans' = None
  /\ kpc' = "done"
  /\ UNCHANGED <<pend, block, stop, state, rung, client, chan, ksig, kflag, waiter, owed, due>>

StoreDone ==
  /\ kpc = "done"
  /\ state' = "done"
  /\ kpc' = "bell"
  /\ UNCHANGED <<pend, block, stop, page, rung, client, chan, ksig, kflag, kans, waiter, owed, due>>

\* _ring: add, then notify.
RingAdd ==
  /\ kpc = "bell"
  /\ rung' = TRUE
  /\ kpc' = "notify"
  /\ UNCHANGED <<pend, block, stop, state, page, client, chan, ksig, kflag, kans, waiter, owed, due>>

RingNotify ==
  /\ kpc = "notify"
  /\ asleep' = FALSE
  /\ kpc' = IF ksig # {} THEN "post" ELSE IF kans # None THEN "payload" ELSE "loop"
  /\ UNCHANGED <<shared, pc, then, calls, interruptible, sent, seen,
                 chan, ksig, kflag, kans, waiter, owed, due>>

-----------------------------------------------------------------------------

Init ==
  /\ pend = {} /\ block = {} /\ stop = FALSE /\ state = "idle" /\ page = None
  /\ rung = FALSE
  /\ pc = "run" /\ then = "poll.load" /\ asleep = FALSE /\ calls = 0
  /\ interruptible = FALSE /\ sent = FALSE /\ seen = {}
  /\ chan = <<>> /\ kpc = "loop" /\ ksig = {} /\ kflag = FALSE /\ kans = None
  /\ waiter = FALSE /\ owed = 0
  /\ due = {}

\* Steps the worker always takes: a call under way, a safe point under way.
CallStep ==
  \/ StopTest \/ StopSeq \/ StopAgain \/ StopWait
  \/ StoreRequest \/ PostKrpc \/ LoadSeq \/ CheckDone \/ CheckPending \/ CallWait
  \/ ReadAnswer \/ StoreIdle
  \/ PollLoad \/ PollClaim
  \/ ParkSeq \/ ParkCheck \/ ParkWait

\* What a program chooses to do.
ProgramStep == StartCall \/ SafePoint \/ SetMask \/ Park

\* Stores a handler has yet to make, and messages it has yet to take.
KernelStep ==
  \/ TakeKrpc \/ TakeIntr
  \/ StorePend \/ StoreFlag \/ StorePayload \/ StoreDone \/ RingAdd \/ RingNotify

\* What happens to the process: others signal it, stop it, satisfy its waits.
Event == Complete \/ Signal \/ StopOrCont

Next == CallStep \/ ProgramStep \/ KernelStep \/ Event

Spec == Init /\ [][Next]_vars


\* The worker's thread and the kernel's event loop keep running, and a message
\* in the loop's queue is not overtaken for ever by other handlers.
Fairness ==
  /\ WF_vars(CallStep)
  /\ WF_vars(StorePend \/ StoreFlag \/ StorePayload \/ StoreDone \/ RingAdd \/ RingNotify)
  /\ SF_vars(TakeKrpc) /\ SF_vars(TakeIntr)

FairSpec == Spec /\ Fairness

-----------------------------------------------------------------------------
(* What a program sees of all this: calls, answered once and in order.     *)

Call == INSTANCE SysCall WITH
  phase <- CASE state = "idle" -> "idle" [] state = "request" -> "asked"
             [] OTHER -> "answered",
  call <- IF state = "idle" /\ then = "call.state" THEN calls - 1 ELSE calls,
  may <- state # "idle" /\ interruptible,
  answer <- IF state = "done" THEN [kind |-> page.kind, call |-> page.call]
            ELSE [kind |-> "none", call |-> 0]

\* The page protocol implements the abstract system call.
CallImplemented == Call!Spec

-----------------------------------------------------------------------------
(* Properties.                                                             *)

Pcs == {"run", "stop.test", "stop.seq", "stop.again", "stop.wait",
        "call.state", "call.post", "call.seq", "call.check", "call.pending",
        "call.wait", "call.read", "call.idle", "poll.load", "poll.claim",
        "park.seq", "park.check", "park.wait"}

\* The state's types; at most one krpc-intr of the last call, and the krpc and
\* krpc-intr of this one, are in the channel.
TypeOK ==
  /\ pend \subseteq Sigs /\ block \subseteq Sigs /\ stop \in BOOLEAN
  /\ state \in {"idle", "request", "done"} /\ page \in Payload /\ rung \in BOOLEAN
  /\ pc \in Pcs /\ then \in {"call.state", "poll.load"} /\ asleep \in BOOLEAN
  /\ calls \in 0 .. MaxCalls /\ interruptible \in BOOLEAN /\ sent \in BOOLEAN
  /\ seen \subseteq Sigs
  /\ chan \in Seq(Message) /\ Len(chan) <= 3
  /\ kpc \in {"loop", "post", "flag", "payload", "done", "bell", "notify"}
  /\ ksig \subseteq Sigs /\ kflag \in BOOLEAN /\ kans \in Payload
  /\ waiter \in BOOLEAN /\ owed \in 0 .. MaxCalls
  /\ due \subseteq Sigs

Waiting == pc \in {"call.seq", "call.check", "call.pending", "call.wait"}
Deliverable == pend \ block # {}

\* What the client reads is the answer to the call it made, and EINTR only
\* where the call allows it.
AnswerIsMine ==
  pc = "call.read" =>
    /\ page.call = calls /\ page.kind \in {"result", "eintr"}
    /\ page.kind = "eintr" => interruptible

\* The kernel writes the payload and DONE only while the client waits for
\* them: the client is never writing its next request there.
PageExclusive ==
  /\ kpc \in {"payload", "done"} => Waiting /\ state = "request"
  /\ kpc = "payload" => kans.call = calls

\* A krpc-intr that finds a waiter was sent for the call that waiter is for.
InterruptIsMine ==
  waiter /\ chan # <<>> /\ Head(chan).type = "krpc-intr" => Head(chan).call = owed

\* Asleep with no ring on its way, the client has nothing to wake for.
NoLostWakeup ==
  asleep /\ kpc \notin {"bell", "notify"} =>
    /\ pc = "call.seq" => state # "done" /\ ~(interruptible /\ ~sent /\ Deliverable)
    /\ pc = "stop.test" => stop
    /\ pc = "park.seq" => ~Deliverable

\* A signal posted stays pending until the client claims it.
NoSignalLost == due \subseteq pend

\* SIGCHLD is up before the wait it interrupts is answered: the program's
\* handler runs before waitpid returns to it.
SignalBeforeAnswer == Waiting /\ state = "done" => page.with \subseteq pend

\* A deliverable signal gets the client out of an interruptible call.
SignalInterrupts ==
  (Waiting /\ interruptible /\ Deliverable) ~> (state = "done" \/ ~Deliverable)

\* A continued process leaves its stop.
ContResumes == (~stop /\ pc = "stop.test") ~> (stop \/ pc = then)

=============================================================================
