------------------------------- MODULE Services -------------------------------
(* Four services of the embedder that share no state, explored side by side  *)
(* in one run with their fairness: the page's client beside the worker's     *)
(* executions (PageClient, with the constants of the cfg), the executions    *)
(* alone with longer ladders and forks, an HTTP transfer, and the clipboard. *)
(* The service is chosen at the start; the others stay where they begin.     *)
EXTENDS PageClient

CONSTANTS
    LongBytes, LongForks, LongKill, LongLeak, LongForget, LongTimeouts, \* of executions alone
    HttpReaders, HttpCap, HttpSizes, HttpBytes, HttpIdle,               \* of HttpTransfer
    Pasters, MaxHost, MaxCalls                                          \* of Clipboard

ASSUME ServicesAssumption ==
    /\ {LongKill, LongLeak, LongForget} \subseteq Nat \ {0} /\ LongTimeouts \subseteq Nat \ {0}
    /\ LongBytes \in Nat /\ LongForks \in Nat
    /\ HttpCap \in Nat /\ HttpSizes \subseteq Nat

VARIABLES
    service,                                              \* the service that moves
    fetch, pull, status, queued, done, error, gone, paused, hdr, idle, idleOn, given, handed,
    who, after,                                           \* HttpTransfer
    host, slot, parked, dead, calls, pending, backstop, fresh, served, asks, reads, answers,
    floor, late, denied, pasted                           \* Clipboard

httpVars == <<fetch, pull, status, queued, done, error, gone, paused, hdr, idle, idleOn, given,
              handed, who, after>>
clipVars == <<host, slot, parked, dead, calls, pending, backstop, fresh, served, asks, reads,
              answers, floor, late, denied, pasted>>

\* Executions without a page.
E == INSTANCE Execution WITH
       MaxBytes <- LongBytes, MaxForks <- LongForks, KillTicks <- LongKill,
       LeakTicks <- LongLeak, ForgetTicks <- LongForget, Timeouts <- LongTimeouts

\* One transfer and its readers.
H == INSTANCE HttpTransfer WITH
       aborted <- gone, got <- handed,
       Readers <- HttpReaders, Cap <- HttpCap, Sizes <- HttpSizes, MaxBytes <- HttpBytes,
       IdleSet <- HttpIdle

\* Processes that paste.
P == INSTANCE Clipboard WITH
       timer <- backstop, toWorker <- answers,
       Procs <- Pasters

ServicesInit ==
    /\ service \in {"page", "exec", "http", "clip"}
    /\ PageInit /\ H!Init /\ P!Init
    /\ service # "http" => idleOn

everything == <<service, all, httpVars, clipVars>>

\* One service moves.
OnlyPage == service = "page" /\ UNCHANGED <<service, httpVars, clipVars>>
OnlyExec == service = "exec" /\ UNCHANGED <<service, pageVars, worker, chans, bound, httpVars, clipVars>>
OnlyHttp == service = "http" /\ UNCHANGED <<service, all, clipVars>>
OnlyClip == service = "clip" /\ UNCHANGED <<service, all, httpVars>>

ServicesNext ==
    \/ OnlyPage /\ PageNext
    \/ OnlyExec /\ E!Next
    \/ OnlyHttp /\ H!Next
    \/ OnlyClip /\ P!Next

\* What a fair scheduler runs.  Clocks: the worker boots, time passes, a
\* deadline that is due is noticed.  Tasks: what is due in the worker runs.
\* Only one service moves in a behaviour, so fairness to a union is fairness
\* to each of its parts.
Clocks ==
    \/ OnlyPage /\ (Boot \/ BootEnds)
    \/ OnlyExec /\ E!Tick
    \/ OnlyHttp /\ H!Deadlines
    \/ OnlyClip /\ P!Timeout
Tasks ==
    \/ OnlyPage /\ Clock
    \/ OnlyExec /\ (\E i \in Ids : E!Worker(i))

\* Nothing is asked of programs, of the network, or of the page in a paste.
ServicesSpec ==
    /\ ServicesInit /\ [][ServicesNext]_everything
    /\ WF_everything(Clocks) /\ WF_everything(Tasks)
    /\ WF_everything(OnlyPage /\ WorkerReceives) /\ WF_everything(OnlyPage /\ PageReceives)
    /\ \A r \in HttpReaders : WF_everything(OnlyHttp /\ H!Reader(r))
    /\ WF_everything(OnlyPage /\ (\E i \in Ids : WorkerStep(i)))

----------------------------------------------------------------------------
(* Properties: those of the services' modules, where they are explained.     *)

\* An exit event is final, and tells an abort from an ordinary end.
ExitsAreFinal == IF service = "exec" THEN E!ExitIsFinal ELSE ExitIsFinal

\* Every execution ends (a worker that the page terminates ends with it).
ExecutionsComplete ==
    \A i \in Ids : service = "exec" /\ phase[i] = "live" ~> phase[i] = "done"

\* A reader's outcome is final, and the end comes after every byte.
OutcomeIsFinal == H!OutcomeIsFinal

\* Every reader learns how a transfer with its deadlines on ends.
ReadersLearnOutcome == H!ReadersLearnOutcome

\* A trip to the host brings back nothing older than what it set out for.
FreshEnough == P!FreshEnough

\* Every parked paste returns.
GetsReturn == P!GetsReturn
===============================================================================
