------------------------- MODULE ProcScenarioProofs -------------------------
(* The results about the process table, for the three scenarios of           *)
(* ProcScenarios: waits with the constants given, whatever they are, and     *)
(* jobs and alarms with their own.                                           *)
(*                                                                           *)
(* Each scenario keeps the invariant of ProcTableProofs at its constants.    *)
(* The modules have two names for one process table at the constants of      *)
(* jobs (Jobs here, JobsP there), and two at those of alarms; the longest    *)
(* part shows that their steps are the same.                                 *)
EXTENDS ProcScenarios, ProcTableProofs

JobsP == INSTANCE ProcTableProofs WITH
           Sigs <- {"KILL", "CHLD", "TSTP", "STOP", "CONT"}, Handled <- {},
           Kinds <- {"handler"}, Maskable <- {}, Sels <- AnyChild,
           OptSets <- {{"untraced", "continued"}}, PgidArgs <- {},
           Timers <- {}, Embedder <- FALSE, WorkerLoss <- FALSE

AlarmsP == INSTANCE ProcTableProofs WITH
             MaxPid <- 2, Sigs <- {"CHLD", "ALRM", "HUP"}, Handled <- {"ALRM"},
             Kinds <- {"handler"}, Maskable <- {"ALRM"}, Sels <- AnyChild,
             OptSets <- {{}}, PgidArgs <- {0},
             Timers <- {"once", "interval"}, Embedder <- TRUE, WorkerLoss <- TRUE

-----------------------------------------------------------------------------
(* The constants of jobs and of alarms meet the assumptions.                 *)

LEMMA JobsConstants ==
  JobsP!MaxPidAssumption /\ JobsP!SigsAssumption /\ JobsP!ArgsAssumption
  BY MaxPidAssumption
  DEF JobsP!MaxPidAssumption, JobsP!SigsAssumption, JobsP!ArgsAssumption, AnyChild,
      JobsP!AllSigs, JobsP!Dispositions, JobsP!WaitOptions

LEMMA AlarmsConstants ==
  AlarmsP!MaxPidAssumption /\ AlarmsP!SigsAssumption /\ AlarmsP!ArgsAssumption
  BY DEF AlarmsP!MaxPidAssumption, AlarmsP!SigsAssumption, AlarmsP!ArgsAssumption, AnyChild,
         AlarmsP!AllSigs, AlarmsP!Dispositions, AlarmsP!WaitOptions

\* No signal of alarms stops a process.
LEMMA AlarmsNoJobControl == AlarmsP!NoJobControl
  BY DEF AlarmsP!NoJobControl

-----------------------------------------------------------------------------
(* The steps of jobs and of alarms are those of the table proved about.      *)

\* The child _reparent finds first.
Least(S) == CHOOSE c \in S : \A d \in S : c <= d

JobSigs == {"KILL", "CHLD", "TSTP", "STOP", "CONT"}
AlarmSigs == {"CHLD", "ALRM", "HUP"}

\* What the waiter must have asked for, and the table once it is told.
Needed(kind) == IF kind = "stop" THEN "untraced" ELSE "continued"
MarkedTold(ps, p, kind) ==
  IF kind = "stop" THEN [ps EXCEPT ![p].pendingStop = FALSE]
  ELSE [ps EXCEPT ![p].pendingCont = FALSE]

\* What _exitProcess makes of the process itself.
Torn(ps, p, sigs, waiter, reply) ==
  [ps EXCEPT ![p].state = "zombie",
             ![p].waiter = waiter, ![p].itimer = "off", ![p].worker = "none",
             ![p].disp = [s \in sigs |-> "dfl"], ![p].pend = {}, ![p].block = {},
             ![p].pendingStop = FALSE, ![p].pendingCont = FALSE,
             ![p].rpc = reply]

\* The small operators the two names have in common.
LEMMA JobsParts ==
  /\ Jobs!NoWaiter = JobsP!NoWaiter /\ Jobs!Done = JobsP!Done
  /\ \A tag, p : Jobs!Rpc(tag, p) = JobsP!Rpc(tag, p)
  /\ \A ps, p : Jobs!Live(ps, p) = JobsP!Live(ps, p)
  /\ \A ps, p : Jobs!InTable(ps, p) = JobsP!InTable(ps, p)
  /\ \A ps, p, c : Jobs!WaitsFor(ps, p, c) = JobsP!WaitsFor(ps, p, c)
  /\ \A ps, p : Jobs!DeliverChld(ps, p) = JobsP!DeliverChld(ps, p)
<1>1. Jobs!NoWaiter = JobsP!NoWaiter /\ Jobs!Done = JobsP!Done
  BY DEF Jobs!NoWaiter, JobsP!NoWaiter, Jobs!Done, JobsP!Done, Jobs!Rpc, JobsP!Rpc
<1>2. \A tag, p : Jobs!Rpc(tag, p) = JobsP!Rpc(tag, p)
  BY DEF Jobs!Rpc, JobsP!Rpc
<1>3. \A ps, p : Jobs!Live(ps, p) = JobsP!Live(ps, p)
  BY DEF Jobs!Live, JobsP!Live, Jobs!Pid, JobsP!Pid
<1>4. \A ps, p : Jobs!InTable(ps, p) = JobsP!InTable(ps, p)
  BY DEF Jobs!InTable, JobsP!InTable, Jobs!Pid, JobsP!Pid
<1>5. \A ps, p, c : Jobs!WaitsFor(ps, p, c) = JobsP!WaitsFor(ps, p, c)
  BY DEF Jobs!WaitsFor, JobsP!WaitsFor, Jobs!WaitSelectorMatch, JobsP!WaitSelectorMatch
<1>6. \A ps, p : Jobs!DeliverChld(ps, p) = JobsP!DeliverChld(ps, p)
  BY DEF Jobs!DeliverChld, JobsP!DeliverChld, Jobs!Post, JobsP!Post
<1> QED
  BY <1>1, <1>2, <1>3, <1>4, <1>5, <1>6

LEMMA JobsAnswer == \A ps, p, reply : Jobs!Answer(ps, p, reply) = JobsP!Answer(ps, p, reply)
<1>1. \A ps, p, reply : Jobs!Respond(ps, p, reply) = JobsP!Respond(ps, p, reply)
  BY JobsParts DEF Jobs!Respond, JobsP!Respond
<1> QED
  BY <1>1, JobsParts DEF Jobs!Answer, JobsP!Answer

LEMMA JobsReap == \A ps, z : Jobs!Reap(ps, z) = JobsP!Reap(ps, z)
<1> TAKE ps, z
<1> DEFINE gone == [ps EXCEPT ![z].listed = FALSE, ![z].missed = FALSE]
           parent == ps[z].ppid
           less == [gone EXCEPT ![parent].children = @ \ {z}]
<1>1. Jobs!Reap(ps, z) = IF Jobs!InTable(gone, parent) THEN less ELSE gone
  BY ZenonT(60) DEF Jobs!Reap
<1>2. JobsP!Reap(ps, z) = IF JobsP!InTable(gone, parent) THEN less ELSE gone
  BY ZenonT(60) DEF JobsP!Reap
<1> HIDE DEF gone, parent, less
<1> QED
  BY <1>1, <1>2, JobsParts

LEMMA JobsReparent ==
  ASSUME NEW ps, NEW p PROVE Jobs!Reparent(ps, p) = JobsP!Reparent(ps, p)
<1> DEFINE due == Jobs!AdoptedZombies(ps, p)
           dueP == JobsP!AdoptedZombies(ps, p)
           moved == JobsP!Moved(ps, p)
           adopted == JobsP!Adopted(ps, p)
<1>1. due = dueP
  BY DEF Jobs!AdoptedZombies, JobsP!AdoptedZombies, Jobs!WaitsFor, JobsP!WaitsFor,
     Jobs!WaitSelectorMatch, JobsP!WaitSelectorMatch
<1>2. \A qs, z : Jobs!Answer(Jobs!Reap(qs, z), 1, Jobs!Rpc("exit", z))
                = JobsP!Answer(JobsP!Reap(qs, z), 1, JobsP!Rpc("exit", z))
  BY JobsParts, JobsAnswer, JobsReap
<1>3. Jobs!Reparent(ps, p) =
        IF p = 1 \/ ~ps[1].listed THEN moved
        ELSE IF due = {} THEN adopted
        ELSE Jobs!Answer(Jobs!Reap(adopted, Least(due)), 1, Jobs!Rpc("exit", Least(due)))
  BY ZenonT(60) DEF Jobs!Reparent, Jobs!Pid, JobsP!Pid, Least, JobsP!Adopted, JobsP!Moved,
               JobsP!Orphans
<1>4. JobsP!Reparent(ps, p) =
        IF p = 1 \/ ~ps[1].listed THEN moved
        ELSE IF dueP = {} THEN adopted
        ELSE JobsP!Answer(JobsP!Reap(adopted, Least(dueP)), 1,
                       JobsP!Rpc("exit", Least(dueP)))
  BY ZenonT(60) DEF JobsP!Reparent, JobsP!Pid, Least, JobsP!Adopted, JobsP!Moved, JobsP!Orphans
<1> HIDE DEF due, dueP, moved, adopted
<1> QED
  BY <1>1, <1>2, <1>3, <1>4

\* The parts of an exit and of a stop.
LEMMA JobsExitParts ==
  /\ \A ps, p, kind : Jobs!JobNotifyParent(ps, p, kind) = JobsP!JobNotifyParent(ps, p, kind)
  /\ \A ps, p : Jobs!NotifyExit(ps, p) = JobsP!NotifyExit(ps, p)
  /\ \A ps, p : Jobs!Teardown(ps, p) = JobsP!Teardown(ps, p)
<1>1. \A ps, p, kind : Jobs!JobNotifyParent(ps, p, kind) = JobsP!JobNotifyParent(ps, p, kind)
  <2> TAKE ps, p, kind
  <2> DEFINE parent == ps[p].ppid
             told == Jobs!DeliverChld(ps, parent)
             toldP == JobsP!DeliverChld(ps, parent)
  <2>1. told = toldP
    BY JobsParts
  <2>2. Jobs!JobNotifyParent(ps, p, kind) =
          IF ~Jobs!Live(ps, parent) THEN ps
          ELSE IF Jobs!WaitsFor(told, parent, p) /\ Needed(kind) \in told[parent].waiter.opts
            THEN Jobs!Answer(MarkedTold(told, p, kind), parent, Jobs!Rpc(kind, p))
            ELSE told
    BY ZenonT(60) DEF Jobs!JobNotifyParent, Needed, MarkedTold
  <2>3. JobsP!JobNotifyParent(ps, p, kind) =
          IF ~JobsP!Live(ps, parent) THEN ps
          ELSE IF JobsP!WaitsFor(toldP, parent, p) /\ Needed(kind) \in toldP[parent].waiter.opts
            THEN JobsP!Answer(MarkedTold(toldP, p, kind), parent, JobsP!Rpc(kind, p))
            ELSE toldP
    BY ZenonT(60) DEF JobsP!JobNotifyParent, Needed, MarkedTold
  <2> HIDE DEF parent, told, toldP
  <2> QED
    BY <2>1, <2>2, <2>3, JobsParts, JobsAnswer
<1>2. \A ps, p : Jobs!NotifyExit(ps, p) = JobsP!NotifyExit(ps, p)
  BY JobsParts, JobsAnswer, JobsReap DEF Jobs!NotifyExit, JobsP!NotifyExit
<1>3. \A ps, p : Jobs!Teardown(ps, p) = JobsP!Teardown(ps, p)
  <2> TAKE ps, p
  <2>1. Jobs!Teardown(ps, p) = Torn(ps, p, JobSigs, Jobs!NoWaiter, Jobs!Done)
    BY ZenonT(60) DEF Jobs!Teardown, Torn, JobSigs
  <2>2. JobsP!Teardown(ps, p) = Torn(ps, p, JobSigs, JobsP!NoWaiter, JobsP!Done)
    BY ZenonT(60) DEF JobsP!Teardown, Torn, JobSigs
  <2> QED
    BY <2>1, <2>2, JobsParts
<1> QED
  BY <1>1, <1>2, <1>3

LEMMA JobsNext == Jobs!Next => JobsP!Next
<1> USE DEF Jobs!Pid, JobsP!Pid, Jobs!NoWaiter, JobsP!NoWaiter, Jobs!Rpc, JobsP!Rpc,
        Jobs!Done, JobsP!Done, Jobs!InTable, JobsP!InTable, Jobs!Live, JobsP!Live,
        Jobs!WaitSelectorMatch, JobsP!WaitSelectorMatch, Jobs!WaitsFor, JobsP!WaitsFor,
        Jobs!Respond, JobsP!Respond, Jobs!Answer, JobsP!Answer, Jobs!Post, JobsP!Post,
        Jobs!NewPcb, JobsP!NewPcb, Jobs!NoKill, JobsP!NoKill, Jobs!Quiet, JobsP!Quiet,
        Jobs!Replied, JobsP!Replied, Jobs!AtSafePoint, JobsP!AtSafePoint, Jobs!Dispatched,
        JobsP!Dispatched, Jobs!Terminating, JobsP!Terminating, Jobs!Halted, JobsP!Halted,
        Jobs!vars, JobsP!vars
<1>1. \A ps, p, kind : Jobs!JobNotifyParent(ps, p, kind) = JobsP!JobNotifyParent(ps, p, kind)
  BY JobsExitParts
<1>2. \A ps, p : Jobs!StopProcess(ps, p) = JobsP!StopProcess(ps, p)
  BY <1>1 DEF Jobs!StopProcess, JobsP!StopProcess
<1>3. \A ps, p : Jobs!ContProcess(ps, p) = JobsP!ContProcess(ps, p)
  BY <1>1 DEF Jobs!ContProcess, JobsP!ContProcess
<1>4. \A ps, p : Jobs!Reparent(ps, p) = JobsP!Reparent(ps, p)
  BY JobsReparent
<1>5. \A ps, p : Jobs!NotifyExit(ps, p) = JobsP!NotifyExit(ps, p)
  BY JobsExitParts
<1>6. \A ps, p : Jobs!Teardown(ps, p) = JobsP!Teardown(ps, p)
  BY JobsExitParts
<1>7. \A ps, p : Jobs!ExitProcess(ps, p) = JobsP!ExitProcess(ps, p)
  BY <1>4, <1>5, <1>6 DEF Jobs!ExitProcess, JobsP!ExitProcess
<1>8. \A ps, p, sig : Jobs!DefaultAction(ps, p, sig) = JobsP!DefaultAction(ps, p, sig)
  BY <1>7, <1>2 DEF Jobs!DefaultAction, JobsP!DefaultAction
<1>9. \A ps, p, sig : Jobs!Deliver(ps, p, sig) = JobsP!Deliver(ps, p, sig)
  BY <1>7, <1>2, <1>3, <1>8 DEF Jobs!Deliver, JobsP!Deliver
<1>10. \A p : (Jobs!Call(p) => JobsP!Call(p)) /\ (Jobs!SetMask(p) => JobsP!SetMask(p))
  BY DEF Jobs!Call, JobsP!Call, Jobs!SetMask, JobsP!SetMask
<1>11. \A p : (Jobs!WorkerDies(p) => JobsP!WorkerDies(p)) /\ (Jobs!Exit(p) =>
         JobsP!Exit(p))
  BY <1>7 DEF Jobs!WorkerDies, JobsP!WorkerDies, Jobs!Exit, JobsP!Exit
<1>12. \A p, sig : Jobs!TakeSignal(p, sig) => JobsP!TakeSignal(p, sig)
  BY <1>7 DEF Jobs!TakeSignal, JobsP!TakeSignal
<1>13. \A p : Jobs!ProgramNext(p) => JobsP!ProgramNext(p)
  BY <1>10, <1>11, <1>12 DEF Jobs!ProgramNext, JobsP!ProgramNext
<1>14. \A p : Jobs!Wait(p) => JobsP!Wait(p)
  BY DEF Jobs!Wait, JobsP!Wait, Jobs!Candidates, JobsP!Candidates, Jobs!Reap, JobsP!Reap
<1>15. \A p : (Jobs!Interrupt(p) => JobsP!Interrupt(p)) /\ (Jobs!SetDisposition(p) =>
         JobsP!SetDisposition(p))
  BY DEF Jobs!Interrupt, JobsP!Interrupt, Jobs!SetDisposition, JobsP!SetDisposition
<1>16. \A p : Jobs!Kill(p) => JobsP!Kill(p)
  BY <1>9, ZenonT(60) DEF Jobs!Kill, JobsP!Kill
<1>17. \A p : Jobs!KillGroup(p) => JobsP!KillGroup(p)
  BY DEF Jobs!KillGroup, JobsP!KillGroup, Jobs!Group, JobsP!Group
<1>18. \A p : (Jobs!SetPgid(p) => JobsP!SetPgid(p)) /\ (Jobs!SetSid(p) => JobsP!SetSid(p))
  <2>1. \A p : Jobs!SetPgid(p) => JobsP!SetPgid(p)
    BY DEF Jobs!SetPgid, JobsP!SetPgid
  <2>2. \A p : Jobs!SetSid(p) => JobsP!SetSid(p)
    BY DEF Jobs!SetSid, JobsP!SetSid
  <2> QED
    BY <2>1, <2>2
<1>19. \A p : (Jobs!SetTimer(p) => JobsP!SetTimer(p)) /\ (Jobs!Spawn(p) => JobsP!Spawn(p))
  BY DEF Jobs!SetTimer, JobsP!SetTimer, Jobs!Spawn, JobsP!Spawn
<1>20. \A p : Jobs!TimerFires(p) => JobsP!TimerFires(p)
  BY <1>9 DEF Jobs!TimerFires, JobsP!TimerFires, Jobs!FireTimer, JobsP!FireTimer
<1>21. \A p : Jobs!HandlerNext(p) => JobsP!HandlerNext(p)
  BY <1>11, <1>14, <1>15, <1>16, <1>17, <1>18, <1>19, <1>20 DEF Jobs!HandlerNext,
     JobsP!HandlerNext
<1>22. (Jobs!EmbedderKillGroup => JobsP!EmbedderKillGroup) /\ (Jobs!EmbedderSpawn =>
         JobsP!EmbedderSpawn)
  BY DEF Jobs!EmbedderKillGroup, JobsP!EmbedderKillGroup, Jobs!EmbedderSpawn,
     JobsP!EmbedderSpawn, Jobs!Group, JobsP!Group
<1>23. Jobs!KillNext => JobsP!KillNext
  BY <1>9 DEF Jobs!KillNext, JobsP!KillNext
<1>24. \A ps, parent, pid, child : Jobs!AddProcess(ps, parent, pid, child) =
         JobsP!AddProcess(ps, parent, pid, child)
  BY DEF Jobs!AddProcess, JobsP!AddProcess
<1>25. \A p : Jobs!SpawnDone(p) => JobsP!SpawnDone(p)
  BY <1>24 DEF Jobs!SpawnDone, JobsP!SpawnDone
<1>26. \A p : Jobs!SpawnFails(p) => JobsP!SpawnFails(p)
  BY DEF Jobs!SpawnFails, JobsP!SpawnFails
<1>27. Jobs!KernelNext => JobsP!KernelNext
  BY <1>22, <1>23, <1>25, <1>26 DEF Jobs!KernelNext, JobsP!KernelNext
<1> QED
  BY <1>13, <1>21, <1>27 DEF Jobs!Next, JobsP!Next

LEMMA AlarmsParts ==
  /\ Alarms!NoWaiter = AlarmsP!NoWaiter /\ Alarms!Done = AlarmsP!Done
  /\ \A tag, p : Alarms!Rpc(tag, p) = AlarmsP!Rpc(tag, p)
  /\ \A ps, p : Alarms!Live(ps, p) = AlarmsP!Live(ps, p)
  /\ \A ps, p : Alarms!InTable(ps, p) = AlarmsP!InTable(ps, p)
  /\ \A ps, p, c : Alarms!WaitsFor(ps, p, c) = AlarmsP!WaitsFor(ps, p, c)
  /\ \A ps, p : Alarms!DeliverChld(ps, p) = AlarmsP!DeliverChld(ps, p)
<1>1. Alarms!NoWaiter = AlarmsP!NoWaiter /\ Alarms!Done = AlarmsP!Done
  BY DEF Alarms!NoWaiter, AlarmsP!NoWaiter, Alarms!Done, AlarmsP!Done, Alarms!Rpc, AlarmsP!Rpc
<1>2. \A tag, p : Alarms!Rpc(tag, p) = AlarmsP!Rpc(tag, p)
  BY DEF Alarms!Rpc, AlarmsP!Rpc
<1>3. \A ps, p : Alarms!Live(ps, p) = AlarmsP!Live(ps, p)
  BY DEF Alarms!Live, AlarmsP!Live, Alarms!Pid, AlarmsP!Pid
<1>4. \A ps, p : Alarms!InTable(ps, p) = AlarmsP!InTable(ps, p)
  BY DEF Alarms!InTable, AlarmsP!InTable, Alarms!Pid, AlarmsP!Pid
<1>5. \A ps, p, c : Alarms!WaitsFor(ps, p, c) = AlarmsP!WaitsFor(ps, p, c)
  BY DEF Alarms!WaitsFor, AlarmsP!WaitsFor, Alarms!WaitSelectorMatch, AlarmsP!WaitSelectorMatch
<1>6. \A ps, p : Alarms!DeliverChld(ps, p) = AlarmsP!DeliverChld(ps, p)
  BY DEF Alarms!DeliverChld, AlarmsP!DeliverChld, Alarms!Post, AlarmsP!Post
<1> QED
  BY <1>1, <1>2, <1>3, <1>4, <1>5, <1>6

LEMMA AlarmsAnswer == \A ps, p, reply : Alarms!Answer(ps, p, reply) = AlarmsP!Answer(ps, p, reply)
<1>1. \A ps, p, reply : Alarms!Respond(ps, p, reply) = AlarmsP!Respond(ps, p, reply)
  BY AlarmsParts DEF Alarms!Respond, AlarmsP!Respond
<1> QED
  BY <1>1, AlarmsParts DEF Alarms!Answer, AlarmsP!Answer

LEMMA AlarmsReap == \A ps, z : Alarms!Reap(ps, z) = AlarmsP!Reap(ps, z)
<1> TAKE ps, z
<1> DEFINE gone == [ps EXCEPT ![z].listed = FALSE, ![z].missed = FALSE]
           parent == ps[z].ppid
           less == [gone EXCEPT ![parent].children = @ \ {z}]
<1>1. Alarms!Reap(ps, z) = IF Alarms!InTable(gone, parent) THEN less ELSE gone
  BY ZenonT(60) DEF Alarms!Reap
<1>2. AlarmsP!Reap(ps, z) = IF AlarmsP!InTable(gone, parent) THEN less ELSE gone
  BY ZenonT(60) DEF AlarmsP!Reap
<1> HIDE DEF gone, parent, less
<1> QED
  BY <1>1, <1>2, AlarmsParts

LEMMA AlarmsReparent ==
  ASSUME NEW ps, NEW p PROVE Alarms!Reparent(ps, p) = AlarmsP!Reparent(ps, p)
<1> DEFINE due == Alarms!AdoptedZombies(ps, p)
           dueP == AlarmsP!AdoptedZombies(ps, p)
           moved == AlarmsP!Moved(ps, p)
           adopted == AlarmsP!Adopted(ps, p)
<1>1. due = dueP
  BY DEF Alarms!AdoptedZombies, AlarmsP!AdoptedZombies, Alarms!WaitsFor, AlarmsP!WaitsFor,
     Alarms!WaitSelectorMatch, AlarmsP!WaitSelectorMatch
<1>2. \A qs, z : Alarms!Answer(Alarms!Reap(qs, z), 1, Alarms!Rpc("exit", z))
                = AlarmsP!Answer(AlarmsP!Reap(qs, z), 1, AlarmsP!Rpc("exit", z))
  BY AlarmsParts, AlarmsAnswer, AlarmsReap
<1>3. Alarms!Reparent(ps, p) =
        IF p = 1 \/ ~ps[1].listed THEN moved
        ELSE IF due = {} THEN adopted
        ELSE Alarms!Answer(Alarms!Reap(adopted, Least(due)), 1, Alarms!Rpc("exit", Least(due)))
  BY ZenonT(60) DEF Alarms!Reparent, Alarms!Pid, AlarmsP!Pid, Least, AlarmsP!Adopted, AlarmsP!Moved,
               AlarmsP!Orphans
<1>4. AlarmsP!Reparent(ps, p) =
        IF p = 1 \/ ~ps[1].listed THEN moved
        ELSE IF dueP = {} THEN adopted
        ELSE AlarmsP!Answer(AlarmsP!Reap(adopted, Least(dueP)), 1,
                       AlarmsP!Rpc("exit", Least(dueP)))
  BY ZenonT(60) DEF AlarmsP!Reparent, AlarmsP!Pid, Least, AlarmsP!Adopted,
               AlarmsP!Moved, AlarmsP!Orphans
<1> HIDE DEF due, dueP, moved, adopted
<1> QED
  BY <1>1, <1>2, <1>3, <1>4

LEMMA AlarmsExitParts ==
  /\ \A ps, p, kind : Alarms!JobNotifyParent(ps, p, kind) = AlarmsP!JobNotifyParent(ps, p, kind)
  /\ \A ps, p : Alarms!NotifyExit(ps, p) = AlarmsP!NotifyExit(ps, p)
  /\ \A ps, p : Alarms!Teardown(ps, p) = AlarmsP!Teardown(ps, p)
<1>1. \A ps, p, kind : Alarms!JobNotifyParent(ps, p, kind) = AlarmsP!JobNotifyParent(ps, p, kind)
  <2> TAKE ps, p, kind
  <2> DEFINE parent == ps[p].ppid
             told == Alarms!DeliverChld(ps, parent)
             toldP == AlarmsP!DeliverChld(ps, parent)
  <2>1. told = toldP
    BY AlarmsParts
  <2>2. Alarms!JobNotifyParent(ps, p, kind) =
          IF ~Alarms!Live(ps, parent) THEN ps
          ELSE IF Alarms!WaitsFor(told, parent, p) /\ Needed(kind) \in told[parent].waiter.opts
            THEN Alarms!Answer(MarkedTold(told, p, kind), parent, Alarms!Rpc(kind, p))
            ELSE told
    BY ZenonT(60) DEF Alarms!JobNotifyParent, Needed, MarkedTold
  <2>3. AlarmsP!JobNotifyParent(ps, p, kind) =
          IF ~AlarmsP!Live(ps, parent) THEN ps
          ELSE IF AlarmsP!WaitsFor(toldP, parent, p) /\ Needed(kind) \in toldP[parent].waiter.opts
            THEN AlarmsP!Answer(MarkedTold(toldP, p, kind), parent, AlarmsP!Rpc(kind, p))
            ELSE toldP
    BY ZenonT(60) DEF AlarmsP!JobNotifyParent, Needed, MarkedTold
  <2> HIDE DEF parent, told, toldP
  <2> QED
    BY <2>1, <2>2, <2>3, AlarmsParts, AlarmsAnswer
<1>2. \A ps, p : Alarms!NotifyExit(ps, p) = AlarmsP!NotifyExit(ps, p)
  BY AlarmsParts, AlarmsAnswer, AlarmsReap DEF Alarms!NotifyExit, AlarmsP!NotifyExit
<1>3. \A ps, p : Alarms!Teardown(ps, p) = AlarmsP!Teardown(ps, p)
  <2> TAKE ps, p
  <2>1. Alarms!Teardown(ps, p) = Torn(ps, p, AlarmSigs, Alarms!NoWaiter, Alarms!Done)
    BY ZenonT(60) DEF Alarms!Teardown, Torn, AlarmSigs
  <2>2. AlarmsP!Teardown(ps, p) = Torn(ps, p, AlarmSigs, AlarmsP!NoWaiter, AlarmsP!Done)
    BY ZenonT(60) DEF AlarmsP!Teardown, Torn, AlarmSigs
  <2> QED
    BY <2>1, <2>2, AlarmsParts
<1> QED
  BY <1>1, <1>2, <1>3

LEMMA AlarmsNext == Alarms!Next => AlarmsP!Next
<1> USE DEF Alarms!Pid, AlarmsP!Pid, Alarms!NoWaiter, AlarmsP!NoWaiter, Alarms!Rpc,
        AlarmsP!Rpc, Alarms!Done, AlarmsP!Done, Alarms!InTable, AlarmsP!InTable,
        Alarms!Live, AlarmsP!Live, Alarms!WaitSelectorMatch, AlarmsP!WaitSelectorMatch,
        Alarms!WaitsFor, AlarmsP!WaitsFor, Alarms!Respond, AlarmsP!Respond, Alarms!Answer,
        AlarmsP!Answer, Alarms!Post, AlarmsP!Post, Alarms!NewPcb, AlarmsP!NewPcb,
        Alarms!NoKill, AlarmsP!NoKill, Alarms!Quiet, AlarmsP!Quiet, Alarms!Replied,
        AlarmsP!Replied, Alarms!AtSafePoint, AlarmsP!AtSafePoint, Alarms!Dispatched,
        AlarmsP!Dispatched, Alarms!Terminating, AlarmsP!Terminating, Alarms!Halted,
        AlarmsP!Halted, Alarms!vars, AlarmsP!vars
<1>1. \A ps, p, kind : Alarms!JobNotifyParent(ps, p, kind) = AlarmsP!JobNotifyParent(ps, p, kind)
  BY AlarmsExitParts
<1>2. \A ps, p : Alarms!StopProcess(ps, p) = AlarmsP!StopProcess(ps, p)
  BY <1>1 DEF Alarms!StopProcess, AlarmsP!StopProcess
<1>3. \A ps, p : Alarms!ContProcess(ps, p) = AlarmsP!ContProcess(ps, p)
  BY <1>1 DEF Alarms!ContProcess, AlarmsP!ContProcess
<1>4. \A ps, p : Alarms!Reparent(ps, p) = AlarmsP!Reparent(ps, p)
  BY AlarmsReparent
<1>5. \A ps, p : Alarms!NotifyExit(ps, p) = AlarmsP!NotifyExit(ps, p)
  BY AlarmsExitParts
<1>6. \A ps, p : Alarms!Teardown(ps, p) = AlarmsP!Teardown(ps, p)
  BY AlarmsExitParts
<1>7. \A ps, p : Alarms!ExitProcess(ps, p) = AlarmsP!ExitProcess(ps, p)
  BY <1>4, <1>5, <1>6 DEF Alarms!ExitProcess, AlarmsP!ExitProcess
<1>8. \A ps, p, sig : Alarms!DefaultAction(ps, p, sig) = AlarmsP!DefaultAction(ps, p, sig)
  BY <1>7, <1>2 DEF Alarms!DefaultAction, AlarmsP!DefaultAction
<1>9. \A ps, p, sig : Alarms!Deliver(ps, p, sig) = AlarmsP!Deliver(ps, p, sig)
  BY <1>7, <1>2, <1>3, <1>8 DEF Alarms!Deliver, AlarmsP!Deliver
<1>10. \A p : (Alarms!Call(p) => AlarmsP!Call(p)) /\ (Alarms!SetMask(p) =>
         AlarmsP!SetMask(p))
  BY DEF Alarms!Call, AlarmsP!Call, Alarms!SetMask, AlarmsP!SetMask
<1>11. \A p : (Alarms!WorkerDies(p) => AlarmsP!WorkerDies(p)) /\ (Alarms!Exit(p) =>
         AlarmsP!Exit(p))
  BY <1>7 DEF Alarms!WorkerDies, AlarmsP!WorkerDies, Alarms!Exit, AlarmsP!Exit
<1>12. \A p, sig : Alarms!TakeSignal(p, sig) => AlarmsP!TakeSignal(p, sig)
  BY <1>7 DEF Alarms!TakeSignal, AlarmsP!TakeSignal
<1>13. \A p : Alarms!ProgramNext(p) => AlarmsP!ProgramNext(p)
  BY <1>10, <1>11, <1>12 DEF Alarms!ProgramNext, AlarmsP!ProgramNext
<1>14. \A p : Alarms!Wait(p) => AlarmsP!Wait(p)
  BY DEF Alarms!Wait, AlarmsP!Wait, Alarms!Candidates, AlarmsP!Candidates, Alarms!Reap,
     AlarmsP!Reap
<1>15. \A p : (Alarms!Interrupt(p) => AlarmsP!Interrupt(p)) /\ (Alarms!SetDisposition(p)
         => AlarmsP!SetDisposition(p))
  BY DEF Alarms!Interrupt, AlarmsP!Interrupt, Alarms!SetDisposition,
     AlarmsP!SetDisposition
<1>16. \A p : Alarms!Kill(p) => AlarmsP!Kill(p)
  BY <1>9, ZenonT(60) DEF Alarms!Kill, AlarmsP!Kill
<1>17. \A p : Alarms!KillGroup(p) => AlarmsP!KillGroup(p)
  BY DEF Alarms!KillGroup, AlarmsP!KillGroup, Alarms!Group, AlarmsP!Group
<1>18. \A p : (Alarms!SetPgid(p) => AlarmsP!SetPgid(p)) /\ (Alarms!SetSid(p) =>
         AlarmsP!SetSid(p))
  BY DEF Alarms!SetPgid, AlarmsP!SetPgid, Alarms!SetSid, AlarmsP!SetSid
<1>19. \A p : (Alarms!SetTimer(p) => AlarmsP!SetTimer(p)) /\ (Alarms!Spawn(p) =>
         AlarmsP!Spawn(p))
  BY DEF Alarms!SetTimer, AlarmsP!SetTimer, Alarms!Spawn, AlarmsP!Spawn
<1>20. \A p : Alarms!TimerFires(p) => AlarmsP!TimerFires(p)
  BY <1>9 DEF Alarms!TimerFires, AlarmsP!TimerFires, Alarms!FireTimer, AlarmsP!FireTimer
<1>21. \A p : Alarms!HandlerNext(p) => AlarmsP!HandlerNext(p)
  BY <1>11, <1>14, <1>15, <1>16, <1>17, <1>18, <1>19, <1>20 DEF Alarms!HandlerNext,
     AlarmsP!HandlerNext
<1>22. (Alarms!EmbedderKillGroup => AlarmsP!EmbedderKillGroup) /\ (Alarms!EmbedderSpawn =>
         AlarmsP!EmbedderSpawn)
  BY DEF Alarms!EmbedderKillGroup, AlarmsP!EmbedderKillGroup, Alarms!EmbedderSpawn,
     AlarmsP!EmbedderSpawn, Alarms!Group, AlarmsP!Group
<1>23. Alarms!KillNext => AlarmsP!KillNext
  BY <1>9 DEF Alarms!KillNext, AlarmsP!KillNext
<1>24. \A ps, parent, pid, child : Alarms!AddProcess(ps, parent, pid, child) =
         AlarmsP!AddProcess(ps, parent, pid, child)
  BY DEF Alarms!AddProcess, AlarmsP!AddProcess
<1>25. \A p : Alarms!SpawnDone(p) => AlarmsP!SpawnDone(p)
  BY <1>24 DEF Alarms!SpawnDone, AlarmsP!SpawnDone
<1>26. \A p : Alarms!SpawnFails(p) => AlarmsP!SpawnFails(p)
  BY DEF Alarms!SpawnFails, AlarmsP!SpawnFails
<1>27. Alarms!KernelNext => AlarmsP!KernelNext
  BY <1>22, <1>23, <1>25, <1>26 DEF Alarms!KernelNext, AlarmsP!KernelNext
<1> QED
  BY <1>13, <1>21, <1>27 DEF Alarms!Next, AlarmsP!Next

LEMMA JobsInit == Jobs!Init => JobsP!Init
  BY DEF Jobs!Init, JobsP!Init, Jobs!NewPcb, JobsP!NewPcb, Jobs!Unborn, JobsP!Unborn,
         Jobs!NoKill, JobsP!NoKill, Jobs!NoWaiter, JobsP!NoWaiter, Jobs!Done, JobsP!Done,
         Jobs!Rpc, JobsP!Rpc, Jobs!Pid, JobsP!Pid

LEMMA AlarmsInit == Alarms!Init => AlarmsP!Init
  BY DEF Alarms!Init, AlarmsP!Init, Alarms!NewPcb, AlarmsP!NewPcb, Alarms!Unborn,
         AlarmsP!Unborn, Alarms!NoKill, AlarmsP!NoKill, Alarms!NoWaiter, AlarmsP!NoWaiter,
         Alarms!Done, AlarmsP!Done, Alarms!Rpc, AlarmsP!Rpc, Alarms!Pid, AlarmsP!Pid

-----------------------------------------------------------------------------
(* The three scenarios.                                                      *)

\* Each scenario keeps its table's invariant.  Alarms has no job control, so a
\* parked wait there keeps a candidate; waits does when it has none either.
ScenariosInv ==
  /\ scenario \in {"waits", "jobs", "alarms"}
  /\ scenario = "waits" =>
       IInv /\ (NoJobControl => NoneStopped(procs) /\ Hopeful(procs))
  /\ scenario = "jobs" => JobsP!IInv
  /\ scenario = "alarms" =>
       AlarmsP!IInv /\ AlarmsP!NoneStopped(procs) /\ AlarmsP!Hopeful(procs)

LEMMA ScenariosInitInv == ASSUME ScenariosInit PROVE ScenariosInv
<1>1. CASE scenario = "waits" /\ Init
  BY <1>1, InitInv, InitHopeful DEF ScenariosInv
<1>2. CASE scenario = "jobs" /\ Jobs!Init
  <2>1. JobsP!IInv
    BY <1>2, JobsInit, JobsConstants, JobsP!InitInv
  <2> QED
    BY <1>2, <2>1 DEF ScenariosInv
<1>3. CASE scenario = "alarms" /\ Alarms!Init
  <2>1. AlarmsP!Init
    BY <1>3, AlarmsInit
  <2>2. AlarmsP!IInv
    BY <2>1, AlarmsConstants, AlarmsP!InitInv
  <2>3. AlarmsP!NoneStopped(procs) /\ AlarmsP!Hopeful(procs)
    BY <2>1, AlarmsConstants, AlarmsP!InitHopeful
  <2> QED
    BY <1>3, <2>2, <2>3 DEF ScenariosInv
<1> QED
  BY <1>1, <1>2, <1>3 DEF ScenariosInit

LEMMA ScenariosNextInv ==
  ASSUME ScenariosInv, [ScenariosNext]_<<vars, scenario>> PROVE ScenariosInv'
<1>1. scenario' = scenario
  BY DEF ScenariosNext
<1>2. CASE scenario = "waits"
  <2>1. IInv /\ [Next]_vars
    BY <1>2 DEF ScenariosInv, ScenariosNext, vars
  <2>2. IInv'
    BY <2>1, NextInv
  <2>3. ASSUME NoJobControl PROVE NoneStopped(procs') /\ Hopeful(procs')
    <3>1. NoneStopped(procs) /\ Hopeful(procs)
      BY <1>2, <2>3 DEF ScenariosInv
    <3> QED
      BY <2>1, <2>3, <3>1, NextKeeps
  <2> QED
    BY <1>1, <1>2, <2>2, <2>3 DEF ScenariosInv
<1>3. CASE scenario = "jobs"
  <2>1. JobsP!IInv /\ [JobsP!Next]_(JobsP!vars)
    BY <1>3, JobsNext DEF ScenariosInv, ScenariosNext, vars, JobsP!vars
  <2>2. JobsP!IInv'
    BY <2>1, JobsConstants, JobsP!NextInv
  <2> QED
    BY <1>1, <1>3, <2>2 DEF ScenariosInv
<1>4. CASE scenario = "alarms"
  <2>1. /\ AlarmsP!IInv /\ AlarmsP!NoneStopped(procs) /\ AlarmsP!Hopeful(procs)
        /\ [AlarmsP!Next]_(AlarmsP!vars)
    BY <1>4, AlarmsNext DEF ScenariosInv, ScenariosNext, vars, AlarmsP!vars
  <2>2. AlarmsP!IInv'
    BY <2>1, AlarmsConstants, AlarmsP!NextInv
  <2>3. AlarmsP!NoneStopped(procs') /\ AlarmsP!Hopeful(procs')
    BY <2>1, AlarmsConstants, AlarmsNoJobControl, AlarmsP!NextKeeps
  <2> QED
    BY <1>1, <1>4, <2>2, <2>3 DEF ScenariosInv
<1> QED
  BY <1>2, <1>3, <1>4 DEF ScenariosInv

LEMMA ScenariosSpecInv == ScenariosSpec => []ScenariosInv
<1>1. ScenariosInit => ScenariosInv
  BY ScenariosInitInv
<1>2. ScenariosInv /\ [ScenariosNext]_<<vars, scenario>> => ScenariosInv'
  BY ScenariosNextInv
<1> QED
  BY <1>1, <1>2, PTL DEF ScenariosSpec

\* In every scenario the table's types hold and a listed process is in a group
\* that kill() can name (_spawnImage, _setpgid, SETSID).
THEOREM ScenariosAreTyped == ScenariosSpec => []TablesTyped
<1>1. JobsP!TypeOK <=> Jobs!TypeOK
  BY DEF Jobs!TypeOK, JobsP!TypeOK, Jobs!Pid, JobsP!Pid, Jobs!PCB, JobsP!PCB, Jobs!Kills,
         JobsP!Kills, Jobs!Waiters, JobsP!Waiters, Jobs!Rpcs, JobsP!Rpcs, Jobs!WaitOptions,
         JobsP!WaitOptions, Jobs!Dispositions, JobsP!Dispositions
<1>2. AlarmsP!TypeOK <=> Alarms!TypeOK
  BY DEF Alarms!TypeOK, AlarmsP!TypeOK, Alarms!Pid, AlarmsP!Pid, Alarms!PCB, AlarmsP!PCB,
         Alarms!Kills, AlarmsP!Kills, Alarms!Waiters, AlarmsP!Waiters, Alarms!Rpcs,
         AlarmsP!Rpcs, Alarms!WaitOptions, AlarmsP!WaitOptions, Alarms!Dispositions,
         AlarmsP!Dispositions
<1>3. JobsP!IInv => JobsP!TypeOK
  BY JobsConstants, JobsP!InvTypes
<1>4. AlarmsP!IInv => AlarmsP!TypeOK
  BY AlarmsConstants, AlarmsP!InvTypes
<1>5. ScenariosInv => TablesTyped
  BY <1>1, <1>2, <1>3, <1>4, InvTypes DEF ScenariosInv, TablesTyped
<1> QED
  BY <1>5, ScenariosSpecInv, PTL

\* Where no signal stops a process, and in alarms whatever waits has, a parked
\* wait can still be answered (_wait, _exitProcess, _reparent).
THEOREM ScenarioWaitsAnswerable == NoJobControl => (ScenariosSpec => []WaitsAnswerable)
<1> SUFFICES ASSUME NoJobControl PROVE ScenariosSpec => []WaitsAnswerable
  OBVIOUS
<1>1. ASSUME AlarmsP!IInv, AlarmsP!WaiterHasCandidate PROVE WaiterHasCandidate
  <2>1. DOMAIN procs = AlarmsP!Pid
    BY <1>1 DEF AlarmsP!IInv, AlarmsP!TableInv, AlarmsP!Tables
  <2>2. \A p \in DOMAIN procs : Live(procs, p) => AlarmsP!Live(procs, p)
    BY <2>1 DEF Live, AlarmsP!Live
  <2>3. \A p, c : AlarmsP!WaitsFor(procs, p, c) = WaitsFor(procs, p, c)
    BY DEF WaitsFor, AlarmsP!WaitsFor, WaitSelectorMatch, AlarmsP!WaitSelectorMatch
  <2> QED
    BY <1>1, <2>2, <2>3 DEF WaiterHasCandidate, AlarmsP!WaiterHasCandidate
<1>2. ScenariosInv => WaitsAnswerable
  <2>1. ASSUME scenario = "waits", ScenariosInv PROVE WaiterHasCandidate
    BY <2>1, HopefulCandidates DEF ScenariosInv
  <2>2. ASSUME scenario = "alarms", ScenariosInv PROVE WaiterHasCandidate
    <3>1. AlarmsP!IInv /\ AlarmsP!Hopeful(procs)
      BY <2>2 DEF ScenariosInv
    <3>2. AlarmsP!WaiterHasCandidate
      BY <3>1, AlarmsConstants, AlarmsP!HopefulCandidates
    <3> QED
      BY <1>1, <3>1, <3>2
  <2> QED
    BY <2>1, <2>2 DEF ScenariosInv, WaitsAnswerable
<1> QED
  BY <1>2, ScenariosSpecInv, PTL

=============================================================================
