--------------------------- MODULE ProcScenarios ---------------------------
(* The process table explored three times in one run, each time with the   *)
(* programs that one group of its operations needs: exits and waits with   *)
(* SIGCHLD handlers (the constants of the cfg), job control, and interval  *)
(* timers with masks, services and worker deaths.  The scenario is chosen  *)
(* at the start and kept.                                                  *)
EXTENDS MCProcTable

VARIABLE scenario

Jobs == INSTANCE ProcTable WITH
          Sigs <- {"KILL", "CHLD", "TSTP", "STOP", "CONT"}, Handled <- {},
          Kinds <- {"handler"}, Maskable <- {}, Sels <- AnyChild,
          OptSets <- {{"untraced", "continued"}}, PgidArgs <- {},
          Timers <- {}, Embedder <- FALSE, WorkerLoss <- FALSE

Alarms == INSTANCE ProcTable WITH
            MaxPid <- 2, Sigs <- {"CHLD", "ALRM", "HUP"}, Handled <- {"ALRM"},
            Kinds <- {"handler"}, Maskable <- {"ALRM"}, Sels <- AnyChild,
            OptSets <- {{}}, PgidArgs <- {0},
            Timers <- {"once", "interval"}, Embedder <- TRUE, WorkerLoss <- TRUE

ScenariosInit ==
  \/ scenario = "waits" /\ Init
  \/ scenario = "jobs" /\ Jobs!Init
  \/ scenario = "alarms" /\ Alarms!Init

ScenariosNext ==
  /\ UNCHANGED scenario
  /\ \/ scenario = "waits" /\ Next
     \/ scenario = "jobs" /\ Jobs!Next
     \/ scenario = "alarms" /\ Alarms!Next

ScenariosSpec == ScenariosInit /\ [][ScenariosNext]_<<vars, scenario>>

-----------------------------------------------------------------------------
(* ProcTable's properties are checked as they stand, except for two.      *)

\* Every record of the table, its counters and the kill loop are what the code
\* can hold, and no listed process is in group 0, in each scenario.
TablesTyped ==
  /\ scenario = "waits" => TypeOK
  /\ scenario = "jobs" => Jobs!TypeOK
  /\ scenario = "alarms" => Alarms!TypeOK

\* WaiterHasCandidate: a parked wait can still be answered by some child.  With
\* job control it may be parked for good (a stopped parent is not answered).
WaitsAnswerable == scenario # "jobs" => WaiterHasCandidate
=============================================================================
