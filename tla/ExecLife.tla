------------------------------- MODULE ExecLife -------------------------------
(* What KernelClient.exec promises its caller: the call is refused or gives  *)
(* a run; a run hands over output until its completion settles, which        *)
(* happens once; and a call that was made comes to an end.                   *)
EXTENDS Naturals

CONSTANTS Ids, Streams
VARIABLES call, out
vars == <<call, out>>

Init == /\ call = [i \in Ids |-> "idle"]
        /\ out = [i \in Ids |-> [s \in Streams |-> 0]]

Become(i, from, to) ==
  /\ call[i] \in from /\ call' = [call EXCEPT ![i] = to] /\ UNCHANGED out

Begin(i) == Become(i, {"idle"}, "starting")
Refuse(i) == Become(i, {"idle", "starting"}, "refused")
Run(i) == Become(i, {"starting"}, "running")
Output(i, s) == /\ call[i] = "running"
                /\ out'[i][s] > out[i][s]
                /\ out' = [out EXCEPT ![i][s] = out'[i][s]]
                /\ UNCHANGED call
Settle(i) == \/ Become(i, {"running"}, "resolved")
             \/ Become(i, {"running"}, "rejected")

\* The client's failure ends everything at once.
Fail == /\ call' = [i \in Ids |-> CASE call[i] = "starting" -> "refused"
                                    [] call[i] = "running" -> "rejected"
                                    [] OTHER -> call[i]]
        /\ UNCHANGED out

Next == \/ \E i \in Ids : \/ Begin(i) \/ Refuse(i) \/ Run(i) \/ Settle(i)
                          \/ \E s \in Streams : Output(i, s)
        \/ Fail
Safety == Init /\ [][Next]_vars

Over == {"idle", "refused", "resolved", "rejected"}
Spec == /\ Safety
        /\ \A i \in Ids : call[i] \notin Over ~> call[i] \in Over
=============================================================================
