------------------------------ MODULE SysCall ------------------------------
(***************************************************************************)
(* What the kernel page promises a program: one call at a time, each       *)
(* answered exactly once, with its own answer, by EINTR only if it allows  *)
(* that, and returned once it is answered.  KernelRpc implements it.       *)
(***************************************************************************)
EXTENDS Naturals

VARIABLES phase,   \* "idle", "asked" or "answered"
          call,    \* number of the last call
          may,     \* it may be interrupted
          answer   \* what it returns

vars == <<phase, call, may, answer>>

NoAnswer == [kind |-> "none", call |-> 0]

Init == phase = "idle" /\ call = 0 /\ may = FALSE /\ answer = NoAnswer

Ask ==
  /\ phase = "idle" /\ phase' = "asked"
  /\ call' = call + 1
  /\ may' \in BOOLEAN
  /\ UNCHANGED answer

Answer ==
  /\ phase = "asked" /\ phase' = "answered"
  /\ \E kind \in {"result"} \cup (IF may THEN {"eintr"} ELSE {}) :
       answer' = [kind |-> kind, call |-> call]
  /\ UNCHANGED <<call, may>>

Return ==
  /\ phase = "answered" /\ phase' = "idle"
  /\ may' = FALSE /\ answer' = NoAnswer
  /\ UNCHANGED call

Next == Ask \/ Answer \/ Return

Safety == Init /\ [][Next]_vars

Spec == Safety /\ WF_vars(Return)

=============================================================================
