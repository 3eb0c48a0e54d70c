---------------------------- MODULE Publication ----------------------------
(***************************************************************************)
(* What the signed publication of an operation promises: nothing enters    *)
(* the log that its author has not signed, it enters once and stays, and   *)
(* the author is told of success only when it is there.  Being told of a   *)
(* failure promises nothing.                                               *)
(***************************************************************************)
CONSTANT Ops              \* operation ids

VARIABLES
  signed,     \* operations the author has approved with a passkey
  log,        \* operations accepted by the relay
  told        \* operation -> "nothing", "published" or "failed"

vars == <<signed, log, told>>

Init ==
  /\ signed = {}
  /\ log = {}
  /\ told = [o \in Ops |-> "nothing"]

Sign(o) ==
  /\ told[o] = "nothing"
  /\ o \notin signed
  /\ signed' = signed \union {o}
  /\ UNCHANGED <<log, told>>

Accept(o) ==
  /\ o \in signed \ log
  /\ log' = log \union {o}
  /\ UNCHANGED <<signed, told>>

Tell(o, what) ==
  /\ told[o] = "nothing"
  /\ what = "published" => o \in log
  /\ told' = [told EXCEPT ![o] = what]
  /\ UNCHANGED <<signed, log>>

Next ==
  \E o \in Ops :
    Sign(o) \/ Accept(o) \/ \E what \in {"published", "failed"} : Tell(o, what)

Spec == Init /\ [][Next]_vars

=============================================================================
