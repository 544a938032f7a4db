--------------------------- MODULE DurableRegister ---------------------------
(***************************************************************************)
(* What persist.hpp promises: "A commit is acknowledged only after the     *)
(* frame is durably written", and the store "is never silently reset".     *)
(* The store is a register.  "possible" holds the values that a restart    *)
(* may find; an operation may add its own value, and it is acknowledged    *)
(* only when that value is the only one left.  A crash picks one of them.  *)
(***************************************************************************)
VARIABLES
    possible,   \* the values a restart may find; {} stands for no value
    pending,    \* {} or the value of the operation in progress
    acked       \* {} or the value acknowledged last

vars == <<possible, pending, acked>>

Init == possible = {{}} /\ pending = {} /\ acked = {}

Begin ==
    /\ pending = {}
    /\ pending' # {} /\ \A s, t \in pending' : s = t
    /\ UNCHANGED <<possible, acked>>

\* The operation moves on: its value joins the possible ones or replaces them.
TakeEffect ==
    /\ pending # {}
    /\ possible' \in {possible, possible \cup {pending}, {pending}}
    /\ UNCHANGED <<pending, acked>>

Acknowledge ==
    /\ pending # {}
    /\ possible' = {pending} /\ acked' = pending /\ pending' = {}

\* A failure leaves open whether the operation took effect.
Abandon ==
    /\ pending' = {}
    /\ possible' \in {possible, possible \cup {pending}, {pending}}
    /\ UNCHANGED acked

Restart ==
    /\ \E v \in possible : possible' = {v}
    /\ pending' = {}
    /\ UNCHANGED acked

Next == Begin \/ TakeEffect \/ Acknowledge \/ Abandon \/ Restart

Spec == Init /\ [][Next]_vars

=============================================================================
