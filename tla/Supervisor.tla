----------------------------- MODULE Supervisor -----------------------------
(***************************************************************************)
(* What procServ promises about starting and stopping its one child, with  *)
(* the main loop, the connections and the signals left out.  An operator   *)
(* sees a server, at most one child, a restart mode and the orders given.  *)
(***************************************************************************)
EXTENDS Naturals

CONSTANT HoldoffTime   \* minimum time between two starts of the child

VARIABLES
    server,   \* "up", "stopping" (it will go down) or "down"
    child,    \* is there a child
    mode,     \* "restart", "norestart" or "oneshot"
    order,    \* "awaited": the first start needs an operator's order
              \* "given":   the next start is ordered
              \* "used":    the last start used it up
    fresh,    \* oneshot mode still has its one run
    rest      \* time until the child may be started

vars == <<server, child, mode, order, fresh, rest>>

Init ==
    /\ server = "up" /\ child = FALSE
    /\ mode \in {"restart", "norestart", "oneshot"}
    /\ order \in {"awaited", "given"}
    /\ fresh = TRUE /\ rest = 0

\* A start is due: nothing runs, nothing rests, nobody has to be asked.
Due ==
    /\ server = "up" /\ ~child /\ rest = 0
    /\ order # "awaited"
    /\ mode = "norestart" => order = "given"

Start ==
    /\ Due
    /\ mode = "oneshot" => fresh
    /\ child' = TRUE /\ order' = "used"
    /\ fresh' = FALSE /\ rest' = HoldoffTime
    /\ UNCHANGED <<server, mode>>

\* In oneshot mode the server goes instead of starting a second child.
GiveUp ==
    /\ Due
    /\ mode = "oneshot" /\ ~fresh
    /\ server' = "stopping"
    /\ UNCHANGED <<child, mode, order, fresh, rest>>

ChildLost ==
    /\ child /\ child' = FALSE
    /\ UNCHANGED <<server, mode, order, fresh, rest>>

\* An operator's order to start overrides hold-off and manual wait.
Order ==
    /\ ~child /\ order' = "given" /\ rest' = 0
    /\ UNCHANGED <<server, child, mode, fresh>>

Toggle ==
    /\ \/ mode = "restart"   /\ mode' = "norestart" /\ fresh' = fresh
       \/ mode = "norestart" /\ mode' = "oneshot"   /\ fresh' = TRUE
       \/ mode = "oneshot"   /\ mode' = "restart"   /\ fresh' = fresh
    /\ UNCHANGED <<server, child, order, rest>>

\* An operator may only stop a server that has no child.
Quit ==
    /\ server = "up" /\ ~child /\ server' = "stopping"
    /\ UNCHANGED <<child, mode, order, fresh, rest>>

Terminate ==
    /\ server = "up" /\ server' = "stopping"
    /\ UNCHANGED <<child, mode, order, fresh, rest>>

GoDown ==
    /\ server = "stopping" /\ server' = "down"
    /\ child' = FALSE
    /\ UNCHANGED <<mode, order, fresh, rest>>

Pause ==
    /\ rest > 0 /\ rest' = rest - 1
    /\ UNCHANGED <<server, child, mode, order, fresh>>

Next == \/ Start \/ GiveUp \/ ChildLost \/ Order \/ Toggle \/ Quit
        \/ Terminate \/ GoDown \/ Pause

Spec == Init /\ [][Next]_vars
=============================================================================
