----------------------------- MODULE PowerPromise -----------------------------
(* What data/power.rs promises the rest of the daemon about destructive power  *)
(* actions, without locks, timers or channels: every accepted arming is a      *)
(* promise that is either kept once or withdrawn, and only one promise stands  *)
(* at a time.                                                                  *)
EXTENDS Naturals

CONSTANT Armings    (* identities of the armings the guard can accept          *)

VARIABLE promise    (* promise[n]: what became of arming n                      *)

Init == promise = [n \in Armings |-> "unmade"]

Make(n) ==
    /\ promise[n] = "unmade"
    /\ \A m \in Armings : promise[m] # "standing"
    /\ promise' = [promise EXCEPT ![n] = "standing"]

Settle(n, how) ==
    /\ promise[n] = "standing"
    /\ promise' = [promise EXCEPT ![n] = how]

Next == \E n \in Armings : Make(n) \/ \E how \in {"kept", "withdrawn"} : Settle(n, how)

Spec == Init /\ [][Next]_promise
===============================================================================
