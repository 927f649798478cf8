---------------------------- MODULE MCJobLifecycle ----------------------------
(* TLC instances of JobLifecycle.  Callers are interchangeable.  The views     *)
(* leave out what can never be read again: the entry a call captured once it   *)
(* has acted on it, what an entry nobody holds any more contains, whether a    *)
(* token nobody holds was cancelled, what a run brought back once it is stored.*)
EXTENDS JobLifecycle, TLC

CallerSymmetry == Permutations(Callers)

Calls == [c \in Callers |->
            IF caller[c].pc \in {"settle", "admit", "token", "supersede", "setup", "root",
                                 "rootstore", "spawn", "pcancel"}
            THEN caller[c] ELSE [caller[c] EXCEPT !.ref = 0]]

RunTasks == [r \in Runs |->
               IF run[r].at \in {"persisting", "storing", "parking", "releasing"}
                     /\ ~(run[r].out = "conflict" /\ run[r].at \in {"persisting", "storing"})
               THEN [run[r] EXCEPT !.out = "none"] ELSE run[r]]

Entries ==
    LET held == ({cur} \cup {Calls[c].ref : c \in Callers} \cup {caller[c].own : c \in Callers}
                       \cup {run[r].ref : r \in Runs}) \ {0}
        tokens == {token[g] : g \in held} \cup {r \in Runs : Live(r)}
    IN  <<top, cur, running \cap held, rooted \cap held,
          [g \in held |-> <<phase[g], token[g]>>], cancelled \cap tokens>>

HeldView == <<Entries, nextRun, RunTasks, Calls, disk, edits, crashes>>

(* Without crashes nothing reads the row back.                                 *)
LiveView == <<Entries, nextRun, RunTasks, Calls, edits>>
===============================================================================
