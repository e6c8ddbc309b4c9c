---------------------------- MODULE InstallPlan ----------------------------
(***************************************************************************)
(* What `provision workloads` promises, whatever the installers do: the    *)
(* enabled components are installed one at a time in the order of a plan,  *)
(* a fatal one that fails ends the run, another one that fails does not    *)
(* keep the rest from being installed, and a run succeeds only after every *)
(* enabled component has been tried. A component is its place in the plan. *)
(***************************************************************************)
EXTENDS Naturals

CONSTANTS
    Last,            \* places are 1..Last
    Fatal(_)         \* the component at a place is fatal

VARIABLES
    enabled,         \* the components the configuration enables
    outcome,         \* of the latest run
    tried,           \* components whose Install has returned in the run
    broken           \* those of them that returned an error

plan == <<enabled, outcome, tried, broken>>

Init ==
    /\ enabled \subseteq 1..Last
    /\ outcome = "idle" /\ tried = {} /\ broken = {}

\* A run is started, perhaps with another configuration than the last one.
Begin ==
    /\ outcome # "running"
    /\ enabled' \subseteq 1..Last
    /\ outcome' = "running" /\ tried' = {} /\ broken' = {}

\* i is the next component to install.
IsNext(i) ==
    /\ outcome = "running"
    /\ i \in enabled \ tried
    /\ \A j \in enabled : j < i => j \in tried

Installed(i) ==
    /\ IsNext(i)
    /\ tried' = tried \cup {i}
    /\ UNCHANGED <<enabled, outcome, broken>>

NotInstalled(i) ==
    /\ IsNext(i)
    /\ tried' = tried \cup {i}
    /\ broken' = broken \cup {i}
    /\ outcome' = IF Fatal(i) THEN "failed" ELSE "running"
    /\ UNCHANGED enabled

Finish ==
    /\ outcome = "running"
    /\ enabled \subseteq tried
    /\ outcome' = "ok"
    /\ UNCHANGED <<enabled, tried, broken>>

Killed ==
    /\ outcome = "running"
    /\ outcome' = "idle" /\ tried' = {} /\ broken' = {}
    /\ UNCHANGED enabled

Next ==
    \/ Begin \/ Finish \/ Killed
    \/ \E i \in enabled : Installed(i) \/ NotInstalled(i)

Spec == Init /\ [][Next]_plan
=============================================================================
