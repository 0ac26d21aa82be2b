---------------------------- MODULE MCScheduler ----------------------------
(* Instances of Scheduler for TLC: what the processes of each run do.      *)
EXTENDS Scheduler

Lifecycle  == {"startChild", "startDiesOnEsc", "exit", "kill", "waitChild", "block", "esc"}
Turns      == {"startDiesOnEsc", "exit", "waitChild", "waitAny", "zombieWait",
               "block", "nice", "yield", "esc"}
RoundRobin == {"startChild", "startParent", "exit", "waitChild", "yield", "initPreempted", "outOfMemory"}
=============================================================================
