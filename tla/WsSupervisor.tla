---------------------------- MODULE WsSupervisor ----------------------------
(***************************************************************************)
(* What Run promises its caller, without goroutines, connections or loop   *)
(* counters: it serves and seeks a server in turn, it survives misses as   *)
(* long as its budget lasts, any success refills the budget, and it ends   *)
(* only when it was told to, when the misses used the budget up, or when   *)
(* the budget allows no second try.                                        *)
(***************************************************************************)
EXTENDS Integers

CONSTANT Budget          \* how many tries in a row Run is given

VARIABLES phase,         \* what Run is doing
          misses,        \* tries that failed since the last one that did not
          stopping       \* Stop was called

supervisorVars == <<phase, misses, stopping>>

SupervisorInit == phase = "new" /\ misses = 0 /\ stopping = FALSE

Begin ==
  /\ phase = "new"
  /\ phase' = IF 0 < Budget THEN "seeking" ELSE "over"
  /\ UNCHANGED <<misses, stopping>>

Miss ==
  /\ phase = "seeking"
  /\ misses' = misses + 1
  /\ \/ phase' = "seeking" /\ misses + 1 < Budget
     \/ phase' = "over" /\ misses + 1 \in {Budget - 1, Budget}
  /\ UNCHANGED stopping

Hit ==
  /\ phase = "seeking"
  /\ phase' = "serving" /\ misses' = 0
  /\ UNCHANGED stopping

Lose ==
  /\ phase = "serving"
  /\ phase' = "seeking"
  /\ UNCHANGED <<misses, stopping>>

EndStopped ==
  /\ phase = "serving" /\ stopping
  /\ phase' = "over"
  /\ UNCHANGED <<misses, stopping>>

EndSingle ==
  /\ phase \in {"seeking", "serving"} /\ Budget = 1
  /\ phase' = "over"
  /\ UNCHANGED <<misses, stopping>>

TellStop == stopping' = TRUE /\ UNCHANGED <<phase, misses>>

SupervisorNext ==
  Begin \/ Miss \/ Hit \/ Lose \/ EndStopped \/ EndSingle \/ TellStop

SupervisorSpec == SupervisorInit /\ [][SupervisorNext]_supervisorVars
=============================================================================
