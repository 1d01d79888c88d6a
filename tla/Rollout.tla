-------------------------------- MODULE Rollout -------------------------------
(***************************************************************************)
(* RolloutChecker (internal/deployment/rollout.go): how many more nodes a  *)
(* rollout may take on, whether it is over, and in which phase it should   *)
(* be.  The controller judges rollouts with code of its own and never      *)
(* calls the checker; module Deployment checks that the two agree.  A row  *)
(* that does not unmarshal is not modelled: only this package writes it.   *)
(***************************************************************************)
EXTENDS Integers

Least(a, b) == IF a < b THEN a ELSE b
AtLeastZero(a) == IF a < 0 THEN 0 ELSE a

\* max_unavailable of the row, which UpdateDeployment stores unchecked.
MaxUnavailable(asked) == IF asked <= 0 THEN 1 ELSE asked

Unavailable(st) == AtLeastZero(st.desired - st.ready)

\* The batch CanProceed allows, 0 if it says no.
CanProceed(st, asked) ==
    Least(AtLeastZero(MaxUnavailable(asked) - Unavailable(st)),
          AtLeastZero(st.desired - st.ready - st.failed))

IsComplete(st) == st.ready + st.failed >= st.desired

SuggestPhase(st) ==
    CASE st.ready >= st.desired -> "Active"
      [] st.ready < st.desired /\ st.failed > 0 /\ IsComplete(st) -> "Failed"
      [] OTHER -> "RollingOut"
===============================================================================
