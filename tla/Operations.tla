----------------------------- MODULE Operations -----------------------------
(***************************************************************************)
(* Those who look after open settlements: OperatorControl, the actions of  *)
(* operators on a record, and instances of OpsAuth, the authorisation of   *)
(* those who ask for them, and of Runner, the loop of the reconciler.      *)
(* They share no state.                                                    *)
(***************************************************************************)
EXTENDS OperatorControl

CONSTANTS
    Callers, Keys, Relations, Permitting, Ttl,                          \* OpsAuth
    Records, FirstStatus, Limit, LeaseTicks, MaxRun, StaleTicks, ManualAfter,
    ErrorTicks, MaxRuns, MaxFaults                                      \* Runner

VARIABLES
    published, gone, feed, cache, roles, http,                          \* OpsAuth
    recs, order, loop, stop, faults, last                               \* Runner

A == INSTANCE OpsAuth WITH Requests <- Callers, req <- http

R == INSTANCE Runner WITH rec <- recs

authVars == <<published, gone, feed, cache, roles, http>>
runnerVars == <<recs, order, loop, stop, faults, last>>

-----------------------------------------------------------------------------
\* OpsAuth: who is admitted had the relation at some moment of the check.
AdmittedHeld == A!OpsAuthTypeOK /\ A!AdmittedHeld

\* Runner: a backlog in one status does not shut out the others.
BatchBalanced == R!RunnerTypeOK /\ R!BatchBalanced
=============================================================================
