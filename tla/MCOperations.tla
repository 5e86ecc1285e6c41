---------------------------- MODULE MCOperations ----------------------------
(***************************************************************************)
(* Those who look after open settlements, for the model checker: instances *)
(* of OpsAuth, OperatorControl and Runner.  They share no state, so each   *)
(* is followed in behaviours of its own: part says which one takes steps,  *)
(* the others stay as they begin.                                          *)
(***************************************************************************)
EXTENDS Operations, FiniteSets

VARIABLE part

Parts == {"auth", "control", "runner"}

allVars == <<part, vars, authVars, runnerVars>>

-----------------------------------------------------------------------------
\* OperatorControl: two requests of one operator, one of another; a worker
\* takes unknown records at once, and others when they are stale
MCStaleAfter == [s \in Scanned |-> IF s = "unknown" THEN 0 ELSE 1]
MCOpOf == [r \in Requests |-> IF r = "r3" THEN "bob" ELSE "alice"]

\* As long as the engine is not done with the record, one request; then the
\* one makes his second request when the first has worked, or may have, or the
\* other makes one at the same time, who has no lease and releases nothing.
ControlWithin ==
    \/ req["r2"].pc = "new" /\ req["r3"].pc = "new"
    \/ ~engine /\ req["r2"].pc = "new" /\ req["r3"].action # "release"
    \/ ~engine /\ req["r3"].pc = "new" /\ req["r1"].pc \in {"200", "503"}

\* the relations of ops:manual_review
MCPermitting == <<"manual_reviewer", "security_admin">>

\* three submitted records, which may stay pending for ever or become unknown,
\* of which a run takes two
MCFirstStatus == <<"submitted", "submitted", "submitted">>
MCStaleTicks == [settle_in_progress |-> 0, submitted |-> 0, unknown |-> 1]

\* the provider decides about the first record, the others stay pending or
\* come to manual review
RunnerWithin == \A r \in Records : recs[r].status \in {"settled", "settle_failed"} => r = 1

\* either the issuer's keys and its JWKS change, or the operator's relations
AuthWithin ==
    \/ published = {"k1", "k2"} /\ feed = "keys"
    \/ roles = {"security_admin"}

ASSUME /\ A!OpsAuthAssumption
       /\ R!RunnerAssumption /\ R!RoomAssumption

-----------------------------------------------------------------------------
\* a part that takes no steps begins in one way
MCInit ==
    /\ part \in Parts
    /\ A!Init /\ (part # "auth" => roles = {})
    /\ Init /\ (part # "control" => rec.status = "unknown")
    /\ R!Init

AuthStep ==
    /\ part = "auth" /\ A!Next /\ AuthWithin'
    /\ UNCHANGED <<part, vars, runnerVars>>

ControlStep ==
    /\ part = "control" /\ Next /\ ControlWithin'
    /\ UNCHANGED <<part, authVars, runnerVars>>

RunnerStep ==
    /\ part = "runner" /\ R!Next /\ RunnerWithin'
    /\ UNCHANGED <<part, vars, authVars>>

MCNext == AuthStep \/ ControlStep \/ RunnerStep

\* the i-th request is granted its row, or the i-th record gets its answer
Served(i) ==
    \/ /\ part = "control" /\ Granted(<<"r1", "r2", "r3">>[i])
       /\ UNCHANGED <<part, authVars, runnerVars>>
    \/ part = "runner" /\ R!Answered(i) /\ UNCHANGED <<part, vars, authVars>>

\* the fairness of each part, as long as it is the one that takes steps
MCFairness ==
    /\ \A r \in Callers : WF_authVars(part = "auth" /\ A!Handled(r))
    /\ WF_authVars(part = "auth" /\ A!Tick)
    /\ \A r \in Requests : WF_vars(part = "control" /\ GoesOn(r))
    /\ WF_runnerVars(part = "runner" /\ R!GoesOn)
    /\ \A i \in Records : SF_allVars(Served(i))

MCSpec == MCInit /\ [][MCNext]_allVars /\ MCFairness

-----------------------------------------------------------------------------
\* OpsAuth: tokens of a withdrawn key pass no longer than the cache lasts, and
\* those of a published one are not refused for ever.
KeysFollowIssuer == A!WithdrawnLapses /\ (part = "auth" => A!RotationSettles)

\* Runner: the loop gets on with every open record, and ends when told to.
LoopProgress == part = "runner" => R!LoopProgress
=============================================================================
