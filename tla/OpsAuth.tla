------------------------------ MODULE OpsAuth ------------------------------
(***************************************************************************)
(* The authorisation of operator requests: the bearer token's signing key  *)
(* is looked up in a cached copy of the issuer's JWKS, its claims are      *)
(* checked, and OpenFGA is asked for one relation after the other, while   *)
(* the issuer rotates keys, either service fails, and roles change.        *)
(*                                                                         *)
(* Signatures are what they say: a token carries the key it was signed     *)
(* with, and whoever withdraws a key may have signed with it before.       *)
(***************************************************************************)
EXTENDS Naturals, Sequences, FiniteSets

CONSTANTS
    Requests,
    Keys,           \* key ids of the issuer
    Relations,      \* relations of an operator to the console, in OpenFGA
    Permitting,     \* the relations that grant the permission, in order
    Ttl             \* cache_ttl_seconds

OpsAuthAssumption ==
    /\ Ttl \in Nat \ {0}
    /\ "none" \notin Keys
    /\ Permitting \in Seq(Relations) \ {<<>>}

VARIABLES
    published,  \* the keys in the issuer's JWKS
    gone,       \* gone[k]: how long ago k was withdrawn, at most Ttl
    feed,       \* what the JWKS URL gives: the keys, something else, an error
    cache,      \* _jwks, and what is left until _jwks_expires_at
    roles,      \* the relations the operator has
    req         \* req[r]: where a request is

vars == <<published, gone, feed, cache, roles, req>>

Idle == [pc |-> "idle", key |-> "none", valid |-> FALSE, ask |-> 0, held |-> FALSE]

Init ==
    /\ published = Keys
    /\ gone = [k \in Keys |-> 0]
    /\ feed = "keys"
    /\ cache = [body |-> "nothing", keys |-> {}, left |-> 0]
    /\ roles \in SUBSET Relations
    /\ req = [r \in Requests |-> Idle]

PermittingSet == {Permitting[i] : i \in 1..Len(Permitting)}

-----------------------------------------------------------------------------
\* goes on with the copy when the URL fails
MutantLoad ==
    IF cache.left > 0 THEN cache
    ELSE CASE feed = "keys" -> [body |-> "keys", keys |-> published, left |-> Ttl]
           [] feed = "object" -> [body |-> "object", keys |-> {}, left |-> Ttl]
           [] OTHER -> cache

\* _load_jwks: the copy while it lasts, and then what the URL gives.  A JSON
\* object without a list of keys is kept as long as one with it.  When the
\* URL fails nothing is used; the copy that has expired never is again.
Load ==
    IF cache.left > 0 THEN cache
    ELSE CASE feed = "keys" -> [body |-> "keys", keys |-> published, left |-> Ttl]
           [] feed = "object" -> [body |-> "object", keys |-> {}, left |-> Ttl]
           [] OTHER -> [body |-> "nothing", keys |-> {}, left |-> 0]

\* A request comes with a token of some key, whose signature and claims are
\* valid or not, or with one whose header is refused: no token, another
\* algorithm, no key id.
Arrive(r, k, valid) ==
    /\ req[r].pc = "idle"
    /\ req' = [req EXCEPT ![r] = [Idle EXCEPT !.pc = "token", !.key = k, !.valid = valid]]
    /\ UNCHANGED <<published, gone, feed, cache, roles>>

\* authenticate, when the header is refused: the JWKS is not looked at
RefuseHeader(r) ==
    /\ req[r].pc = "token" /\ req[r].key = "none"
    /\ req' = [req EXCEPT ![r].pc = "401"]
    /\ UNCHANGED <<published, gone, feed, cache, roles>>

\* authenticate: key and signature, then issuer, audience, times and type of
\* the claims
Authenticate(r) ==
    /\ req[r].pc = "token" /\ req[r].key # "none"
    /\ cache' = Load
    /\ req' = [req EXCEPT ![r] =
          IF Load.body = "nothing" THEN [@ EXCEPT !.pc = IF feed = "text" THEN "401" ELSE "503"]
          ELSE IF Load.body = "object" \/ @.key \notin Load.keys \/ ~@.valid
               THEN [@ EXCEPT !.pc = "401"]
          ELSE [@ EXCEPT !.pc = "check", !.ask = 1, !.held = PermittingSet \cap roles # {}]]
    /\ UNCHANGED <<published, gone, feed, roles>>

\* an answer of OpenFGA: the first relation that is allowed admits
Answered(r, allowed) ==
    req' = [req EXCEPT ![r] =
              IF allowed THEN [@ EXCEPT !.pc = "admitted"]
              ELSE IF req[r].ask = Len(Permitting) THEN [@ EXCEPT !.pc = "403"]
              ELSE [@ EXCEPT !.ask = req[r].ask + 1]]

\* OpenFGAHttpAuthorizer.check: the next relation of _permission_relations
Check(r) ==
    /\ req[r].pc = "check"
    /\ Answered(r, Permitting[req[r].ask] \in roles)
    /\ UNCHANGED <<published, gone, feed, cache, roles>>

\* fails open
MutantCheckFails(r) ==
    /\ req[r].pc = "check"
    /\ req' = [req EXCEPT ![r].pc = "admitted"]
    /\ UNCHANGED <<published, gone, feed, cache, roles>>

\* OpenFGA does not answer, or not with a check
CheckFails(r) ==
    /\ req[r].pc = "check"
    /\ req' = [req EXCEPT ![r].pc = "503"]
    /\ UNCHANGED <<published, gone, feed, cache, roles>>

\* the answer is out
Leave(r) ==
    /\ req[r].pc \in {"401", "403", "503", "admitted"}
    /\ req' = [req EXCEPT ![r] = Idle]
    /\ UNCHANGED <<published, gone, feed, cache, roles>>

-----------------------------------------------------------------------------
Withdraw(k) ==
    /\ k \in published
    /\ published' = published \ {k}
    /\ gone' = [gone EXCEPT ![k] = 0]
    /\ UNCHANGED <<feed, cache, roles, req>>

Publish(k) ==
    /\ k \notin published
    /\ published' = published \cup {k}
    /\ gone' = [gone EXCEPT ![k] = 0]
    /\ UNCHANGED <<feed, cache, roles, req>>

FeedChanges ==
    /\ feed' \in {"keys", "object", "text", "error"} \ {feed}
    /\ UNCHANGED <<published, gone, cache, roles, req>>

\* An administrator changes the operator's relations, in one write.
RolesChange ==
    /\ roles' \in SUBSET Relations \ {roles}
    /\ req' = [r \in Requests |->
                 [req[r] EXCEPT !.held = @ \/ (req[r].pc = "check" /\ PermittingSet \cap roles' # {})]]
    /\ UNCHANGED <<published, gone, feed, cache>>

Tick ==
    /\ cache' = [cache EXCEPT !.left = IF @ > 0 THEN @ - 1 ELSE 0]
    /\ gone' = [k \in Keys |-> IF k \notin published /\ gone[k] < Ttl THEN gone[k] + 1 ELSE gone[k]]
    /\ UNCHANGED <<published, feed, roles, req>>

Next ==
    \/ \E r \in Requests :
          \/ \E k \in Keys, valid \in BOOLEAN : Arrive(r, k, valid)
          \/ Arrive(r, "none", FALSE) \/ RefuseHeader(r)
          \/ Authenticate(r) \/ Check(r) \/ CheckFails(r) \/ Leave(r)
    \/ \E k \in Keys : Withdraw(k) \/ Publish(k)
    \/ FeedChanges \/ RolesChange \/ Tick

\* what the service does with a request
Handled(r) == RefuseHeader(r) \/ Authenticate(r) \/ Check(r) \/ CheckFails(r) \/ Leave(r)

\* Requests are handled and time passes; nothing makes the services behave.
Fairness == (\A r \in Requests : WF_vars(Handled(r))) /\ WF_vars(Tick)

Spec == Init /\ [][Next]_vars /\ Fairness

-----------------------------------------------------------------------------
\* Domains of the state: the copy of the keys and the age of a withdrawn one
\* stay within the cache's time to live.
OpsAuthTypeOK ==
    /\ published \subseteq Keys
    /\ gone \in [Keys -> 0..Ttl]
    /\ cache.left \in 0..Ttl /\ cache.keys \subseteq Keys
    /\ \A r \in Requests :
          /\ req[r].pc \in {"idle", "token", "check", "401", "403", "503", "admitted"}
          /\ req[r].ask \in 0..Len(Permitting)

(***************************************************************************)
(* A withdrawn key lapses: Ttl after the issuer has withdrawn it no token  *)
(* of it passes authentication, whatever the JWKS URL answered since.      *)
(***************************************************************************)
WithdrawnLapses ==
    [][\A r \in Requests :
          req[r].pc = "token" /\ req'[r].pc = "check" =>
              req[r].key \in published \/ gone[req[r].key] < Ttl]_vars

(***************************************************************************)
(* Nobody is admitted who did not have a relation that grants the          *)
(* permission at some moment of the check: no failure of OpenFGA and no    *)
(* change of roles between two of its answers lets somebody in.            *)
(***************************************************************************)
AdmittedHeld == \A r \in Requests : req[r].pc = "admitted" => req[r].held

(***************************************************************************)
(* A key that stays published behind a JWKS URL that works is known in the *)
(* end: neither the copy from before the rotation nor one without keys     *)
(* keeps its valid tokens out for ever.                                    *)
(***************************************************************************)
RotationSettles ==
    \A k \in Keys :
        <>[](feed = "keys" /\ k \in published) =>
            <>[](\A r \in Requests : req[r].key = k /\ req[r].valid => req[r].pc # "401")

(***************************************************************************)
(* The copy of the keys follows the issuer, in what it lets in and in what *)
(* it keeps out.                                                           *)
(***************************************************************************)
KeysFollowIssuer == WithdrawnLapses /\ RotationSettles
=============================================================================
