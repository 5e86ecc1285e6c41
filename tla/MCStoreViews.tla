---------------------------- MODULE MCStoreViews ----------------------------
(***************************************************************************)
(* An instance of Stores and StoreViews for the model checker.  A          *)
(* behaviour is bounded in one of two ways.  Three requests of two         *)
(* processes settle one payment under two profiles through any store, and  *)
(* nobody looks.  Or two payments of one profile are settled in Postgres   *)
(* at the same time, and not presented again once they have a record,      *)
(* while an operator reads.                                                *)
(***************************************************************************)
EXTENDS StoreViews

CONSTANTS p1, p2, s1, r1, r2, r3, x1, x2, f1, f2

VARIABLE bound

OneSeller == [p \in Payments |-> s1]

\* one payment is in USDC, the other in some other asset
Amounts == p1 :> 2 @@ p2 :> 0

\* the requests that the behaviour may consist of, under either bound
ForStores(r, q) ==
    /\ q.payment = p1
    /\ store # "memory" => q.process = IF r = r1 THEN x1 ELSE x2

ForViews(r, q) ==
    /\ r # r3 /\ q.payment = IF r = r1 THEN p1 ELSE p2
    /\ q.process = x1 /\ q.profile = f1
    /\ q.pc = "claim" => IdsOf(q.payment) = {}

Within ==
    CASE bound = "stores" ->
           /\ view = NoView
           /\ \A r \in Requests : At(r, "idle") \/ ForStores(r, req[r])
      [] bound = "views" ->
           /\ store = "postgres" /\ ~limited
           /\ \A r \in Requests : At(r, "idle") \/ ForViews(r, req[r])

MCInit == InitViews /\ bound \in {"stores", "views"} /\ Within

MCNext == NextViews /\ UNCHANGED bound /\ Within'

MCSpec == MCInit /\ [][MCNext]_<<allvars, bound>>
=============================================================================
