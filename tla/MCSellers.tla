------------------------------ MODULE MCSellers ------------------------------
(***************************************************************************)
(* An instance of Sellers for the model checker: one account, whose key is *)
(* configured.                                                             *)
(***************************************************************************)
EXTENDS Sellers, TLC

CONSTANTS t1, s1, k1

OneConfig == {[seller |-> s1, tenant |-> t1, key |-> k1]}

TxsSymmetry == Permutations(Txs)
=============================================================================
