----------------------------- MODULE AtomicStore -----------------------------
(***************************************************************************)
(* The Runtime Store as its callers see it: each operation of RuntimeStore *)
(* happens in one step, for any caller, invocation and attempt.            *)
(***************************************************************************)
EXTENDS RuntimeStore

StoreNext ==
  \E i \in Invocations :
    \/ \E s \in Sessions \cup {NoSession}, r \in Requests : Accept(i, s, r)
    \/ \E recovery \in BOOLEAN : Claimable(i, recovery) /\ TakeOver(i)
    \/ \E a \in 1..row[i].attempt :
         Heartbeat(i, a) \/ Complete(i, a) \/ Fail(i, a) \/ AppendEvent(i, a)
    \/ Expire(i)

StoreSpec == StoreInit /\ [][StoreNext]_storeVars
=============================================================================
