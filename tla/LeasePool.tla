------------------------------ MODULE LeasePool ------------------------------
(***************************************************************************)
(* What a pool of warm execution environments promises to the executor that *)
(* borrows from it (the Pool interface of internal/pool/pool.go): a request *)
(* is handed an environment that was available, nobody else is handed it    *)
(* while the request has it, and a pool that has been shut down takes no    *)
(* environment back.                                                        *)
(***************************************************************************)
CONSTANTS Environments, Requests, Nothing

VARIABLES available,  \* environments the pool may hand out
          lease,      \* lease[r]: the environment request r has, or Nothing
          shut        \* the pool has been shut down

leaseVars == <<available, lease, shut>>

Leased == {lease[r] : r \in Requests} \ {Nothing}

LeaseInit ==
  /\ available = {}
  /\ lease = [r \in Requests |-> Nothing]
  /\ shut = FALSE

(* Acquire *)
Borrow(r) ==
  /\ lease[r] = Nothing
  /\ \E e \in available :
       lease' = [lease EXCEPT ![r] = e] /\ available' = available \ {e}
  /\ UNCHANGED shut

(* Release or Discard begins: the request has given its environment up. *)
GiveUp(r) ==
  /\ lease[r] # Nothing
  /\ lease' = [lease EXCEPT ![r] = Nothing]
  /\ UNCHANGED <<available, shut>>

(* A new, a returned or a spared environment becomes available. *)
Offer(e) ==
  /\ ~shut
  /\ e \notin available \cup Leased
  /\ available' = available \cup {e}
  /\ UNCHANGED <<lease, shut>>

(* Eviction, or the drain of Shutdown *)
Withdraw(e) ==
  /\ e \in available
  /\ available' = available \ {e}
  /\ UNCHANGED <<lease, shut>>

ShutDown == ~shut /\ shut' = TRUE /\ UNCHANGED <<available, lease>>

LeaseNext ==
  \/ \E r \in Requests : Borrow(r) \/ GiveUp(r)
  \/ \E e \in Environments : Offer(e) \/ Withdraw(e)
  \/ ShutDown

LeaseSpec == LeaseInit /\ [][LeaseNext]_leaseVars
=============================================================================
