-------------------------- MODULE SharedResourceLease --------------------------
(***************************************************************************)
(* apps/tigeriq-core/shared-resource-lease.mjs: the two tables through     *)
(* which several processes share a provider.  slot[r] is current_job_id of *)
(* r's row in tigeriq_ai_resources; lease[r] is its row, if any, in        *)
(* tigeriq_ai_resource_leases.  Each operation is one transaction that     *)
(* locks r's row first, so each is one action.  A lease that has run out   *)
(* stays in its row until somebody clears it.                              *)
(***************************************************************************)
EXTENDS Integers, FiniteSets

CONSTANTS Resources,  \* resource ids
          Holders,    \* users of leases: a probe, a canary, a run of the coding lane
          Nothing     \* SQL null

ASSUME NothingIsNothing == Nothing \notin Resources /\ Nothing \notin Holders
ASSUME NullIsNoRow == Nothing \notin [work : Holders, live : BOOLEAN]

VARIABLES slot,   \* resource -> the work that occupies it, or Nothing
          lease,  \* resource -> [work, live], or Nothing; live: lease_until > now()
          hand    \* holder -> the resource it has a token for, or Nothing

leaseVars == <<slot, lease, hand>>

LeaseInit ==
  /\ slot  = [r \in Resources |-> Nothing]
  /\ lease = [r \in Resources |-> Nothing]
  /\ hand  = [h \in Holders |-> Nothing]

Leased(r)    == lease[r] # Nothing
IsLive(r)    == Leased(r) /\ lease[r].live
IsExpired(r) == Leased(r) /\ ~lease[r].live

\* The slot, once the work of r's lease has left it.
Vacated(r) == IF Leased(r) /\ slot[r] = lease[r].work THEN Nothing ELSE slot[r]

\* clearExpiredLeaseForLockedResource: an expired lease goes, and its work with it.
SlotAfterClearing(r)  == IF IsExpired(r) THEN Vacated(r) ELSE slot[r]
LeaseAfterClearing(r) == IF IsExpired(r) THEN Nothing ELSE lease[r]

\* acquireSharedResourceLease: what is cleared is committed even if r is then
\* found occupied, or leased, and nothing is granted.
Acquire(h, r) ==
  /\ hand[h] = Nothing
  /\ LET free == SlotAfterClearing(r) = Nothing /\ LeaseAfterClearing(r) = Nothing IN
       /\ slot'  = [slot EXCEPT ![r] = IF free THEN h ELSE SlotAfterClearing(r)]
       /\ lease' = [lease EXCEPT ![r] = IF free THEN [work |-> h, live |-> TRUE]
                                                ELSE LeaseAfterClearing(r)]
       /\ hand'  = [hand EXCEPT ![h] = IF free THEN r ELSE Nothing]

\* heartbeatSharedResourceLease updates a row only with this token, and only
\* while it has not run out; its result tells the holder whether it did.
HeartbeatAccepted(h) ==
  hand[h] # Nothing /\ IsLive(hand[h]) /\ lease[hand[h]].work = h

\* releaseSharedResourceLease: nothing happens without the token's row.
Release(h) ==
  LET r == hand[h] IN
  /\ r # Nothing
  /\ hand' = [hand EXCEPT ![h] = Nothing]
  /\ IF Leased(r) /\ lease[r].work = h
     THEN /\ slot'  = [slot EXCEPT ![r] = Vacated(r)]
          /\ lease' = [lease EXCEPT ![r] = Nothing]
     ELSE UNCHANGED <<slot, lease>>

\* recoverExpiredSharedResourceLeases: one candidate, checked again under its lock.
RecoverLease(r) ==
  /\ IsExpired(r)
  /\ slot'  = [slot EXCEPT ![r] = Vacated(r)]
  /\ lease' = [lease EXCEPT ![r] = Nothing]
  /\ UNCHANGED hand

\* Time passes, and nobody renewed the lease.
RunOut(r) ==
  /\ IsLive(r)
  /\ lease' = [lease EXCEPT ![r] = [work |-> @.work, live |-> FALSE]]
  /\ UNCHANGED <<slot, hand>>

\* The process of a holder dies: the rows stay, its token is gone.
HolderDies(h) ==
  /\ hand[h] # Nothing
  /\ hand' = [hand EXCEPT ![h] = Nothing]
  /\ UNCHANGED <<slot, lease>>

-----------------------------------------------------------------------------
\* The rows are well formed; jobs of Core may occupy a slot too.
LeaseTypeOK(Work) ==
  /\ slot  \in [Resources -> Work \cup {Nothing}]
  /\ lease \in [Resources -> [work : Holders, live : BOOLEAN] \cup {Nothing}]
  /\ hand  \in [Holders -> Resources \cup {Nothing}]
=============================================================================
