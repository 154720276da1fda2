------------------------------ MODULE Registry ------------------------------
(***************************************************************************)
(* The rules of the SQLite registry that the rest of the daemon relies on: *)
(* which state an operation may move to, which operations a restart picks  *)
(* up again, and which ones count against the rolling publication budget.  *)
(* Only the queries are here; the tables themselves are variables of the   *)
(* modules that use them.                                                  *)
(***************************************************************************)
EXTENDS Naturals

\* The forward track an operation moves along, as positions.
Rank == [distilled |-> 1, wm_written |-> 2, finalized |-> 3, shared |-> 4,
         receipted |-> 5, publishing |-> 6, published |-> 7, vm_receipted |-> 8]

Track == {"distilled", "wm_written", "finalized", "shared", "receipted",
          "publishing", "published", "vm_receipted"}

\* States off the track: no position, hence no way back on to it.
OffTrack == {"failed", "publish_unconfirmed"}

OpState == Track \cup OffTrack

\* Registry.transition: an off-track target is accepted from every state, a
\* target on the track only from an earlier position of the track.
CanTransition(from, to) ==
    \/ to \in OffTrack
    \/ from \in Track /\ to \in Track /\ Rank[to] > Rank[from]

CaptureStates == {"distilled", "wm_written", "finalized", "shared"}

\* (mutant: a reserved operation is not picked up again)
PendingButReserved ==
    OpState \ {"receipted", "vm_receipted", "failed", "publish_unconfirmed", "publishing"}
\* Registry.pendingOps: everything neither finished nor abandoned.
PendingStates == OpState \ {"receipted", "vm_receipted", "failed", "publish_unconfirmed"}

\* (mutant: unconfirmed publishes release their part of the budget)
SpentIfConfirmed == {"publishing", "published", "vm_receipted"}
\* Registry.countRecentPublishes: a spend that was reserved, whatever became of it.
SpentStates == {"publishing", "published", "vm_receipted", "publish_unconfirmed"}

RecentPublishes(state, updatedAt, now, window) ==
    {o \in DOMAIN state : state[o] \in SpentStates /\ updatedAt[o] + window > now}
=============================================================================
