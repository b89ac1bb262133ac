----------------------------- MODULE AuditTrail -----------------------------
(***************************************************************************)
(* What the transactional outbox promises: an audit event that a service   *)
(* has committed is owed until it is settled; before that it is written to *)
(* audit_logs, once.                                                       *)
(***************************************************************************)
EXTENDS Naturals

CONSTANT Event

VARIABLES
    owed,       \* committed and not settled
    settled,    \* delivered as far as the outbox is concerned
    logs        \* rows of audit_logs for each event

trail == <<owed, settled, logs>>

TrailInit == owed = {} /\ settled = {} /\ logs = [e \in Event |-> 0]

Commit(e) ==
    /\ e \notin owed \cup settled
    /\ owed' = owed \cup {e}
    /\ UNCHANGED <<settled, logs>>

Log(e) ==
    /\ e \in owed /\ logs[e] = 0
    /\ logs' = [logs EXCEPT ![e] = 1]
    /\ UNCHANGED <<owed, settled>>

Settle(e) ==
    /\ e \in owed /\ logs[e] = 1
    /\ owed' = owed \ {e}
    /\ settled' = settled \cup {e}
    /\ UNCHANGED logs

TrailNext == \E e \in Event : Commit(e) \/ Log(e) \/ Settle(e)

TrailSpec == TrailInit /\ [][TrailNext]_trail

FairTrailSpec == TrailSpec /\ \A e \in Event : WF_trail(Log(e)) /\ WF_trail(Settle(e))

=============================================================================
