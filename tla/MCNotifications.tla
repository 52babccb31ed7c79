-------------------------- MODULE MCNotifications ---------------------------
(* Notifications for TLC, with a queue of two messages.                    *)
EXTENDS Notifications

Everything == [enabled |-> TRUE, warning |-> TRUE, critical |-> TRUE,
               notify_recovery |-> TRUE, repeat_critical |-> TRUE]

Disabled == [Everything EXCEPT !.enabled = FALSE]

\* Everything, ntfy switched off, and only the starts of critical incidents.
ThreeConfigs ==
    {Everything, Disabled,
     [Everything EXCEPT !.warning = FALSE, !.notify_recovery = FALSE, !.repeat_critical = FALSE]}

\* Once the queue has been sent the subscriber knows the state of every incident whose
\* newest message was kept, and a stick without a snapshot says nothing of the host.
NotificationsInv == TypeOK /\ NewerStateRetained /\ SilentBeforeSnapshot

=============================================================================
