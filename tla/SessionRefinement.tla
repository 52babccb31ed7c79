------------------------- MODULE SessionRefinement --------------------------
(***************************************************************************)
(* The daemon and the stick implement ShutdownService.  A connection is a  *)
(* nonce of the daemon; the pending requests are the ones of its session   *)
(* still queued on the stick or on the wire; a request is being served     *)
(* while the daemon's main thread is inside handle and poweroff.           *)
(***************************************************************************)
EXTENDS Session, FiniteSets

RequestsIn(frames, nonce) ==
    Cardinality({i \in 1..Len(frames) : IsRequest(frames[i]) /\ frames[i].session = nonce})

Pending == RequestsIn(queue, handshake_nonce) + RequestsIn(toHost, handshake_nonce)

Serving ==
    IF proc # "running" THEN "none"
    ELSE IF at \in {"accepting", "accepted", "count", "poweroff_counted", "poweroff_uncounted"}
         THEN "accepted"
    ELSE IF at \in {"monitor", "stopped", "last"} THEN "issued"
    ELSE "none"

Service == INSTANCE ShutdownService WITH
    session <- handshake_nonce,
    pending <- Pending,
    serving <- Serving,
    power <- os

\* Daemon, stick and link, with every fault, implement the shutdown service: a
\* long press is served at most once, only in the connection it was made in,
\* and the host is told to power off exactly once for a served request, by
\* SystemdShutdown::poweroff.
ImplementsService == Service!Spec

=============================================================================
