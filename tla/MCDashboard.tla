---------------------------- MODULE MCDashboard -----------------------------
(* Dashboard for TLC, with two workers and ages of a few ticks.            *)
EXTENDS Dashboard

\* The page says LIVE only over recent data, its incidents agree with its age, and one
\* dashboard body exists at a time.
DashboardInv == TypeOK /\ LiveMeansRecent /\ IncidentsMatchAge /\ OneDynamicBody

\* Whatever breaks, the HTTP workers get back to their next request and the page to
\* current data.
ServiceRecovers == WorkersReturn /\ RefreshRecovers

=============================================================================
