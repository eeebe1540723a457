----------------------- MODULE MCRealtimeSubscriptions -----------------------
\* RealtimeSubscriptions for TLC: one job_events() call and one
\* multi_job_events() call that share a job.
EXTENDS RealtimeSubscriptions, TLC

CONSTANTS i1, i2, j1, j2

MCWatch == (i1 :> {j1}) @@ (i2 :> {j1, j2})
=============================================================================
