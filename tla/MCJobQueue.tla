----------------------------- MODULE MCJobQueue -----------------------------
(* The job queue with one Job and one cancel request.                      *)
EXTENDS JobQueue
=============================================================================
