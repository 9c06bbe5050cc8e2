-------------------------- MODULE MCBackgroundJobs --------------------------
(***************************************************************************)
(* Small instances of BackgroundJobs: one or two jobs, two workers, and    *)
(* one message of each job handed over a second time.                      *)
(***************************************************************************)
EXTENDS BackgroundJobs
=============================================================================
