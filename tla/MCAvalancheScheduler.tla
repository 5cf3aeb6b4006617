------------------------ MODULE MCAvalancheScheduler ------------------------
(* AvalancheScheduler with the jobs of MCJobs.                              *)
EXTENDS AvalancheScheduler, MCJobs
=============================================================================
