----------------------- MODULE MCHiveSlimEventLoopMgr -----------------------
(* HiveSlimEventLoopMgr with the jobs of MCJobs.                            *)
EXTENDS HiveSlimEventLoopMgr, MCJobs

\* A finite run with one event of the black list, which also names one beyond the
\* run; a run with less input than it wants; and one without limit that skips
\* its first event and ends at the first failure.
MCRuns ==
  {[maxEvt |-> 5, input |-> 5, blackList |-> {2, 9}, abort |-> FALSE],
   [maxEvt |-> 4, input |-> 2, blackList |-> {}, abort |-> FALSE],
   [maxEvt |-> -1, input |-> 3, blackList |-> {0}, abort |-> TRUE]}
=============================================================================
