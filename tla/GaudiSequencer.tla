--------------------------- MODULE GaudiSequencer ---------------------------
(***************************************************************************)
(* The sequential framework: MinimalEventLoopMgr::executeEvent calls the   *)
(* top algorithms one after the other, and GaudiSequencer::execute its     *)
(* members.  For a configuration (see PrecedenceAssembly) and the outcome  *)
(* of each algorithm, ExecuteEvent is what an event leaves behind.  It is  *)
(* the reference for the decisions of the concurrent framework.            *)
(*                                                                         *)
(* The outcome of an algorithm is "pass", "reject", "fail" or "disabled".  *)
(* The state of an event is a record                                       *)
(*   done     the nodes whose AlgExecState is Done                         *)
(*   passed   node |-> filterPassed, TRUE unless somebody says otherwise   *)
(*   ok       the StatusCode the last sysExecute returned                  *)
(***************************************************************************)
EXTENDS Sequences, SequencesExt

RECURSIVE SysExecute(_, _, _, _)

\* The algorithm n is called and leaves its outcome.
ExecuteAlgorithm(n, outcome, st) ==
  IF outcome[n] = "disabled" THEN [st EXCEPT !.ok = TRUE]
  ELSE [st EXCEPT !.done = @ \cup {n}, !.passed[n] = outcome[n] # "reject",
                  !.ok = outcome[n] # "fail"]

\* "we should not just blindly return the 'last' passed status!"
SeqPass(flags, passed, seqPass) ==
  IF passed = ("ModeOR" \in flags) THEN passed ELSE seqPass

\* One turn of the loop of GaudiSequencer::execute: run is the state of the
\* loop, n the next entry.  A member that is Done is not executed again.
ExecuteEntry(c, h, outcome, run, n) ==
  LET flags  == c.flags[h]
      st     == IF n \in run.st.done THEN run.st ELSE SysExecute(c, n, outcome, run.st)
      filter == "IgnoreFilterPassed" \notin flags
  IN  IF run.left \/ (n \in DOMAIN outcome /\ outcome[n] = "disabled") THEN run
      ELSE IF ~st.ok THEN [run EXCEPT !.st = st, !.left = TRUE]
      ELSE [st      |-> st,
            seqPass |-> IF filter THEN SeqPass(flags, st.passed[n], run.seqPass) ELSE run.seqPass,
            left    |-> /\ filter /\ "ShortCircuit" \in flags
                        /\ st.passed[n] = ("ModeOR" \in flags)]

\* GaudiSequencer::execute
ExecuteSequencer(c, h, outcome, st) ==
  LET flags == c.flags[h]
      start == [st |-> [st EXCEPT !.ok = TRUE], seqPass |-> "ModeOR" \notin flags, left |-> FALSE]
      end   == FoldLeft(LAMBDA run, n : ExecuteEntry(c, h, outcome, run, n), start, c.members[h])
      says  == "IgnoreFilterPassed" \notin flags /\ c.members[h] # <<>>
  IN  [end.st EXCEPT !.done = @ \cup {h},
                     !.passed[h] = IF says THEN end.seqPass # ("Invert" \in flags) ELSE @,
                     !.ok = @ \/ "ReturnOK" \in flags]

SysExecute(c, n, outcome, st) ==
  IF n \in DOMAIN c.members THEN ExecuteSequencer(c, n, outcome, st)
  ELSE ExecuteAlgorithm(n, outcome, st)

\* MinimalEventLoopMgr::executeEvent: the top algorithms are all called, also
\* behind one that failed, and whether or not they are Done.
ExecuteEvent(c, outcome) ==
  FoldLeft(LAMBDA st, n : SysExecute(c, n, outcome, st),
           [done |-> {}, passed |-> [n \in DOMAIN outcome \cup DOMAIN c.members |-> TRUE],
            ok |-> TRUE], c.top)
=============================================================================
