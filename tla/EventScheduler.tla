--------------------------- MODULE EventScheduler ---------------------------
(***************************************************************************)
(* What a scheduler promises the event loop (IScheduler.h): at most        *)
(* NumSlots events are with the scheduler; each event pushed is finished,  *)
(* and finished events are handed back once, in the order they finished.   *)
(***************************************************************************)
EXTENDS Integers, Sequences, EventContexts

VARIABLES
  phase,      \* [Events -> {"new", "inFlight", "finished", "returned"}]
  finished,   \* finished events not yet popped, oldest first
  free,       \* what freeSlots() answers
  open        \* the scheduler is not being deactivated

vars == <<phase, finished, free, open>>

Init ==
  /\ phase = [e \in Events |-> "new"]
  /\ finished = <<>>
  /\ free = NumSlots
  /\ open = TRUE

Push(e) ==
  /\ open /\ phase[e] = "new" /\ free > 0
  /\ phase' = [phase EXCEPT ![e] = "inFlight"]
  /\ free' = free - 1
  /\ UNCHANGED <<finished, open>>

Finish(e) ==
  /\ phase[e] = "inFlight"
  /\ phase' = [phase EXCEPT ![e] = "finished"]
  /\ finished' = Append(finished, e)
  /\ UNCHANGED <<free, open>>

Pop ==
  /\ open /\ finished # <<>>
  /\ phase' = [phase EXCEPT ![Head(finished)] = "returned"]
  /\ finished' = Tail(finished)
  /\ free' = free + 1
  /\ UNCHANGED open

Close ==
  /\ open
  /\ open' = FALSE
  /\ free' = 0
  /\ UNCHANGED <<phase, finished>>

Next == (\E e \in Events : Push(e) \/ Finish(e)) \/ Pop \/ Close

\* While the scheduler is open, every event in flight finishes.
EventsFinish == \A e \in Events : phase[e] = "inFlight" ~> phase[e] # "inFlight" \/ ~open

\* What never happens, and with it what eventually does.
SafetySpec == Init /\ [][Next]_vars
Spec == SafetySpec /\ EventsFinish
=============================================================================
