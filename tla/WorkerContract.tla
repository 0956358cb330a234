----------------------------- MODULE WorkerContract ----------------------------
(***************************************************************************)
(* What one invocation of a Codex process promises the run that makes it,  *)
(* whichever of the two backends makes it: the stages from launch to a     *)
(* verdict.  WorkerProcess (native) and WslInvocation (WSL) implement it;  *)
(* PilotRunner takes its runs' workers through the native ones, and        *)
(* WslWorker builds on it.                                                 *)
(***************************************************************************)

VARIABLES
  stage,    \* how far the invocation has got
  worker,   \* the Codex process, and what it leaves behind
  outcome   \* the verdict

contractVars == <<stage, worker, outcome>>

Verdicts == {"completed", "failed", "timed_out", "cancelled", "uncertain"}

ContractInit ==
  /\ stage = "launch"
  /\ worker = "none"
  /\ outcome = "none"

Conclude(verdict, next) ==
  /\ outcome' = verdict
  /\ stage' = next

\* An interrupted launch may or may not have started the worker.
Launch ==
  /\ stage = "launch"
  /\ \/ worker' = "launched" /\ stage' = "record_started" /\ UNCHANGED outcome
     \/ Conclude("failed", "ended") /\ UNCHANGED worker
     \/ Conclude("uncertain", "ended") /\ worker' \in {"none", "launched"}

\* The prompt is only ever sent once the start is on record.
RecordStarted ==
  /\ stage = "record_started"
  /\ stage' = "prompt"
  /\ UNCHANGED <<worker, outcome>>

\* A worker that exited at once may have left a process to receive it, or
\* nobody.
SubmitPrompt ==
  /\ stage = "prompt"
  /\ worker' \in {"prompted", "left_behind", "dead"}
  /\ stage' = "working"
  /\ UNCHANGED outcome

\* The worker exits, and in time so does what it started; so does one that was
\* given up.
WorkerExits ==
  /\ \/ worker = "launched" /\ outcome # "none" /\ worker' = "none"
     \/ worker = "prompted" /\ worker' \in {"left_behind", "dead"}
     \/ worker = "left_behind" /\ worker' = "dead"
  /\ UNCHANGED <<stage, outcome>>

InvocationEnds ==
  /\ stage = "working"
  /\ worker \in {"left_behind", "dead"}
  /\ \E verdict \in {"completed", "failed"} : Conclude(verdict, "ended")
  /\ UNCHANGED worker

\* The invocation is cut off.  Unless that is uncertain, the worker itself is
\* gone; some thread may still have to be waited for.
CutOff ==
  /\ stage \in {"record_started", "prompt", "working"}
  /\ LET ended == IF stage = "working" THEN {"left_behind", "dead"} ELSE {"none"} IN
     \E next \in {"draining", "ended"} :
       \/ /\ worker' \in ended
          /\ \E verdict \in {"failed", "timed_out", "cancelled"} : Conclude(verdict, next)
       \/ /\ worker' \in ended \cup {worker}
          /\ Conclude("uncertain", next)

Drain ==
  /\ stage = "draining"
  /\ stage' = "ended"
  /\ UNCHANGED <<worker, outcome>>

ContractNext ==
  \/ Launch \/ RecordStarted \/ SubmitPrompt \/ WorkerExits
  \/ InvocationEnds \/ CutOff \/ Drain

ContractSpec == ContractInit /\ [][ContractNext]_contractVars
===============================================================================
