---------------------------- MODULE WslWorkerProofs ----------------------------
(***************************************************************************)
(* The WSL worker, for any helpers and any number of polls: what the       *)
(* verdict of its model run says of the processes in WSL, what is removed  *)
(* and when, and what reaches the Windows worktree.                        *)
(*                                                                         *)
(* The first half is about WslInvocation alone.  The second is about       *)
(* WslWorker, each step of which is a step of the invocation or leaves it  *)
(* as it is.                                                               *)
(***************************************************************************)
EXTENDS WslWorker, TLAPS

Mains ==
  {"prepare", "popen", "raised", "ready", "audit", "write", "wait", "prove",
   "cleanup", "returned"} \cup Stopping

Started == leader \in {"running"} \cup ExitCodes

\* No process of the worker's group runs, nor ever will.
Gone == leader \notin {"pending", "starting", "running"} /\ group = {}

ITyped ==
  /\ main \in Mains
  /\ audited \in BOOLEAN /\ sent \in BOOLEAN /\ record \in BOOLEAN
  /\ client \in {"none", "running", "exited"}
  /\ leader \in {"none", "pending", "starting", "running"} \cup ExitCodes

\* Nothing has been started.
UnlaunchedOK ==
  main \in {"prepare", "popen", "raised"} =>
    client = "none" /\ leader = "none" /\ group = {} /\ ~record

\* How far the start and the prompt have got.
PromptOK ==
  /\ main \in {"prepare", "popen", "raised", "ready", "audit"} => ~audited
  /\ main = "write" => audited /\ ~sent
  /\ main \in {"wait", "prove", "cleanup"} => sent
  /\ sent => audited

\* The record is the leader's, and whoever is known to have started has.
RecordOK ==
  /\ record => Started
  /\ main = "audit" \/ audited => Started
  /\ RunningIsRecorded

\* The verdict comes last, and a proof of the worker's end before it.
VerdictOK ==
  /\ verdict = "none" <=> main # "returned"
  /\ main \in Stopping => why \in {"failed", "timed_out", "cancelled"}
  /\ main \in {"cleanup", "stop_client_again", "stop_cleanup"} => Gone

\* Who has the number while the control script may signal it was given it after
\* the script looked.
SparedOK ==
  /\ script \in {"identified", "termed"} => stranger # "early"
  /\ StrangersAreSpared

IInv ==
  /\ ITyped /\ UnlaunchedOK /\ PromptOK /\ RecordOK /\ VerdictOK
  /\ ExitProofIsSound /\ SparedOK

LEMMA InitIInv == Init => IInv
BY DEF Init, IInv, ITyped, Mains, ExitCodes, Stopping, UnlaunchedOK, PromptOK, RecordOK,
       RunningIsRecorded, VerdictOK, ExitProofIsSound, SparedOK, StrangersAreSpared

-----------------------------------------------------------------------------
(***************************************************************************)
(* The invoking thread.                                                    *)
(***************************************************************************)

\* Up to the launch.
LEMMA LaunchSteps == IInv /\ (Prepare \/ Popen \/ PopenFails) => IInv'
<1> SUFFICES ASSUME IInv, Prepare \/ Popen \/ PopenFails PROVE IInv'
  OBVIOUS
<1> USE DEF Goto, Return, thread, wsl, control, linux, numbers
<1>1. ITyped' /\ PromptOK' /\ UnlaunchedOK'
  BY DEF Prepare, Popen, PopenFails, IInv, ITyped, Mains, ExitCodes, PromptOK, UnlaunchedOK,
     Stopping
<1>2. RecordOK' /\ SparedOK'
  BY DEF Prepare, Popen, PopenFails, IInv, RecordOK, RunningIsRecorded, Started, PromptOK,
     SparedOK, StrangersAreSpared, UnlaunchedOK
<1>3. VerdictOK' /\ ExitProofIsSound'
  BY DEF Prepare, Popen, PopenFails, IInv, UnlaunchedOK, VerdictOK, ExitProofIsSound, Gone,
     Stopping
<1> QED
  BY <1>1, <1>2, <1>3 DEF IInv

\* What only moves the thread on, to a place where less is promised.
Waits ==
  Ready \/ NotYet \/ NotReady \/ Audit \/ SendPrompt \/ WaitReturns \/ WaitTimesOut
    \/ StreamFails

WaitMoves ==
  /\ UNCHANGED <<verdict, client, record, leader, group, outside, stranger, struck, script>>
  /\ verdict = "none" /\ main # "returned"
  /\ \/ main = "ready" /\ main' = "audit" /\ leader = "running"
        /\ UNCHANGED <<audited, sent>>
     \/ main = "ready" /\ main' = "ready" /\ UNCHANGED <<audited, sent>>
     \/ main = "audit" /\ main' = "write" /\ audited' = TRUE /\ sent' = sent
     \/ main = "write" /\ main' = "wait" /\ sent' = TRUE /\ audited' = audited
     \/ main = "wait" /\ main' = "prove" /\ UNCHANGED <<audited, sent>>
     \/ /\ main \in {"ready", "audit", "write", "wait"} /\ main' = "stop_client"
        /\ why' \in {"failed", "timed_out"} /\ UNCHANGED <<audited, sent>>

LEMMA WaitsMove == IInv /\ Waits => WaitMoves
BY DEF Waits, WaitMoves, Ready, NotYet, NotReady, Audit, SendPrompt, WaitReturns,
   WaitTimesOut, StreamFails, IInv, VerdictOK, Goto, Stop, thread, wsl, control, linux,
   numbers

LEMMA WaitSteps == IInv /\ Waits => IInv'
<1> SUFFICES ASSUME IInv, WaitMoves PROVE IInv'
  BY WaitsMove
<1>2. ITyped' /\ PromptOK' /\ UnlaunchedOK'
  <2>1. ITyped'
    BY DEF WaitMoves, IInv, ITyped, Mains, Stopping
  <2>2. PromptOK'
    BY DEF WaitMoves, IInv, ITyped, PromptOK
  <2>3. UnlaunchedOK'
    BY DEF WaitMoves, IInv, UnlaunchedOK, Mains
  <2> QED
    BY <2>1, <2>2, <2>3
<1>3. RecordOK' /\ SparedOK'
  BY DEF WaitMoves, IInv, RecordOK, RunningIsRecorded, Started, SparedOK, StrangersAreSpared
<1>4. VerdictOK' /\ ExitProofIsSound'
  BY DEF WaitMoves, IInv, VerdictOK, ExitProofIsSound, Stopping
<1> QED
  BY <1>2, <1>3, <1>4 DEF IInv

\* The worker's end is proved, or it is not; then the record is removed.
Proofs == Prove \/ CleanupAndJudge \/ StopProve \/ StopCleanup

ProofMoves ==
  /\ UNCHANGED <<audited, sent, why, client, leader, group, outside, stranger, struck, script>>
  /\ verdict = "none"
  /\ \/ /\ record' = record /\ Identified /\ leader # "running" /\ group = {}
        /\ verdict' = verdict
        /\ \/ main = "prove" /\ main' = "cleanup"
           \/ main = "stop_prove" /\ main' \in {"stop_cleanup", "stop_client_again"}
     \/ /\ main \in {"prove", "stop_prove"} /\ main' = "returned"
        /\ record' = record /\ verdict' = "uncertain"
     \/ /\ main \in {"cleanup", "stop_cleanup"} /\ main' = "returned"
        /\ record' \in {record, FALSE}
        /\ verdict' \in IF main = "cleanup" THEN {"failed", "timed_out", "completed"}
                        ELSE {"uncertain", "failed", "timed_out", "cancelled"}

LEMMA ProofsMove == IInv /\ Proofs => ProofMoves
BY DEF Proofs, ProofMoves, Prove, CleanupAndJudge, StopProve, StopCleanup, Judge, Removed,
   NotRemoved, GroupIsGone, IInv, VerdictOK, Stopping, Goto, Return, thread, wsl, control,
   linux, numbers

LEMMA ProofSteps == IInv /\ Proofs => IInv'
<1> SUFFICES ASSUME IInv, ProofMoves PROVE IInv'
  BY ProofsMove
<1>2. \/ Gone /\ Gone'
      \/ record' = record /\ main' = "returned" /\ verdict' = "uncertain"
  <2>1. CASE Identified /\ leader # "running" /\ group = {}
    BY <2>1 DEF ProofMoves, Identified, IInv, RecordOK, Started, ExitCodes, Gone
  <2> QED
    BY <2>1 DEF ProofMoves, IInv, VerdictOK, Gone
<1>3. ITyped' /\ PromptOK' /\ UnlaunchedOK'
  <2>1. ITyped'
    BY DEF ProofMoves, IInv, ITyped, Mains, Stopping
  <2>2. PromptOK' /\ UnlaunchedOK'
    BY DEF ProofMoves, IInv, PromptOK, UnlaunchedOK
  <2> QED
    BY <2>1, <2>2
<1>4. RecordOK' /\ SparedOK'
  <2>1. (main = "audit" \/ audited => Started)' /\ SparedOK'
    BY DEF ProofMoves, IInv, RecordOK, Started, SparedOK, StrangersAreSpared
  <2>2. CASE Gone /\ Gone'
    <3>1. (record => Started)'
      BY DEF ProofMoves, IInv, ITyped, RecordOK, Started
    <3>2. RunningIsRecorded'
      BY <2>2 DEF ProofMoves, RunningIsRecorded, Gone
    <3> QED
      BY <2>1, <3>1, <3>2 DEF ProofMoves, RecordOK
  <2>3. CASE record' = record
    BY <2>1, <2>3 DEF ProofMoves, IInv, RecordOK, RunningIsRecorded, Started
  <2> QED
    BY <1>2, <2>2, <2>3, <2>1
<1>5. VerdictOK' /\ ExitProofIsSound'
  BY <1>2 DEF ProofMoves, IInv, VerdictOK, ExitProofIsSound, Stopping, Gone
<1> QED
  BY <1>3, <1>4, <1>5 DEF IInv

\* The client is stopped, and the control script asked to stop the worker.
Stops == StopClient \/ AskToStop \/ StopAnswered \/ StopUnanswered

StopMoves ==
  /\ UNCHANGED <<audited, sent, why, record, leader, group, outside, stranger, struck>>
  /\ client' \in {client, "exited"} /\ script' \in {script, "asked"}
  /\ verdict = "none"
  /\ \/ main = "stop_client" /\ main' = "stop_target" /\ verdict' = verdict
     \/ main = "stop_client_again" /\ main' = "stop_cleanup" /\ verdict' = verdict
     \/ main = "stop_target" /\ main' = "stopping" /\ verdict' = verdict
     \/ main = "stopping" /\ main' = "stop_prove" /\ verdict' = verdict
     \/ main \in {"stop_target", "stopping"} /\ main' = "returned" /\ verdict' = "uncertain"

LEMMA StopsMove == IInv /\ Stops => StopMoves
BY DEF Stops, StopMoves, StopClient, AskToStop, StopAnswered, StopUnanswered, IInv,
   VerdictOK, Goto, Return, thread, wsl, control, linux, numbers

LEMMA StopSteps == IInv /\ Stops => IInv'
<1> SUFFICES ASSUME IInv, StopMoves PROVE IInv'
  BY StopsMove
<1>2. ITyped' /\ PromptOK' /\ UnlaunchedOK'
  BY DEF StopMoves, IInv, ITyped, Mains, Stopping, ExitCodes, PromptOK, UnlaunchedOK
<1>3. RecordOK' /\ SparedOK'
  BY DEF StopMoves, IInv, RecordOK, RunningIsRecorded, Started, ExitCodes, SparedOK, StrangersAreSpared
<1>4. VerdictOK' /\ ExitProofIsSound'
  BY DEF StopMoves, IInv, VerdictOK, ExitProofIsSound, Stopping, Gone
<1> QED
  BY <1>2, <1>3, <1>4 DEF IInv

\* An interrupt leads to the same places, or gives up.
InterruptMoves ==
  /\ UNCHANGED <<audited, sent, group, outside, stranger, struck, script>>
  /\ verdict = "none"
  /\ \/ /\ main = "prepare" /\ main' = "raised" /\ verdict' = verdict
        /\ UNCHANGED <<client, leader, record>>
     \/ /\ main = "popen" /\ main' = "returned" /\ verdict' = "uncertain"
        /\ record' = record
        /\ UNCHANGED <<client, leader>> \/ (client' = "running" /\ leader' = "pending")
     \/ /\ main \in {"ready", "audit", "write", "wait", "prove"}
        /\ main' = "stop_client" /\ why' = "cancelled" /\ verdict' = verdict
        /\ UNCHANGED <<client, leader, record>>
     \/ /\ main = "cleanup" /\ main' = "returned" /\ verdict' = "cancelled"
        /\ record' \in {record, FALSE}
        /\ UNCHANGED <<client, leader>>
     \/ /\ main \in Stopping /\ main' = "returned" /\ verdict' = "uncertain"
        /\ record' = record \/ (main = "stop_cleanup" /\ record' = FALSE)
        /\ UNCHANGED <<client, leader>>

LEMMA InterruptsMove == IInv /\ Interrupt => InterruptMoves
BY DEF InterruptMoves, Interrupt, Removed, NotRemoved, control, IInv, VerdictOK, Stopping,
   Goto, Return, Stop, numbers

LEMMA InterruptStep == IInv /\ Interrupt => IInv'
<1> SUFFICES ASSUME IInv, InterruptMoves PROVE IInv'
  BY InterruptsMove
<1>2. ITyped' /\ PromptOK' /\ UnlaunchedOK'
  <2>1. ITyped'
    BY DEF InterruptMoves, IInv, ITyped, Mains, Stopping, ExitCodes
  <2>2. PromptOK'
    BY DEF InterruptMoves, IInv, ITyped, PromptOK, Stopping
  <2>3. UnlaunchedOK'
    BY DEF InterruptMoves, IInv, UnlaunchedOK, Stopping
  <2> QED
    BY <2>1, <2>2, <2>3
<1>3. RecordOK' /\ SparedOK'
  <2>1. (main = "audit" \/ audited => Started)' /\ SparedOK'
    BY DEF InterruptMoves, IInv, RecordOK, Started, UnlaunchedOK, PromptOK, SparedOK, StrangersAreSpared
  <2>2. (record => Started)'
    BY DEF InterruptMoves, IInv, RecordOK, Started, UnlaunchedOK, PromptOK
  <2>3. RunningIsRecorded'
    BY DEF InterruptMoves, IInv, RecordOK, RunningIsRecorded, VerdictOK, Gone, UnlaunchedOK
  <2> QED
    BY <2>1, <2>2, <2>3 DEF InterruptMoves, RecordOK
<1>4. VerdictOK' /\ ExitProofIsSound'
  BY DEF InterruptMoves, IInv, VerdictOK, ExitProofIsSound, Stopping, Gone
<1> QED
  BY <1>2, <1>3, <1>4 DEF IInv

-----------------------------------------------------------------------------
(***************************************************************************)
(* The client and the Linux side.                                          *)
(***************************************************************************)

\* What the Linux side may do to the worker: it starts, with its record, it
\* runs, it ends; and as long as it or its group is there, the group may grow.
WorkerMoves ==
  \/ UNCHANGED <<leader, group, outside, record>>
  \/ /\ leader \in {"pending", "starting"} /\ leader' \in {"starting", "nonzero"}
     /\ UNCHANGED <<group, outside, record>>
  \/ leader = "starting" /\ leader' = "running" /\ record' /\ UNCHANGED <<group, outside>>
  \/ leader = "running" /\ leader' \in ExitCodes /\ group' \subseteq group
     /\ UNCHANGED <<outside, record>>
  \/ /\ UNCHANGED <<leader, record>>
     /\ group' \subseteq group \/ leader = "running" \/ group # {}
     /\ outside' \subseteq outside \/ leader = "running" \/ group # {} \/ outside # {}

\* The control script looks, then signals, at most twice, and ends; and somebody
\* may be given the number.
NumberMoves ==
  \/ UNCHANGED <<stranger, struck, script>>
  \/ /\ stranger' \in {"early", "late"} /\ UNCHANGED <<struck, script>>
     /\ script \in {"identified", "termed"} => stranger' = "late"
  \/ script' = "identified" /\ stranger = "none" /\ UNCHANGED <<stranger, struck>>
  \/ /\ script \in {"identified", "termed"} /\ script' \in {"termed", "killed"}
     /\ struck' \subseteq struck \cup {stranger} /\ UNCHANGED stranger
  \/ script' \in {"zero", "nonzero"} /\ UNCHANGED <<stranger, struck>>

LEMMA LinuxMoves ==
  IInv /\ (ClientExits \/ ClientDies \/ LinuxStep) =>
    /\ UNCHANGED thread
    /\ WorkerMoves /\ NumberMoves
    /\ client' = client \/ (client = "running" /\ client' = "exited")
<1> SUFFICES ASSUME IInv, ClientExits \/ ClientDies \/ LinuxStep
             PROVE  /\ UNCHANGED thread
                    /\ WorkerMoves /\ NumberMoves
                    /\ client' = client \/ (client = "running" /\ client' = "exited")
  OBVIOUS
<1> USE DEF wsl, control, linux, numbers
<1>1. CASE ClientExits \/ ClientDies
  BY <1>1 DEF ClientExits, ClientDies, WorkerMoves, NumberMoves
<1>2. CASE SupervisorStarts \/ WriteRecord \/ SupervisorFails
  BY <1>2 DEF SupervisorStarts, WriteRecord, SupervisorFails, WorkerMoves, NumberMoves
<1>3. CASE WorkerExits \/ LinuxTimer \/ NumberReused
  BY <1>3 DEF WorkerExits, LinuxTimer, NumberReused, ExitCodes, WorkerMoves, NumberMoves
<1>4. ASSUME NEW h \in Helpers, StartHelper(h) \/ HelperExits(h)
      PROVE  /\ UNCHANGED <<thread, client, numbers>>
             /\ WorkerMoves
  <2>1. UNCHANGED <<thread, client, numbers, leader, record>>
    BY <1>4 DEF StartHelper, HelperExits
  <2>2. CASE StartHelper(h)
    BY <2>1, <2>2 DEF StartHelper, WorkerMoves
  <2>3. CASE HelperExits(h)
    BY <2>1, <2>3 DEF HelperExits, WorkerMoves
  <2> QED
    BY <1>4, <2>1, <2>2, <2>3
<1>5. CASE Look \/ ScriptEnds
  BY <1>5 DEF Look, ScriptEnds, ScriptGoes, Identified, WorkerMoves, NumberMoves
<1>6. CASE SendTerm \/ SendKill
  <2>1. UNCHANGED <<thread, client, outside, record, stranger>>
    BY <1>6 DEF SendTerm, SendKill, ScriptGoes
  <2>2. /\ group' \subseteq group
        /\ leader' = leader \/ (leader = "running" /\ leader' = "nonzero")
        /\ struck' \subseteq struck \cup {stranger}
        /\ script \in {"identified", "termed"} /\ script' \in {"termed", "killed"}
    BY <1>6 DEF SendTerm, SendKill, Signal, ScriptGoes
  <2> QED
    BY <2>1, <2>2 DEF WorkerMoves, NumberMoves, ExitCodes
<1> QED
  BY <1>1, <1>2, <1>3, <1>4, <1>5, <1>6 DEF LinuxStep, NumberMoves

LEMMA LinuxSteps == IInv /\ (ClientExits \/ ClientDies \/ LinuxStep) => IInv'
<1> SUFFICES ASSUME IInv, ClientExits \/ ClientDies \/ LinuxStep PROVE IInv'
  OBVIOUS
<1>1. /\ UNCHANGED <<main, audited, sent, why, verdict>>
      /\ WorkerMoves /\ NumberMoves
      /\ client' = client \/ (client = "running" /\ client' = "exited")
  BY LinuxMoves DEF thread
<1>2. ITyped' /\ UnlaunchedOK'
  <2>1. ITyped'
    BY <1>1 DEF IInv, ITyped, ExitCodes, RecordOK, RunningIsRecorded, WorkerMoves
  <2>2. UnlaunchedOK'
    BY <1>1 DEF IInv, ITyped, ExitCodes, WorkerMoves, UnlaunchedOK
  <2> QED
    BY <2>1, <2>2
<1>3. PromptOK' /\ SparedOK'
  BY <1>1 DEF IInv, PromptOK, SparedOK, StrangersAreSpared, NumberMoves
<1>4. RecordOK'
  BY <1>1 DEF IInv, RecordOK, RunningIsRecorded, Started, ExitCodes, WorkerMoves
<1>5. Gone => Gone'
  BY <1>1 DEF IInv, ITyped, Gone, ExitCodes, WorkerMoves
<1>6. VerdictOK' /\ ExitProofIsSound'
  BY <1>1, <1>5 DEF IInv, VerdictOK, ExitProofIsSound, Gone
<1> QED
  BY <1>2, <1>3, <1>4, <1>6 DEF IInv

LEMMA NextIInv == IInv /\ [Next]_vars => IInv'
<1> SUFFICES ASSUME IInv, [Next]_vars PROVE IInv'
  OBVIOUS
<1>1. CASE UNCHANGED vars
  BY <1>1 DEF vars, thread, wsl, control, linux, numbers, IInv, ITyped, UnlaunchedOK, PromptOK,
     RecordOK, RunningIsRecorded, Started, VerdictOK, Gone, ExitProofIsSound,
     SparedOK, StrangersAreSpared
<1> QED
  BY <1>1, LaunchSteps, WaitSteps, ProofSteps, StopSteps, InterruptStep, LinuxSteps
     DEF Next, MainStep, Waits, Proofs, Stops

LEMMA IInvHolds == Spec => []IInv
<1>1. Init => IInv
  BY InitIInv
<1>2. IInv /\ [Next]_vars => IInv'
  BY NextIInv
<1> QED
  BY <1>1, <1>2, PTL DEF Spec

\* A verdict that is not uncertain is given only when no process of the worker's
\* group runs, nor ever will (_run_model, _confirm_worker_exit,
\* _targeted_stop_confirmed), for any helpers and any polls.
THEOREM ExitProofsAreSound == Spec => []ExitProofIsSound
<1>1. IInv => ExitProofIsSound
  BY DEF IInv
<1> QED
  BY <1>1, IInvHolds, PTL

\* Nobody is signalled who had the worker's number when the control script looked,
\* whenever the script runs and whatever became of the thread that asked for it
\* (the control script compares start_ticks once, before it signals).
THEOREM OnlyTheWorkerIsSignalled == Spec => []StrangersAreSpared
<1>1. IInv => StrangersAreSpared
  BY DEF IInv, SparedOK
<1> QED
  BY <1>1, IInvHolds, PTL

-----------------------------------------------------------------------------
(***************************************************************************)
(* The invocation implements WorkerContract.                               *)
(***************************************************************************)

Before == {"prepare", "popen", "raised"}

\* What the contract sees of a state.
ViewOK ==
  /\ main \in Before =>
       Stage = "launch" /\ Worker = "none" /\ verdict = "none" /\ ~audited /\ ~sent
  /\ main \notin Before \cup {"returned"} =>
       /\ verdict = "none"
       /\ Stage = IF sent THEN "working" ELSE IF audited THEN "prompt" ELSE "record_started"
       /\ Worker = IF sent
                   THEN IF leader = "running" THEN "prompted"
                        ELSE IF group \cup outside = {} THEN "dead" ELSE "left_behind"
                   ELSE "launched"
  /\ main = "returned" => Stage = "ended"

LEMMA Views == (IInv => ViewOK) /\ (IInv' => ViewOK')
BY DEF ViewOK, Before, IInv, ITyped, PromptOK, VerdictOK, Stage, Worker

LEMMA LaunchKeepsContract ==
  IInv /\ (Prepare \/ Popen \/ PopenFails) =>
    [Contract!ContractNext]_(Contract!contractVars)
<1> SUFFICES ASSUME IInv, Prepare \/ Popen \/ PopenFails
             PROVE  [Contract!ContractNext]_(Contract!contractVars)
  OBVIOUS
<1>1. /\ main \in Before /\ UNCHANGED <<audited, sent>>
      /\ \/ main' = "popen" /\ verdict' = verdict
         \/ main' = "ready" /\ verdict' = verdict
         \/ main' = "returned" /\ verdict' = "failed"
  BY DEF Before, Prepare, Popen, PopenFails, Goto, Return
<1>2. Stage = "launch" /\ Worker = "none" /\ verdict = "none" /\ ~audited /\ ~sent
  BY <1>1, Views DEF ViewOK
<1>3. CASE main' = "popen" /\ verdict' = verdict
  <2>1. Stage' = "launch" /\ Worker' = "none"
    BY <1>3 DEF Stage, Worker
  <2> QED
    BY <1>2, <1>3, <2>1 DEF Contract!contractVars
<1>4. CASE main' = "ready" /\ verdict' = verdict
  <2>1. Stage' = "record_started" /\ Worker' = "launched"
    BY <1>1, <1>2, <1>4 DEF Stage, Worker
  <2> QED
    BY <1>2, <1>4, <2>1 DEF Contract!ContractNext, Contract!Launch
<1>5. CASE main' = "returned" /\ verdict' = "failed"
  <2>1. Stage' = "ended" /\ Worker' = "none"
    BY <1>1, <1>2, <1>5 DEF Stage, Worker
  <2> QED
    BY <1>2, <1>5, <2>1 DEF Contract!ContractNext, Contract!Launch, Contract!Conclude
<1> QED
  BY <1>1, <1>3, <1>4, <1>5

\* The start is recorded and the prompt sent; waiting is nothing to the run.
LEMMA WaitKeepsContract ==
  IInv /\ Waits => [Contract!ContractNext]_(Contract!contractVars)
<1> SUFFICES ASSUME IInv, IInv', WaitMoves
             PROVE  [Contract!ContractNext]_(Contract!contractVars)
  BY WaitsMove, WaitSteps
<1>1. main \notin Before \cup {"returned"} /\ main' \notin Before \cup {"returned"}
  BY DEF WaitMoves, Before
<1>2. /\ verdict = "none" /\ verdict' = "none"
      /\ UNCHANGED <<leader, group, outside>>
  BY DEF WaitMoves
<1>3. CASE UNCHANGED <<audited, sent>>
  <2>1. Stage' = Stage /\ Worker' = Worker
    BY <1>1, <1>2, <1>3, Views DEF ViewOK
  <2> QED
    BY <1>2, <2>1 DEF Contract!contractVars
<1>4. CASE main = "audit" /\ audited' = TRUE /\ sent' = sent
  <2>1. ~audited /\ ~sent
    BY <1>4 DEF IInv, ITyped, PromptOK
  <2>2. Stage = "record_started" /\ Stage' = "prompt" /\ Worker' = Worker
    BY <1>1, <1>4, <2>1, Views DEF ViewOK
  <2> QED
    BY <1>2, <2>2 DEF Contract!ContractNext, Contract!RecordStarted
<1>5. CASE main = "write" /\ sent' = TRUE /\ audited' = audited
  <2>1. audited /\ ~sent
    BY <1>5 DEF IInv, PromptOK
  <2>2. /\ Stage = "prompt" /\ Stage' = "working"
        /\ Worker' \in {"prompted", "left_behind", "dead"}
    BY <1>1, <1>5, <2>1, Views DEF ViewOK
  <2> QED
    BY <1>2, <2>2 DEF Contract!ContractNext, Contract!SubmitPrompt
<1> QED
  BY <1>3, <1>4, <1>5 DEF WaitMoves

\* The end of the invocation, as far as the contract is concerned: the worker's
\* end is proved, or the verdict is uncertain.
LEMMA EndIsInContract ==
  ASSUME IInv, IInv', main \notin Before \cup {"returned"}, main' = "returned",
         UNCHANGED <<audited, sent, outside>>,
         group' \subseteq group,
         leader' = leader \/ (leader = "running" /\ leader' = "nonzero"),
         \/ verdict' = "uncertain"
         \/ verdict' \in {"failed", "timed_out", "cancelled"} /\ UNCHANGED <<leader, group>>
         \/ verdict' = "completed" /\ sent /\ UNCHANGED <<leader, group>>
  PROVE  Contract!ContractNext
<1>1. /\ verdict = "none" /\ Stage' = "ended"
      /\ Stage = IF sent THEN "working" ELSE IF audited THEN "prompt" ELSE "record_started"
  BY Views DEF ViewOK
<1>2. CASE verdict' = "uncertain"
  <2>1. Worker' \in (IF sent THEN {"left_behind", "dead"} ELSE {"none"}) \cup {Worker}
    <3>1. CASE sent
      BY <3>1, Views DEF ViewOK, Worker, Before
    <3>2. CASE ~ sent
      BY <1>2, <3>2, Views DEF ViewOK, Worker, Before
    <3> QED
      BY <3>1, <3>2
  <2> QED
    BY <1>1, <1>2, <2>1 DEF Contract!ContractNext, Contract!CutOff, Contract!Conclude
<1>3. CASE verdict' \in {"failed", "timed_out", "cancelled", "completed"}
  <2>1. leader # "running" /\ UNCHANGED <<leader, group, outside, sent>>
    BY <1>3 DEF IInv, ExitProofIsSound
  <2>2. Worker' \in IF sent THEN {"left_behind", "dead"} ELSE {"none"}
    BY <1>3, <2>1 DEF Worker, Before
  <2>3. CASE verdict' = "completed"
    <3>1. Worker' = Worker /\ Worker \in {"left_behind", "dead"}
      BY <2>1, <2>2, <2>3, Views DEF ViewOK, Worker, Before
    <3> QED
      BY <1>1, <2>3, <3>1 DEF Contract!ContractNext, Contract!InvocationEnds,
         Contract!Conclude
  <2>4. CASE verdict' # "completed"
    BY <1>1, <1>3, <2>2, <2>4 DEF Contract!ContractNext, Contract!CutOff,
       Contract!Conclude
  <2> QED
    BY <2>3, <2>4
<1> QED
  BY <1>2, <1>3

\* A step of the thread that leaves it under way, and at most ends processes.
LEMMA UnderWayIsInContract ==
  ASSUME IInv, IInv',
         main \notin Before \cup {"returned"}, main' \notin Before \cup {"returned"},
         UNCHANGED <<audited, sent, verdict, outside>>,
         group' \subseteq group,
         leader' = leader \/ (leader = "running" /\ leader' = "nonzero")
  PROVE  [Contract!ContractNext]_(Contract!contractVars)
<1>1. Stage' = Stage
  BY Views DEF ViewOK
<1>2. \/ Worker' = Worker
      \/ Worker = "prompted" /\ Worker' \in {"left_behind", "dead"}
      \/ Worker = "left_behind" /\ Worker' = "dead"
  BY Views DEF ViewOK
<1> QED
  BY <1>1, <1>2 DEF Contract!ContractNext, Contract!WorkerExits, Contract!contractVars

LEMMA EndKeepsContract ==
  IInv /\ (Proofs \/ Stops \/ Interrupt) =>
    [Contract!ContractNext]_(Contract!contractVars)
<1> SUFFICES ASSUME IInv, IInv', ProofMoves \/ StopMoves \/ InterruptMoves
             PROVE  [Contract!ContractNext]_(Contract!contractVars)
  BY ProofsMove, StopsMove, InterruptsMove, ProofSteps, StopSteps, InterruptStep
<1>1. CASE ProofMoves
  <2>1. /\ main \notin Before \cup {"returned"}
        /\ UNCHANGED <<audited, sent, leader, group, outside>>
    BY <1>1 DEF ProofMoves, Before
  <2>2. CASE main' = "returned"
    <3>1. \/ verdict' \in {"uncertain", "failed", "timed_out", "cancelled"}
          \/ verdict' = "completed" /\ main = "cleanup"
      BY <1>1, <2>2 DEF ProofMoves
    <3>2. main = "cleanup" => sent
      BY DEF IInv, PromptOK
    <3> QED
      BY <2>1, <2>2, <3>1, <3>2, EndIsInContract
  <2>3. CASE main' # "returned"
    BY <1>1, <2>1, <2>3, UnderWayIsInContract DEF ProofMoves, Before
  <2> QED
    BY <2>2, <2>3
<1>2. CASE StopMoves
  <2>1. /\ main \notin Before \cup {"returned"}
        /\ UNCHANGED <<audited, sent, outside>>
        /\ group' \subseteq group
        /\ leader' = leader \/ (leader = "running" /\ leader' = "nonzero")
    BY <1>2 DEF StopMoves, Before
  <2>2. CASE main' = "returned"
    BY <1>2, <2>1, <2>2, EndIsInContract DEF StopMoves
  <2>3. CASE main' # "returned"
    BY <1>2, <2>1, <2>3, UnderWayIsInContract DEF StopMoves, Before
  <2> QED
    BY <2>2, <2>3
<1>3. CASE InterruptMoves
  <2>1. CASE main = "prepare"
    <3>1. /\ main \in Before /\ main' \in Before
          /\ UNCHANGED <<audited, sent, verdict, leader, group, outside>>
      BY <1>3, <2>1 DEF InterruptMoves, Before, Stopping
    <3> QED
      BY <3>1, Views DEF ViewOK, Contract!contractVars
  <2>2. CASE main = "popen"
    <3>1. main' = "returned" /\ verdict' = "uncertain" /\ UNCHANGED sent
      BY <1>3, <2>2 DEF InterruptMoves, Stopping
    <3>2. /\ Stage = "launch" /\ Worker = "none" /\ verdict = "none" /\ ~sent
          /\ Stage' = "ended"
      BY <2>2, <3>1, Views DEF ViewOK, Before
    <3>3. Worker' = "launched"
      BY <3>1, <3>2 DEF Worker
    <3> QED
      BY <3>1, <3>2, <3>3 DEF Contract!ContractNext, Contract!Launch, Contract!Conclude
  <2>3. CASE main \notin {"prepare", "popen"}
    <3>1. /\ main \notin Before \cup {"returned"}
          /\ UNCHANGED <<audited, sent, leader, group, outside>>
      BY <1>3, <2>3 DEF InterruptMoves, Before, Stopping
    <3>2. CASE main' = "returned"
      BY <1>3, <2>3, <3>1, <3>2, EndIsInContract DEF InterruptMoves
    <3>3. CASE main' # "returned"
      BY <1>3, <2>3, <3>1, <3>3, UnderWayIsInContract DEF InterruptMoves, Before
    <3> QED
      BY <3>2, <3>3
  <2> QED
    BY <2>1, <2>2, <2>3
<1> QED
  BY <1>1, <1>2, <1>3

\* Whatever happens in Linux, the worker and what it left only ever end.
LEMMA LinuxKeepsContract ==
  IInv /\ (ClientExits \/ ClientDies \/ LinuxStep) =>
    [Contract!ContractNext]_(Contract!contractVars)
<1> SUFFICES ASSUME IInv, UNCHANGED thread, WorkerMoves
             PROVE  [Contract!ContractNext]_(Contract!contractVars)
  BY LinuxMoves
<1>1. Stage' = Stage /\ verdict' = verdict
  BY DEF thread, Stage
<1>2. CASE main \in Before \/ ~sent
  <2>1. Worker' = Worker
    BY <1>2 DEF thread, Worker, Before
  <2> QED
    BY <1>1, <2>1 DEF Contract!contractVars
<1>3. CASE main \notin Before /\ sent
  <2>1. leader = "running" \/ leader \in ExitCodes
    BY <1>3 DEF IInv, PromptOK, RecordOK, Started
  <2>2. \/ Worker' = Worker
        \/ Worker = "prompted" /\ Worker' \in {"left_behind", "dead"}
        \/ Worker = "left_behind" /\ Worker' = "dead"
    <3>1. /\ Worker = IF leader = "running" THEN "prompted"
                      ELSE IF group \cup outside = {} THEN "dead" ELSE "left_behind"
          /\ Worker' = IF leader' = "running" THEN "prompted"
                       ELSE IF group' \cup outside' = {} THEN "dead" ELSE "left_behind"
      BY <1>3 DEF thread, Worker, Before
    <3> QED
      BY <2>1, <3>1 DEF WorkerMoves, ExitCodes
  <2> QED
    BY <1>1, <2>2 DEF Contract!ContractNext, Contract!WorkerExits, Contract!contractVars
<1> QED
  BY <1>2, <1>3

\* An invocation inside WSL is one that the run can rely on: step by step it does
\* what WorkerContract allows (_run_model).
THEOREM WslKeepsTheContract == Spec => ImplementsContract
<1>1. Init => Contract!ContractInit
  BY DEF Init, Contract!ContractInit, Stage, Worker
<1>2. IInv /\ [Next]_vars => [Contract!ContractNext]_(Contract!contractVars)
  <2>1. UNCHANGED vars => UNCHANGED Contract!contractVars
    BY DEF vars, thread, wsl, control, linux, numbers, Contract!contractVars, Stage, Worker
  <2> QED
    BY <2>1, LaunchKeepsContract, WaitKeepsContract, EndKeepsContract, LinuxKeepsContract
       DEF Next, MainStep, Waits, Proofs, Stops
<1> QED
  BY <1>1, <1>2, IInvHolds, PTL DEF Spec, ImplementsContract, Contract!ContractSpec

-----------------------------------------------------------------------------
(***************************************************************************)
(* The gates and the patch transfer.  What was proved of an invocation     *)
(* holds of the one that invoke_codex makes.                               *)
(***************************************************************************)

LEMMA WorkerStepIsInvocationStep == [WorkerNext]_workerVars => [Next]_vars
<1> SUFFICES ASSUME [WorkerNext]_workerVars PROVE [Next]_vars
  OBVIOUS
<1>1. CASE UNCHANGED workerVars
  BY <1>1 DEF workerVars
<1>2. CASE Qualify
  BY <1>2 DEF Qualify, RuntimeGate, AuthenticationGate, Inherit, NoWorkspace, ProbeModel,
     TransportGate, CapabilityProbe, After, Calls, EndProbe
<1>3. CASE Transfer
  BY <1>3 DEF Transfer, Invoke, Snapshot, CreateShadow, FillShadow, ModelReturns, Compare,
     CheckPaths, CheckContents, Export, LookBeforeApplying, ApplyPatch, CheckApplied,
     Cleanup, At
<1>4. CASE Model \/ Linux
  BY <1>4 DEF Model, Linux, Next
<1>5. CASE WriteShadow \/ EditWorktree
  BY <1>5 DEF WriteShadow, EditWorktree
<1> QED
  BY <1>1, <1>2, <1>3, <1>4, <1>5 DEF WorkerNext

LEMMA WorkerIsInvocation == WorkerSpec => Spec
<1>1. WorkerInit => Init
  BY DEF WorkerInit
<1> QED
  BY <1>1, WorkerStepIsInvocationStep, PTL DEF WorkerSpec, Spec

Answers == {"none", "passed", "failed", "uncertain"}

\* What is cached of a gate, what is known of its model run, and what may still
\* run of it.  A gate that is asked finds the result of the one before it.
GatesOK ==
  /\ cached \in [Gates -> Answers]
  /\ probe \in [gate : {"none", "transport", "capability"},
                proved : BOOLEAN, passed : BOOLEAN]
  /\ probe.gate = "none" => probe = NoProbe
  /\ alive \subseteq {"transport", "capability"}
  /\ probe.gate = "transport" => cached["transport"] = "none"
  /\ probe.gate = "capability" => cached["transport"] = "passed" /\ cached["capability"] = "none"
  /\ cached["transport"] = "none" => cached["capability"] = "none"
  /\ cached["capability"] = "passed" => cached["transport"] = "passed"
  /\ "transport" \in alive =>
       IF probe.gate = "transport" THEN ~probe.proved ELSE cached["transport"] = "uncertain"
  /\ "capability" \in alive =>
       /\ cached["transport"] = "passed"
       /\ IF probe.gate = "capability" THEN ~probe.proved ELSE cached["capability"] = "uncertain"

\* A gate that passed has removed its workspace.
SpacesOK ==
  /\ cached["transport"] = "none" => spaces \subseteq {"transport"}
  /\ cached["transport"] = "passed" /\ cached["capability"] = "none" =>
       spaces \subseteq {"capability"}
  /\ cached["capability"] = "passed" => spaces = {}

Early == {"qualify", "snapshot", "create", "extract"}
BeforeExport == {"compare", "paths", "contents", "export"}
AfterExport == {"apply", "patch", "applied"}
Calling == Early \cup {"model"} \cup BeforeExport \cup AfterExport \cup {"cleanup"}

\* The invocation is made once, and by a qualified backend.
CallOK ==
  /\ call \in Calling \cup {"returned"}
  /\ call \in Early => main = "prepare"
  /\ call # "qualify" => probe = NoProbe
  /\ call \in Calling \ {"qualify"} \/ client # "none" \/ result = "succeeded" =>
       cached["capability"] = "passed"

\* The shadow is there while the worker may be; afterwards the worker is gone.
ShadowOK ==
  /\ call = "model" => shadow \in Contents
  /\ call \in BeforeExport \cup AfterExport \cup {"cleanup"} => Gone
  /\ call = "returned" => Gone \/ shadow \in Contents

\* What is known of the shadow when its files are checked and exported.
SeenOK ==
  /\ seen \in {"none", "checked", "stale"}
  /\ patch \in {"none", "good", "tainted"}
  /\ seen # "none" => Gone
  /\ call \in Early \cup {"model", "compare", "paths"} => seen = "none"
  /\ call \in {"contents", "export"} => seen # "none"
  /\ call = "contents" /\ seen = "checked" => shadow \in {"good", "tainted"}
  /\ call = "export" /\ seen = "checked" => shadow = "good"
  /\ patch = "tainted" => seen = "stale"

\* The patch, or a part of it.
Applied == {"good", "tainted", "part"}

\* What has been done to the worktree, and what is known of it.
WorktreeOK ==
  /\ worktree \subseteq Applied \cup {"edited", "late", "mixed"}
  /\ worktree \cap {"good", "tainted"} \subseteq {patch}
  /\ call \in AfterExport => patch # "none"
  /\ call \in Calling \ {"applied", "cleanup"} => worktree \cap Applied = {}
  /\ call \in {"patch", "applied"} => "edited" \notin worktree
  /\ call = "applied" => patch \in worktree
  /\ call \in Calling \ {"cleanup"} => result = "none"
  /\ call = "cleanup" => result # "none"
  /\ call = "cleanup" /\ worktree \cap Applied # {} =>
       "edited" \notin worktree /\ result \in {"succeeded", "apply_failed", "raised"}
  /\ result = "succeeded" => patch \in worktree /\ worktree \subseteq {patch, "mixed"}
  /\ call = "returned" /\ result = "succeeded" => shadow = "absent"

\* The evidence is of what has been done.
EvidenceOK ==
  /\ call \in {"qualify", "snapshot", "create"} => evidence = {}
  /\ call = "extract" => evidence = {"created"}
  /\ call \in {"model", "compare"} => evidence = {"created", "baseline"}
  /\ call \in {"paths", "contents", "export"} =>
       evidence = {"created", "baseline", "unchanged"}
  /\ call \in AfterExport =>
       evidence = {"created", "baseline", "unchanged", "validated", "exported"}
  /\ result = "succeeded" =>
       evidence = {"created", "baseline", "unchanged", "validated", "exported", "applied"}
         \cup (IF call = "cleanup" THEN {} ELSE {"cleaned"})

WorkerInv ==
  /\ GatesOK /\ SpacesOK /\ CallOK /\ ShadowOK /\ SeenOK /\ WorktreeOK /\ EvidenceOK
  /\ WorktreeIsWhole

LEMMA GatesAre == Gates = {"runtime", "authentication", "transport", "capability"}
BY DEF Gates, GateOrder

LEMMA InitWorkerInv == WorkerInit => WorkerInv
<1> SUFFICES ASSUME WorkerInit PROVE WorkerInv
  OBVIOUS
<1>1. GatesOK /\ SpacesOK
  BY GatesAre DEF WorkerInit, GatesOK, SpacesOK, Answers, NoProbe
<1>2. CallOK /\ ShadowOK
  BY DEF WorkerInit, Init, CallOK, ShadowOK, Early, BeforeExport, AfterExport, Calling
<1>3. SeenOK /\ WorktreeOK
  BY DEF WorkerInit, SeenOK, WorktreeOK, BeforeExport, AfterExport, Calling
<1>4. EvidenceOK /\ WorktreeIsWhole
  BY DEF WorkerInit, EvidenceOK, AfterExport, WorktreeIsWhole
<1> QED
  BY <1>1, <1>2, <1>3, <1>4 DEF WorkerInv

-----------------------------------------------------------------------------
(***************************************************************************)
(* The gates.                                                              *)
(***************************************************************************)

\* While gates are asked nothing else happens.
LEMMA GatesComeFirst ==
  IInv /\ WorkerInv /\ Qualify =>
    /\ call = "qualify" /\ UNCHANGED <<vars, transfer>>
    /\ CallOK' /\ ShadowOK' /\ SeenOK' /\ WorktreeOK' /\ EvidenceOK' /\ WorktreeIsWhole'
<1> SUFFICES ASSUME IInv, WorkerInv, Qualify
             PROVE  /\ call = "qualify" /\ UNCHANGED <<vars, transfer>>
                    /\ CallOK' /\ ShadowOK' /\ SeenOK' /\ WorktreeOK' /\ EvidenceOK'
                    /\ WorktreeIsWhole'
  OBVIOUS
<1>1. UNCHANGED <<vars, transfer>> /\ (call = "qualify" \/ probe.gate # "none")
  BY DEF Qualify, RuntimeGate, AuthenticationGate, Inherit, NoWorkspace, ProbeModel,
     TransportGate, CapabilityProbe, After, Calls, EndProbe
<1>2. call = "qualify"
  BY <1>1 DEF WorkerInv, CallOK, NoProbe
<1>3. UNCHANGED <<call, shadow, seen, patch, worktree, evidence, result>>
  BY <1>1 DEF transfer
<1>4. UNCHANGED <<main, client, leader, group>>
  BY <1>1 DEF vars, thread, wsl, linux
<1>5. main = "prepare" /\ client = "none" /\ result = "none"
  BY <1>2 DEF IInv, UnlaunchedOK, WorkerInv, CallOK, WorktreeOK, Early, Calling
<1>6. CallOK' /\ ShadowOK'
  BY <1>2, <1>3, <1>4, <1>5 DEF WorkerInv, CallOK, ShadowOK, Early, BeforeExport,
     AfterExport, Calling
<1>7. SeenOK' /\ WorktreeOK' /\ EvidenceOK'
  BY <1>2, <1>3, <1>4 DEF WorkerInv, SeenOK, WorktreeOK, EvidenceOK, Gone
<1>8. WorktreeIsWhole'
  BY <1>2, <1>3 DEF WorkerInv, WorktreeIsWhole
<1> QED
  BY <1>1, <1>2, <1>6, <1>7, <1>8

\* The gates that run no model, and those that are not reached.
LEMMA AnswerSteps ==
  ASSUME GatesOK, SpacesOK,
         NEW g \in Gates, NEW answer \in Answers \ {"none"},
         probe = NoProbe, cached[g] = "none", Cache(g, answer),
         g = "capability" => cached["transport"] # "none",
         answer = "passed" => g \notin {"transport", "capability"},
         UNCHANGED <<probe, alive>>,
         \/ spaces' = spaces
         \/ g \in {"transport", "capability"} /\ answer = "failed" /\ spaces' = spaces \cup {g}
  PROVE  GatesOK' /\ SpacesOK'
<1>1. /\ cached' \in [Gates -> Answers]
      /\ \A h \in Gates : cached'[h] = IF h = g THEN answer ELSE cached[h]
  BY DEF Cache, GatesOK
<1>2. "transport" \in Gates /\ "capability" \in Gates
  BY GatesAre
<1>3. probe.gate = "none" /\ probe' = NoProbe
  BY DEF NoProbe
<1>4. GatesOK'
  BY <1>1, <1>2, <1>3 DEF GatesOK
<1>5. SpacesOK'
  BY <1>1, <1>2, GatesAre DEF SpacesOK, GatesOK, Answers
<1> QED
  BY <1>4, <1>5

\* A model run of a gate, which may leave a worker behind, though no other has.
LEMMA ProbeSteps ==
  ASSUME GatesOK, SpacesOK,
         NEW gate, NEW previous,
         <<gate, previous>> \in {<<"transport", "authentication">>, <<"capability", "transport">>},
         ProbeModel(gate, previous)
  PROVE  GatesOK' /\ SpacesOK'
<1>1. /\ gate \in {"transport", "capability"}
      /\ gate = "capability" => cached["transport"] = "passed"
      /\ probe = NoProbe /\ cached[gate] = "none" /\ cached' = cached
      /\ spaces' = spaces \cup {gate}
  BY DEF ProbeModel, After, Calls
<1>2. PICK proved \in BOOLEAN, passed \in BOOLEAN :
        /\ passed => proved
        /\ probe' = [gate |-> gate, proved |-> proved, passed |-> passed]
        /\ alive' \in {alive, IF proved THEN alive ELSE alive \cup {gate}}
  BY DEF ProbeModel
<1>3. alive = {}
  BY <1>1 DEF GatesOK, NoProbe
<1>4. alive' \in {{}, {gate}} /\ (proved => alive' = {})
  BY <1>2, <1>3
<1>5. probe'.gate = gate /\ probe'.proved = proved
  BY <1>2
<1>6. GatesOK'
  <2>1. cached'["transport"] = "none" => cached'["capability"] = "none"
    BY <1>1 DEF GatesOK
  <2>2. probe' \in [gate : {"none", "transport", "capability"},
                    proved : BOOLEAN, passed : BOOLEAN]
    BY <1>1, <1>2
  <2> QED
    BY <1>1, <1>4, <1>5, <2>1, <2>2 DEF GatesOK
<1>7. SpacesOK'
  BY <1>1 DEF SpacesOK, GatesOK
<1> QED
  BY <1>6, <1>7

\* The answer of a gate whose model run is over.
LEMMA TransportStep == GatesOK /\ SpacesOK /\ TransportGate => GatesOK' /\ SpacesOK'
<1> SUFFICES ASSUME GatesOK, SpacesOK, TransportGate PROVE GatesOK' /\ SpacesOK'
  OBVIOUS
<1>1. /\ probe.gate = "transport" /\ probe' = NoProbe /\ alive' = alive
      /\ cached["transport"] = "none" /\ cached["capability"] = "none"
  BY DEF TransportGate, EndProbe, GatesOK
<1>2. PICK answer \in {"passed", "failed", "uncertain"} :
        /\ cached' = [cached EXCEPT !["transport"] = answer]
        /\ probe.proved => answer # "uncertain"
        /\ ~ probe.proved => answer = "uncertain" /\ spaces' = spaces
        /\ spaces' \in {spaces, spaces \ {"transport"}}
        /\ answer = "passed" => spaces' = spaces \ {"transport"}
  BY DEF TransportGate, Cache
<1>3. /\ cached' \in [Gates -> Answers]
      /\ cached'["transport"] = answer /\ cached'["capability"] = "none"
  BY <1>1, <1>2, GatesAre DEF GatesOK, Answers
<1>4. alive \subseteq {"transport"} /\ (alive # {} => ~ probe.proved)
  BY <1>1 DEF GatesOK
<1>5. GatesOK'
  BY <1>1, <1>2, <1>3, <1>4 DEF GatesOK, NoProbe
<1>6. SpacesOK'
  BY <1>1, <1>2, <1>3 DEF SpacesOK
<1> QED
  BY <1>5, <1>6

LEMMA CapabilityStep == GatesOK /\ SpacesOK /\ CapabilityProbe => GatesOK' /\ SpacesOK'
<1> SUFFICES ASSUME GatesOK, SpacesOK, CapabilityProbe PROVE GatesOK' /\ SpacesOK'
  OBVIOUS
<1>1. /\ probe.gate = "capability" /\ probe' = NoProbe /\ alive' = alive
      /\ cached["transport"] = "passed" /\ cached["capability"] = "none"
      /\ spaces \subseteq {"capability"}
  BY DEF CapabilityProbe, EndProbe, GatesOK, SpacesOK
<1>2. PICK answer \in {"passed", "failed", "uncertain"} :
        /\ cached' = [cached EXCEPT !["capability"] = answer]
        /\ ~ probe.proved => answer = "uncertain"
        /\ answer = "passed" => spaces' = {}
  <2>1. CASE probe.proved
    <3>1. PICK answer \in {"passed", "failed"}, own \in SUBSET {"capability"},
               left \in LeftByProbes :
            /\ spaces' = (spaces \ {"capability"}) \cup own \cup left
            /\ answer = "passed" => probe.passed /\ own \cup left = {}
            /\ Cache("capability", answer)
      BY <2>1 DEF CapabilityProbe
    <3>2. answer = "passed" => spaces' = {}
      BY <1>1, <3>1
    <3> QED
      BY <2>1, <3>1, <3>2 DEF Cache
  <2>2. CASE ~ probe.proved
    BY <2>2 DEF CapabilityProbe, Cache
  <2> QED
    BY <2>1, <2>2
<1>3. /\ cached' \in [Gates -> Answers]
      /\ cached'["capability"] = answer /\ cached'["transport"] = "passed"
  BY <1>1, <1>2, GatesAre DEF GatesOK, Answers
<1>4. alive \subseteq {"capability"} /\ (alive # {} => ~ probe.proved)
  BY <1>1 DEF GatesOK
<1>5. GatesOK'
  BY <1>1, <1>2, <1>3, <1>4 DEF GatesOK, NoProbe
<1>6. SpacesOK'
  BY <1>1, <1>2, <1>3 DEF SpacesOK
<1> QED
  BY <1>5, <1>6

LEMMA QualifySteps == IInv /\ WorkerInv /\ Qualify => WorkerInv'
<1> SUFFICES ASSUME IInv, WorkerInv, Qualify PROVE GatesOK' /\ SpacesOK'
  BY GatesComeFirst DEF WorkerInv
<1> USE GatesAre
<1>0. GatesOK /\ SpacesOK
  BY DEF WorkerInv
<1>1. CASE RuntimeGate
  BY <1>0, <1>1, AnswerSteps DEF RuntimeGate, Calls, Answers
<1>2. CASE AuthenticationGate
  BY <1>0, <1>2, AnswerSteps DEF AuthenticationGate, After, Calls, Answers
<1>3. ASSUME NEW gate, NEW previous,
             <<gate, previous>> \in {<<"transport", "authentication">>,
                                     <<"capability", "transport">>},
             Inherit(gate, previous) \/ NoWorkspace(gate, previous)
      PROVE  GatesOK' /\ SpacesOK'
  <2>1. /\ gate \in {"transport", "capability"}
        /\ gate = "capability" => cached["transport"] # "none"
        /\ probe = NoProbe /\ cached[gate] = "none"
        /\ UNCHANGED <<probe, alive>>
    BY <1>3 DEF Inherit, NoWorkspace, After, Calls
  <2>2. CASE Inherit(gate, previous)
    <3>1. /\ cached[previous] \in Answers \ {"none", "passed"}
          /\ Cache(gate, cached[previous]) /\ spaces' = spaces
      BY <1>0, <1>3, <2>2 DEF Inherit, After, GatesOK
    <3> QED
      BY <1>0, <2>1, <3>1, AnswerSteps
  <2>3. CASE NoWorkspace(gate, previous)
    <3>1. Cache(gate, "failed") /\ spaces' \in {spaces, spaces \cup {gate}}
      BY <2>3 DEF NoWorkspace
    <3> QED
      BY <1>0, <2>1, <3>1, AnswerSteps DEF Answers
  <2> QED
    BY <1>3, <2>2, <2>3
<1> QED
  BY <1>0, <1>1, <1>2, <1>3, ProbeSteps, TransportStep, CapabilityStep DEF Qualify

-----------------------------------------------------------------------------
(***************************************************************************)
(* The invocation itself, and what happens meanwhile.                      *)
(***************************************************************************)

\* What has ended stays so.
LEMMA GoneIsForGood == IInv /\ Linux /\ Gone => Gone'
BY LinuxMoves DEF Linux, WorkerMoves, Gone, IInv, ITyped, ExitCodes

LEMMA InvocationSteps == IInv /\ WorkerInv /\ (Model \/ Linux) => WorkerInv'
<1> SUFFICES ASSUME IInv, WorkerInv, Model \/ Linux PROVE WorkerInv'
  OBVIOUS
<1>1. /\ UNCHANGED <<cached, probe, spaces, alive>>
      /\ UNCHANGED <<call, shadow, seen, patch, worktree, evidence, result>>
  BY DEF Model, Linux, qualification, transfer
<1>2. GatesOK' /\ SpacesOK' /\ WorktreeOK' /\ EvidenceOK' /\ WorktreeIsWhole'
  BY <1>1 DEF WorkerInv, GatesOK, SpacesOK, WorktreeOK, EvidenceOK, WorktreeIsWhole
<1>3. CASE Model
  <2>1. call = "model" /\ call \notin Early
    BY <1>3 DEF Model, Early
  <2>2. CallOK'
    BY <1>1, <2>1 DEF WorkerInv, CallOK, Early, Calling
  <2>3. ShadowOK'
    BY <1>1, <2>1 DEF WorkerInv, ShadowOK, BeforeExport, AfterExport
  <2>4. SeenOK'
    BY <1>1, <2>1 DEF WorkerInv, SeenOK
  <2> QED
    BY <1>2, <2>2, <2>3, <2>4 DEF WorkerInv
<1>4. CASE Linux
  <2>1. UNCHANGED main /\ (client' # "none" <=> client # "none")
    BY <1>4, LinuxMoves DEF Linux, thread
  <2>2. CallOK'
    BY <1>1, <2>1 DEF WorkerInv, CallOK
  <2>3. ShadowOK' /\ SeenOK'
    BY <1>1, <1>4, GoneIsForGood DEF WorkerInv, ShadowOK, SeenOK
  <2> QED
    BY <1>2, <2>2, <2>3 DEF WorkerInv
<1> QED
  BY <1>3, <1>4

\* The worker, or what is left of it, writes to the shadow.  What was seen of it
\* does not count any more.
LEMMA WriteSteps == IInv /\ WorkerInv /\ WriteShadow => WorkerInv'
<1> SUFFICES ASSUME IInv, WorkerInv, WriteShadow PROVE WorkerInv'
  OBVIOUS
<1>1. /\ UNCHANGED <<main, client, leader, group>>
      /\ UNCHANGED <<cached, probe, spaces, alive>>
      /\ UNCHANGED <<call, patch, worktree, evidence, result>>
      /\ shadow \in Contents /\ shadow' \in Contents
      /\ seen' = IF seen = "none" THEN seen ELSE "stale"
  BY DEF WriteShadow, vars, thread, wsl, linux, qualification
<1>2. GatesOK' /\ SpacesOK' /\ CallOK' /\ EvidenceOK'
  BY <1>1 DEF WorkerInv, GatesOK, SpacesOK, CallOK, EvidenceOK
<1>3. ShadowOK' /\ SeenOK'
  BY <1>1 DEF WorkerInv, ShadowOK, SeenOK, Gone
<1>4. ~ (call = "returned" /\ result = "succeeded")
  BY <1>1 DEF WorkerInv, WorktreeOK, Contents
<1>5. WorktreeOK' /\ WorktreeIsWhole'
  BY <1>1, <1>4 DEF WorkerInv, WorktreeOK, WorktreeIsWhole
<1> QED
  BY <1>2, <1>3, <1>5 DEF WorkerInv

\* Somebody edits the worktree: while no patch is in it, or the patch's files or
\* others after the last look.
LEMMA EditSteps == IInv /\ WorkerInv /\ EditWorktree => WorkerInv'
<1> SUFFICES ASSUME IInv, WorkerInv, EditWorktree PROVE WorkerInv'
  OBVIOUS
<1>1. /\ UNCHANGED <<main, client, leader, group>>
      /\ UNCHANGED <<cached, probe, spaces, alive>>
      /\ UNCHANGED <<call, shadow, seen, patch, evidence, result>>
  BY DEF EditWorktree, vars, thread, wsl, linux, qualification
<1>2. \/ /\ call \in {"snapshot", "compare", "paths", "contents", "export", "apply"}
         /\ worktree' = worktree \cup {"edited"}
      \/ /\ call \in {"patch", "applied"}
         /\ worktree' \in {worktree \cup {"late"}, worktree \cup {"mixed"}}
  BY DEF EditWorktree
<1>3. GatesOK' /\ SpacesOK' /\ CallOK' /\ EvidenceOK'
  BY <1>1 DEF WorkerInv, GatesOK, SpacesOK, CallOK, EvidenceOK
<1>4. ShadowOK' /\ SeenOK'
  BY <1>1 DEF WorkerInv, ShadowOK, SeenOK, Gone
<1>5. call \in Calling \ {"cleanup"} /\ result = "none"
  BY <1>2 DEF WorkerInv, WorktreeOK, Calling, Early, BeforeExport, AfterExport
<1>6. worktree' \cap Applied = worktree \cap Applied
  BY <1>2 DEF Applied
<1>7. call \in {"patch", "applied"} => "edited" \notin worktree'
  BY <1>2 DEF WorkerInv, WorktreeOK
<1>8. WorktreeOK'
  <2>1. worktree' \subseteq Applied \cup {"edited", "late", "mixed"}
    BY <1>2 DEF WorkerInv, WorktreeOK
  <2>2. worktree' \cap {"good", "tainted"} \subseteq {patch'}
    BY <1>1, <1>2 DEF WorkerInv, WorktreeOK
  <2>3. call = "applied" => patch \in worktree'
    BY <1>2 DEF WorkerInv, WorktreeOK
  <2> QED
    BY <1>1, <1>5, <1>6, <1>7, <2>1, <2>2, <2>3 DEF WorkerInv, WorktreeOK, Calling
<1>9. WorktreeIsWhole'
  <2>1. call \notin {"patch", "applied"} => worktree' \cap Applied = {}
    BY <1>2, <1>5, <1>6 DEF WorkerInv, WorktreeOK
  <2> QED
    BY <1>1, <1>5, <1>7, <2>1 DEF WorktreeIsWhole, Applied, Calling, Early, BeforeExport,
       AfterExport
<1> QED
  BY <1>3, <1>4, <1>8, <1>9 DEF WorkerInv

-----------------------------------------------------------------------------
(***************************************************************************)
(* invoke_codex.                                                           *)
(***************************************************************************)

\* Up to the invocation.
LEMMA OutwardSteps ==
  IInv /\ WorkerInv /\ (Invoke \/ Snapshot \/ CreateShadow \/ FillShadow) => WorkerInv'
<1> SUFFICES ASSUME IInv, WorkerInv, Invoke \/ Snapshot \/ CreateShadow \/ FillShadow
             PROVE  WorkerInv'
  OBVIOUS
<1>1. /\ UNCHANGED <<main, client, leader, group>>
      /\ UNCHANGED <<cached, probe, spaces, alive>>
      /\ UNCHANGED <<seen, patch, worktree>>
  BY DEF Invoke, Snapshot, CreateShadow, FillShadow, At, vars, thread, wsl, linux,
     qualification
<1>2. \/ /\ call = "qualify" /\ probe = NoProbe /\ UNCHANGED <<shadow, evidence>>
         /\ \/ call' = "returned" /\ result' \in {"not_qualified", "runtime_unavailable"}
            \/ cached["capability"] = "passed" /\ call' = "snapshot" /\ result' = result
      \/ /\ call = "snapshot" /\ UNCHANGED <<shadow, evidence>>
         /\ \/ call' = "create" /\ result' = result
            \/ call' = "returned" /\ result' = "snapshot_rejected"
      \/ /\ call = "create" /\ call' = "extract" /\ result' = result
         /\ evidence' = evidence \cup {"created"}
      \/ call = "create" /\ call' = "returned" /\ result' = "no_shadow"
      \/ /\ call = "extract" /\ call' = "model" /\ result' = result /\ shadow' = "base"
         /\ evidence' = evidence \cup {"baseline"}
      \/ call = "extract" /\ call' = "cleanup" /\ result' = "no_baseline"
  BY DEF Invoke, Snapshot, CreateShadow, FillShadow, At, Proceed, Finish, Fail, Note
<1>3. /\ call \in Early /\ main = "prepare" /\ client = "none" /\ Gone
      /\ result = "none" /\ worktree \cap Applied = {} /\ seen = "none"
  BY <1>2 DEF IInv, UnlaunchedOK, Gone, WorkerInv, CallOK, WorktreeOK, SeenOK, Early, Calling
<1>4. GatesOK' /\ SpacesOK'
  BY <1>1 DEF WorkerInv, GatesOK, SpacesOK
<1>5. CallOK'
  BY <1>1, <1>2, <1>3 DEF WorkerInv, CallOK, Early, Calling, BeforeExport, AfterExport
<1>6. ShadowOK' /\ SeenOK'
  BY <1>1, <1>2, <1>3 DEF WorkerInv, ShadowOK, SeenOK, Gone, Early, BeforeExport,
     AfterExport, Contents
<1>7. WorktreeOK' /\ WorktreeIsWhole'
  BY <1>1, <1>2, <1>3 DEF WorkerInv, WorktreeOK, WorktreeIsWhole, Calling, Early,
     BeforeExport, AfterExport
<1>8. EvidenceOK'
  BY <1>2, <1>3 DEF WorkerInv, EvidenceOK, AfterExport
<1> QED
  BY <1>4, <1>5, <1>6, <1>7, <1>8 DEF WorkerInv

\* The model run's verdict, and the checks that the shadow must pass.
LEMMA CheckingSteps ==
  IInv /\ WorkerInv /\ (ModelReturns \/ Compare \/ CheckPaths \/ CheckContents \/ Export) =>
    WorkerInv'
<1> SUFFICES ASSUME IInv, WorkerInv,
                    ModelReturns \/ Compare \/ CheckPaths \/ CheckContents \/ Export
             PROVE  WorkerInv'
  OBVIOUS
<1>1. /\ UNCHANGED <<main, client, leader, group, verdict>>
      /\ UNCHANGED <<cached, probe, spaces, alive>>
      /\ UNCHANGED <<shadow, worktree>>
  BY DEF ModelReturns, Compare, CheckPaths, CheckContents, Export, At, vars, thread, wsl,
     linux, qualification
<1>2. /\ call \in {"model"} \cup BeforeExport
      /\ call' \in BeforeExport \cup {"apply", "cleanup", "returned"}
      /\ call' \in {"cleanup", "returned"} =>
           result' \notin {"none", "succeeded"}
      /\ call' \notin {"cleanup", "returned"} => result' = result
      /\ call' = "returned" => call = "model" /\ result' = "uncertain"
  BY DEF ModelReturns, Compare, CheckPaths, CheckContents, Export, At, Proceed, Finish, Fail,
     BeforeExport
<1>3. result = "none" /\ worktree \cap Applied = {}
  BY <1>2 DEF WorkerInv, WorktreeOK, Calling, BeforeExport
<1>4. GatesOK' /\ SpacesOK'
  BY <1>1 DEF WorkerInv, GatesOK, SpacesOK
<1>5. CallOK'
  BY <1>1, <1>2, <1>3 DEF WorkerInv, CallOK, Early, Calling, BeforeExport, AfterExport
<1>6. ShadowOK'
  <2>1. CASE call # "model"
    BY <1>1, <1>2, <2>1 DEF WorkerInv, ShadowOK, Gone, BeforeExport, AfterExport
  <2>2. CASE ModelReturns
    <3>1. Gone \/ (call' = "returned" /\ shadow \in Contents)
      BY <2>2 DEF ModelReturns, At, Proceed, Fail, Finish, IInv, UnlaunchedOK, Gone,
         VerdictOK, ExitProofIsSound, WorkerInv, ShadowOK
    <3> QED
      BY <1>1, <1>2, <3>1 DEF ShadowOK, Gone, BeforeExport, AfterExport
  <2> QED
    BY <2>1, <2>2 DEF Compare, CheckPaths, CheckContents, Export, At
<1>7. SeenOK'
  <2>1. CASE ModelReturns \/ Compare
    BY <1>1, <2>1 DEF ModelReturns, Compare, At, Proceed, Fail, Finish, WorkerInv, SeenOK,
       Gone, Early
  <2>2. CASE CheckPaths
    <3>1. Gone /\ patch' = patch /\ seen = "none" /\ patch # "tainted"
      BY <2>2 DEF CheckPaths, At, WorkerInv, ShadowOK, SeenOK, BeforeExport
    <3> QED
      BY <1>1, <2>2, <3>1 DEF CheckPaths, Proceed, Fail, WorkerInv, SeenOK, Gone, Early
  <2>3. CASE CheckContents
    BY <1>1, <2>3 DEF CheckContents, At, Proceed, Fail, WorkerInv, SeenOK, Gone, Early
  <2>4. CASE Export
    BY <1>1, <2>4 DEF Export, At, Proceed, Fail, WorkerInv, SeenOK, Gone, Early
  <2> QED
    BY <2>1, <2>2, <2>3, <2>4
<1>8. WorktreeOK' /\ WorktreeIsWhole'
  <2>1. call' = "apply" => patch' # "none"
    BY DEF ModelReturns, Compare, CheckPaths, CheckContents, Export, At, Proceed, Finish, Fail
  <2> QED
    BY <1>1, <1>2, <1>3, <2>1 DEF WorkerInv, WorktreeOK, WorktreeIsWhole, Calling, Early,
       BeforeExport, AfterExport
<1>9. EvidenceOK'
  <2>1. \/ call = "model" /\ call' = "compare" /\ evidence' = evidence
        \/ /\ call = "compare" /\ call' = "paths"
           /\ evidence' = evidence \cup {"unchanged"}
        \/ call = "paths" /\ call' = "contents" /\ evidence' = evidence
        \/ call = "contents" /\ call' = "export" /\ evidence' = evidence
        \/ /\ call = "export" /\ call' = "apply"
           /\ evidence' = evidence \cup {"validated", "exported"}
        \/ call' \in {"cleanup", "returned"}
    BY DEF ModelReturns, Compare, CheckPaths, CheckContents, Export, At, Proceed, Finish,
       Fail, Note
  <2> QED
    BY <1>2, <1>3, <2>1 DEF WorkerInv, EvidenceOK, AfterExport
<1> QED
  BY <1>4, <1>5, <1>6, <1>7, <1>8, <1>9 DEF WorkerInv

\* The patch is applied to a worktree that is as it was, or fails to be.
LEMMA ApplySteps ==
  IInv /\ WorkerInv /\ (LookBeforeApplying \/ ApplyPatch \/ CheckApplied) => WorkerInv'
<1> SUFFICES ASSUME IInv, WorkerInv, LookBeforeApplying \/ ApplyPatch \/ CheckApplied
             PROVE  WorkerInv'
  OBVIOUS
<1>1. /\ UNCHANGED <<main, client, leader, group>>
      /\ UNCHANGED <<cached, probe, spaces, alive>>
      /\ UNCHANGED <<shadow, seen, patch>>
  BY DEF LookBeforeApplying, ApplyPatch, CheckApplied, At, vars, thread, wsl, linux,
     qualification
<1>2. \/ /\ call = "apply" /\ UNCHANGED <<worktree, evidence>>
         /\ \/ call' = "patch" /\ result' = result /\ worktree = {}
            \/ call' = "cleanup" /\ result' \in {"apply_failed", "raised"}
      \/ /\ call = "patch" /\ evidence' = evidence
         /\ \/ call' = "applied" /\ result' = result /\ worktree' = worktree \cup {patch}
            \/ /\ call' = "cleanup" /\ result' = "apply_failed"
               /\ worktree' \in {worktree, worktree \cup {patch}, worktree \cup {"part"}}
      \/ /\ call = "applied" /\ worktree' = worktree /\ call' = "cleanup"
         /\ \/ /\ result' = "succeeded" /\ worktree \subseteq {patch, "mixed"}
               /\ evidence' = evidence \cup {"applied"}
            \/ result' \in {"apply_failed", "raised"} /\ evidence' = evidence
  BY DEF LookBeforeApplying, ApplyPatch, CheckApplied, At, Proceed, Fail, Note
<1>3. /\ call \in AfterExport /\ result = "none" /\ patch \in {"good", "tainted"}
      /\ call # "applied" => worktree \cap Applied = {}
  BY <1>2 DEF WorkerInv, WorktreeOK, SeenOK, AfterExport, Calling
<1>4. GatesOK' /\ SpacesOK'
  BY <1>1 DEF WorkerInv, GatesOK, SpacesOK
<1>5. CallOK'
  BY <1>1, <1>2, <1>3 DEF WorkerInv, CallOK, Early, Calling, AfterExport
<1>6. ShadowOK' /\ SeenOK'
  BY <1>1, <1>2, <1>3 DEF WorkerInv, ShadowOK, SeenOK, Gone, Early, BeforeExport,
     AfterExport
<1>7. WorktreeOK'
  <2>1. CASE call = "apply"
    BY <1>1, <1>2, <1>3, <2>1 DEF WorkerInv, WorktreeOK, Calling, AfterExport
  <2>2. CASE call = "patch"
    <3>1. /\ worktree \subseteq {"edited", "late", "mixed", "good", "tainted", "part"}
          /\ worktree \cap Applied = {}
          /\ "edited" \notin worktree
      BY <1>3, <2>2 DEF WorkerInv, WorktreeOK
    <3>2. CASE /\ call' = "applied" /\ result' = result
               /\ worktree' = worktree \cup {patch}
      BY <1>1, <1>3, <2>2, <3>1, <3>2 DEF WorktreeOK, Applied, Calling, AfterExport, Early,
         BeforeExport
    <3>3. CASE /\ call' = "cleanup" /\ result' = "apply_failed"
               /\ worktree' \in {worktree, worktree \cup {patch}, worktree \cup {"part"}}
      BY <1>1, <1>3, <2>2, <3>1, <3>3 DEF WorktreeOK, Applied, Calling, AfterExport, Early,
         BeforeExport
    <3> QED
      BY <1>2, <2>2, <3>2, <3>3
  <2>3. CASE call = "applied"
    BY <1>1, <1>2, <1>3, <2>3 DEF WorkerInv, WorktreeOK, Calling, AfterExport
  <2> QED
    BY <1>2, <2>1, <2>2, <2>3
<1>8. WorktreeIsWhole'
  <2>1. call' # "returned"
    BY <1>2
  <2>2. worktree' \cap Applied # {} => "edited" \notin worktree'
    BY <1>2, <1>3 DEF WorkerInv, WorktreeOK
  <2>3. worktree' \cap Applied # {} =>
          result' \in {"none", "succeeded", "apply_failed", "raised"}
    BY <1>2, <1>3
  <2> QED
    BY <2>1, <2>2, <2>3 DEF WorktreeIsWhole, Applied
<1>9. EvidenceOK'
  BY <1>2, <1>3 DEF WorkerInv, EvidenceOK, AfterExport
<1> QED
  BY <1>4, <1>5, <1>6, <1>7, <1>8, <1>9 DEF WorkerInv

\* finally: the shadow is removed, the worker being gone.
LEMMA CleanupStep == IInv /\ WorkerInv /\ Cleanup => WorkerInv'
<1> SUFFICES ASSUME IInv, WorkerInv, Cleanup PROVE WorkerInv'
  OBVIOUS
<1>1. /\ UNCHANGED <<main, client, leader, group>>
      /\ UNCHANGED <<cached, probe, spaces, alive>>
      /\ UNCHANGED <<seen, patch, worktree>>
      /\ call = "cleanup" /\ call' = "returned"
      /\ \/ shadow' = "absent" /\ evidence' = evidence \cup {"cleaned"} /\ result' = result
         \/ /\ shadow' \in {"absent", shadow}
            /\ result' = IF result \in {"raised", "interrupted"} THEN result ELSE "cleanup_failed"
  BY DEF Cleanup, At, Finish, Note, vars, thread, wsl, linux, qualification
<1>2. Gone /\ cached["capability"] = "passed"
  BY <1>1 DEF WorkerInv, ShadowOK, CallOK, Calling
<1>3. result' = "succeeded" =>
        /\ result = "succeeded" /\ shadow' = "absent"
        /\ evidence' = evidence \cup {"cleaned"}
  BY <1>1
<1>4. GatesOK' /\ SpacesOK' /\ CallOK'
  BY <1>1, <1>2 DEF WorkerInv, GatesOK, SpacesOK, CallOK, Calling, Early, BeforeExport,
     AfterExport
<1>5. ShadowOK' /\ SeenOK'
  BY <1>1, <1>2 DEF WorkerInv, ShadowOK, SeenOK, Gone, Early, BeforeExport, AfterExport
<1>6. WorktreeOK'
  BY <1>1, <1>3 DEF WorkerInv, WorktreeOK, Calling, Early, BeforeExport, AfterExport
<1>7. EvidenceOK'
  BY <1>1, <1>3 DEF WorkerInv, EvidenceOK, AfterExport
<1>8. WorktreeIsWhole'
  <2>1. worktree' \cap Applied # {} =>
          /\ "edited" \notin worktree'
          /\ result' \in {"succeeded", "apply_failed", "raised", "cleanup_failed"}
    BY <1>1 DEF WorkerInv, WorktreeOK
  <2>2. result' = "succeeded" => spaces' = {}
    BY <1>1, <1>2 DEF WorkerInv, SpacesOK
  <2>3. result' = "succeeded" =>
          /\ patch' \in worktree' /\ worktree' \subseteq {patch', "mixed"}
          /\ shadow' = "absent"
          /\ evidence' = {"created", "baseline", "unchanged", "validated", "exported",
                          "applied", "cleaned"}
    BY <1>1, <1>3 DEF WorkerInv, WorktreeOK, EvidenceOK
  <2> QED
    BY <2>1, <2>2, <2>3 DEF WorktreeIsWhole, Applied
<1> QED
  BY <1>4, <1>5, <1>6, <1>7, <1>8 DEF WorkerInv

LEMMA NextWorkerInv == IInv /\ WorkerInv /\ [WorkerNext]_workerVars => WorkerInv'
<1> SUFFICES ASSUME IInv, WorkerInv, [WorkerNext]_workerVars PROVE WorkerInv'
  OBVIOUS
<1>1. CASE UNCHANGED workerVars
  BY <1>1 DEF workerVars, vars, thread, wsl, linux, qualification, transfer, WorkerInv,
     GatesOK, SpacesOK, CallOK, ShadowOK, SeenOK, Gone, WorktreeOK, EvidenceOK,
     WorktreeIsWhole
<1> QED
  BY <1>1, QualifySteps, InvocationSteps, WriteSteps, EditSteps, OutwardSteps,
     CheckingSteps, ApplySteps, CleanupStep DEF WorkerNext, Transfer

LEMMA WorkerInvHolds == WorkerSpec => [](IInv /\ WorkerInv)
<1>1. WorkerInit => WorkerInv
  BY InitWorkerInv
<1>2. IInv /\ WorkerInv /\ [WorkerNext]_workerVars => WorkerInv'
  BY NextWorkerInv
<1> QED
  BY <1>1, <1>2, WorkerIsInvocation, IInvHolds, PTL DEF WorkerSpec

-----------------------------------------------------------------------------
(***************************************************************************)
(* What the call keeps.                                                    *)
(***************************************************************************)

\* Whatever the gates answer, an invocation keeps its promises inside the call
\* (invoke_codex): its exit proofs are sound, nobody is signalled whom the look at
\* the recorded number would show to be a stranger, and it does what
\* WorkerContract allows.
THEOREM CallsKeepThePromises ==
  WorkerSpec => []ExitProofIsSound /\ []StrangersAreSpared /\ ImplementsContract
BY WorkerIsInvocation, ExitProofsAreSound, OnlyTheWorkerIsSignalled, WslKeepsTheContract,
   PTL

\* A model run whose end is not proved is the last one that is started, by a gate
\* (transport_gate, capability_probe) or by the call itself.
THEOREM NothingRunsAfterUncertainty == WorkerSpec => []NoModelAfterUncertainty
<1>1. IInv /\ WorkerInv => NoModelAfterUncertainty
  <2> SUFFICES ASSUME IInv, WorkerInv PROVE NoModelAfterUncertainty
    OBVIOUS
  <2>1. client # "none" =>
          /\ cached["capability"] = "passed" /\ cached["transport"] = "passed"
          /\ alive = {}
    <3> SUFFICES ASSUME client # "none"
                 PROVE  /\ cached["capability"] = "passed" /\ cached["transport"] = "passed"
                        /\ alive = {}
      OBVIOUS
    <3>1. cached["capability"] = "passed" /\ cached["transport"] = "passed"
      BY DEF WorkerInv, CallOK, GatesOK
    <3>2. probe.gate \notin {"transport", "capability"}
      BY <3>1 DEF WorkerInv, GatesOK
    <3> QED
      BY <3>1, <3>2 DEF WorkerInv, GatesOK
  <2>2. ~ ("transport" \in alive /\ "capability" \in alive)
    BY DEF WorkerInv, GatesOK
  <2> QED
    BY <2>1, <2>2 DEF NoModelAfterUncertainty, WorkerInv, GatesOK
<1> QED
  BY <1>1, WorkerInvHolds, PTL

\* As long as a process of the worker's group may use them, its record and the
\* shadow are there (_cleanup_invocation_control, _cleanup_shadow).
THEOREM WhatRunsIsKept == WorkerSpec => []RunningIsKept
<1>1. IInv /\ WorkerInv => RunningIsKept
  <2> SUFFICES ASSUME IInv, WorkerInv, ~ Gone PROVE shadow # "absent"
    BY DEF RunningIsKept, IInv, RecordOK, Gone
  <2>1. call \notin Early \cup BeforeExport \cup AfterExport \cup {"cleanup"}
    BY DEF IInv, UnlaunchedOK, WorkerInv, CallOK, ShadowOK, Gone
  <2>2. call \in {"model", "returned"}
    BY <2>1 DEF WorkerInv, CallOK, Calling
  <2> QED
    BY <2>2 DEF WorkerInv, ShadowOK, Contents
<1> QED
  BY <1>1, WorkerInvHolds, PTL

\* What is brought to Windows passed the checks of its contents, unless a process
\* that left the worker's group wrote to the shadow after they began
\* (_validated_shadow_patch).
THEOREM OnlyCheckedContentsArrive == WorkerSpec => []OnlyCheckedContents
<1>1. IInv /\ WorkerInv => OnlyCheckedContents
  BY DEF WorkerInv, SeenOK, WorktreeOK, OnlyCheckedContents, Gone
<1> QED
  BY <1>1, WorkerInvHolds, PTL

\* No patch meets an edit made before the last look at the worktree, and success
\* says truly that the whole patch was applied and no other path changed by then
\* (apply_shadow_patch).
THEOREM WorktreesAreWhole == WorkerSpec => []WorktreeIsWhole
<1>1. WorkerInv => WorktreeIsWhole
  BY DEF WorkerInv
<1> QED
  BY <1>1, WorkerInvHolds, PTL

===============================================================================
