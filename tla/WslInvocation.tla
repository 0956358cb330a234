----------------------------- MODULE WslInvocation -----------------------------
(***************************************************************************)
(* WslCodexWorker._run_model (dev/codex_wsl.py): one invocation of Codex   *)
(* inside WSL.  The invoking thread starts a Windows client (wsl.exe),     *)
(* which asks WSL to start a supervisor.  The supervisor makes itself the  *)
(* leader of a process group, records its identity in a control directory  *)
(* and becomes `timeout codex`.  Everything the invoking thread learns of  *)
(* Linux and does to it takes another wsl.exe, whose answer may be lost.   *)
(*                                                                         *)
(* Killing the client does not kill what it started, so the worker is      *)
(* stopped by its record: the control script looks once whether the        *)
(* recorded process is still the one that wrote it, and then signals the   *)
(* recorded group, twice if it must.  It is a Linux process of its own,    *)
(* which may go on after the invoking thread has given up waiting for it.  *)
(* A helper of the worker may leave the group; no exit is proved of it.    *)
(***************************************************************************)
EXTENDS Integers

CONSTANTS
  Helpers,   \* the processes that the worker may start
  Escapes,   \* those of them that leave its process group
  ReadyPolls \* how often the record is asked for

ASSUME WslAssumption ==
  /\ Escapes \subseteq Helpers
  /\ ReadyPolls \in Nat \ {0}

VARIABLES
  main,     \* the call the invoking thread is in
  polls,    \* how often it has asked for the record
  audited,  \* on_started has returned
  sent,     \* the prompt has been written
  stopped,  \* client_stopped
  why,      \* the verdict if the worker's end is now proved
  verdict,  \* the status returned; uncertain if worker_exit_proved is false
  client,   \* the wsl.exe that runs the worker
  code,     \* its exit status
  dir,      \* whether the control directory exists
  record,   \* whether the record in it does
  leader,   \* the supervisor, later the worker
  group,    \* the helpers in its process group
  outside,  \* the helpers that left it
  stranger, \* a process that was given the leader's number later: late if that
            \* was while the control script was at work, else early
  struck,   \* the strangers that were signalled
  script    \* how far the control script has got in stopping the group

thread == <<main, polls, audited, sent, stopped, why, verdict>>
wsl == <<client, code>>
control == <<dir, record>>
numbers == <<stranger, struck, script>>
linux == <<leader, group, outside, numbers>>
vars == <<thread, wsl, control, linux>>

\* timeout exits with 124 if its command ended at the first signal.
ExitCodes == {"zero", "expired", "nonzero"}

Stopping ==
  {"stop_client", "stop_target", "stopping", "stop_prove", "stop_client_again",
   "stop_cleanup"}

Init ==
  /\ main = "prepare"
  /\ polls = 0
  /\ audited = FALSE
  /\ sent = FALSE
  /\ stopped = FALSE
  /\ why = "none"
  /\ verdict = "none"
  /\ client = "none"
  /\ code = "none"
  /\ dir = FALSE
  /\ record = FALSE
  /\ leader = "none"
  /\ group = {}
  /\ outside = {}
  /\ stranger = "none"
  /\ struck = {}
  /\ script = "none"

-----------------------------------------------------------------------------
(***************************************************************************)
(* The invoking thread.                                                    *)
(***************************************************************************)

Goto(next) == main' = next /\ UNCHANGED <<polls, audited, sent, stopped, why, verdict>>

Return(status) ==
  /\ main' = "returned"
  /\ verdict' = status
  /\ UNCHANGED <<polls, audited, sent, stopped, why>>

\* The worker is to be stopped; this is returned if its end can be proved.
Stop(status) ==
  /\ main' = "stop_client"
  /\ why' = status
  /\ UNCHANGED <<polls, audited, sent, stopped, verdict>>

\* _prepare_invocation_control
Prepare ==
  /\ main = "prepare"
  /\ \/ dir' = TRUE /\ Goto("popen")
     \/ dir' \in BOOLEAN /\ Return("failed")
  /\ UNCHANGED <<record, wsl, linux>>

Popen ==
  /\ main = "popen"
  /\ client' = "running"
  /\ leader' = "pending"
  /\ Goto("ready")
  /\ UNCHANGED <<code, control, group, outside, numbers>>

\* Nothing was started; the control directory is removed if it can be.
PopenFails ==
  /\ main = "popen"
  /\ dir' \in BOOLEAN
  /\ Return("failed")
  /\ UNCHANGED <<record, wsl, linux>>

\* The client asks WSL to start the supervisor, which may take its time.
Ready ==
  /\ main = "ready"
  /\ record
  /\ leader = "running"
  /\ Goto("audit")
  /\ UNCHANGED <<wsl, control, linux>>

\* The record is not there, or the answer is lost: ask again, a few times.
NotYet ==
  /\ main = "ready"
  /\ polls' = polls + 1
  /\ IF polls' < ReadyPolls
     THEN UNCHANGED <<main, why>>
     ELSE main' = "stop_client" /\ why' = "failed"
  /\ UNCHANGED <<audited, sent, stopped, verdict, wsl, control, linux>>

\* Any other answer, of the control script or of wsl.exe itself.
NotReady ==
  /\ main = "ready"
  /\ Stop("failed")
  /\ UNCHANGED <<wsl, control, linux>>

\* Variant: a failed start is noticed after the prompt is sent.
AuditIgnored ==
  /\ main = "audit"
  /\ audited' \in BOOLEAN
  /\ main' = "write"
  /\ UNCHANGED <<polls, sent, stopped, why, verdict, wsl, control, linux>>

\* on_started
Audit ==
  /\ main = "audit"
  /\ \/ /\ audited' = TRUE
        /\ main' = "write"
        /\ UNCHANGED <<polls, sent, stopped, why, verdict>>
     \/ Stop("failed")
  /\ UNCHANGED <<wsl, control, linux>>

\* The first half of communicate.  If the pipe breaks, communicate goes on.
SendPrompt ==
  /\ main = "write"
  /\ sent' = TRUE
  /\ main' = "wait"
  /\ UNCHANGED <<polls, audited, stopped, why, verdict, wsl, control, linux>>

\* Variant: the end of the client is taken for that of the worker.
WaitTrustsClient ==
  /\ main = "wait"
  /\ client = "exited"
  /\ Goto("cleanup")
  /\ UNCHANGED <<wsl, control, linux>>

WaitReturns ==
  /\ main = "wait"
  /\ client = "exited"
  /\ Goto("prove")
  /\ UNCHANGED <<wsl, control, linux>>

WaitTimesOut ==
  /\ main = "wait"
  /\ Stop("timed_out")
  /\ UNCHANGED <<wsl, control, linux>>

StreamFails ==
  /\ main \in {"write", "wait"}
  /\ Stop("failed")
  /\ UNCHANGED <<wsl, control, linux>>

\* The recorded number is nobody's, or still that of the recorded process.
Identified == record /\ stranger = "none"

\* The control script finds no member of the recorded group.
GroupIsGone == Identified /\ leader # "running" /\ group = {}

Prove ==
  /\ main = "prove"
  /\ \/ GroupIsGone /\ Goto("cleanup")
     \/ Return("uncertain")
  /\ UNCHANGED <<wsl, control, linux>>

\* _cleanup_invocation_control: rm -rf, and a test that it is gone.
Removed == dir' = FALSE /\ record' = FALSE

NotRemoved ==
  \/ Removed
  \/ UNCHANGED dir /\ record' \in {record, FALSE}

\* What the worker wrote may be too long, or tell of a failure.
Judge ==
  \/ Return("failed")
  \/ code = "expired" /\ Return("timed_out")
  \/ code = "zero" /\ Return("completed")

CleanupAndJudge ==
  /\ main = "cleanup"
  /\ \/ Removed /\ Judge
     \/ NotRemoved /\ Return("failed")
  /\ UNCHANGED <<wsl, linux>>

\* _terminate_process
StopClient ==
  /\ main \in {"stop_client", "stop_client_again"}
  /\ \/ /\ stopped' = TRUE
        /\ client' = "exited"
        /\ code' = IF client = "running" THEN "nonzero" ELSE code
     \/ client = "running" /\ UNCHANGED <<stopped, client, code>>
  /\ main' = IF main = "stop_client" THEN "stop_target" ELSE "stop_cleanup"
  /\ UNCHANGED <<polls, audited, sent, why, verdict, control, linux>>

\* The control script is run, with a timeout; ...
AskToStop ==
  /\ main = "stop_target"
  /\ script' = "asked"
  /\ Goto("stopping")
  /\ UNCHANGED <<wsl, control, leader, group, outside, stranger, struck>>

StopAnswered ==
  /\ main = "stopping"
  /\ script = "zero"
  /\ Goto("stop_prove")
  /\ UNCHANGED <<wsl, control, linux>>

\* ... any other answer, or none in time, leaves the end uncertain.
StopUnanswered ==
  /\ main \in {"stop_target", "stopping"}
  /\ Return("uncertain")
  /\ UNCHANGED <<wsl, control, linux>>

StopProve ==
  /\ main = "stop_prove"
  /\ \/ GroupIsGone /\ Goto(IF stopped THEN "stop_cleanup" ELSE "stop_client_again")
     \/ Return("uncertain")
  /\ UNCHANGED <<wsl, control, linux>>

\* _targeted_stop_confirmed
StopCleanup ==
  /\ main = "stop_cleanup"
  /\ \/ Removed /\ Return(IF stopped THEN why ELSE "uncertain")
     \/ NotRemoved /\ Return("uncertain")
  /\ UNCHANGED <<wsl, linux>>

\* KeyboardInterrupt, at any time.  Before the launch nobody catches it; while
\* the client is launched it may or may not have taken effect.
Interrupt ==
  /\ \/ /\ main = "prepare"
        /\ dir' \in BOOLEAN
        /\ Goto("raised")
        /\ UNCHANGED <<client, leader, record>>
     \/ /\ main = "popen"
        /\ Return("uncertain")
        /\ \/ UNCHANGED <<client, leader>>
           \/ client' = "running" /\ leader' = "pending"
        /\ UNCHANGED control
     \/ /\ main \in {"ready", "audit", "write", "wait", "prove"}
        /\ Stop("cancelled")
        /\ UNCHANGED <<client, leader, control>>
     \/ /\ main = "cleanup"
        /\ NotRemoved
        /\ Return("cancelled")
        /\ UNCHANGED <<client, leader>>
     \/ /\ main \in Stopping
        /\ IF main = "stop_cleanup" THEN NotRemoved ELSE UNCHANGED control
        /\ Return("uncertain")
        /\ UNCHANGED <<client, leader>>
  /\ UNCHANGED <<code, group, outside, numbers>>

-----------------------------------------------------------------------------
(***************************************************************************)
(* The client and the Linux side.                                          *)
(***************************************************************************)

\* wsl.exe ends with what it runs, and with its exit status.
ClientExits ==
  /\ client = "running"
  /\ leader \in ExitCodes
  /\ client' = "exited"
  /\ code' = leader
  /\ UNCHANGED <<thread, control, linux>>

ClientDies ==
  /\ client = "running"
  /\ client' = "exited"
  /\ code' = "nonzero"
  /\ UNCHANGED <<thread, control, linux>>

\* What the client asked for may happen after the client is gone, or never.
SupervisorStarts ==
  /\ leader = "pending"
  /\ leader' \in {"starting", "nonzero"}
  /\ UNCHANGED <<thread, wsl, control, group, outside, numbers>>

\* Written beside it and renamed; then the supervisor becomes the worker.
WriteRecord ==
  /\ leader = "starting"
  /\ dir
  /\ record' = TRUE
  /\ leader' = "running"
  /\ UNCHANGED <<thread, wsl, dir, group, outside, numbers>>

SupervisorFails ==
  /\ leader = "starting"
  /\ leader' = "nonzero"
  /\ UNCHANGED <<thread, wsl, control, group, outside, numbers>>

\* A helper stays in the group of the process that starts it or leaves it.
StartHelper(h) ==
  /\ h \notin group \cup outside
  /\ \/ /\ leader = "running" \/ group # {}
        /\ \/ group' = group \cup {h} /\ UNCHANGED outside
           \/ h \in Escapes /\ outside' = outside \cup {h} /\ UNCHANGED group
     \/ /\ outside # {}
        /\ outside' = outside \cup {h}
        /\ UNCHANGED group
  /\ UNCHANGED <<thread, wsl, control, leader, numbers>>

HelperExits(h) ==
  /\ h \in group \cup outside
  /\ group' = group \ {h}
  /\ outside' = outside \ {h}
  /\ UNCHANGED <<thread, wsl, control, leader, numbers>>

WorkerExits ==
  /\ leader = "running"
  /\ leader' \in {"zero", "nonzero"}
  /\ UNCHANGED <<thread, wsl, control, group, outside, numbers>>

\* Variant: the worker has no timer of its own.
NoTimer == FALSE /\ UNCHANGED vars

\* timeout: TERM to the group, then KILL.  Whoever ignores TERM is left if the
\* worker does not.
LinuxTimer ==
  /\ leader = "running"
  /\ \/ leader' = "expired" /\ group' \in SUBSET group
     \/ leader' = "nonzero" /\ group' = {}
  /\ UNCHANGED <<thread, wsl, control, outside, numbers>>

\* A process number is free when neither a process nor a group has it.
NumberReused ==
  /\ leader \in ExitCodes
  /\ group = {}
  /\ record
  /\ stranger = "none"
  /\ stranger' = IF script \in {"identified", "termed"} THEN "late" ELSE "early"
  /\ UNCHANGED <<thread, wsl, control, leader, group, outside, struck, script>>

-----------------------------------------------------------------------------
(***************************************************************************)
(* The control script, asked to stop the group.                            *)
(***************************************************************************)

ScriptGoes(next) ==
  /\ script' = next
  /\ UNCHANGED <<thread, wsl, control, outside, stranger>>

\* Variant: the recorded number is signalled whoever has it.
LookAway ==
  /\ script = "asked"
  /\ ScriptGoes(IF record THEN "identified" ELSE "nonzero")
  /\ UNCHANGED <<leader, group, struck>>

\* It looks once whose number it is.
Look ==
  /\ script = "asked"
  /\ ScriptGoes(IF Identified THEN "identified" ELSE "nonzero")
  /\ UNCHANGED <<leader, group, struck>>

\* group_members: somebody has the number for his group.
GroupHasMembers == leader = "running" \/ group # {} \/ stranger # "none"

\* killpg reaches whoever has the number now.  Some of the group end.
Signal ==
  /\ GroupHasMembers
  /\ leader' \in IF leader = "running" THEN {"running", "nonzero"} ELSE {leader}
  /\ group' \in SUBSET group
  /\ struck' = struck \cup ({stranger} \ {"none"})

SendTerm == script = "identified" /\ Signal /\ ScriptGoes("termed")

\* Up to two seconds later.
SendKill == script = "termed" /\ Signal /\ ScriptGoes("killed")

\* Nobody is left, or somebody is, or a signal was refused.
ScriptEnds ==
  /\ script \in {"identified", "termed", "killed"}
  /\ \/ ~ GroupHasMembers /\ ScriptGoes("zero")
     \/ ScriptGoes("nonzero")
  /\ UNCHANGED <<leader, group, struck>>

MainStep ==
  \/ Prepare \/ Popen \/ PopenFails \/ Ready \/ NotYet \/ NotReady \/ Audit
  \/ WaitReturns \/ WaitTimesOut \/ Prove \/ CleanupAndJudge
  \/ StopClient \/ AskToStop \/ StopAnswered \/ StopUnanswered
  \/ StopProve \/ StopCleanup

LinuxStep ==
  \/ SupervisorStarts \/ WriteRecord \/ SupervisorFails
  \/ WorkerExits \/ LinuxTimer \/ NumberReused
  \/ Look \/ SendTerm \/ SendKill \/ ScriptEnds
  \/ \E h \in Helpers : StartHelper(h) \/ HelperExits(h)

Next ==
  \/ MainStep \/ SendPrompt \/ StreamFails \/ Interrupt
  \/ ClientExits \/ ClientDies \/ LinuxStep

Spec == Init /\ [][Next]_vars

-----------------------------------------------------------------------------
(***************************************************************************)
(* Properties.                                                             *)
(***************************************************************************)

\* A verdict that does not say it is uncertain (worker_exit_proved) is given
\* only when no process of the worker's group runs, nor ever will: none is
\* still about to start, whatever was lost, interrupted or late.
ExitProofIsSound ==
  verdict \notin {"none", "uncertain"} =>
    leader \notin {"pending", "starting", "running"} /\ group = {}

\* As long as a process of the group runs, the record by which it can be
\* stopped is there (_cleanup_invocation_control comes after the proof).
RunningIsRecorded == leader = "running" \/ group # {} => record

\* A process that has been given the worker's number when the control script
\* looks is never signalled, however late the script is run and whatever has
\* become of the thread that asked for it (start_ticks).  The script looks once:
\* who is given the number while it is at work may be signalled.
StrangersAreSpared == "early" \notin struck

Stage ==
  CASE main \in {"prepare", "popen", "raised"} -> "launch"
    [] main = "returned" -> "ended"
    [] OTHER -> IF sent THEN "working" ELSE IF audited THEN "prompt" ELSE "record_started"

Worker ==
  IF main \in {"prepare", "popen", "raised"} THEN "none"
  ELSE IF sent
       THEN IF leader = "running" THEN "prompted"
            ELSE IF group \cup outside = {} THEN "dead" ELSE "left_behind"
  ELSE IF verdict \in {"none", "uncertain"} THEN "launched" ELSE "none"

Contract == INSTANCE WorkerContract WITH
  stage <- Stage, worker <- Worker, outcome <- verdict

\* The invocation keeps the contract that the run and the patch transfer rely on.
ImplementsContract == Contract!ContractSpec
===============================================================================
