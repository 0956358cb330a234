-------------------------- MODULE WorkerProcessProofs -------------------------
(***************************************************************************)
(* One invocation, for any helpers, any prompt and pipes of any size: what *)
(* its verdict says of the worker and of the worker's output.              *)
(***************************************************************************)
EXTENDS WorkerProcess, TLAPS

Mains ==
  {"launch", "audit", "write", "wait", "collect_out", "collect_err", "stop",
   "shutdown", "returned"}

WTyped ==
  /\ main \in Mains
  /\ alive \subseteq Processes /\ holds \subseteq alive
  /\ code \in {"none", "zero", "nonzero"}
  /\ out \in Seq(OutLines)
  /\ reader \in {"none", "reading", "done"}
  /\ parsed \in [fatal : BOOLEAN, completed : BOOLEAN]

\* The worker runs from its launch until it has an exit status.
LeaderOK ==
  /\ main = "launch" => alive = {} /\ code = "none" /\ reader = "none"
  /\ main = "audit" => reader = "none"
  /\ main # "launch" /\ code = "none" =>
       "leader" \in alive \/ (main = "returned" /\ verdict.status = "failed" /\ alive = {})
  /\ "leader" \in alive => code = "none"

\* A thread that has read its pipe to the end leaves nobody to write to it.
ReaderOK ==
  reader = "done" /\ ~ parsed.fatal => out = <<>> /\ holds = {}

\* What is known at each wait, and of the verdict that it may lead to.
VerdictOK ==
  /\ main \in {"collect_out", "collect_err"} => "leader" \notin alive
  /\ main = "collect_err" => reader = "done"
  /\ main = "stop" => why.status \in {"failed", "timed_out", "cancelled"}
  /\ verdict # NoVerdict =>
       /\ main \in {"shutdown", "returned"}
       /\ verdict.status \in {"succeeded", "failed", "timed_out", "cancelled"}
  /\ verdict.status = "succeeded" => main = "returned" /\ reader = "done"

WInv == WTyped /\ LeaderOK /\ ReaderOK /\ VerdictOK /\ SuccessIsWhole /\ VerdictMeansEnded

LEMMA InitWInv == Init => WInv
BY DEF Init, WInv, WTyped, Mains, LeaderOK, ReaderOK, VerdictOK, SuccessIsWhole,
       VerdictMeansEnded, NoVerdict

-----------------------------------------------------------------------------
(***************************************************************************)
(* The invoking thread.                                                    *)
(***************************************************************************)

LEMMA LaunchStep == WInv /\ Launch => WInv'
<1> SUFFICES ASSUME WInv, Launch PROVE WInv'
  OBVIOUS
<1>1. /\ main = "launch" /\ UNCHANGED <<code, out, reader, parsed>>
      /\ \/ /\ alive' = {"leader"} /\ holds' = {"leader"}
            /\ main' = "audit" /\ verdict' = verdict
         \/ /\ UNCHANGED <<alive, holds>>
            /\ main' = "returned"
            /\ verdict' = Verdict("failed", "codex_launch_failed")
  BY DEF Launch, Goto, Return, pipes, readers
<1>2. alive = {} /\ code = "none" /\ reader = "none" /\ verdict = NoVerdict
  BY <1>1 DEF WInv, LeaderOK, VerdictOK
<1>3. WTyped'
  BY <1>1 DEF WInv, WTyped, Mains, Processes
<1>4. LeaderOK' /\ ReaderOK'
  BY <1>1, <1>2 DEF LeaderOK, ReaderOK, Verdict
<1>5. VerdictOK' /\ SuccessIsWhole' /\ VerdictMeansEnded'
  BY <1>1, <1>2 DEF VerdictOK, SuccessIsWhole, VerdictMeansEnded, Verdict, NoVerdict
<1> QED
  BY <1>3, <1>4, <1>5 DEF WInv

\* A step of the invoking thread that neither stops nor judges the worker.
LEMMA WaitSteps ==
  WInv /\ (Audit \/ WritePrompt \/ BrokenPipe \/ CloseStdin \/ WaitReturns
           \/ WaitTimesOut \/ CollectOut \/ CollectTimesOut \/ Interrupt) => WInv'
<1> SUFFICES ASSUME WInv,
                    Audit \/ WritePrompt \/ BrokenPipe \/ CloseStdin \/ WaitReturns
                      \/ WaitTimesOut \/ CollectOut \/ CollectTimesOut \/ Interrupt
             PROVE  WInv'
  OBVIOUS
<1>1. /\ UNCHANGED <<procs, out, parsed, verdict>>
      /\ UNCHANGED reader \/ (main = "audit" /\ reader' = "reading")
      /\ main \in {"audit", "write", "wait", "collect_out", "collect_err"}
      /\ \/ main' \in {main, "write", "wait"} /\ main' \notin {"audit", "collect_out"}
            /\ main' # "collect_err"
         \/ main' = "collect_out" /\ "leader" \notin alive
         \/ main' = "collect_err" /\ main = "collect_out" /\ reader = "done"
         \/ main' = "stop" /\ why'.status \in {"failed", "timed_out", "cancelled"}
  BY DEF Audit, WritePrompt, BrokenPipe, CloseStdin, WaitReturns, WaitTimesOut,
         CollectOut, CollectTimesOut, Interrupt, Stop, Goto, Verdict, pipes, procs,
         readers, thread
<1> USE DEF WInv, procs
<1>2. WTyped'
  BY <1>1 DEF WTyped, Mains
<1>3. LeaderOK' /\ ReaderOK'
  BY <1>1 DEF LeaderOK, ReaderOK, VerdictOK
<1>4. VerdictOK'
  BY <1>1 DEF VerdictOK, NoVerdict
<1>5. SuccessIsWhole' /\ VerdictMeansEnded'
  BY <1>1 DEF SuccessIsWhole, VerdictMeansEnded
<1> QED
  BY <1>2, <1>3, <1>4, <1>5

\* Success is found after the output was read to its end.
LEMMA CollectErrStep == WInv /\ CollectErr => WInv'
<1> SUFFICES ASSUME WInv, CollectErr PROVE WInv'
  OBVIOUS
<1>1. /\ main = "collect_err" /\ main' = "returned" /\ verdict' = Finding
      /\ UNCHANGED <<why, alive, holds, code, out, reader, parsed>>
      /\ reader = "done" /\ "leader" \notin alive
  BY DEF CollectErr, Return, pipes, procs, readers, WInv, VerdictOK
<1>2. /\ Finding # NoVerdict
      /\ Finding.status \in {"failed", "succeeded"}
      /\ Finding.status = "succeeded" =>
           code = "zero" /\ ~ parsed.fatal /\ parsed.completed
  BY DEF Finding, Verdict, NoVerdict
<1> USE DEF WInv
<1>3. WTyped' /\ LeaderOK' /\ ReaderOK'
  BY <1>1, <1>2 DEF WTyped, Mains, LeaderOK, ReaderOK
<1>4. VerdictOK' /\ VerdictMeansEnded'
  BY <1>1, <1>2 DEF VerdictOK, VerdictMeansEnded
<1>5. SuccessIsWhole'
  BY <1>1, <1>2 DEF SuccessIsWhole, ReaderOK, WTyped
<1> QED
  BY <1>3, <1>4, <1>5

\* Whatever is told of a stopped worker but "uncertain" is told once it is gone.
LEMMA StopSteps == WInv /\ (Terminate \/ Shutdown) => WInv'
<1> SUFFICES ASSUME WInv, Terminate \/ Shutdown PROVE WInv'
  OBVIOUS
<1> USE DEF WInv
<1>1. CASE Terminate
  <2>1. /\ main = "stop" /\ UNCHANGED <<why, out, reader, parsed>>
        /\ main' \in {"returned", "shutdown"} /\ verdict' \in {why, Uncertain}
        /\ verdict' = Uncertain \/ "leader" \notin alive'
        /\ alive' \subseteq alive /\ holds' \subseteq holds /\ holds' \subseteq alive'
        /\ "leader" \in alive' => "leader" \in alive /\ code' = code
        /\ code' \in {code, "nonzero"} /\ ("leader" \notin alive => code' = code)
        /\ code' = "none" => code = "none" /\ ("leader" \in alive => "leader" \in alive')
    BY <1>1 DEF Terminate, Conclude, Kill, pipes, procs, readers, WTyped, LeaderOK
  <2>2. verdict'.status \in {"failed", "timed_out", "cancelled"}
    BY <2>1 DEF VerdictOK, Uncertain, Verdict
  <2>3. WTyped' /\ ReaderOK'
    BY <2>1 DEF WTyped, Mains, ReaderOK
  <2>4. LeaderOK'
    BY <2>1 DEF LeaderOK, WTyped
  <2>5. VerdictOK' /\ SuccessIsWhole' /\ VerdictMeansEnded'
    BY <2>1, <2>2 DEF VerdictOK, SuccessIsWhole, VerdictMeansEnded
  <2> QED
    BY <2>3, <2>4, <2>5
<1>2. CASE Shutdown
  <2>1. /\ main = "shutdown" /\ main' = "returned"
        /\ UNCHANGED <<why, verdict, alive, holds, code, out, reader, parsed>>
    BY <1>2 DEF Shutdown, Goto, pipes, procs, readers
  <2>2. WTyped' /\ LeaderOK' /\ ReaderOK'
    BY <2>1 DEF WTyped, Mains, LeaderOK, ReaderOK
  <2>3. VerdictOK' /\ SuccessIsWhole' /\ VerdictMeansEnded'
    BY <2>1 DEF VerdictOK, SuccessIsWhole, VerdictMeansEnded
  <2> QED
    BY <2>2, <2>3
<1> QED
  BY <1>1, <1>2

-----------------------------------------------------------------------------
(***************************************************************************)
(* The reading threads, the worker and its helpers.                        *)
(***************************************************************************)

LEMMA ReadSteps == WInv /\ (ReadOut \/ ReadErr) => WInv'
<1> SUFFICES ASSUME WInv, ReadOut \/ ReadErr PROVE WInv'
  OBVIOUS
<1> USE DEF WInv
<1>1. /\ UNCHANGED <<main, why, verdict, alive, holds, code>>
      /\ reader = "none" => reader' = "none"
      /\ reader = "done" => UNCHANGED <<reader, out, parsed>>
  BY DEF ReadOut, ReadErr, thread, procs
<1>2. out' \in Seq(OutLines) /\ reader' \in {"none", "reading", "done"}
      /\ parsed' \in [fatal : BOOLEAN, completed : BOOLEAN]
  <2>1. CASE ReadErr
    BY <2>1 DEF ReadErr, WTyped
  <2>2. CASE ReadOut /\ out # <<>>
    <3>1. /\ Tail(out) \in Seq(OutLines)
          /\ out' = Tail(out) /\ reader' \in {reader, "done"}
      BY <2>2 DEF ReadOut, WTyped
    <3>2. \E f, c \in BOOLEAN : parsed' = [fatal |-> f, completed |-> c]
      <4>1. /\ (parsed.fatal \/ Head(out) = "fatal") \in BOOLEAN
            /\ (parsed.completed \/ Head(out) = "completed") \in BOOLEAN
        BY Zenon
      <4>2. CASE Head(out) = "too_long"
        BY <2>2, <4>2 DEF ReadOut
      <4>3. CASE Head(out) # "too_long"
        BY <2>2, <4>1, <4>3, Zenon DEF ReadOut
      <4> QED
        BY <4>2, <4>3
    <3> QED
      BY <3>1, <3>2 DEF WTyped
  <2>3. CASE ReadOut /\ out = <<>>
    BY <2>3 DEF ReadOut, WTyped
  <2> QED
    BY <2>1, <2>2, <2>3
<1>3. WTyped' /\ LeaderOK'
  BY <1>1, <1>2 DEF WTyped, LeaderOK
<1>4. ReaderOK'
  BY <1>1 DEF ReaderOK, ReadOut, ReadErr
<1>5. VerdictOK' /\ SuccessIsWhole' /\ VerdictMeansEnded'
  BY <1>1 DEF VerdictOK, SuccessIsWhole, VerdictMeansEnded
<1> QED
  BY <1>3, <1>4, <1>5

\* What the worker and its helpers can do to the processes and the output.
WorkerMoves ==
  /\ UNCHANGED <<main, why, verdict, reader, parsed>>
  /\ alive' \subseteq Processes /\ holds' \subseteq alive'
  /\ holds = {} => holds' = {} /\ out' = out
  /\ alive = {} => alive' = {}
  /\ out' \in Seq(OutLines)
  /\ \/ code' = code /\ ("leader" \in alive' <=> "leader" \in alive)
     \/ code' \in {"zero", "nonzero"} /\ "leader" \in alive /\ "leader" \notin alive'

\* Only who holds the pipes writes, or hands them on; and nobody starts the
\* worker again.
LEMMA WorkerMoveSteps == WInv /\ WorkerStep => WorkerMoves /\ UNCHANGED unsent
<1> SUFFICES ASSUME WInv, WorkerStep PROVE WorkerMoves /\ UNCHANGED unsent
  OBVIOUS
<1> USE DEF WInv, WTyped, WorkerMoves, thread, pipes, procs, readers
<1>1. CASE ReadPrompt \/ WriteErr
  BY <1>1 DEF ReadPrompt, WriteErr
<1>2. CASE WriteOut
  BY <1>2 DEF WriteOut
<1>3. ASSUME NEW h \in Helpers, StartHelper(h) PROVE WorkerMoves /\ UNCHANGED unsent
  BY <1>3, WorkerAssumption DEF StartHelper, Processes
<1>4. ASSUME NEW p \in Processes, LetGo(p) \/ Exits(p)
      PROVE  WorkerMoves /\ UNCHANGED unsent
  BY <1>4 DEF LetGo, Exits
<1> QED
  BY <1>1, <1>2, <1>3, <1>4 DEF WorkerStep

LEMMA WorkerSteps == WInv /\ WorkerStep => WInv'
<1> SUFFICES ASSUME WInv, WorkerStep PROVE WInv'
  OBVIOUS
<1>1. WorkerMoves
  BY WorkerMoveSteps
<1> USE DEF WInv, WorkerMoves
<1>2. WTyped'
  BY <1>1 DEF WTyped
<1>3. LeaderOK' /\ ReaderOK'
  BY <1>1 DEF LeaderOK, ReaderOK
<1>4. VerdictOK' /\ VerdictMeansEnded'
  BY <1>1 DEF VerdictOK, VerdictMeansEnded
<1>5. SuccessIsWhole'
  BY <1>1 DEF SuccessIsWhole, VerdictMeansEnded, NoVerdict, Uncertain, Verdict
<1> QED
  BY <1>2, <1>3, <1>4, <1>5

LEMMA NextWInv == WInv /\ [Next]_vars => WInv'
<1>1. WInv /\ UNCHANGED vars => WInv'
  BY DEF WInv, WTyped, LeaderOK, ReaderOK, VerdictOK, SuccessIsWhole,
         VerdictMeansEnded, vars, thread, pipes, procs, readers
<1> QED
  BY <1>1, LaunchStep, WaitSteps, CollectErrStep, StopSteps, ReadSteps, WorkerSteps
     DEF Next, MainStep

LEMMA WInvHolds == Spec => []WInv
<1>1. Init => WInv
  BY InitWInv
<1>2. WInv /\ [Next]_vars => WInv'
  BY NextWInv
<1> QED
  BY <1>1, <1>2, PTL DEF Spec

\* A run takes "succeeded" for a worker that ended well and whose output was
\* read to the end, with nobody left to add to it (_run_codex_process).
THEOREM SuccessCoversTheOutput == Spec => []SuccessIsWhole
<1>1. WInv => SuccessIsWhole
  BY DEF WInv
<1> QED
  BY <1>1, WInvHolds, PTL

\* A verdict other than uncertain means that the worker has ended
\* (_terminate_process_tree).
THEOREM VerdictsAreOfEndedWorkers == Spec => []VerdictMeansEnded
<1>1. WInv => VerdictMeansEnded
  BY DEF WInv
<1> QED
  BY <1>1, WInvHolds, PTL
-----------------------------------------------------------------------------
(***************************************************************************)
(* The contract.                                                           *)
(***************************************************************************)

\* How far the prompt has got.
PromptOK ==
  /\ unsent \in 0..PromptChunks
  /\ reader = "none" => ~ Sent
  /\ main \in {"write", "wait", "collect_out", "collect_err", "shutdown"} =>
       reader # "none"
  /\ main \in {"wait", "collect_out", "collect_err"} => Sent
  /\ main \in {"shutdown", "returned"} => verdict # NoVerdict

CInv == WInv /\ PromptOK

LEMMA NextCInv == CInv /\ [Next]_vars => CInv'
<1> SUFFICES ASSUME WInv, PromptOK, [Next]_vars PROVE PromptOK'
  BY NextWInv DEF CInv
<1> USE WorkerAssumption DEF PromptOK, Sent
<1>1. CASE Launch \/ Audit
  BY <1>1 DEF Launch, Audit, Goto, Return, Stop, Verdict, NoVerdict, WInv, LeaderOK,
     pipes, readers
<1>2. CASE WritePrompt \/ BrokenPipe \/ CloseStdin
  BY <1>2 DEF WritePrompt, BrokenPipe, CloseStdin, Goto, Stop, pipes, readers, thread
<1>3. CASE \/ WaitReturns \/ WaitTimesOut \/ CollectOut \/ CollectTimesOut \/ Interrupt
  BY <1>3 DEF WaitReturns, WaitTimesOut, CollectOut, CollectTimesOut, Interrupt, Goto,
     Stop, pipes, readers
<1>4. CASE CollectErr
  BY <1>4 DEF CollectErr, Return, Finding, Verdict, NoVerdict, pipes, readers
<1>5. CASE Terminate
  <2>1. verdict' \in {why, Uncertain} /\ why # NoVerdict
    BY <1>5 DEF Terminate, Conclude, WInv, VerdictOK, NoVerdict
  <2> QED
    BY <1>5, <2>1 DEF Terminate, Conclude, Uncertain, Verdict, NoVerdict, pipes, readers
<1>6. CASE Shutdown
  BY <1>6 DEF Shutdown, Goto, pipes, readers
<1>7. CASE ReadOut \/ ReadErr
  BY <1>7 DEF ReadOut, ReadErr, thread
<1>8. CASE WorkerStep
  <2>1. UNCHANGED <<main, verdict, unsent, reader>>
    BY <1>8 DEF WorkerStep, ReadPrompt, WriteOut, WriteErr, StartHelper, LetGo, Exits,
       thread, pipes, readers
  <2> QED
    BY <2>1
<1>9. CASE UNCHANGED vars
  BY <1>9 DEF vars, thread, pipes, readers
<1> QED
  BY <1>1, <1>2, <1>3, <1>4, <1>5, <1>6, <1>7, <1>8, <1>9 DEF Next, MainStep

\* The worker starts, and its start is recorded.
LEMMA StartKeepsContract ==
  CInv /\ (Launch \/ Audit) => [Contract!ContractNext]_(Contract!contractVars)
<1> SUFFICES ASSUME CInv, Launch \/ Audit
             PROVE  [Contract!ContractNext]_(Contract!contractVars)
  OBVIOUS
<1>1. ~ Sent /\ Sent' = Sent /\ reader = "none" /\ verdict = NoVerdict
  BY DEF CInv, PromptOK, WInv, LeaderOK, VerdictOK, Launch, Audit, Sent, pipes
<1>2. CASE Launch
  <2>1. Stage = "launch" /\ Worker = "none" /\ Outcome = "none"
    BY <1>1, <1>2 DEF Launch, Stage, Worker, Outcome, NoVerdict, Uncertain, Verdict
  <2>2. CASE main' = "audit"
    <3>1. Stage' = "record_started" /\ Worker' = "launched" /\ Outcome' = "none"
      BY <1>1, <1>2, <2>2 DEF Launch, Goto, Return, Stage, Worker, Outcome,
         NoVerdict, Uncertain, Verdict
    <3> QED
      BY <2>1, <3>1 DEF Contract!ContractNext, Contract!Launch
  <2>3. CASE main' # "audit"
    <3>1. main' = "returned" /\ verdict' = Verdict("failed", "codex_launch_failed")
          /\ alive' = {} /\ code' = "none"
      BY <1>2, <2>3 DEF Launch, Goto, Return, CInv, WInv, LeaderOK
    <3>2. Stage' = "ended" /\ Worker' = "none" /\ Outcome' = "failed"
      BY <3>1 DEF Stage, Worker, Outcome, Verdict, NoVerdict, Uncertain
    <3> QED
      BY <2>1, <3>2 DEF Contract!ContractNext, Contract!Launch, Contract!Conclude
  <2> QED
    BY <2>2, <2>3
<1>3. CASE Audit
  <2>1. /\ main = "audit" /\ main' \in {"write", "stop"} /\ verdict' = verdict
        /\ main' = "write" => reader' = "reading"
        /\ main' = "stop" => reader' = reader
    BY <1>3 DEF Audit, Goto, Stop, readers
  <2>2. Stage = "record_started" /\ Worker = "launched" /\ Outcome = "none"
    BY <1>1, <2>1 DEF Stage, Worker, Outcome, NoVerdict, Uncertain, Verdict
  <2>3. /\ Stage' \in {"prompt", "record_started"}
        /\ Worker' = "launched" /\ Outcome' = "none"
    BY <1>1, <2>1 DEF Stage, Worker, Outcome, NoVerdict, Uncertain, Verdict
  <2> QED
    BY <2>2, <2>3 DEF Contract!ContractNext, Contract!RecordStarted,
       Contract!contractVars
<1> QED
  BY <1>2, <1>3

\* The prompt is sent; waiting and deciding to stop is nothing to the run.
LEMMA WaitKeepsContract ==
  CInv /\ (WritePrompt \/ BrokenPipe \/ CloseStdin \/ WaitReturns \/ WaitTimesOut
           \/ CollectOut \/ CollectTimesOut \/ Interrupt) =>
    [Contract!ContractNext]_(Contract!contractVars)
<1> SUFFICES ASSUME CInv,
                    WritePrompt \/ BrokenPipe \/ CloseStdin \/ WaitReturns
                      \/ WaitTimesOut \/ CollectOut \/ CollectTimesOut \/ Interrupt
             PROVE  [Contract!ContractNext]_(Contract!contractVars)
  OBVIOUS
<1>1. /\ main \in {"write", "wait", "collect_out", "collect_err"}
      /\ main' \in {"write", "wait", "collect_out", "collect_err", "stop"}
      /\ UNCHANGED <<verdict, alive, code, reader>>
      /\ UNCHANGED unsent \/ (holds # {} /\ unsent' = unsent - 1)
  BY DEF WritePrompt, BrokenPipe, CloseStdin, WaitReturns, WaitTimesOut,
     CollectOut, CollectTimesOut, Interrupt, Goto, Stop, thread, pipes, procs, readers
<1>2. reader # "none" /\ verdict = NoVerdict /\ holds \subseteq alive
  BY <1>1 DEF CInv, PromptOK, WInv, VerdictOK, WTyped
<1>3. /\ Stage = IF Sent THEN "working" ELSE "prompt"
      /\ Stage' = IF Sent' THEN "working" ELSE "prompt"
      /\ Outcome = "none" /\ Outcome' = "none"
  BY <1>1, <1>2 DEF Stage, Outcome, NoVerdict, Uncertain, Verdict
<1>4. CASE Sent' = Sent
  BY <1>1, <1>3, <1>4 DEF Worker, Contract!contractVars
<1>5. CASE Sent' # Sent
  <2>1. ~ Sent /\ Sent' /\ holds # {}
    BY <1>1, <1>5, WorkerAssumption DEF CInv, PromptOK, Sent
  <2>2. Worker' \in {"prompted", "left_behind"}
    BY <1>1, <1>2, <2>1 DEF Worker
  <2> QED
    BY <1>3, <2>1, <2>2 DEF Contract!ContractNext, Contract!SubmitPrompt
<1> QED
  BY <1>4, <1>5

\* The worker has ended and is judged.
LEMMA FindingKeepsContract ==
  CInv /\ CollectErr => [Contract!ContractNext]_(Contract!contractVars)
<1> SUFFICES ASSUME CInv, CollectErr
             PROVE  [Contract!ContractNext]_(Contract!contractVars)
  OBVIOUS
<1>1. /\ main = "collect_err" /\ main' = "returned" /\ verdict' = Finding
      /\ UNCHANGED <<alive, code, unsent>>
      /\ "leader" \notin alive /\ code # "none" /\ Sent
  BY DEF CollectErr, Return, pipes, procs, CInv, PromptOK, WInv, VerdictOK, LeaderOK
<1>2. Stage = "working" /\ Stage' = "ended"
  BY <1>1 DEF Stage
<1>3. Worker \in {"left_behind", "dead"} /\ Worker' = Worker
  BY <1>1 DEF Worker, Sent
<1>4. Outcome' \in {"completed", "failed"}
  BY <1>1 DEF Outcome, Finding, Verdict, NoVerdict, Uncertain
<1> QED
  BY <1>2, <1>3, <1>4 DEF Contract!ContractNext, Contract!InvocationEnds,
     Contract!Conclude

\* The worker is stopped, or given up, and what is left is drained.
LEMMA StopKeepsContract ==
  CInv /\ (Terminate \/ Shutdown) => [Contract!ContractNext]_(Contract!contractVars)
<1> SUFFICES ASSUME CInv, Terminate \/ Shutdown
             PROVE  [Contract!ContractNext]_(Contract!contractVars)
  OBVIOUS
<1>1. CASE Terminate
  <2>1. /\ main = "stop" /\ UNCHANGED <<unsent, reader>>
        /\ main' = IF reader = "none" THEN "returned" ELSE "shutdown"
        /\ verdict = NoVerdict
        /\ code = "none" <=> "leader" \in alive
        /\ code' = "none" <=> "leader" \in alive'
        /\ \/ verdict' = why /\ "leader" \notin alive'
           \/ verdict' = Uncertain /\ UNCHANGED <<alive, code>> /\ "leader" \in alive
    BY <1>1 DEF Terminate, Conclude, Kill, pipes, procs, readers, CInv, WInv, LeaderOK,
       VerdictOK
  <2>2. /\ why.status \in {"failed", "timed_out", "cancelled"}
        /\ why # NoVerdict /\ Uncertain # NoVerdict
        /\ Sent' = Sent /\ (reader = "none" => ~ Sent)
    BY <2>1 DEF CInv, WInv, VerdictOK, PromptOK, Sent, NoVerdict, Uncertain, Verdict
  <2>3. /\ Stage = IF reader = "none" THEN "record_started"
                   ELSE IF Sent THEN "working" ELSE "prompt"
        /\ Stage' \in {"draining", "ended"}
    BY <2>1 DEF Stage
  <2>4. CASE verdict' = why /\ "leader" \notin alive'
    <3>1. Worker' \in IF Sent THEN {"left_behind", "dead"} ELSE {"none"}
      BY <2>1, <2>2, <2>4 DEF Worker
    <3>2. Outcome' \in {"failed", "timed_out", "cancelled", "uncertain"}
      BY <2>2, <2>4 DEF Outcome, NoVerdict, Uncertain, Verdict
    <3> QED
      BY <2>2, <2>3, <3>1, <3>2 DEF Contract!ContractNext, Contract!CutOff,
         Contract!Conclude
  <2>5. CASE verdict' = Uncertain /\ UNCHANGED <<alive, code>> /\ "leader" \in alive
    <3>1. Worker' = Worker
      BY <2>1, <2>2, <2>5 DEF Worker
    <3>2. Outcome' = "uncertain"
      BY <2>2, <2>5 DEF Outcome, NoVerdict, Uncertain, Verdict
    <3> QED
      BY <2>2, <2>3, <3>1, <3>2 DEF Contract!ContractNext, Contract!CutOff,
         Contract!Conclude
  <2> QED
    BY <2>1, <2>4, <2>5
<1>2. CASE Shutdown
  <2>1. /\ main = "shutdown" /\ main' = "returned"
        /\ UNCHANGED <<verdict, alive, code, unsent>>
        /\ code = "none" => "leader" \in alive
    BY <1>2 DEF Shutdown, Goto, pipes, procs, CInv, WInv, LeaderOK
  <2>2. Stage = "draining" /\ Stage' = "ended"
    BY <2>1 DEF Stage
  <2>3. Worker' = Worker /\ Outcome' = Outcome
    BY <2>1 DEF Worker, Outcome, Sent
  <2> QED
    BY <2>2, <2>3 DEF Contract!ContractNext, Contract!Drain
<1> QED
  BY <1>1, <1>2

\* The reading threads do not concern the run; the worker and its helpers only
\* ever end, as far as it is concerned.
LEMMA OthersKeepContract ==
  CInv /\ (ReadOut \/ ReadErr \/ WorkerStep) =>
    [Contract!ContractNext]_(Contract!contractVars)
<1> SUFFICES ASSUME CInv, ReadOut \/ ReadErr \/ WorkerStep
             PROVE  [Contract!ContractNext]_(Contract!contractVars)
  OBVIOUS
<1>1. CASE ReadOut \/ ReadErr
  <2>1. /\ UNCHANGED <<main, verdict, alive, code, unsent>>
        /\ reader' = "none" <=> reader = "none"
    BY <1>1 DEF ReadOut, ReadErr, thread, procs
  <2>2. Stage' = Stage /\ Worker' = Worker /\ Outcome' = Outcome
    BY <2>1 DEF Stage, Worker, Outcome, Sent
  <2> QED
    BY <2>2 DEF Contract!contractVars
<1>2. CASE WorkerStep
  <2>1. WorkerMoves /\ UNCHANGED unsent
    BY <1>2, WorkerMoveSteps DEF CInv
  <2>2. Stage' = Stage /\ Outcome' = Outcome
    BY <2>1 DEF WorkerMoves, Stage, Outcome, Sent
  <2>3. /\ main # "launch" /\ code = "none" =>
             "leader" \in alive \/ (main = "returned" /\ alive = {})
        /\ main = "launch" => alive = {}
    BY DEF CInv, WInv, LeaderOK
  <2>4. \/ Worker' = Worker
        \/ Worker = "launched" /\ verdict # NoVerdict /\ Worker' = "none"
        \/ Worker = "prompted" /\ Worker' \in {"left_behind", "dead"}
        \/ Worker = "left_behind" /\ Worker' = "dead"
    BY <2>1, <2>3 DEF WorkerMoves, Worker, Sent
  <2>5. verdict # NoVerdict => Outcome # "none"
    BY DEF Outcome, CInv, WInv, VerdictOK, NoVerdict, Uncertain, Verdict
  <2> QED
    BY <2>2, <2>4, <2>5 DEF Contract!ContractNext, Contract!WorkerExits,
       Contract!contractVars
<1> QED
  BY <1>1, <1>2

\* The native invocation is one that the run can rely on: step by step it does
\* what WorkerContract allows (_run_codex_process).
THEOREM KeepsTheContract == Spec => ImplementsContract
<1>1. Init => CInv
  BY InitWInv, WorkerAssumption DEF CInv, PromptOK, Init, Sent
<1>2. CInv /\ [Next]_vars => CInv'
  BY NextCInv
<1>3. Init => Contract!ContractInit
  BY DEF Init, Contract!ContractInit, Stage, Worker, Outcome, NoVerdict, Uncertain,
         Verdict
<1>4. CInv /\ [Next]_vars => [Contract!ContractNext]_(Contract!contractVars)
  <2>1. CInv /\ UNCHANGED vars => UNCHANGED Contract!contractVars
    BY DEF vars, thread, pipes, procs, readers, Contract!contractVars, Stage, Worker,
       Outcome, Sent
  <2> QED
    BY <2>1, StartKeepsContract, WaitKeepsContract, FindingKeepsContract,
       StopKeepsContract, OthersKeepContract DEF Next, MainStep
<1> QED
  BY <1>1, <1>2, <1>3, <1>4, PTL DEF Spec, ImplementsContract, Contract!ContractSpec
===============================================================================
