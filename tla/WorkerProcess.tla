----------------------------- MODULE WorkerProcess -----------------------------
(***************************************************************************)
(* SystemCodexPilotServices._run_codex_process (dev/codex_runner.py): one  *)
(* invocation of a Codex process over three pipes, with a thread reading   *)
(* each output, timeouts, operator interrupts and the termination of the   *)
(* process tree.                                                           *)
(*                                                                         *)
(* The worker is the process that was launched and the helpers it starts.  *)
(* A helper may leave the process group, may keep the pipes it inherited   *)
(* open, and may outlive the worker.  A pipe holds a few items: a write to *)
(* a full pipe blocks, and its readers see its end only when nobody holds  *)
(* its other end.  The prompt is a number of chunks; a line of output is   *)
(* what the parser makes of it.                                            *)
(***************************************************************************)
EXTENDS Integers, Sequences

CONSTANTS
  Helpers,      \* the processes the worker may start
  Escapes,      \* those of them that leave its process group
  PromptChunks, \* the length of the prompt, in chunks
  PipeSize      \* what a pipe holds

ASSUME WorkerAssumption ==
  /\ Escapes \subseteq Helpers
  /\ "leader" \notin Helpers
  /\ PromptChunks \in Nat \ {0}
  /\ PipeSize \in Nat \ {0}

VARIABLES
  main,     \* the call the invoking thread is in
  unsent,   \* the chunks of the prompt not yet written
  stdin,    \* the chunks in the worker's input pipe
  alive,    \* the processes that run
  holds,    \* those of them that hold the pipes open
  code,     \* the worker's exit status
  out,      \* the lines in the output pipe
  err,      \* the lines in the diagnostic pipe
  reader,   \* the thread that parses the output
  diag,     \* the thread that reads the diagnostics
  parsed,   \* what the parser found so far
  why,      \* the verdict if the worker is stopped now
  verdict   \* the status and category returned

thread == <<main, why, verdict>>
pipes == <<unsent, stdin, out, err>>
procs == <<alive, holds, code>>
readers == <<reader, diag, parsed>>
vars == <<thread, pipes, procs, readers>>

Processes == {"leader"} \cup Helpers

\* What the parser makes of a line: of no consequence, turn.completed, an error
\* or no JSON, or longer than it reads.
OutLines == {"note", "completed", "fatal", "too_long"}

ErrLines == {"note", "too_long"}

NoVerdict == [status |-> "none", category |-> "none"]

Verdict(status, category) == [status |-> status, category |-> category]

Uncertain == Verdict("failed", "process_tree_termination_uncertain")

Init ==
  /\ main = "launch"
  /\ unsent = PromptChunks
  /\ stdin = 0
  /\ alive = {}
  /\ holds = {}
  /\ code = "none"
  /\ out = <<>>
  /\ err = <<>>
  /\ reader = "none"
  /\ diag = "none"
  /\ parsed = [fatal |-> FALSE, completed |-> FALSE]
  /\ why = NoVerdict
  /\ verdict = NoVerdict

-----------------------------------------------------------------------------
(***************************************************************************)
(* The invoking thread.                                                    *)
(***************************************************************************)

Goto(next) == main' = next /\ UNCHANGED <<why, verdict>>

Return(v) == main' = "returned" /\ verdict' = v /\ UNCHANGED why

\* The worker is to be stopped, for this reason.
Stop(status, category) ==
  /\ main' = "stop"
  /\ why' = Verdict(status, category)
  /\ UNCHANGED verdict

\* Variant: the prompt is written without on_started having been called.
LaunchUnaudited ==
  /\ main = "launch"
  /\ alive' = {"leader"} /\ holds' = {"leader"}
  /\ Goto("write")
  /\ reader' = "reading" /\ diag' = "reading"
  /\ UNCHANGED <<code, parsed, pipes>>

Launch ==
  /\ main = "launch"
  /\ \/ /\ alive' = {"leader"} /\ holds' = {"leader"}
        /\ Goto("audit")
     \/ /\ Return(Verdict("failed", "codex_launch_failed"))
        /\ UNCHANGED <<alive, holds>>
  /\ UNCHANGED <<code, pipes, readers>>

\* on_started; then the two reading threads are started.
Audit ==
  /\ main = "audit"
  /\ \/ /\ Goto("write")
        /\ reader' = "reading" /\ diag' = "reading"
     \/ /\ Stop("failed", "invocation_start_audit_failed")
        /\ UNCHANGED <<reader, diag>>
  /\ UNCHANGED <<parsed, pipes, procs>>

\* The write blocks while the pipe is full.
WritePrompt ==
  /\ main = "write"
  /\ unsent > 0
  /\ holds # {}
  /\ stdin < PipeSize
  /\ unsent' = unsent - 1
  /\ stdin' = stdin + 1
  /\ UNCHANGED <<out, err, thread, procs, readers>>

BrokenPipe ==
  /\ main = "write"
  /\ holds = {}
  /\ Stop("failed", "codex_stream_failed")
  /\ UNCHANGED <<pipes, procs, readers>>

CloseStdin ==
  /\ main = "write"
  /\ unsent = 0
  /\ Goto("wait")
  /\ UNCHANGED <<pipes, procs, readers>>

WaitReturns ==
  /\ main = "wait"
  /\ "leader" \notin alive
  /\ Goto("collect_out")
  /\ UNCHANGED <<pipes, procs, readers>>

WaitTimesOut ==
  /\ main = "wait"
  /\ Stop("timed_out", "codex_timed_out")
  /\ UNCHANGED <<pipes, procs, readers>>

\* Variant: the parser's result is taken as far as it has got.
CollectPartial ==
  /\ main = "collect_out"
  /\ Goto("collect_err")
  /\ UNCHANGED <<pipes, procs, readers>>

\* reader.result(timeout=10)
CollectOut ==
  /\ main = "collect_out"
  /\ reader = "done"
  /\ Goto("collect_err")
  /\ UNCHANGED <<pipes, procs, readers>>

Finding ==
  IF code # "zero" THEN Verdict("failed", "codex_nonzero_exit")
  ELSE IF parsed.fatal \/ ~parsed.completed
       THEN Verdict("failed", "codex_structured_failure")
  ELSE Verdict("succeeded", "codex_completed")

CollectErr ==
  /\ main = "collect_err"
  /\ diag = "done"
  /\ Return(Finding)
  /\ UNCHANGED <<pipes, procs, readers>>

\* Variant: the results are waited for without a timeout.
NeverTimesOut ==
  /\ main \in {"collect_out", "collect_err"}
  /\ reader = "done" /\ diag = "done"
  /\ Stop("failed", "codex_stream_failed")
  /\ UNCHANGED <<pipes, procs, readers>>

CollectTimesOut ==
  /\ main \in {"collect_out", "collect_err"}
  /\ Stop("failed", "codex_stream_failed")
  /\ UNCHANGED <<pipes, procs, readers>>

\* The operator interrupts the invoking thread.
Interrupt ==
  /\ main \in {"write", "wait", "collect_out", "collect_err"}
  /\ Stop("cancelled", "codex_cancelled")
  /\ UNCHANGED <<pipes, procs, readers>>

\* The executor waits for its threads when the block is left, if they started.
Conclude(v) ==
  /\ verdict' = v
  /\ main' = IF reader = "none" THEN "returned" ELSE "shutdown"
  /\ UNCHANGED why

Kill(killed) ==
  /\ alive' = alive \ killed
  /\ holds' = holds \ killed
  /\ code' = IF "leader" \in alive THEN "nonzero" ELSE code

\* Variant: a request to terminate is taken for the end.
TerminateTrusted ==
  /\ main = "stop"
  /\ \/ Kill({"leader"} \cup (Helpers \ Escapes))
     \/ UNCHANGED procs
  /\ Conclude(why)
  /\ UNCHANGED <<pipes, readers>>

\* _terminate_process_tree: nothing is done if the worker has exited; else its
\* group is killed, or, if that fails, the worker alone; it may still not end.
Terminate ==
  /\ main = "stop"
  /\ \/ /\ "leader" \notin alive
        /\ Conclude(why)
        /\ UNCHANGED procs
     \/ /\ "leader" \in alive
        /\ \/ Kill({"leader"} \cup (Helpers \ Escapes))
           \/ Kill({"leader"})
        /\ Conclude(why)
     \/ /\ "leader" \in alive
        /\ Conclude(Uncertain)
        /\ UNCHANGED procs
  /\ UNCHANGED <<pipes, readers>>

Shutdown ==
  /\ main = "shutdown"
  /\ reader = "done" /\ diag = "done"
  /\ Goto("returned")
  /\ UNCHANGED <<pipes, procs, readers>>

-----------------------------------------------------------------------------
(***************************************************************************)
(* The reading threads.                                                    *)
(***************************************************************************)

\* _parse_codex_jsonl_lines; it stops at a line that is too long.
ReadOut ==
  /\ reader = "reading"
  /\ \/ /\ out # <<>>
        /\ out' = Tail(out)
        /\ IF Head(out) = "too_long"
           THEN /\ reader' = "done"
                /\ parsed' = [fatal |-> TRUE, completed |-> FALSE]
           ELSE /\ parsed' = [fatal     |-> parsed.fatal \/ Head(out) = "fatal",
                              completed |-> parsed.completed \/ Head(out) = "completed"]
                /\ UNCHANGED reader
     \/ /\ out = <<>> /\ holds = {}
        /\ reader' = "done"
        /\ UNCHANGED <<out, parsed>>
  /\ UNCHANGED <<unsent, stdin, err, diag, thread, procs>>

\* _consume_codex_diagnostic_stream; so does it.
ReadErr ==
  /\ diag = "reading"
  /\ \/ /\ err # <<>>
        /\ err' = Tail(err)
        /\ diag' = IF Head(err) = "too_long" THEN "done" ELSE "reading"
     \/ /\ err = <<>> /\ holds = {}
        /\ diag' = "done"
        /\ UNCHANGED err
  /\ UNCHANGED <<unsent, stdin, out, reader, parsed, thread, procs>>

-----------------------------------------------------------------------------
(***************************************************************************)
(* The worker and its helpers.                                             *)
(***************************************************************************)

ReadPrompt ==
  /\ holds # {}
  /\ stdin > 0
  /\ stdin' = stdin - 1
  /\ UNCHANGED <<unsent, out, err, thread, procs, readers>>

WriteOut ==
  /\ holds # {}
  /\ Len(out) < PipeSize
  /\ \E line \in OutLines : out' = Append(out, line)
  /\ UNCHANGED <<unsent, stdin, err, thread, procs, readers>>

WriteErr ==
  /\ holds # {}
  /\ Len(err) < PipeSize
  /\ \E line \in ErrLines : err' = Append(err, line)
  /\ UNCHANGED <<unsent, stdin, out, thread, procs, readers>>

\* A helper inherits the pipes of the process that starts it, or not.
StartHelper(h) ==
  /\ h \notin alive
  /\ \E p \in alive : holds' \in {holds} \cup {holds \cup {h} : q \in holds \cap {p}}
  /\ alive' = alive \cup {h}
  /\ UNCHANGED <<code, pipes, thread, readers>>

LetGo(p) ==
  /\ p \in holds
  /\ holds' = holds \ {p}
  /\ UNCHANGED <<alive, code, pipes, thread, readers>>

Exits(p) ==
  /\ p \in alive
  /\ alive' = alive \ {p}
  /\ holds' = holds \ {p}
  /\ IF p = "leader" THEN code' \in {"zero", "nonzero"} ELSE UNCHANGED code
  /\ UNCHANGED <<pipes, thread, readers>>

MainStep ==
  \/ Launch \/ Audit \/ WritePrompt \/ BrokenPipe \/ CloseStdin
  \/ WaitReturns \/ WaitTimesOut \/ CollectOut \/ CollectErr \/ CollectTimesOut
  \/ Terminate \/ Shutdown

WorkerStep ==
  \/ ReadPrompt \/ WriteOut \/ WriteErr
  \/ \E h \in Helpers : StartHelper(h)
  \/ \E p \in Processes : LetGo(p) \/ Exits(p)

Next == MainStep \/ Interrupt \/ ReadOut \/ ReadErr \/ WorkerStep

Spec == Init /\ [][Next]_vars

\* The three threads go on whenever they can, timeouts included.  Nothing is
\* assumed of the worker.
Fairness == WF_vars(MainStep) /\ WF_vars(ReadOut) /\ WF_vars(ReadErr)

FairSpec == Spec /\ Fairness

-----------------------------------------------------------------------------
(***************************************************************************)
(* Properties.                                                             *)
(***************************************************************************)

\* Success is only reported of a worker that exited with status zero after
\* every line that it or a helper wrote was parsed, and nobody is left to
\* write another.
SuccessIsWhole ==
  verdict.status = "succeeded" =>
    /\ code = "zero"
    /\ out = <<>> /\ holds = {}
    /\ parsed = [fatal |-> FALSE, completed |-> TRUE]

\* Unless it is said to be uncertain, the worker has ended when the verdict is
\* in, whatever raced with its termination.
VerdictMeansEnded ==
  verdict # NoVerdict /\ verdict # Uncertain => "leader" \notin alive

\* No wait lasts for ever but two: for a worker that does not read its prompt,
\* and for the output of processes that outlive their termination.  A worker
\* that fills the pipes of readers that have stopped is one of the many that
\* time out.
WaitsAreBounded ==
  []<>(\/ main = "returned"
       \/ main = "write" /\ stdin = PipeSize /\ holds # {}
       \/ main = "shutdown" /\ holds # {})

\* An invocation comes to an end (docs: "the run has a hard maximum runtime").
InvocationEnds == <>(main = "returned")

Sent == unsent < PromptChunks

\* The stages of the contract.
Stage ==
  CASE main = "launch" -> "launch"
    [] main = "audit" -> "record_started"
    [] main = "stop" /\ reader = "none" -> "record_started"
    [] main = "shutdown" -> "draining"
    [] main = "returned" -> "ended"
    [] OTHER -> IF Sent THEN "working" ELSE "prompt"

Worker ==
  IF main = "launch" \/ (main = "returned" /\ code = "none" /\ alive = {}) THEN "none"
  ELSE IF Sent
       THEN IF "leader" \in alive THEN "prompted"
            ELSE IF alive = {} THEN "dead" ELSE "left_behind"
  ELSE IF verdict # NoVerdict /\ "leader" \notin alive THEN "none" ELSE "launched"

Outcome ==
  CASE verdict = NoVerdict -> "none"
    [] verdict = Uncertain -> "uncertain"
    [] verdict.status = "succeeded" -> "completed"
    [] OTHER -> verdict.status

Contract == INSTANCE WorkerContract WITH
  stage <- Stage, worker <- Worker, outcome <- Outcome

\* The invocation keeps the contract that the run relies on.
ImplementsContract == Contract!ContractSpec
===============================================================================
