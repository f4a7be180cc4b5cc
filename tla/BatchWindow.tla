----------------------------- MODULE BatchWindow -----------------------------
(***************************************************************************)
(* The batch window (app/src/batch_exec): the rows it shows, start, stop   *)
(* and retry of the failed hosts, and the task that listens to the events  *)
(* of the batch it dispatched.  The events wait in three queues, one per   *)
(* topic; a select polls start, then output, then done, and the threads of *)
(* the batch may emit between two polls.  A host that fails at once may    *)
(* emit both its events between the polls of start and of output: its      *)
(* output is then applied before its start, and the row says "running".    *)
(*                                                                         *)
(* A batch the window no longer listens to (stopped) goes on, unseen: the  *)
(* next dispatch takes its place in this model.                            *)
(***************************************************************************)
EXTENDS BatchExecution

CONSTANT MaxTasks   \* bound on the batches dispatched

ASSUME WindowAssumption == MaxTasks \in Nat

VARIABLES
  rows,        \* runs: the status of each host's row
  executing,   \* BatchExecWindow.executing
  listening,   \* run_task is there, with its three receivers
  dispatch,    \* what became of exec::dispatch
  want,        \* the hosts of the last dispatch (last_params)
  polled,      \* the queue the select polls next
  seenStart, seenOutput,  \* the events taken from the queues
  overtaken,   \* history: the hosts whose start was applied after their output
  asked,       \* stop has asked for cancel_execution
  tasks        \* batches dispatched so far

windowVars == <<rows, executing, listening, dispatch, want, polled, seenStart,
                seenOutput, overtaken, asked, tasks>>
screenVars == <<batchVars, windowVars>>

Status == {"absent", "pending", "running", "success", "failed"}
Active == {h \in Host : rows[h] \in {"pending", "running"}}

StartsSent == {h \in batch : thread[h] \in {"running", "over"}}
OutputsSent == {h \in batch : outcome[h] # "none"}
UnreadStarts == StartsSent \ seenStart
UnreadOutputs == OutputsSent \ seenOutput

WindowInit ==
  /\ BatchIs([Dispatched({}) EXCEPT !.phase = "finished"])
  /\ alive = TRUE
  /\ rows = [h \in Host |-> "absent"]
  /\ executing = FALSE /\ listening = FALSE
  /\ dispatch = "none"
  /\ want = {}
  /\ polled = "start"
  /\ seenStart = {} /\ seenOutput = {} /\ overtaken = {}
  /\ asked = FALSE
  /\ tasks = 0
-----------------------------------------------------------------------------
(* do_execute: a new task with its own subscriptions. *)
Begin(hosts) ==
  /\ tasks < MaxTasks
  /\ tasks' = tasks + 1
  /\ executing' = TRUE /\ listening' = TRUE
  /\ dispatch' = "sent"
  /\ want' = hosts
  /\ polled' = "start"
  /\ seenStart' = {} /\ seenOutput' = {}
  /\ overtaken' = overtaken \ hosts
  /\ asked' = FALSE
  /\ UNCHANGED batchVars

Execute(hosts) ==
  /\ ~executing /\ hosts # {}
  /\ rows' = [h \in Host |-> IF h \in hosts THEN "pending" ELSE "absent"]
  /\ Begin(hosts)

RetryAll ==
  /\ ~executing
  /\ LET failed == {h \in Host : rows[h] = "failed"} IN
       /\ failed # {}
       /\ rows' = [h \in Host |-> IF h \in failed THEN "pending" ELSE rows[h]]
       /\ Begin({h \in Host : rows[h] # "absent"})

(* retry_failed: only the rows of the failed hosts are reset and run. *)
RetryFailed ==
  /\ ~executing
  /\ LET failed == {h \in Host : rows[h] = "failed"} IN
       /\ failed # {}
       /\ rows' = [h \in Host |-> IF h \in failed THEN "pending" ELSE rows[h]]
       /\ Begin(failed)

(* The worker thread runs execute_command ... *)
WorkerDispatches ==
  /\ dispatch = "sent"
  /\ dispatch' = "ok"
  /\ LET d == Dispatched(want) IN
       /\ batch' = d.batch /\ phase' = d.phase /\ todo' = d.todo
       /\ current' = d.current /\ handles' = d.handles
       /\ thread' = d.thread /\ outcome' = d.outcome
       /\ success' = d.success /\ fail' = d.fail /\ pending' = d.pending
       /\ details' = d.details /\ history' = d.history
       /\ lastStatus' = d.lastStatus /\ done' = d.done
       /\ cancelled' = d.cancelled
  /\ UNCHANGED <<alive, rows, executing, listening, want, polled, seenStart,
                 seenOutput, overtaken, asked, tasks>>

(* ... which fails if a host is gone or its secrets cannot be read. *)
WorkerRefuses ==
  /\ dispatch = "sent"
  /\ dispatch' = "error"
  /\ UNCHANGED <<batchVars, rows, executing, listening, want, polled,
                 seenStart, seenOutput, overtaken, asked, tasks>>

HearErrorAndWait ==
  /\ listening /\ dispatch = "error"
  /\ listening' = FALSE
  /\ UNCHANGED <<batchVars, rows, executing, dispatch, want, polled,
                 seenStart, seenOutput, overtaken, asked, tasks>>

HearError ==
  /\ listening /\ dispatch = "error"
  /\ executing' = FALSE /\ listening' = FALSE
  /\ UNCHANGED <<batchVars, rows, dispatch, want, polled, seenStart,
                 seenOutput, overtaken, asked, tasks>>

Hears(q) == listening /\ dispatch = "ok" /\ polled = q

(* apply_start *)
TakeStart(h) ==
  /\ Hears("start") /\ h \in UnreadStarts
  /\ seenStart' = seenStart \cup {h}
  /\ overtaken' = overtaken \cup ({h} \cap seenOutput)
  /\ rows' = [rows EXCEPT ![h] = "running"]
  /\ UNCHANGED <<batchVars, executing, listening, dispatch, want, polled,
                 seenOutput, asked, tasks>>

(* apply_output; the loop begins a new select *)
TakeOutput(h) ==
  /\ Hears("output") /\ h \in UnreadOutputs
  /\ seenOutput' = seenOutput \cup {h}
  /\ rows' = [rows EXCEPT ![h] = outcome[h]]
  /\ polled' = "start"
  /\ UNCHANGED <<batchVars, executing, listening, dispatch, want, seenStart,
                 overtaken, asked, tasks>>

TakeDoneOnly ==
  /\ Hears("done") /\ done
  /\ executing' = FALSE /\ listening' = FALSE
  /\ UNCHANGED <<batchVars, rows, dispatch, want, polled, seenStart, seenOutput,
                 overtaken, asked, tasks>>

(* done: the outputs still queued are applied first. *)
TakeDone ==
  /\ Hears("done") /\ done
  /\ rows' = [h \in Host |-> IF h \in UnreadOutputs THEN outcome[h] ELSE rows[h]]
  /\ seenOutput' = OutputsSent
  /\ executing' = FALSE /\ listening' = FALSE
  /\ UNCHANGED <<batchVars, dispatch, want, polled, seenStart, overtaken,
                 asked, tasks>>

(* The queue polled is empty: the select goes on to the next, and sleeps    *)
(* after the last until an event wakes it.                                  *)
PollNext ==
  /\ \/ Hears("start") /\ UnreadStarts = {} /\ polled' = "output"
     \/ Hears("output") /\ UnreadOutputs = {} /\ polled' = "done"
     \/ Hears("done") /\ ~done /\ polled' = "start"
  /\ UNCHANGED <<batchVars, rows, executing, listening, dispatch, want,
                 seenStart, seenOutput, overtaken, asked, tasks>>

StopListeningOn ==
  /\ executing
  /\ asked' = TRUE
  /\ executing' = FALSE
  /\ rows' = [h \in Host |-> IF h \in Active THEN "failed" ELSE rows[h]]
  /\ UNCHANGED <<batchVars, listening, dispatch, want, polled, seenStart,
                 seenOutput, overtaken, tasks>>

(* stop: cancel_execution is sent off, the listener is dropped, and every   *)
(* row still waiting counts as failed (mark_cancelled).                     *)
Stop ==
  /\ executing
  /\ asked' = TRUE
  /\ executing' = FALSE /\ listening' = FALSE
  /\ rows' = [h \in Host |-> IF h \in Active THEN "failed" ELSE rows[h]]
  /\ UNCHANGED <<batchVars, dispatch, want, polled, seenStart, seenOutput,
                 overtaken, tasks>>

(* clear *)
Clear ==
  /\ rows' = [h \in Host |-> "absent"]
  /\ executing' = FALSE /\ listening' = FALSE
  /\ UNCHANGED <<batchVars, dispatch, want, polled, seenStart, seenOutput,
                 overtaken, asked, tasks>>

CancelArrives ==
  /\ asked /\ dispatch = "ok"
  /\ Cancel
  /\ asked' = FALSE
  /\ UNCHANGED <<rows, executing, listening, dispatch, want, polled,
                 seenStart, seenOutput, overtaken, tasks>>

(* A step of the batch.                                                     *)
BatchStep ==
  /\ dispatch = "ok"
  /\ Coordinator \/ \E h \in Host : HostThread(h)
  /\ UNCHANGED windowVars

Listener ==
  \/ HearError
  \/ \E h \in Host : TakeStart(h) \/ TakeOutput(h)
  \/ TakeDone
  \/ PollNext

WindowNext ==
  \/ \E hosts \in SUBSET Host : Execute(hosts)
  \/ RetryFailed
  \/ WorkerDispatches
  \/ WorkerRefuses
  \/ Listener
  \/ Stop
  \/ Clear
  \/ CancelArrives
  \/ BatchStep

(* The worker, the batch's threads (whose commands end) and the window's    *)
(* task all run.                                                            *)
WindowSpec ==
  /\ WindowInit /\ [][WindowNext]_screenVars
  /\ WF_screenVars(WorkerDispatches \/ WorkerRefuses)
  /\ WF_screenVars(BatchStep)
  /\ WF_screenVars(Listener)
-----------------------------------------------------------------------------
WindowTypeOK ==
  /\ TypeOK
  /\ rows \in [Host -> Status]
  /\ executing \in BOOLEAN /\ listening \in BOOLEAN /\ asked \in BOOLEAN
  /\ dispatch \in {"none", "sent", "ok", "error"}
  /\ polled \in {"start", "output", "done"}
  /\ want \subseteq Host /\ seenStart \subseteq Host /\ seenOutput \subseteq Host
  /\ overtaken \subseteq Host
  /\ tasks \in 0 .. MaxTasks

(* A row of the batch being listened to never shows success or failure that *)
(* its host did not report: no event of an earlier batch or of a stopped    *)
(* one gets into it.                                                        *)
RowsAreReported ==
  listening /\ dispatch = "ok" =>
    \A h \in batch :
      rows[h] \in {"success", "failed"} => h \in seenOutput /\ rows[h] = outcome[h]

(* A result that was applied stays in its row while the batch is on show,   *)
(* except that a start read after it puts the row back to running; such a   *)
(* host has ended: the window waits for nothing more from it.               *)
ResultsStay ==
  dispatch = "ok" =>
    /\ overtaken \cap batch \subseteq seenStart \cap seenOutput
    /\ \A h \in (batch \cap seenOutput) \ overtaken :
         rows[h] = outcome[h] \/ (~executing /\ rows[h] = "absent")

(* When the window says it is not executing, no host is waited for: each    *)
(* was reported or counted as failed by stop, and a row that still says     *)
(* running is one whose start was read after its result.  (A dispatch that  *)
(* fails leaves its rows pending.)                                          *)
RowsSettled ==
  ~executing /\ dispatch # "error" =>
    \A h \in Active : rows[h] = "running" /\ h \in overtaken

(* Rows and executing agree with the batch on show, types included.         *)
WindowInv == WindowTypeOK /\ RowsAreReported /\ ResultsStay /\ RowsSettled

(* Once the user stopped or the batch is over, rows change only when the    *)
(* user clears them or starts again.                                        *)
NoLateEvent ==
  [][~executing /\ ~executing' =>
       rows' = rows \/ rows' = [h \in Host |-> "absent"]]_screenVars

(* A retry runs the failed hosts again and keeps the results of the others: *)
(* a row that succeeded stays, until the user starts afresh or clears, or   *)
(* the host's own start of the same batch is read after its success.        *)
SuccessIsKept ==
  [][\A h \in Host : rows[h] = "success" =>
       \/ rows'[h] = "success"
       \/ rows'[h] = "running" /\ h \in seenOutput /\ h \in overtaken' \ overtaken
       \/ executing' /\ ~executing /\ \A g \in Host : rows'[g] \in {"absent", "pending"}
       \/ rows' = [g \in Host |-> "absent"]]_screenVars

(* An executing window has its task, and the batch the task waits for is    *)
(* under way, waits for a command, or has told that it is done.             *)
WindowGoesOn ==
  executing =>
    /\ listening /\ dispatch \in {"sent", "error", "ok"}
    /\ dispatch = "ok" => done \/ CoordinatorGoesOn \/ Head(handles) \in Live

(* The window leaves the executing state when the commands end.             *)
ExecutionEnds == executing ~> ~executing

=============================================================================
