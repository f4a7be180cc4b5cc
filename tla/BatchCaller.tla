---------------------------- MODULE BatchCaller ----------------------------
(***************************************************************************)
(* A batch and the one who asked for it and waits for it:                  *)
(*   - a command node of a workflow (AppRuntime::run_command of            *)
(*     app/src/workflow/runtime.rs) subscribes to the outputs and to done, *)
(*     dispatches, waits for done but no longer than its cap, and folds    *)
(*     the outputs received so far into the node's result;                 *)
(*   - an outside agent (run_script, run_json and stop_script_run of       *)
(*     app/src/mcp_bridge/vault.rs) subscribes to done, dispatches, waits  *)
(*     for done but no longer than it said, and reads the batch's rows;    *)
(*     later it reads them again, or stops a batch that it reads as        *)
(*     running.                                                            *)
(*                                                                         *)
(* A call that changes something is made twice, first as a dry run before  *)
(* the approval; a dry run only reads.                                     *)
(***************************************************************************)
EXTENDS BatchExecution

VARIABLES
  caller,    \* "node" or "agent"
  step,      \* what the caller does
  heard,     \* the wait ended because of done
  folded,    \* the hosts whose output the node folded
  ok,        \* CommandOutput.success of the node
  stopping,  \* the agent's call is stop_script_run
  row,       \* the history row the call has read
  report     \* what the agent was told last: the row, and the hosts reported

callerVars == <<caller, step, heard, folded, ok, stopping, row, report>>
allVars == <<batchVars, callerVars>>

Step == {"dispatch", "refused", "wait", "row", "details", "cancel", "over"}
Reported == {h \in batch : outcome[h] # "none"}

(* fold_outputs: any failed host fails the node. *)
Fold(hosts) == \A h \in hosts : outcome[h] # "failed"

CallerInit ==
  /\ Init
  /\ caller \in {"node", "agent"}
  /\ step = "dispatch"
  /\ heard = FALSE
  /\ folded = {} /\ ok = FALSE
  /\ stopping = FALSE
  /\ row = Open
  /\ report = [row |-> Open, hosts |-> {}]

DispatchOk ==
  /\ alive /\ step = "dispatch" /\ step' = "wait"
  /\ UNCHANGED <<batchVars, caller, heard, folded, ok, stopping, row, report>>

DispatchFails ==
  /\ alive /\ step = "dispatch" /\ step' = "refused"
  /\ UNCHANGED <<batchVars, caller, heard, folded, ok, stopping, row, report>>

Waiting(who) == alive /\ step = "wait" /\ caller = who

(* The node returns with what it has received. *)
Return ==
  /\ Waiting("node") /\ step' = "over"
  /\ folded' = Reported
  /\ ok' = Fold(Reported)
  /\ UNCHANGED <<batchVars, caller, stopping, row, report>>

(* Mutant: the first output is taken for the end. *)
ReturnAtFirstOutput == Reported # {} /\ Return /\ heard' = TRUE

ReturnOnDone == done /\ Return /\ heard' = TRUE

(* "a stuck host must not hang the workflow" *)
ReturnOnCap == Return /\ UNCHANGED heard

(* The agent has waited: for done, or for wait_seconds, which may be zero. *)
WaitEnds ==
  /\ Waiting("agent") /\ step' = "row"
  /\ heard' \in {FALSE, done}
  /\ UNCHANGED <<batchVars, caller, folded, ok, stopping, row, report>>

(* run_json, two reads of the database ... *)
ReadRow ==
  /\ alive /\ step = "row" /\ step' = "details"
  /\ row' = history
  /\ UNCHANGED <<batchVars, caller, heard, folded, ok, stopping, report>>

(* ... and what it answers; a stop goes on unless the row was complete. *)
ReadDetails ==
  /\ alive /\ step = "details"
  /\ step' = IF stopping /\ ~row.completed THEN "cancel" ELSE "over"
  /\ report' = [row |-> row, hosts |-> details]
  /\ UNCHANGED <<batchVars, caller, heard, folded, ok, stopping, row>>

(* vault_get_script_run or vault_stop_script_run. *)
AskAgain ==
  /\ alive /\ caller = "agent" /\ step = "over" /\ step' = "row"
  /\ stopping' \in BOOLEAN
  /\ UNCHANGED <<batchVars, caller, heard, folded, ok, row, report>>

(* cancel_execution; the batch may be over by now. *)
StopRun ==
  /\ alive /\ step = "cancel" /\ step' = "over"
  /\ Cancel \/ (cancelled /\ UNCHANGED batchVars)
  /\ UNCHANGED <<caller, heard, folded, ok, stopping, row, report>>

Runs == step \notin {"dispatch", "refused"}
BatchGoesOn == Runs /\ BatchNext /\ UNCHANGED callerVars
ProcessExits == Exit /\ UNCHANGED callerVars

CallerNext ==
  \/ DispatchOk
  \/ DispatchFails
  \/ ReturnOnDone
  \/ ReturnOnCap
  \/ WaitEnds
  \/ ReadRow
  \/ ReadDetails
  \/ AskAgain
  \/ StopRun
  \/ BatchGoesOn
  \/ ProcessExits

(* The threads of the batch run and every command, or the connection under *)
(* it, ends.  Nothing is assumed of the caller.                            *)
CallerSpec ==
  /\ CallerInit /\ [][CallerNext]_allVars
  /\ WF_allVars(Runs /\ Coordinator /\ UNCHANGED callerVars)
  /\ \A h \in Host : WF_allVars(Runs /\ HostThread(h) /\ UNCHANGED callerVars)
-----------------------------------------------------------------------------
CallerTypeOK ==
  /\ TypeOK
  /\ caller \in {"node", "agent"} /\ step \in Step
  /\ heard \in BOOLEAN /\ ok \in BOOLEAN /\ stopping \in BOOLEAN
  /\ folded \subseteq batch
  /\ report.hosts \subseteq batch

(* A node that returned because the batch was done has every host's output, *)
(* though done and the outputs come on two queues, and it succeeds exactly  *)
(* if the batch counted no failure.                                         *)
DoneMeansAll ==
  caller = "node" /\ heard => folded = batch /\ (ok <=> fail = 0)

(* What an agent is told: the two reads of run_json are apart and the batch *)
(* goes on between them, yet a run told as completed counts every host, as  *)
(* announced, and has the details of every host that ran; and an agent that *)
(* waited for done is never told that the run is running.                   *)
ReportIsWhole ==
  /\ report.row.completed =>
       /\ report.hosts = batch \ Skipped
       /\ report.row.success + report.row.fail = Cardinality(batch)
       /\ report.row.success = Cardinality({h \in batch : outcome[h] = "success"})
  /\ heard /\ caller = "agent" /\ step = "over" => report.row.completed

(* What is read once the row is complete is read for good, and done is heard *)
(* after it: the facts that the two properties above follow from.            *)
ReadsAreFinal ==
  /\ row.completed => row = history
  /\ report.row.completed => report.row = history /\ report.hosts = details
  /\ heard => done
  /\ heard /\ caller = "agent" =>
       /\ step \in {"row", "details", "over"}
       /\ step = "details" => row.completed
       /\ step = "over" => report.row.completed
  /\ heard /\ caller = "node" => step = "over"

CallerInv == CallerTypeOK /\ DoneMeansAll /\ ReportIsWhole /\ ReadsAreFinal

(* A batch that was dispatched ends whenever every command ends: whatever   *)
(* its caller does, and also after a stop.                                  *)
Ends == Runs ~> (done \/ ~alive)

=============================================================================
