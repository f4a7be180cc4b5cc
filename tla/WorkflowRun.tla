----------------------------- MODULE WorkflowRun -----------------------------
(***************************************************************************)
(* The workflow run of the app (app/src/workflow/run.rs) around the        *)
(* executor: start, stop, the per-node statuses, and the manual            *)
(* confirmation, which travels from the executor through a channel to the  *)
(* window, is shown, answered by the user and sent back (runtime.rs).      *)
(*                                                                         *)
(* The executor, the task that receives confirmation requests and the      *)
(* user's clicks all run on the window's thread, in any order: a step of   *)
(* the executor is what it does from one await to the next, so it starts a *)
(* node and posts its confirmation request in one step, and ends and       *)
(* resets the run in one step.                                             *)
(***************************************************************************)
EXTENDS WorkflowExecutor, Sequences

CONSTANT MaxRuns   \* bound on the runs started

ASSUME MaxRunsAssumption == MaxRuns \in Nat

VARIABLES
  running,    \* WorkflowRun.running
  status,     \* WorkflowRun.statuses
  requests,   \* confirmation requests sent and not yet received
  pending,    \* WorkflowRun.pending: the node whose confirmation is shown
  reply,      \* what was sent back to the node waiting for a confirmation
  runs        \* runs started so far

uiVars == <<running, status, requests, pending, reply, runs>>
runVars == <<vars, uiVars>>

IsConfirm(n) == workflow.kind[n] = "confirm"

RunInit ==
  /\ Init /\ phase = "finished"
  /\ running = FALSE
  /\ status = [n \in Node |-> "none"]
  /\ requests = <<>>
  /\ pending = NoNode
  /\ reply = "none"
  /\ runs = 0

KeepStatuses == UNCHANGED status
ClearStatuses == status' = [n \in Node |-> "none"]

(* The user runs a workflow; a second start while one runs does nothing. *)
Start ==
  /\ ~running /\ runs < MaxRuns
  /\ \E w \in Workflows :
       /\ workflow' = w
       /\ phase' = Begun(w).phase /\ ending' = Begun(w).ending
       /\ nextReady' = Begun(w).ready /\ inDegree' = Begun(w).inDegree
  /\ ready' = {} /\ processed' = {} /\ current' = NoNode /\ level' = 0
  /\ result' = [n \in Node |-> "none"]
  /\ cancelled' = FALSE
  /\ running' = TRUE
  /\ ClearStatuses
  /\ requests' = <<>>
  /\ reply' = "none"
  /\ runs' = runs + 1
  /\ UNCHANGED pending

(* The end of the task started by start: the run is over for the UI.      *)
Over == running' = FALSE /\ pending' = NoNode

(* No step was enabled: the executor returns when it is first polled. *)
ReturnAtOnce ==
  /\ running /\ phase = "finished"
  /\ Over
  /\ UNCHANGED <<vars, status, requests, reply, runs>>

(* NodeStart reaches the statuses; a confirm node also posts its request. *)
NodeStarts(n) ==
  /\ status' = [status EXCEPT ![n] = "running"]
  /\ requests' = IF IsConfirm(n) THEN Append(requests, n) ELSE requests
  /\ UNCHANGED <<running, pending, reply, runs>>

RunStep ==
  \/ NextLevel /\ UNCHANGED uiVars
  \/ \E n \in Node : Pause(n) /\ UNCHANGED uiVars
  \/ \E n \in Node : StartNode(n) /\ NodeStarts(n)
  \/ StartAfterPause /\ NodeStarts(current)
  \/ (Complete \/ Terminate) /\ Over
       /\ UNCHANGED <<status, requests, reply, runs>>
  \/ \E r \in Result :
       /\ FinishNode(r)
       /\ IsConfirm(current) => reply = "yes"
       /\ status' = [status EXCEPT ![current] =
                       IF r = "fail" THEN "fail" ELSE "success"]
       /\ reply' = "none"
       /\ UNCHANGED <<running, requests, pending, runs>>
  \/ /\ RefuseConfirm /\ reply = "no"
     /\ status' = [status EXCEPT ![current] = "fail"]
     /\ reply' = "none"
     /\ Over
     /\ UNCHANGED <<requests, runs>>

(* The receiving task shows the next confirmation in a dialog. *)
RequestConfirm ==
  /\ requests # <<>>
  /\ pending' = Head(requests)
  /\ requests' = Tail(requests)
  /\ UNCHANGED <<vars, running, status, reply, runs>>

(* The user answers the dialog. *)
AnswerConfirm(ok) ==
  /\ pending # NoNode
  /\ pending' = NoNode
  /\ reply' = IF ok THEN "yes" ELSE "no"
  /\ UNCHANGED <<vars, running, status, requests, runs>>

StopWithoutReply ==
  /\ running
  /\ cancelled' = TRUE
  /\ pending' = NoNode
  /\ UNCHANGED <<execVars, running, status, requests, reply, runs>>

(* The user presses stop: the flag, and "no" to a dialog that is open. *)
Stop ==
  /\ running
  /\ cancelled' = TRUE
  /\ pending' = NoNode
  /\ reply' = IF pending # NoNode THEN "no" ELSE reply
  /\ UNCHANGED <<execVars, running, status, requests, runs>>

RunNext ==
  \/ Start
  \/ ReturnAtOnce
  \/ RunStep
  \/ RequestConfirm
  \/ \E ok \in BOOLEAN : AnswerConfirm(ok)
  \/ Stop

(* The window's thread runs every task that is ready; runtime calls return *)
(* (a command's wait is capped).  Nobody has to click.                     *)
TaskFairness ==
  WF_runVars(ReturnAtOnce) /\ WF_runVars(RunStep) /\ WF_runVars(RequestConfirm)

RunSpec == RunInit /\ [][RunNext]_runVars /\ TaskFairness

(* The same, with a user who answers every dialog. *)
AttendedRunSpec ==
  RunSpec /\ WF_runVars(\E ok \in BOOLEAN : AnswerConfirm(ok))
-----------------------------------------------------------------------------
RunTypeOK ==
  /\ TypeOK
  /\ running \in BOOLEAN
  /\ status \in [Node -> {"none", "running", "success", "fail"}]
  /\ requests \in Seq(Node)
  /\ pending \in Node \cup {NoNode}
  /\ reply \in {"none", "yes", "no"}
  /\ runs \in 0 .. MaxRuns

(* What the canvas shows is what the executor did: exactly the current node *)
(* spins, and no node is left spinning by a stop, a refusal or an end.      *)
StatusesMatch ==
  \A n \in Node :
    /\ status[n] = "running" <=> n \in Running
    /\ status[n] = "fail" <=> result[n] = "fail"
    /\ status[n] = "success" <=> n \in Completed /\ result[n] # "fail"

(* A node waiting for a confirmation has it in exactly one place: on its    *)
(* way, shown, or answered; and nothing is shown or on its way for a node   *)
(* that does not wait.  Otherwise the run would hang, or a dialog would     *)
(* answer a later run.                                                      *)
ConfirmationInOnePlace ==
  IF phase = "node" /\ IsConfirm(current)
  THEN <<requests, pending, reply>> \in
         {<< <<current>>, NoNode, "none">>, << <<>>, current, "none">>,
          << <<>>, NoNode, "yes">>, << <<>>, NoNode, "no">>}
  ELSE requests = <<>> /\ pending = NoNode /\ reply = "none"

(* The canvas and the dialog agree with the executor, types included.       *)
RunInv == RunTypeOK /\ StatusesMatch /\ ConfirmationInOnePlace

(* Every run ends if the user answers what is asked, also one that was      *)
(* stopped while a confirmation was open or on its way.                     *)
RunsEnd == running ~> ~running

(* The reason, without fairness: every step of the executor, every request  *)
(* shown and every answer brings the run nearer to its end, and a stop      *)
(* takes nothing back; only a start makes new work.                         *)
ConfirmationSteps ==
  IF requests # <<>> THEN 2 ELSE IF pending # NoNode THEN 1 ELSE 0
EndingSteps == IF running THEN 1 ELSE 0
RunStepsLeft == 3 * StepsLeft + ConfirmationSteps + EndingSteps
RunStepsRunOut ==
  [][/\ ~Start => RunStepsLeft' <= RunStepsLeft
     /\ ReturnAtOnce \/ RunStep \/ RequestConfirm \/ (\E ok \in BOOLEAN : AnswerConfirm(ok))
          => RunStepsLeft' < RunStepsLeft]_runVars

=============================================================================
