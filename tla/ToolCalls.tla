----------------------------- MODULE ToolCalls -----------------------------
(***************************************************************************)
(* The tool calls that come in through the MCP bridge, from the queue to   *)
(* the main thread to the answer: dispatch (app/src/mcp_bridge/mod.rs),    *)
(* the permission checks and the approvals of the activity window          *)
(* (activity.rs, tools.rs), and, for terminal_execute, the tracked         *)
(* execution in the terminal (app/src/terminal/executions.rs, pane.rs),    *)
(* where commands run one at a time and are recognised by a marker that    *)
(* the shell prints.                                                       *)
(*                                                                         *)
(* Two documents hold the permission mode: the preferences in memory, and  *)
(* the row of the database, saved after every change by one background     *)
(* task at a time.  A command is assessed by the row, everything else goes *)
(* by the memory.  The caller waits at most CALL_TIMEOUT, and the call     *)
(* goes on whether it waits or not, so callers are not in the model.       *)
(***************************************************************************)
EXTENDS Naturals, Sequences

CONSTANTS
  Call,        \* the tool calls
  None,
  Risks,       \* what the built-in assessment may say of a command
  MaxChanges   \* bound on the changes of the permission mode

Mode == {"observer", "confirm", "auto"}
Risk == {"safe", "low", "high", "block"}
Prefs == [mode : Mode, grant : BOOLEAN]

ASSUME CallsAssumption ==
  /\ None \notin Call /\ Risks \subseteq Risk
  /\ MaxChanges \in Nat

VARIABLES
  tool,        \* terminal_execute, or one of tools.rs that changes something
  calls,       \* the queue of BridgeCalls to the main thread
  work,        \* how far the task of a call is
  risk,        \* of its command, before the preferences are looked at
  limits,      \* the mode the task has read
  verdict,     \* the assessment it has got
  record,      \* the status of its record in the activity window
  approvals,   \* the calls whose record waits for the user
  decision,    \* what the user said, on its way to the task
  prefs, row, saving, dirty, changes,  \* PrefsStore, and the row it saves
  closed,      \* TerminalPane.closed
  queue, active, result,   \* ExecutionTracker, and its answers on their way
  typed,       \* commands in the terminal that the shell has not finished
  stream,      \* markers on their way to the pane
  allowed      \* preferences that need no approval were in force meanwhile

judgeVars == <<risk, limits, verdict>>
activityVars == <<record, approvals, decision>>
storeVars == <<prefs, row, saving, dirty, changes, allowed>>
trackerVars == <<queue, active, result>>
paneVars == <<closed, trackerVars, typed, stream>>
httpVars == <<tool, calls>>
callVars == <<tool, httpVars, work, judgeVars, activityVars, storeVars, paneVars>>

(* What preferences let a call do without asking; a grant, once given, is  *)
(* taken to cover every call.                                              *)
Allows(p, c, r) ==
  \/ p.mode = "auto" /\ r # "block"
  \/ p.mode = "confirm" /\ p.grant /\ (tool[c] = "execute" => r = "low")
  \/ p.mode = "confirm" /\ tool[c] = "execute" /\ r = "safe"

CallsInit ==
  /\ tool = [c \in Call |-> "none"] /\ calls = <<>>
  /\ work = [c \in Call |-> "none"]
  /\ risk = [c \in Call |-> "none"]
  /\ limits = [c \in Call |-> "none"] /\ verdict = [c \in Call |-> "none"]
  /\ record = [c \in Call |-> "none"] /\ approvals = {}
  /\ decision = [c \in Call |-> "none"]
  /\ prefs \in [mode : Mode, grant : {FALSE}]
  /\ row = prefs /\ saving = <<>> /\ dirty = FALSE /\ changes = 0
  /\ closed = FALSE
  /\ queue = <<>> /\ active = None /\ result = [c \in Call |-> "none"]
  /\ typed = <<>> /\ stream = <<>>
  /\ allowed = [c \in Call |-> FALSE]
-----------------------------------------------------------------------------
(* handle_rpc sends the call to the main thread. *)
Send(c) ==
  /\ work[c] = "none" /\ work' = [work EXCEPT ![c] = "sent"]
  /\ \E t \in {"execute", "alter"} : tool' = [tool EXCEPT ![c] = t]
  /\ calls' = Append(calls, c)
  /\ UNCHANGED <<judgeVars, activityVars, storeVars, paneVars>>

(* activity.finish and the reply, in one step of the main thread. *)
Finish(c, how) ==
  /\ work' = [work EXCEPT ![c] = "over"]
  /\ record' = [record EXCEPT ![c] = how]
  /\ approvals' = approvals \ {c}
  /\ UNCHANGED decision

ForgetJudgement(c) ==
  /\ risk' = [risk EXCEPT ![c] = "none"]
  /\ limits' = [limits EXCEPT ![c] = "none"]
  /\ verdict' = [verdict EXCEPT ![c] = "none"]

(* dispatch: a command needs a connected session. *)
Dispatch(c) ==
  /\ calls # <<>> /\ c = Head(calls) /\ calls' = Tail(calls)
  /\ IF tool[c] = "execute" /\ closed
       THEN Finish(c, "failed") /\ UNCHANGED <<judgeVars, allowed>>
       ELSE /\ work' = [work EXCEPT ![c] = "begun"]
            /\ record' = [record EXCEPT ![c] = "running"]
            /\ UNCHANGED <<approvals, decision>>
            /\ \E r \in IF tool[c] = "execute" THEN Risks ELSE {"high"} :
                 /\ risk' = [risk EXCEPT ![c] = r]
                 /\ allowed' = [allowed EXCEPT
                                  ![c] = Allows(prefs, c, r) \/ Allows(row, c, r)]
            /\ UNCHANGED <<limits, verdict>>
  /\ UNCHANGED <<tool, prefs, row, saving, dirty, changes, paneVars>>

(* execute: the mode is read before the command is assessed ... *)
ReadLimits(c) ==
  /\ work[c] = "begun" /\ tool[c] = "execute"
  /\ work' = [work EXCEPT ![c] = "assessing"]
  /\ limits' = [limits EXCEPT ![c] = prefs.mode]
  /\ UNCHANGED <<httpVars, risk, verdict, activityVars, storeVars, paneVars>>

(* ... apply_prefs_policy, over the row of the database ... *)
Assessed(r, p) ==
  IF r = "block" \/ p.mode = "observer" THEN "block"
  ELSE IF r = "low" /\ p.grant THEN "safe"
  ELSE r

Assess(c) ==
  /\ work[c] = "assessing"
  /\ work' = [work EXCEPT ![c] = "assessed"]
  /\ verdict' = [verdict EXCEPT ![c] = Assessed(risk[c], row)]
  /\ UNCHANGED <<httpVars, risk, limits, activityVars, storeVars, paneVars>>

(* "the safety policy could not be evaluated" *)
AssessFails(c) ==
  /\ work[c] = "assessing"
  /\ Finish(c, "denied") /\ ForgetJudgement(c)
  /\ UNCHANGED <<httpVars, storeVars, paneVars>>
-----------------------------------------------------------------------------
(* ExecutionTracker: submit, settle and start_next; what is started is     *)
(* written to the terminal.                                                *)
StartNext(q, a) ==
  IF a = None /\ q # <<>>
    THEN active' = Head(q) /\ queue' = Tail(q) /\ typed' = Append(typed, Head(q))
    ELSE active' = a /\ queue' = q /\ UNCHANGED typed

SettleOnly(how) ==
  /\ result' = [result EXCEPT ![active] = how]
  /\ active' = None /\ UNCHANGED <<queue, typed>>

Settle(how) ==
  /\ result' = [result EXCEPT ![active] = how]
  /\ StartNext(queue, None)

(* execute_command, unless the pane is closed. *)
Submit(c) ==
  /\ IF closed
       THEN result' = [result EXCEPT ![c] = "closed"] /\ UNCHANGED <<queue, active, typed>>
       ELSE StartNext(Append(queue, c), active) /\ UNCHANGED result
  /\ UNCHANGED <<closed, stream>>

(* What the call is for: a command goes to the terminal, another tool does *)
(* its work.                                                               *)
Act(c) ==
  /\ work' = [work EXCEPT ![c] = "acting"]
  /\ IF tool[c] = "execute" THEN Submit(c) ELSE UNCHANGED paneVars

RequestApproval(c) ==
  /\ work' = [work EXCEPT ![c] = "asked"]
  /\ record' = [record EXCEPT ![c] = "pending"]
  /\ approvals' = approvals \cup {c}
  /\ UNCHANGED decision

AskedInConfirmMode(c) == verdict[c] # "safe" /\ limits[c] = "confirm"

NeedsApproval(c) == verdict[c] # "safe" /\ limits[c] # "auto"

(* execute goes on with the mode it read and the assessment. *)
Judge(c) ==
  /\ work[c] = "assessed" /\ ForgetJudgement(c)
  /\ \/ verdict[c] = "block" /\ Finish(c, "denied") /\ UNCHANGED paneVars
     \/ /\ verdict[c] # "block" /\ NeedsApproval(c)
        /\ RequestApproval(c) /\ UNCHANGED paneVars
     \/ /\ verdict[c] # "block" /\ ~NeedsApproval(c)
        /\ Act(c) /\ UNCHANGED activityVars
  /\ UNCHANGED <<httpVars, storeVars>>

(* run of tools.rs: what cannot run is answered before anyone is asked. *)
ValidateFails(c) ==
  /\ work[c] = "begun" /\ tool[c] = "alter"
  /\ Finish(c, "failed") /\ ForgetJudgement(c)
  /\ UNCHANGED <<httpVars, storeVars, paneVars>>

(* authorize: the mode and the grants are read after that. *)
Authorize(c) ==
  /\ work[c] = "begun" /\ tool[c] = "alter" /\ ForgetJudgement(c)
  /\ \/ prefs.mode = "observer" /\ Finish(c, "denied") /\ UNCHANGED paneVars
     \/ /\ prefs.mode = "auto" \/ (prefs.mode = "confirm" /\ prefs.grant)
        /\ Act(c) /\ UNCHANGED activityVars
     \/ /\ prefs.mode = "confirm" /\ ~prefs.grant
        /\ RequestApproval(c) /\ UNCHANGED paneVars
  /\ UNCHANGED <<httpVars, storeVars>>
-----------------------------------------------------------------------------
(* The buttons of the activity window. *)
Decide(c, d) ==
  /\ c \in approvals
  /\ approvals' = approvals \ {c}
  /\ record' = [record EXCEPT ![c] = "running"]
  /\ decision' = [decision EXCEPT ![c] = d]
  /\ UNCHANGED <<httpVars, work, judgeVars, storeVars, paneVars>>

InForce(p) ==
  allowed' = [c \in Call |-> allowed[c] \/ (risk[c] # "none" /\ Allows(p, c, risk[c]))]

(* PrefsStore.update and persist: saves never overlap. *)
Update(p) ==
  /\ prefs' = p /\ InForce(p)
  /\ IF saving # <<>>
       THEN dirty' = TRUE /\ UNCHANGED saving
       ELSE saving' = <<p>> /\ UNCHANGED dirty
  /\ UNCHANGED row

Taken(c) ==
  /\ decision' = [decision EXCEPT ![c] = "none"]
  /\ UNCHANGED <<record, approvals>>

(* The task takes the decision; "always allow" leaves a grant. *)
Resume(c) ==
  /\ work[c] = "asked" /\ decision[c] # "none"
  /\ IF decision[c] = "reject"
       THEN /\ work' = [work EXCEPT ![c] = "over"]
            /\ record' = [record EXCEPT ![c] = "denied"]
            /\ decision' = [decision EXCEPT ![c] = "none"]
            /\ UNCHANGED <<approvals, paneVars>>
       ELSE Act(c) /\ Taken(c)
  /\ IF decision[c] = "always"
       THEN Update([prefs EXCEPT !.grant = TRUE]) /\ UNCHANGED changes
       ELSE UNCHANGED storeVars
  /\ UNCHANGED <<httpVars, judgeVars>>

SetMode(m) ==
  /\ changes < MaxChanges /\ m # prefs.mode
  /\ changes' = changes + 1
  /\ Update([prefs EXCEPT !.mode = m])
  /\ UNCHANGED <<httpVars, work, judgeVars, activityVars, paneVars>>

(* A save ends, well or not, and the next begins if there was a change. *)
SaveEnds(ok) ==
  /\ saving # <<>>
  /\ IF ok THEN row' = Head(saving) /\ InForce(row') ELSE UNCHANGED <<row, allowed>>
  /\ saving' = IF dirty THEN <<prefs>> ELSE <<>>
  /\ dirty' = FALSE
  /\ UNCHANGED <<prefs, changes, httpVars, work, judgeVars, activityVars, paneVars>>

(* clear_finished: the records of open calls stay. *)
ClearFinished ==
  /\ \E c \in Call : record[c] \in {"done", "failed", "denied"}
  /\ record' = [c \in Call |-> IF record[c] \in {"running", "pending"}
                               THEN record[c] ELSE "none"]
  /\ UNCHANGED <<approvals, decision, httpVars, work, judgeVars, storeVars, paneVars>>
-----------------------------------------------------------------------------
ActEnds(c) ==
  /\ work[c] = "acting" /\ tool[c] = "alter"
  /\ \E how \in {"done", "failed"} : Finish(c, how)
  /\ UNCHANGED <<httpVars, judgeVars, storeVars, paneVars>>

(* The result of the execution; its exit code says whether it went well. *)
Returns(c) ==
  /\ work[c] = "acting" /\ result[c] # "none"
  /\ \E how \in {"done", "failed"} :
       (how = "done" => result[c] = "completed") /\ Finish(c, how)
  /\ result' = [result EXCEPT ![c] = "none"]
  /\ UNCHANGED <<httpVars, judgeVars, storeVars, closed, queue, active, typed, stream>>

(* The shell takes the typed lines in order, prints each one's marker, and *)
(* may stay in one for ever.                                               *)
ShellFinishes ==
  /\ typed # <<>> /\ ~closed
  /\ typed' = Tail(typed)
  /\ stream' = Append(stream, Head(typed))
  /\ UNCHANGED <<closed, trackerVars, httpVars, work, judgeVars, activityVars, storeVars>>

OnAnyMarker ==
  /\ stream # <<>> /\ ~closed
  /\ stream' = Tail(stream)
  /\ IF active # None THEN Settle("completed") ELSE UNCHANGED <<trackerVars, typed>>
  /\ UNCHANGED <<closed, httpVars, work, judgeVars, activityVars, storeVars>>

(* on_output: only the marker of the active command ends it. *)
OnOutput ==
  /\ stream # <<>> /\ ~closed
  /\ stream' = Tail(stream)
  /\ IF Head(stream) = active
       THEN Settle("completed") ELSE UNCHANGED <<trackerVars, typed>>
  /\ UNCHANGED <<closed, httpVars, work, judgeVars, activityVars, storeVars>>

(* The detector keeps the last 4096 characters: a marker with more than    *)
(* that behind it in one batch is not found.                               *)
MarkerLost ==
  /\ stream # <<>> /\ ~closed
  /\ stream' = Tail(stream)
  /\ UNCHANGED <<closed, trackerVars, typed, httpVars, work, judgeVars,
                 activityVars, storeVars>>

(* The timer of begin_execution. *)
TimeOut ==
  /\ active # None /\ Settle("timeout")
  /\ UNCHANGED <<closed, stream, httpVars, work, judgeVars, activityVars, storeVars>>

Queued == {queue[i] : i \in DOMAIN queue}
Unsettled == Queued \cup ({active} \ {None})

(* on_closed, fail_all: the session is over, and so is all that waits. *)
OnClosed ==
  /\ ~closed /\ closed' = TRUE
  /\ result' = [c \in Call |-> IF c \in Unsettled THEN "closed" ELSE result[c]]
  /\ queue' = <<>> /\ active' = None /\ typed' = <<>> /\ stream' = <<>>
  /\ UNCHANGED <<httpVars, work, judgeVars, activityVars, storeVars>>
-----------------------------------------------------------------------------
TaskStep(c) ==
  \/ Dispatch(c)
  \/ ReadLimits(c) \/ Assess(c) \/ AssessFails(c) \/ Judge(c)
  \/ ValidateFails(c) \/ Authorize(c)
  \/ Resume(c)
  \/ ActEnds(c) \/ Returns(c)

UserDecides(c) == \E d \in {"approve", "always", "reject"} : Decide(c, d)

CallsNext ==
  \/ \E c \in Call : Send(c) \/ TaskStep(c) \/ UserDecides(c)
  \/ \E m \in Mode : SetMode(m)
  \/ \E ok \in BOOLEAN : SaveEnds(ok)
  \/ ClearFinished
  \/ ShellFinishes \/ OnOutput \/ MarkerLost \/ TimeOut \/ OnClosed

(* The main thread and the timers run, a remote operation returns, and the  *)
(* user answers what is asked; the shell may hang in a command.             *)
CallsSpec ==
  /\ CallsInit /\ [][CallsNext]_callVars
  /\ WF_callVars(TimeOut)
  /\ \A c \in Call : WF_callVars(TaskStep(c)) /\ WF_callVars(UserDecides(c))
-----------------------------------------------------------------------------
CallsTypeOK ==
  /\ tool \in [Call -> {"none", "execute", "alter"}] /\ calls \in Seq(Call)
  /\ work \in [Call -> {"none", "sent", "begun", "assessing", "assessed",
                        "asked", "acting", "over"}]
  /\ risk \in [Call -> Risk \cup {"none"}]
  /\ limits \in [Call -> Mode \cup {"none"}]
  /\ verdict \in [Call -> Risk \cup {"none"}]
  /\ record \in [Call -> {"none", "running", "pending", "done", "failed", "denied"}]
  /\ approvals \subseteq Call
  /\ decision \in [Call -> {"none", "approve", "always", "reject"}]
  /\ prefs \in Prefs /\ row \in Prefs
  /\ saving \in Seq(Prefs) /\ dirty \in BOOLEAN /\ changes \in 0..MaxChanges
  /\ closed \in BOOLEAN
  /\ queue \in Seq(Call) /\ active \in Call \cup {None}
  /\ result \in [Call -> {"none", "completed", "timeout", "closed"}]
  /\ typed \in Seq(Call) /\ stream \in Seq(Call)
  /\ allowed \in [Call -> BOOLEAN]

(* What the window shows as waiting is what the user can answer, and the    *)
(* task of each such call waits for it.                                     *)
AskedIsShown ==
  \A c \in Call :
    /\ record[c] = "pending" <=> c \in approvals
    /\ c \in approvals <=> work[c] = "asked" /\ decision[c] = "none"
    /\ record[c] \in {"running", "pending"} <=> work[c] \notin {"none", "sent", "over"}

(* Each command in the terminal waits in one place, and nothing waits when  *)
(* nothing runs or the pane is closed.                                      *)
TrackerIsExact ==
  /\ \A i, j \in DOMAIN queue : queue[i] = queue[j] => i = j
  /\ active \notin Queued
  /\ active = None => queue = <<>>
  /\ closed => active = None
  /\ Unsettled = {c \in Call : tool[c] = "execute" /\ work[c] = "acting" /\ result[c] = "none"}

(* A command reported as completed is one the shell has finished: another   *)
(* command's marker, late or early, does not end it.                        *)
CompletedIsFinished ==
  \A c \in Call : result[c] = "completed" =>
    c \notin Unsettled /\ \A i \in DOMAIN typed : typed[i] # c

(* While a call is looked at, what the preferences and the row of the       *)
(* database say at present of it has been noted ...                         *)
PresentIsNoted ==
  \A c \in Call : risk[c] # "none" =>
    (Allows(prefs, c, risk[c]) \/ Allows(row, c, risk[c]) => allowed[c])

(* ... and so has what its task once read of them: an old mode, an          *)
(* assessment over an old row.                                              *)
ReadIsNoted ==
  \A c \in Call :
    /\ work[c] = "none" => risk[c] = "none"
    /\ work[c] \in {"begun", "assessing", "assessed"} => risk[c] # "none"
    /\ work[c] = "begun" /\ tool[c] # "execute" => risk[c] = "high"
    /\ work[c] \in {"assessing", "assessed"} =>
         /\ tool[c] = "execute"
         /\ limits[c] = "auto" /\ risk[c] # "block" => allowed[c]
    /\ work[c] = "assessed" =>
         /\ verdict[c] # "block" => risk[c] # "block"
         /\ verdict[c] = "safe" => allowed[c]

(* The records agree with the tasks, the tracker with the commands, and     *)
(* what a task goes by with preferences that were in force.                 *)
CallsInv ==
  /\ CallsTypeOK
  /\ AskedIsShown /\ TrackerIsExact /\ CompletedIsFinished
  /\ PresentIsNoted /\ ReadIsNoted

(* tools.rs: "observer mode refuses, auto mode runs, a matching permission  *)
(* grant runs, anything else waits for the user's decision".  A call that   *)
(* begins to act was approved, or allowed by preferences that memory or the *)
(* database held while it was handled.                                      *)
NothingUnapproved ==
  [][\A c \in Call : work[c] # "acting" /\ work'[c] = "acting" =>
       decision[c] \in {"approve", "always"} \/ allowed[c]]_callVars

(* A call goes through its stages in one direction ...                      *)
CallStage == [none |-> 7, sent |-> 6, begun |-> 5, assessing |-> 4, assessed |-> 3,
              asked |-> 2, acting |-> 1, over |-> 0]
StagesLeft(c) == CallStage[work[c]]
CallsGoOn ==
  [][\A c \in Call : /\ StagesLeft(c)' <= StagesLeft(c)
                     /\ TaskStep(c) => StagesLeft(c)' < StagesLeft(c)]_callVars

(* ... and hangs in none of them: the main thread has it in its queue, the  *)
(* user can answer or has, and what acts in the terminal has its result or  *)
(* waits behind a command that a timer ends.                                *)
NoCallHangs ==
  \A c \in Call :
    /\ work[c] = "sent" => \E i \in DOMAIN calls : calls[i] = c
    /\ work[c] = "asked" => c \in approvals \/ decision[c] # "none"
    /\ work[c] = "acting" /\ tool[c] = "execute" => result[c] # "none" \/ active # None

(* A call that was sent comes to an end, whether or not the shell returns.  *)
CallsEnd == \A c \in Call : work[c] = "sent" ~> work[c] = "over"

=============================================================================
