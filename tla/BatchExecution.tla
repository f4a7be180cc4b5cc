--------------------------- MODULE BatchExecution ---------------------------
(***************************************************************************)
(* One batch: a command run on many hosts by execute_command of            *)
(* crates/ops-ssh/src/execution.rs.  A coordinator thread goes through the *)
(* hosts, gives each a thread of its own, keeps at most MaxConcurrent of   *)
(* them by joining the oldest, and at the end writes the details, the      *)
(* history row and the quick action, and announces that it is done.        *)
(*                                                                         *)
(* A host's thread announces its start, runs the command over the shared   *)
(* connection and announces the output.  Cancelling inserts a row that the *)
(* coordinator reads before each host.  The process may exit at any time:  *)
(* the threads are gone and the database is what it was.                   *)
(*                                                                         *)
(* Abstracted: the order of the hosts (any), the text of the outputs, the  *)
(* recordings; the database answers, and no thread panics.                 *)
(***************************************************************************)
EXTENDS Integers, Sequences, FiniteSets

CONSTANTS
  Host,           \* the hosts
  MaxConcurrent,  \* clamp_execution_concurrency(concurrency)
  NoHost          \* "no host": not an element of Host

ASSUME BatchAssumption ==
  /\ IsFiniteSet(Host)
  /\ MaxConcurrent \in Nat \ {0}
  /\ NoHost \notin Host

VARIABLES
  batch,      \* host_ids of this task
  phase,      \* where the coordinator is
  todo,       \* the hosts it has not looked at
  current,    \* the host it is about to start
  handles,    \* the host threads it has not joined, oldest first
  thread,     \* what each host's thread is doing
  outcome,    \* the exec:{task}:output event of each host
  success, fail,    \* success_count, fail_count
  pending,    \* pending_db_writes
  details,    \* the hosts with a row in execution_details
  history,    \* the row in execution_history
  lastStatus, \* quick_actions.last_status
  done,       \* exec:{task}:done was emitted
  cancelled,  \* a row in execution_cancellations
  alive       \* the process runs

threadVars == <<thread, outcome>>
dbVars == <<details, history, lastStatus>>
coordVars == <<phase, todo, current, handles, success, fail, pending, done>>
batchVars == <<batch, coordVars, threadVars, dbVars, cancelled, alive>>

Phase == {"loop", "slot", "drain", "history", "quick", "done", "finished"}
Thread == {"none", "spawned", "running", "over"}
Outcome == {"none", "success", "failed"}
Open == [completed |-> FALSE, success |-> 0, fail |-> 0]

InHandles == {handles[i] : i \in DOMAIN handles}
Live == {h \in Host : thread[h] \in {"spawned", "running"}}

(* execute_command: the history row is inserted and the coordinator spawned *)
(* for the hosts b.                                                         *)
Dispatched(b) ==
  [batch |-> b, phase |-> "loop", todo |-> b, current |-> NoHost,
   handles |-> <<>>, thread |-> [h \in Host |-> "none"],
   outcome |-> [h \in Host |-> "none"], success |-> 0, fail |-> 0,
   pending |-> {}, details |-> {}, history |-> Open,
   lastStatus |-> "none", done |-> FALSE, cancelled |-> FALSE]

BatchIs(d) ==
  /\ batch = d.batch /\ phase = d.phase /\ todo = d.todo
  /\ current = d.current /\ handles = d.handles
  /\ thread = d.thread /\ outcome = d.outcome
  /\ success = d.success /\ fail = d.fail /\ pending = d.pending
  /\ details = d.details /\ history = d.history
  /\ lastStatus = d.lastStatus /\ done = d.done /\ cancelled = d.cancelled

Init ==
  /\ \E b \in (SUBSET Host) \ {{}} : BatchIs(Dispatched(b))
  /\ alive = TRUE
-----------------------------------------------------------------------------
(* The coordinator's loop.  A host met after the cancellation is reported   *)
(* as failed and gets no thread ...                                         *)
SkipUncounted(h) ==
  /\ alive /\ phase = "loop" /\ h \in todo /\ cancelled
  /\ todo' = todo \ {h}
  /\ outcome' = [outcome EXCEPT ![h] = "failed"]
  /\ UNCHANGED <<batch, phase, current, handles, thread, success, fail,
                 pending, dbVars, done, cancelled, alive>>

Skip(h) ==
  /\ alive /\ phase = "loop" /\ h \in todo /\ cancelled
  /\ todo' = todo \ {h}
  /\ fail' = fail + 1
  /\ outcome' = [outcome EXCEPT ![h] = "failed"]
  /\ UNCHANGED <<batch, phase, current, handles, thread, success, pending,
                 dbVars, done, cancelled, alive>>

(* Mutant: the flag is not read at all.                                     *)
CheckAnyway(h) ==
  /\ alive /\ phase = "loop" /\ h \in todo
  /\ todo' = todo \ {h}
  /\ current' = h
  /\ phase' = "slot"
  /\ UNCHANGED <<batch, handles, threadVars, success, fail, pending, dbVars,
                 done, cancelled, alive>>

(* ... any other host waits for a slot; the flag is not read again.         *)
Check(h) ==
  /\ alive /\ phase = "loop" /\ h \in todo /\ ~cancelled
  /\ todo' = todo \ {h}
  /\ current' = h
  /\ phase' = "slot"
  /\ UNCHANGED <<batch, handles, threadVars, success, fail, pending, dbVars,
                 done, cancelled, alive>>

(* What joining the oldest host thread does. *)
Join ==
  LET h == Head(handles) IN
  /\ handles # <<>> /\ thread[h] = "over"
  /\ handles' = Tail(handles)
  /\ success' = IF outcome[h] = "success" THEN success + 1 ELSE success
  /\ fail' = IF outcome[h] = "success" THEN fail ELSE fail + 1
  /\ pending' = pending \cup {h}
  /\ UNCHANGED <<batch, phase, todo, current, threadVars, dbVars, done,
                 cancelled, alive>>

MakeRoomOver == alive /\ phase = "slot" /\ Len(handles) > MaxConcurrent /\ Join
MakeRoom == alive /\ phase = "slot" /\ Len(handles) >= MaxConcurrent /\ Join

Spawn ==
  /\ alive /\ phase = "slot" /\ Len(handles) < MaxConcurrent
  /\ thread' = [thread EXCEPT ![current] = "spawned"]
  /\ handles' = Append(handles, current)
  /\ current' = NoHost
  /\ phase' = "loop"
  /\ UNCHANGED <<batch, todo, outcome, success, fail, pending, dbVars, done,
                 cancelled, alive>>

LoopEnds ==
  /\ alive /\ phase = "loop" /\ todo = {}
  /\ phase' = "drain"
  /\ UNCHANGED <<batch, todo, current, handles, threadVars, success, fail,
                 pending, dbVars, done, cancelled, alive>>

JoinRest == alive /\ phase = "drain" /\ Join

SaveDetailsEarly ==
  /\ alive /\ phase = "drain"
  /\ details' = pending
  /\ phase' = "history"
  /\ UNCHANGED <<batch, todo, current, handles, threadVars, success, fail,
                 pending, history, lastStatus, done, cancelled, alive>>

(* One transaction with the details of every joined host ... *)
SaveDetails ==
  /\ alive /\ phase = "drain" /\ handles = <<>>
  /\ details' = pending
  /\ phase' = "history"
  /\ UNCHANGED <<batch, todo, current, handles, threadVars, success, fail,
                 pending, history, lastStatus, done, cancelled, alive>>

(* ... then the history row ... *)
SaveHistory ==
  /\ alive /\ phase = "history"
  /\ history' = [completed |-> TRUE, success |-> success, fail |-> fail]
  /\ phase' = "quick"
  /\ UNCHANGED <<batch, todo, current, handles, threadVars, success, fail,
                 pending, details, lastStatus, done, cancelled, alive>>

(* ... then the quick action, if the command came from one ... *)
SaveStatus ==
  /\ alive /\ phase = "quick"
  /\ lastStatus' = IF fail = 0 THEN "success"
                   ELSE IF success = 0 THEN "failed" ELSE "partial"
  /\ phase' = "done"
  /\ UNCHANGED <<batch, todo, current, handles, threadVars, success, fail,
                 pending, details, history, done, cancelled, alive>>

(* ... and the done event. *)
EmitDone ==
  /\ alive /\ phase = "done"
  /\ done' = TRUE
  /\ phase' = "finished"
  /\ UNCHANGED <<batch, todo, current, handles, threadVars, success, fail,
                 pending, dbVars, cancelled, alive>>

(* A host's thread: exec:{task}:start, then the command. *)
EmitStart(h) ==
  /\ alive /\ thread[h] = "spawned"
  /\ thread' = [thread EXCEPT ![h] = "running"]
  /\ UNCHANGED <<batch, coordVars, outcome, dbVars, cancelled, alive>>

(* The connection's execute returned, and exec:{task}:output is emitted. *)
Report(h, r) ==
  /\ alive /\ thread[h] = "running"
  /\ thread' = [thread EXCEPT ![h] = "over"]
  /\ outcome' = [outcome EXCEPT ![h] = r]
  /\ UNCHANGED <<batch, coordVars, dbVars, cancelled, alive>>

(* cancel_execution, from the window or the MCP bridge. *)
Cancel ==
  /\ alive /\ ~cancelled
  /\ cancelled' = TRUE
  /\ UNCHANGED <<batch, coordVars, threadVars, dbVars, alive>>

Exit ==
  /\ alive
  /\ alive' = FALSE
  /\ UNCHANGED <<batch, coordVars, threadVars, dbVars, cancelled>>

Coordinator ==
  \/ \E h \in Host : Skip(h) \/ Check(h)
  \/ MakeRoom
  \/ Spawn
  \/ LoopEnds
  \/ JoinRest
  \/ SaveDetails
  \/ SaveHistory
  \/ SaveStatus
  \/ EmitDone

Reporting(h) == \E r \in {"success", "failed"} : Report(h, r)
HostThread(h) == EmitStart(h) \/ Reporting(h)

BatchNext ==
  \/ Coordinator
  \/ \E h \in Host : HostThread(h)

Next == BatchNext \/ Cancel \/ Exit

(* The operating system runs the threads; a remote command may never end.  *)
BatchFairness ==
  /\ WF_batchVars(Coordinator)
  /\ \A h \in Host : WF_batchVars(EmitStart(h))

Spec == Init /\ [][Next]_batchVars /\ BatchFairness
-----------------------------------------------------------------------------
Counted == batch \ (todo \cup {current} \cup InHandles)
Skipped == {h \in batch : thread[h] = "none" /\ outcome[h] # "none"}

TypeOK ==
  /\ batch \subseteq Host /\ todo \subseteq batch
  /\ phase \in Phase
  /\ current \in batch \cup {NoHost}
  /\ handles \in Seq(batch)
  /\ thread \in [Host -> Thread]
  /\ outcome \in [Host -> Outcome]
  /\ success \in Nat /\ fail \in Nat
  /\ pending \subseteq batch /\ details \subseteq batch
  /\ history \in [completed : BOOLEAN, success : Nat, fail : Nat]
  /\ lastStatus \in {"none", "success", "failed", "partial"}
  /\ done \in BOOLEAN /\ cancelled \in BOOLEAN /\ alive \in BOOLEAN

(* "Run commands on many hosts with concurrency": no more than the given    *)
(* number of host threads exist that have not ended.                        *)
WindowBound == Cardinality(Live) <= MaxConcurrent

HandlesBound == Len(handles) <= MaxConcurrent

(* Each host of the batch is in one place, and what it is counted as agrees *)
(* with what was announced for it.                                          *)
PlacesAreExact ==
  /\ \A i, j \in DOMAIN handles : handles[i] = handles[j] => i = j
  /\ current # NoHost <=> phase = "slot"
  /\ current \notin todo \cup InHandles /\ todo \cap InHandles = {}
  /\ \A h \in batch :
       h \in todo \cup {current} <=> thread[h] = "none" /\ outcome[h] = "none"
  /\ \A h \in Host : thread[h] \in {"spawned", "running"} => h \in InHandles
  /\ \A h \in InHandles : thread[h] # "none"
  /\ \A h \in Host : thread[h] = "over" => outcome[h] # "none"
  /\ \A h \in Host : thread[h] \in {"spawned", "running"} => outcome[h] = "none"
  /\ pending = Counted \ Skipped
  /\ phase \notin {"loop", "slot"} => todo = {}
  /\ phase \notin {"loop", "slot", "drain"} => handles = <<>>

CountsAreExact ==
  /\ success = Cardinality({h \in Counted : outcome[h] = "success"})
  /\ fail = Cardinality({h \in Counted : outcome[h] = "failed"})

(* The rows are written in the order details, history, quick action, done,  *)
(* each with the numbers at the end of the batch.                           *)
WrittenInOrder ==
  /\ details = IF phase \in {"loop", "slot", "drain"} THEN {} ELSE pending
  /\ history = IF phase \in {"quick", "done", "finished"}
               THEN [completed |-> TRUE, success |-> success, fail |-> fail]
               ELSE Open
  /\ done <=> phase = "finished"

(* The books of the coordinator are right after every step: each host in    *)
(* one place, the numbers those of the announced outcomes, the rows written *)
(* in order.                                                                *)
Books == TypeOK /\ HandlesBound /\ PlacesAreExact /\ CountsAreExact /\ WrittenInOrder

(* And so is the limit: the handles in the queue bound the threads that run. *)
Inv == Books /\ WindowBound

(* A history row with a completion time tells what happened, whenever the   *)
(* process exits: every host succeeded or failed, the numbers are those     *)
(* announced, and every host that ran has its details.                      *)
HistoryTellsTruth ==
  history.completed =>
    /\ history.success + history.fail = Cardinality(batch)
    /\ history.success = Cardinality({h \in batch : outcome[h] = "success"})
    /\ details = batch \ Skipped

(* done is emitted after every host's output, so a subscriber that has seen *)
(* it finds all outputs in its queue (workflow runtime.rs, batch window).   *)
DoneIsLast == done => \A h \in batch : outcome[h] # "none" /\ h \notin Live

(* A host's result is announced once.                                       *)
ReportedOnce == [][\A h \in Host : outcome[h] # "none" => outcome'[h] = outcome[h]]_batchVars

(* "hosts that have not started are skipped" (app/src/mcp_bridge/vault.rs,  *)
(* stop_script_run), but for one: the flag is read before the wait for a    *)
(* slot and not after it, so after a cancellation the host that waits may   *)
(* still start, and no other ever does, however long the batch goes on.     *)
Started == {h \in Host : thread[h] # "none"}
AtMostOneLateStart ==
  \A S \in SUBSET Host :
    []((cancelled /\ Started = S) => [](Cardinality(Started \ S) <= 1))

(* The batch ends if its commands do, and it waits for nothing else: each   *)
(* step of the coordinator or of a host leaves the batch fewer of them, and *)
(* a coordinator that cannot go on waits for a host whose command runs.     *)
ToStart == {h \in Host : thread[h] = "spawned"}
ToEnd == {h \in Host : thread[h] = "running"}
PhaseStepsLeft ==
  CASE phase = "finished" -> 0
    [] phase = "done" -> 1
    [] phase = "quick" -> 2
    [] phase = "history" -> 3
    [] phase = "drain" -> 4
    [] phase = "loop" -> 5
    [] phase = "slot" -> 9
BatchStepsLeft ==
  5 * Cardinality(todo) + 2 * Cardinality(ToStart) + Cardinality(ToEnd)
    + Len(handles) + PhaseStepsLeft

BatchStepsRunOut == [][BatchNext => BatchStepsLeft' < BatchStepsLeft]_batchVars

CoordinatorGoesOn ==
  \/ phase \in {"loop", "history", "quick", "done"}
  \/ phase = "slot" /\ Len(handles) < MaxConcurrent
  \/ phase = "drain" /\ handles = <<>>
  \/ phase \in {"slot", "drain"} /\ handles # <<>> /\ thread[Head(handles)] = "over"
WaitsOnlyForCommands ==
  alive /\ phase # "finished" => CoordinatorGoesOn \/ Head(handles) \in Live

=============================================================================
