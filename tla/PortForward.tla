---------------------------- MODULE PortForward ----------------------------
(***************************************************************************)
(* Port forwards of one host (crates/ops-ssh/src/forward.rs): forward_add, *)
(* forward_stop, forward_remove and forward_list with the three maps of    *)
(* the manager, the thread of each forward, and the update of a forward by *)
(* an agent (app/src/mcp_bridge/tools.rs, change_forward).                 *)
(*                                                                         *)
(* Every call runs on a blocking thread of its own and takes the locks of  *)
(* the maps one after the other.  All forwards of the model want the same  *)
(* address.                                                                *)
(***************************************************************************)
EXTENDS Naturals

CONSTANTS
  Forward,   \* the forwards ever added
  Job,       \* calls of forward_stop, forward_remove and change_forward
  None,
  Cap        \* room in the channel of a forward's commands (16)

ASSUME ForwardAssumption == Cap \in Nat \ {0} /\ None \notin Forward

VARIABLES
  add,        \* how far forward_add is with each forward
  thread,     \* the forward's thread
  cmds,       \* commands in its channel
  word,       \* the last status it has emitted
  sessions, listed, latest,   \* the maps of ForwardManager
  job,        \* kind, forward and step of each call
  overtaken   \* history: the forwards whose removal began, with the id of an
              \* event, before forward_add was through with them

threadVars == <<thread, cmds, word>>
mapVars == <<sessions, listed, latest>>
vars == <<add, threadVars, mapVars, job, overtaken>>

Status == {"active", "suspended", "error"}
Known == {f \in listed : latest[f] # "none"}   \* forward_list

Idle == [kind |-> "none", of |-> None, step |-> "none"]

Init ==
  /\ add = [f \in Forward |-> "none"]
  /\ thread = [f \in Forward |-> "none"]
  /\ cmds = [f \in Forward |-> 0]
  /\ word = [f \in Forward |-> "none"]
  /\ sessions = {} /\ listed = {}
  /\ latest = [f \in Forward |-> "none"]
  /\ job = [j \in Job |-> Idle]
  /\ overtaken = {}
-----------------------------------------------------------------------------
(* emit_status: the map, and an event that the panel shows. *)
Emit(f, s) ==
  /\ word' = [word EXCEPT ![f] = s]
  /\ latest' = [latest EXCEPT ![f] = s]

(* A stop that waits for room in the channel holds a guard of the map. *)
Guarded == \E j \in Job : job[j].step = "send"
-----------------------------------------------------------------------------
(* A forward_add whose configuration or connection fails leaves nothing.   *)
Spawn(f) ==
  /\ add[f] = "none" /\ add' = [add EXCEPT ![f] = "spawned"]
  /\ thread' = [thread EXCEPT ![f] = "starting"]
  /\ UNCHANGED <<cmds, word, mapVars, overtaken>>

Add(f) == Spawn(f) /\ UNCHANGED job

InsertSession(f) ==
  /\ add[f] = "spawned" /\ ~Guarded
  /\ add' = [add EXCEPT ![f] = "inserted"]
  /\ sessions' = sessions \cup {f}
  /\ UNCHANGED <<threadVars, listed, latest, job, overtaken>>

List(f) ==
  /\ add[f] = "inserted" /\ add' = [add EXCEPT ![f] = "listed"]
  /\ listed' = listed \cup {f}
  /\ UNCHANGED <<threadVars, sessions, latest, job, overtaken>>

(* "A failure already reported by the forward task wins over this          *)
(* optimistic entry."                                                      *)
RegisterOver(f) ==
  /\ add[f] = "listed" /\ add' = [add EXCEPT ![f] = "done"]
  /\ latest' = [latest EXCEPT ![f] = "active"]
  /\ UNCHANGED <<threadVars, sessions, listed, job, overtaken>>

Register(f) ==
  /\ add[f] = "listed" /\ add' = [add EXCEPT ![f] = "done"]
  /\ latest' = [latest EXCEPT ![f] = IF @ = "none" THEN "active" ELSE @]
  /\ UNCHANGED <<threadVars, sessions, listed, job, overtaken>>
-----------------------------------------------------------------------------
(* The loops of the three kinds of forward differ in what they relay.      *)
Listening(f) == thread[f] \in {"active", "busy"}

Fail(f) ==
  /\ thread[f] = "starting" /\ thread' = [thread EXCEPT ![f] = "ended"]
  /\ cmds' = [cmds EXCEPT ![f] = 0]
  /\ Emit(f, "error")
  /\ UNCHANGED <<add, sessions, listed, job, overtaken>>

Up(f) ==
  /\ thread[f] = "starting" /\ \A g \in Forward : ~Listening(g)
  /\ thread' = [thread EXCEPT ![f] = "active"]
  /\ Emit(f, "active")
  /\ UNCHANGED <<cmds, add, sessions, listed, job, overtaken>>

(* A connection is accepted; the channel for it opens, or does not. *)
Accept(f) ==
  /\ thread[f] = "active" /\ thread' = [thread EXCEPT ![f] = "busy"]
  /\ UNCHANGED <<cmds, word, add, mapVars, job, overtaken>>

Opened(f) ==
  /\ thread[f] = "busy" /\ thread' = [thread EXCEPT ![f] = "active"]
  /\ UNCHANGED <<cmds, word, add, mapVars, job, overtaken>>

End(f) ==
  /\ thread' = [thread EXCEPT ![f] = "ended"]
  /\ cmds' = [cmds EXCEPT ![f] = 0]
  /\ Emit(f, "suspended")
  /\ UNCHANGED <<add, sessions, listed, job, overtaken>>

Obey(f) == thread[f] = "active" /\ cmds[f] > 0 /\ End(f)

(* accept fails. *)
Break(f) == thread[f] = "active" /\ End(f)

ThreadStep(f) ==
  Fail(f) \/ Up(f) \/ Accept(f) \/ Opened(f) \/ Obey(f) \/ Break(f)
-----------------------------------------------------------------------------
Step(j, s) == job' = [job EXCEPT ![j].step = s]

Over(j) == job' = [job EXCEPT ![j] = [Idle EXCEPT !.step = "over"]]

(* The agent's tools name a forward that is listed, the panel's buttons     *)
(* also one of which an event told.                                         *)
Call(j, kind, f) ==
  /\ job[j].step = "none"
  /\ f \in Known \/ word[f] # "none"
  /\ job' = [job EXCEPT ![j] =
       [kind |-> kind, of |-> f,
        step |-> IF kind = "stop" THEN "send" ELSE "take"]]
  /\ kind = "stop" => f \in sessions
  /\ overtaken' = IF kind # "stop" /\ add[f] # "done"
                    THEN overtaken \cup {f} ELSE overtaken
  /\ UNCHANGED <<add, threadVars, mapVars>>

Room(f) == thread[f] = "ended" \/ cmds[f] < Cap

Sent(f) ==
  cmds' = IF thread[f] = "ended" THEN cmds ELSE [cmds EXCEPT ![f] = @ + 1]

(* forward_stop: blocking_send, which fails when the thread is gone. *)
Send(j) ==
  /\ job[j].step = "send" /\ Room(job[j].of)
  /\ Sent(job[j].of) /\ Over(j)
  /\ UNCHANGED <<thread, word, add, mapVars, overtaken>>

(* forward_remove *)
Take(j) ==
  /\ job[j].step = "take" /\ ~Guarded
  /\ sessions' = sessions \ {job[j].of}
  /\ Step(j, IF job[j].of \in sessions THEN "shutdown" ELSE "forget")
  /\ UNCHANGED <<add, threadVars, listed, latest, overtaken>>

JoinAtOnce(j) ==
  /\ job[j].step = "shutdown" /\ Step(j, "join")
  /\ UNCHANGED <<add, threadVars, mapVars, overtaken>>

Shutdown(j) ==
  /\ job[j].step = "shutdown" /\ Room(job[j].of)
  /\ Sent(job[j].of) /\ Step(j, "join")
  /\ UNCHANGED <<thread, word, add, mapVars, overtaken>>

Join(j) ==
  /\ job[j].step = "join" /\ thread[job[j].of] = "ended" /\ Step(j, "forget")
  /\ UNCHANGED <<add, threadVars, mapVars, overtaken>>

Forget(j) ==
  /\ job[j].step = "forget" /\ Step(j, "unlist")
  /\ latest' = [latest EXCEPT ![job[j].of] = "none"]
  /\ UNCHANGED <<add, threadVars, sessions, listed, overtaken>>

Unlist(j) ==
  /\ job[j].step = "unlist"
  /\ IF job[j].kind = "update" THEN Step(j, "again") ELSE Over(j)
  /\ listed' = listed \ {job[j].of}
  /\ UNCHANGED <<add, threadVars, sessions, latest, overtaken>>

(* change_forward adds the changed forward after that, and the old one     *)
(* again if this fails.                                                    *)
AddChanged(j) ==
  job[j].step = "again" /\ Over(j) /\ \E f \in Forward : Spawn(f)

ChangeFails(j) ==
  /\ job[j].step = "again" /\ Step(j, "restore")
  /\ UNCHANGED <<add, threadVars, mapVars, overtaken>>

Restore(j) ==
  /\ job[j].step = "restore" /\ Over(j)
  /\ \/ \E f \in Forward : Spawn(f)
     \/ UNCHANGED <<add, threadVars, mapVars, overtaken>>

JobStep(j) ==
  \/ Send(j) \/ Take(j) \/ Shutdown(j) \/ Join(j) \/ Forget(j) \/ Unlist(j)
  \/ AddChanged(j) \/ ChangeFails(j) \/ Restore(j)
-----------------------------------------------------------------------------
AddStep(f) ==
  InsertSession(f) \/ List(f) \/ Register(f)

Next ==
  \/ \E f \in Forward : Add(f) \/ AddStep(f) \/ ThreadStep(f)
  \/ \E j \in Job : JobStep(j)
  \/ \E j \in Job, f \in Forward, kind \in {"stop", "remove", "update"} :
       Call(j, kind, f)

(* Threads run; a channel opens or fails, a forward that is not asked to    *)
(* end may go on for ever.                                                  *)
Spec ==
  /\ Init /\ [][Next]_vars
  /\ \A f \in Forward :
       /\ WF_vars(AddStep(f))
       /\ WF_vars(Fail(f) \/ Up(f)) /\ WF_vars(Opened(f)) /\ SF_vars(Obey(f))
  /\ \A j \in Job : WF_vars(JobStep(j))
-----------------------------------------------------------------------------
JobStepName == {"none", "send", "take", "shutdown", "join", "forget", "unlist",
                "again", "restore", "over"}

TypeOK ==
  /\ add \in [Forward -> {"none", "spawned", "inserted", "listed", "done"}]
  /\ thread \in [Forward -> {"none", "starting", "active", "busy", "ended"}]
  /\ cmds \in [Forward -> 0..Cap]
  /\ word \in [Forward -> Status \cup {"none"}]
  /\ sessions \subseteq Forward /\ listed \subseteq Forward
  /\ latest \in [Forward -> Status \cup {"none"}]
  /\ job \in [Job -> [kind : {"none", "stop", "remove", "update"},
                      of : Forward \cup {None}, step : JobStepName]]
  /\ overtaken \subseteq Forward

At(j, f, steps) == job[j].of = f /\ job[j].step \in steps

Removing(f) ==
  \E j \in Job : At(j, f, {"shutdown", "join", "forget", "unlist"})

(* "A failure already reported by the forward task wins": whatever the      *)
(* order of forward_add and its thread, the manager lists a forward whose   *)
(* thread has ended with the thread's last word.                            *)
LastWordWins ==
  \A f \in Known :
    thread[f] = "ended" /\ f \notin overtaken => latest[f] = word[f]

(* A forward that is no longer listed, and that nobody is removing, has no  *)
(* thread, which gives the port of a local one back, and has left nothing   *)
(* in the manager; change_forward can add one for the same address.         *)
RemovedIsGone ==
  \A f \in Forward :
    add[f] = "done" /\ f \notin listed /\ ~Removing(f) /\ f \notin overtaken =>
      thread[f] = "ended" /\ f \notin sessions /\ latest[f] = "none"

(* A thread emits its first word when it starts to listen or fails to.      *)
ThreadRule ==
  \A f \in Forward :
    /\ thread[f] = "none" <=> add[f] = "none"
    /\ thread[f] \in {"none", "starting"} => word[f] = "none"
    /\ thread[f] = "ended" => word[f] # "none"

(* Until forward_add is through with a forward nobody takes it away.        *)
AddRule ==
  \A f \in Forward \ overtaken :
    /\ add[f] \in {"inserted", "listed"} => f \in sessions
    /\ add[f] = "listed" => f \in listed
    /\ word[f] # "none" /\ latest[f] # word[f] => add[f] = "done"
    /\ thread[f] = "ended" /\ latest[f] # "none" => latest[f] = word[f]
    /\ \A j \in Job : At(j, f, {"take", "shutdown", "join", "forget", "unlist"})
         => add[f] = "done"

(* Who takes a session waits for its thread; of two that remove the same    *)
(* forward the other one may be through before the thread's last word.      *)
RemovalRule ==
  \A f \in Forward \ overtaken :
    add[f] = "done" =>
      /\ f \notin sessions =>
           thread[f] = "ended" \/ \E j \in Job : At(j, f, {"shutdown", "join"})
      /\ \A j \in Job : At(j, f, {"shutdown", "join", "forget", "unlist"})
           => f \notin sessions
      /\ (\E j \in Job : At(j, f, {"unlist"})) =>
           \/ latest[f] = "none"
           \/ \E j \in Job : At(j, f, {"shutdown", "join", "forget"})

(* Who works on a forward works on one that was added, and who waits for    *)
(* its thread has told it to end.                                           *)
Target == {"send", "take", "shutdown", "join", "forget", "unlist"}
WaitRule ==
  /\ \A f \in Forward : f \in sessions \cup listed \/ latest[f] # "none" => add[f] # "none"
  /\ \A j \in Job : job[j].step \in Target => job[j].of \in Forward /\ add[job[j].of] # "none"
  /\ \A j \in Job : job[j].step = "join" =>
       thread[job[j].of] = "ended" \/ cmds[job[j].of] > 0

(* No call hangs: one that is under way can go on, or it waits for a        *)
(* thread that can, or for the map's guard and whoever has that is not      *)
(* hung either.  Nobody waits for a thread that has nothing to obey, or for *)
(* one that waits for him.                                                  *)
ThreadGoesOn(f) ==
  thread[f] \in {"starting", "busy"} \/ (thread[f] = "active" /\ cmds[f] > 0)
JobGoesOn(j) ==
  \/ job[j].step \in {"send", "shutdown"} /\ Room(job[j].of)
  \/ job[j].step = "take" /\ ~Guarded
  \/ job[j].step = "join" /\ thread[job[j].of] = "ended"
  \/ job[j].step \in {"forget", "unlist", "again", "restore"}
Unhung(j) ==
  JobGoesOn(j) \/ (job[j].step \in {"send", "shutdown", "join"} /\ ThreadGoesOn(job[j].of))
NobodyHangs ==
  \A j \in Job : job[j].step \notin {"none", "over"} =>
    \/ Unhung(j)
    \/ job[j].step = "take" /\ \E k \in Job : job[k].step = "send" /\ Unhung(k)

(* The manager's maps tell the truth about its threads, and its calls do    *)
(* not wait in vain.                                                        *)
ForwardBooks ==
  /\ TypeOK /\ ThreadRule /\ AddRule /\ RemovalRule
  /\ LastWordWins /\ RemovedIsGone
ForwardInv == ForwardBooks /\ WaitRule /\ NobodyHangs

(* Stop, remove and update do not hang on one another.                      *)
JobsEnd ==
  (\E j \in Job : job[j].step # "none")
    ~> \A j \in Job : job[j].step \in {"none", "over"}
=============================================================================
