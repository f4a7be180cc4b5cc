------------------------- MODULE PortForward_proofs -------------------------
(***************************************************************************)
(* Proofs about the manager of port forwards, for any number of forwards   *)
(* and of calls that stop, remove and change them.  ForwardBooks is        *)
(* inductive, and WaitRule is relative to it.                              *)
(***************************************************************************)
EXTENDS PortForward, TLAPS

USE ForwardAssumption
USE DEF threadVars, mapVars, Status, At, JobStepName

LEMMA InitForward == Init => ForwardBooks
<1> SUFFICES ASSUME Init PROVE ForwardBooks
  OBVIOUS
<1>1. TypeOK
  BY DEF Init, Idle, TypeOK
<1>2. ThreadRule /\ AddRule /\ RemovalRule
  BY DEF Init, Idle, ThreadRule, AddRule, RemovalRule
<1>3. LastWordWins /\ RemovedIsGone
  BY DEF Init, LastWordWins, Known, RemovedIsGone
<1> QED
  BY <1>1, <1>2, <1>3 DEF ForwardBooks

(* A forward is added and its thread lives its life. *)
LEMMA ForwardKeepsInv ==
  ASSUME ForwardBooks, NEW f \in Forward,
         (Spawn(f) /\ UNCHANGED job) \/ AddStep(f) \/ ThreadStep(f)
  PROVE  ForwardBooks'
<1>0. TypeOK /\ ThreadRule /\ AddRule /\ RemovalRule /\ RemovedIsGone
  BY DEF ForwardBooks
<1>1. CASE Spawn(f) /\ UNCHANGED job
  <2>1. TypeOK'
    BY <1>0, <1>1 DEF Spawn, TypeOK
  <2>2. ThreadRule'
    BY <1>0, <1>1 DEF Spawn, TypeOK, ThreadRule
  <2>3. AddRule'
    BY <1>0, <1>1 DEF Spawn, TypeOK, ThreadRule, AddRule, RemovalRule
  <2>4. RemovalRule'
    BY <1>0, <1>1 DEF Spawn, TypeOK, ThreadRule, AddRule, RemovalRule
  <2>5. LastWordWins'
    BY <2>1, <2>3 DEF TypeOK, AddRule, LastWordWins, Known
  <2>6. RemovedIsGone'
    BY <1>0, <1>1 DEF Spawn, TypeOK, ThreadRule, AddRule, RemovalRule, RemovedIsGone, Removing
  <2> QED
    BY <2>1, <2>2, <2>3, <2>4, <2>5, <2>6 DEF ForwardBooks
<1>2. CASE InsertSession(f)
  <2>1. TypeOK'
    BY <1>0, <1>2 DEF InsertSession, TypeOK
  <2>2. ThreadRule'
    BY <1>0, <1>2 DEF InsertSession, TypeOK, ThreadRule
  <2>3. AddRule'
    BY <1>0, <1>2 DEF InsertSession, TypeOK, ThreadRule, AddRule, RemovalRule
  <2>4. RemovalRule'
    BY <1>0, <1>2 DEF InsertSession, TypeOK, ThreadRule, AddRule, RemovalRule
  <2>5. LastWordWins'
    BY <2>1, <2>3 DEF TypeOK, AddRule, LastWordWins, Known
  <2>6. RemovedIsGone'
    BY <1>0, <1>2 DEF InsertSession, TypeOK, ThreadRule, AddRule, RemovalRule, RemovedIsGone, Removing
  <2> QED
    BY <2>1, <2>2, <2>3, <2>4, <2>5, <2>6 DEF ForwardBooks
<1>3. CASE List(f)
  <2>1. TypeOK'
    BY <1>0, <1>3 DEF List, TypeOK
  <2>2. ThreadRule'
    BY <1>0, <1>3 DEF List, TypeOK, ThreadRule
  <2>3. AddRule'
    BY <1>0, <1>3 DEF List, TypeOK, ThreadRule, AddRule, RemovalRule
  <2>4. RemovalRule'
    BY <1>0, <1>3 DEF List, TypeOK, ThreadRule, AddRule, RemovalRule
  <2>5. LastWordWins'
    BY <2>1, <2>3 DEF TypeOK, AddRule, LastWordWins, Known
  <2>6. RemovedIsGone'
    BY <1>0, <1>3 DEF List, TypeOK, ThreadRule, AddRule, RemovalRule, RemovedIsGone, Removing
  <2> QED
    BY <2>1, <2>2, <2>3, <2>4, <2>5, <2>6 DEF ForwardBooks
<1>4. CASE Register(f)
  <2>1. TypeOK'
    BY <1>0, <1>4 DEF Register, TypeOK
  <2>2. ThreadRule'
    BY <1>0, <1>4 DEF Register, TypeOK, ThreadRule
  <2>3. AddRule'
    BY <1>0, <1>4 DEF Register, TypeOK, ThreadRule, AddRule, RemovalRule
  <2>4. RemovalRule'
    BY <1>0, <1>4 DEF Register, TypeOK, ThreadRule, AddRule, RemovalRule
  <2>5. LastWordWins'
    BY <2>1, <2>3 DEF TypeOK, AddRule, LastWordWins, Known
  <2>6. RemovedIsGone'
    BY <1>0, <1>4 DEF Register, TypeOK, ThreadRule, AddRule, RemovalRule, RemovedIsGone, Removing
  <2> QED
    BY <2>1, <2>2, <2>3, <2>4, <2>5, <2>6 DEF ForwardBooks
<1>5. CASE Fail(f)
  <2>1. TypeOK'
    BY <1>0, <1>5 DEF Fail, Emit, TypeOK
  <2>2. ThreadRule'
    BY <1>0, <1>5 DEF Fail, Emit, TypeOK, ThreadRule
  <2>3. AddRule'
    BY <1>0, <1>5 DEF Fail, Emit, TypeOK, ThreadRule, AddRule, RemovalRule
  <2>4. RemovalRule'
    BY <1>0, <1>5 DEF Fail, Emit, TypeOK, ThreadRule, AddRule, RemovalRule
  <2>5. LastWordWins'
    BY <2>1, <2>3 DEF TypeOK, AddRule, LastWordWins, Known
  <2>6. RemovedIsGone'
    BY <1>0, <1>5 DEF Fail, Emit, TypeOK, ThreadRule, AddRule, RemovalRule, RemovedIsGone, Removing
  <2> QED
    BY <2>1, <2>2, <2>3, <2>4, <2>5, <2>6 DEF ForwardBooks
<1>6. CASE Up(f)
  <2>1. TypeOK'
    BY <1>0, <1>6 DEF Up, Emit, TypeOK
  <2>2. ThreadRule'
    BY <1>0, <1>6 DEF Up, Emit, TypeOK, ThreadRule
  <2>3. AddRule'
    BY <1>0, <1>6 DEF Up, Emit, TypeOK, ThreadRule, AddRule, RemovalRule
  <2>4. RemovalRule'
    BY <1>0, <1>6 DEF Up, Emit, TypeOK, ThreadRule, AddRule, RemovalRule
  <2>5. LastWordWins'
    BY <2>1, <2>3 DEF TypeOK, AddRule, LastWordWins, Known
  <2>6. RemovedIsGone'
    BY <1>0, <1>6 DEF Up, Emit, TypeOK, ThreadRule, AddRule, RemovalRule, RemovedIsGone, Removing
  <2> QED
    BY <2>1, <2>2, <2>3, <2>4, <2>5, <2>6 DEF ForwardBooks
<1>7. CASE Accept(f)
  <2>1. TypeOK'
    BY <1>0, <1>7 DEF Accept, TypeOK
  <2>2. ThreadRule'
    BY <1>0, <1>7 DEF Accept, TypeOK, ThreadRule
  <2>3. AddRule'
    BY <1>0, <1>7 DEF Accept, TypeOK, ThreadRule, AddRule, RemovalRule
  <2>4. RemovalRule'
    BY <1>0, <1>7 DEF Accept, TypeOK, ThreadRule, AddRule, RemovalRule
  <2>5. LastWordWins'
    BY <2>1, <2>3 DEF TypeOK, AddRule, LastWordWins, Known
  <2>6. RemovedIsGone'
    BY <1>0, <1>7 DEF Accept, TypeOK, ThreadRule, AddRule, RemovalRule, RemovedIsGone, Removing
  <2> QED
    BY <2>1, <2>2, <2>3, <2>4, <2>5, <2>6 DEF ForwardBooks
<1>8. CASE Opened(f)
  <2>1. TypeOK'
    BY <1>0, <1>8 DEF Opened, TypeOK
  <2>2. ThreadRule'
    BY <1>0, <1>8 DEF Opened, TypeOK, ThreadRule
  <2>3. AddRule'
    BY <1>0, <1>8 DEF Opened, TypeOK, ThreadRule, AddRule, RemovalRule
  <2>4. RemovalRule'
    BY <1>0, <1>8 DEF Opened, TypeOK, ThreadRule, AddRule, RemovalRule
  <2>5. LastWordWins'
    BY <2>1, <2>3 DEF TypeOK, AddRule, LastWordWins, Known
  <2>6. RemovedIsGone'
    BY <1>0, <1>8 DEF Opened, TypeOK, ThreadRule, AddRule, RemovalRule, RemovedIsGone, Removing
  <2> QED
    BY <2>1, <2>2, <2>3, <2>4, <2>5, <2>6 DEF ForwardBooks
<1>9. CASE Obey(f)
  <2>1. TypeOK'
    BY <1>0, <1>9 DEF Obey, End, Emit, TypeOK
  <2>2. ThreadRule'
    BY <1>0, <1>9 DEF Obey, End, Emit, TypeOK, ThreadRule
  <2>3. AddRule'
    BY <1>0, <1>9 DEF Obey, End, Emit, TypeOK, ThreadRule, AddRule, RemovalRule
  <2>4. RemovalRule'
    BY <1>0, <1>9 DEF Obey, End, Emit, TypeOK, ThreadRule, AddRule, RemovalRule
  <2>5. LastWordWins'
    BY <2>1, <2>3 DEF TypeOK, AddRule, LastWordWins, Known
  <2>6. RemovedIsGone'
    BY <1>0, <1>9 DEF Obey, End, Emit, TypeOK, ThreadRule, AddRule, RemovalRule, RemovedIsGone, Removing
  <2> QED
    BY <2>1, <2>2, <2>3, <2>4, <2>5, <2>6 DEF ForwardBooks
<1>10. CASE Break(f)
  <2>1. TypeOK'
    BY <1>0, <1>10 DEF Break, End, Emit, TypeOK
  <2>2. ThreadRule'
    BY <1>0, <1>10 DEF Break, End, Emit, TypeOK, ThreadRule
  <2>3. AddRule'
    BY <1>0, <1>10 DEF Break, End, Emit, TypeOK, ThreadRule, AddRule, RemovalRule
  <2>4. RemovalRule'
    BY <1>0, <1>10 DEF Break, End, Emit, TypeOK, ThreadRule, AddRule, RemovalRule
  <2>5. LastWordWins'
    BY <2>1, <2>3 DEF TypeOK, AddRule, LastWordWins, Known
  <2>6. RemovedIsGone'
    BY <1>0, <1>10 DEF Break, End, Emit, TypeOK, ThreadRule, AddRule, RemovalRule, RemovedIsGone, Removing
  <2> QED
    BY <2>1, <2>2, <2>3, <2>4, <2>5, <2>6 DEF ForwardBooks
<1> QED
  BY <1>1, <1>2, <1>3, <1>4, <1>5, <1>6, <1>7, <1>8, <1>9, <1>10 DEF AddStep, ThreadStep

(* A call stops or removes a forward. *)
LEMMA RemovalKeepsInv ==
  ASSUME ForwardBooks, NEW j \in Job, Send(j) \/ Take(j) \/ Shutdown(j) \/ Join(j) \/ Forget(j) \/ Unlist(j)
  PROVE  ForwardBooks'
<1>0. TypeOK /\ ThreadRule /\ AddRule /\ RemovalRule /\ RemovedIsGone
  BY DEF ForwardBooks
<1>1. CASE Send(j)
  <2>1. TypeOK'
    <3>1. job' \in [Job -> [kind : {"none", "stop", "remove", "update"},
                          of : Forward \cup {None}, step : JobStepName]]
      BY <1>0, <1>1 DEF Send, Over, Idle, TypeOK
    <3>2. cmds' \in [Forward -> 0..Cap]
      <4>1. CASE UNCHANGED cmds
        BY <1>0, <4>1 DEF TypeOK
      <4>2. CASE cmds[job[j].of] < Cap /\ cmds' = [cmds EXCEPT ![job[j].of] = @ + 1]
        <5>1. SUFFICES ASSUME NEW g \in Forward PROVE cmds'[g] \in 0..Cap
          BY <1>0, <4>2 DEF TypeOK
        <5>2. cmds[g] \in 0..Cap
          BY <1>0 DEF TypeOK
        <5>3. cmds'[g] = cmds[g] \/ (cmds[g] < Cap /\ cmds'[g] = cmds[g] + 1)
          BY <1>0, <4>2 DEF TypeOK
        <5> QED
          BY <5>2, <5>3
      <4> QED
        BY <1>1, <4>1, <4>2 DEF Send, Room, Sent
    <3> QED
      BY <1>0, <1>1, <3>1, <3>2 DEF Send, TypeOK
  <2>2. ThreadRule'
    BY <1>0, <1>1 DEF Send, Room, Sent, Over, Idle, TypeOK, ThreadRule
  <2>3. AddRule'
    BY <1>0, <1>1 DEF Send, Room, Sent, Over, Idle, TypeOK, ThreadRule, AddRule, RemovalRule
  <2>4. RemovalRule'
    BY <1>0, <1>1 DEF Send, Room, Sent, Over, Idle, TypeOK, ThreadRule, AddRule, RemovalRule
  <2>5. LastWordWins'
    BY <2>1, <2>3 DEF TypeOK, AddRule, LastWordWins, Known
  <2>6. RemovedIsGone'
    BY <1>0, <1>1 DEF Send, Room, Sent, Over, Idle, TypeOK, ThreadRule, AddRule, RemovalRule, RemovedIsGone, Removing
  <2> QED
    BY <2>1, <2>2, <2>3, <2>4, <2>5, <2>6 DEF ForwardBooks
<1>2. CASE Take(j)
  <2>1. TypeOK'
    BY <1>0, <1>2 DEF Take, Step, TypeOK
  <2>2. ThreadRule'
    BY <1>0, <1>2 DEF Take, Step, TypeOK, ThreadRule
  <2>3. AddRule'
    BY <1>0, <1>2 DEF Take, Step, TypeOK, ThreadRule, AddRule, RemovalRule
  <2>4. RemovalRule'
    BY <1>0, <1>2 DEF Take, Step, TypeOK, ThreadRule, AddRule, RemovalRule
  <2>5. LastWordWins'
    BY <2>1, <2>3 DEF TypeOK, AddRule, LastWordWins, Known
  <2>6. RemovedIsGone'
    BY <1>0, <1>2 DEF Take, Step, TypeOK, ThreadRule, AddRule, RemovalRule, RemovedIsGone, Removing
  <2> QED
    BY <2>1, <2>2, <2>3, <2>4, <2>5, <2>6 DEF ForwardBooks
<1>3. CASE Shutdown(j)
  <2>1. TypeOK'
    <3>1. job' \in [Job -> [kind : {"none", "stop", "remove", "update"},
                          of : Forward \cup {None}, step : JobStepName]]
      BY <1>0, <1>3 DEF Shutdown, Step, TypeOK
    <3>2. cmds' \in [Forward -> 0..Cap]
      <4>1. CASE UNCHANGED cmds
        BY <1>0, <4>1 DEF TypeOK
      <4>2. CASE cmds[job[j].of] < Cap /\ cmds' = [cmds EXCEPT ![job[j].of] = @ + 1]
        <5>1. SUFFICES ASSUME NEW g \in Forward PROVE cmds'[g] \in 0..Cap
          BY <1>0, <4>2 DEF TypeOK
        <5>2. cmds[g] \in 0..Cap
          BY <1>0 DEF TypeOK
        <5>3. cmds'[g] = cmds[g] \/ (cmds[g] < Cap /\ cmds'[g] = cmds[g] + 1)
          BY <1>0, <4>2 DEF TypeOK
        <5> QED
          BY <5>2, <5>3
      <4> QED
        BY <1>3, <4>1, <4>2 DEF Shutdown, Room, Sent
    <3> QED
      BY <1>0, <1>3, <3>1, <3>2 DEF Shutdown, TypeOK
  <2>2. ThreadRule'
    BY <1>0, <1>3 DEF Shutdown, Room, Sent, Step, TypeOK, ThreadRule
  <2>3. AddRule'
    BY <1>0, <1>3 DEF Shutdown, Room, Sent, Step, TypeOK, ThreadRule, AddRule, RemovalRule
  <2>4. RemovalRule'
    BY <1>0, <1>3 DEF Shutdown, Room, Sent, Step, TypeOK, ThreadRule, AddRule, RemovalRule
  <2>5. LastWordWins'
    BY <2>1, <2>3 DEF TypeOK, AddRule, LastWordWins, Known
  <2>6. RemovedIsGone'
    BY <1>0, <1>3 DEF Shutdown, Room, Sent, Step, TypeOK, ThreadRule, AddRule, RemovalRule, RemovedIsGone, Removing
  <2> QED
    BY <2>1, <2>2, <2>3, <2>4, <2>5, <2>6 DEF ForwardBooks
<1>4. CASE Join(j)
  <2>1. TypeOK'
    BY <1>0, <1>4 DEF Join, Step, TypeOK
  <2>2. ThreadRule'
    BY <1>0, <1>4 DEF Join, Step, TypeOK, ThreadRule
  <2>3. AddRule'
    BY <1>0, <1>4 DEF Join, Step, TypeOK, ThreadRule, AddRule, RemovalRule
  <2>4. RemovalRule'
    BY <1>0, <1>4 DEF Join, Step, TypeOK, ThreadRule, AddRule, RemovalRule
  <2>5. LastWordWins'
    BY <2>1, <2>3 DEF TypeOK, AddRule, LastWordWins, Known
  <2>6. RemovedIsGone'
    BY <1>0, <1>4 DEF Join, Step, TypeOK, ThreadRule, AddRule, RemovalRule, RemovedIsGone, Removing
  <2> QED
    BY <2>1, <2>2, <2>3, <2>4, <2>5, <2>6 DEF ForwardBooks
<1>5. CASE Forget(j)
  <2>1. TypeOK'
    BY <1>0, <1>5 DEF Forget, Step, TypeOK
  <2>2. ThreadRule'
    BY <1>0, <1>5 DEF Forget, Step, TypeOK, ThreadRule
  <2>3. AddRule'
    BY <1>0, <1>5 DEF Forget, Step, TypeOK, ThreadRule, AddRule, RemovalRule
  <2>4. RemovalRule'
    BY <1>0, <1>5 DEF Forget, Step, TypeOK, ThreadRule, AddRule, RemovalRule
  <2>5. LastWordWins'
    BY <2>1, <2>3 DEF TypeOK, AddRule, LastWordWins, Known
  <2>6. RemovedIsGone'
    BY <1>0, <1>5 DEF Forget, Step, TypeOK, ThreadRule, AddRule, RemovalRule, RemovedIsGone, Removing
  <2> QED
    BY <2>1, <2>2, <2>3, <2>4, <2>5, <2>6 DEF ForwardBooks
<1>6. CASE Unlist(j)
  <2>1. TypeOK'
    <3>1. job' \in [Job -> [kind : {"none", "stop", "remove", "update"},
                          of : Forward \cup {None}, step : JobStepName]]
      <4>1. CASE Step(j, "again")
        BY <1>0, <4>1 DEF Step, TypeOK
      <4>2. CASE Over(j)
        BY <1>0, <4>2 DEF Over, Idle, TypeOK
      <4> QED
        BY <1>6, <4>1, <4>2 DEF Unlist
    <3> QED
      BY <1>0, <1>6, <3>1 DEF Unlist, TypeOK
  <2>2. ThreadRule'
    BY <1>0, <1>6 DEF Unlist, Step, Over, Idle, TypeOK, ThreadRule
  <2>3. AddRule'
    BY <1>0, <1>6 DEF Unlist, Step, Over, Idle, TypeOK, ThreadRule, AddRule, RemovalRule
  <2>4. RemovalRule'
    BY <1>0, <1>6 DEF Unlist, Step, Over, Idle, TypeOK, ThreadRule, AddRule, RemovalRule
  <2>5. LastWordWins'
    BY <2>1, <2>3 DEF TypeOK, AddRule, LastWordWins, Known
  <2>6. RemovedIsGone'
    <3>1. SUFFICES ASSUME NEW f \in Forward, add[f] = "done", f \notin listed',
                          f \notin overtaken, ~ Removing(f)'
                   PROVE  thread[f] = "ended" /\ f \notin sessions /\ latest[f] = "none"
      BY <1>6 DEF Unlist, RemovedIsGone
    <3>2. \A k \in Job \ {j} : job'[k] = job[k]
      BY <1>0, <1>6 DEF Unlist, Step, Over, TypeOK
    <3>3. CASE f = job[j].of
      <4>1. At(j, f, {"unlist"})
        BY <1>6, <3>3 DEF Unlist
      <4>2. \A k \in Job : ~ At(k, f, {"shutdown", "join", "forget"})
        BY <3>1, <3>2, <4>1 DEF Removing
      <4> QED
        BY <1>0, <3>1, <4>1, <4>2 DEF RemovalRule
    <3>4. CASE f # job[j].of
      <4>1. ~ Removing(f)
        BY <3>1, <3>2, <3>4 DEF Removing
      <4>2. f \notin listed
        BY <1>6, <3>1, <3>4 DEF Unlist
      <4> QED
        BY <1>0, <3>1, <4>1, <4>2 DEF RemovedIsGone
    <3> QED
      BY <3>3, <3>4
  <2> QED
    BY <2>1, <2>2, <2>3, <2>4, <2>5, <2>6 DEF ForwardBooks
<1> QED
  BY <1>1, <1>2, <1>3, <1>4, <1>5, <1>6 DEF Send

(* A call begins, and change_forward adds a forward when it is through. *)
LEMMA CallKeepsInv ==
  ASSUME ForwardBooks, NEW j \in Job, NEW f \in Forward,
         NEW kind \in {"stop", "remove", "update"}, Call(j, kind, f)
  PROVE  ForwardBooks'
<1>0. TypeOK /\ ThreadRule /\ AddRule /\ RemovalRule /\ RemovedIsGone
  BY DEF ForwardBooks
<1>1. Call(j, kind, f)
  OBVIOUS
<1>2. TypeOK'
  BY <1>0, <1>1 DEF Call, TypeOK
<1>3. ThreadRule'
  BY <1>0, <1>1 DEF Call, TypeOK, ThreadRule
<1>4. AddRule'
  BY <1>0, <1>1 DEF Call, TypeOK, ThreadRule, AddRule, RemovalRule
<1>5. RemovalRule'
  BY <1>0, <1>1 DEF Call, TypeOK, ThreadRule, AddRule, RemovalRule
<1>6. LastWordWins'
  BY <1>2, <1>4 DEF TypeOK, AddRule, LastWordWins, Known
<1>7. RemovedIsGone'
  BY <1>0, <1>1 DEF Call, TypeOK, ThreadRule, AddRule, RemovalRule, RemovedIsGone, Removing
<1> QED
  BY <1>2, <1>3, <1>4, <1>5, <1>6, <1>7 DEF ForwardBooks

LEMMA ChangeKeepsInv ==
  ASSUME ForwardBooks, NEW j \in Job, AddChanged(j) \/ ChangeFails(j) \/ Restore(j)
  PROVE  ForwardBooks'
<1>0. TypeOK /\ ThreadRule /\ AddRule /\ RemovalRule /\ RemovedIsGone
  BY DEF ForwardBooks
<1>1. /\ job[j].step \in {"again", "restore"}
      /\ Step(j, "restore") \/ Over(j)
      /\ (\E f \in Forward : Spawn(f)) \/ UNCHANGED <<add, threadVars, mapVars, overtaken>>
  BY DEF AddChanged, ChangeFails, Restore
<1>2. TypeOK'
  <2>1. job' \in [Job -> [kind : {"none", "stop", "remove", "update"},
                        of : Forward \cup {None}, step : JobStepName]]
    BY <1>0, <1>1 DEF Step, Over, Idle, TypeOK
  <2> QED
    BY <1>0, <1>1, <2>1 DEF Spawn, TypeOK
<1>3. \A k \in Job :
        \/ job'[k] = job[k]
        \/ job[k].step \in {"again", "restore"} /\ job'[k].step \in {"restore", "over"}
  BY <1>0, <1>1 DEF Step, Over, Idle, TypeOK
<1>4. CASE UNCHANGED <<add, threadVars, mapVars, overtaken>>
  <2>1. ThreadRule'
    BY <1>0, <1>1, <1>3, <1>4 DEF TypeOK, ThreadRule
  <2>2. AddRule'
    BY <1>0, <1>1, <1>3, <1>4 DEF TypeOK, ThreadRule, AddRule, RemovalRule
  <2>3. RemovalRule'
    BY <1>0, <1>1, <1>3, <1>4 DEF TypeOK, ThreadRule, AddRule, RemovalRule
  <2>4. LastWordWins'
    BY <1>2, <2>2 DEF TypeOK, AddRule, LastWordWins, Known
  <2>5. RemovedIsGone'
    BY <1>0, <1>1, <1>3, <1>4 DEF TypeOK, ThreadRule, AddRule, RemovalRule, RemovedIsGone, Removing
  <2> QED
    BY <1>2, <2>1, <2>2, <2>3, <2>4, <2>5 DEF ForwardBooks
<1>5. CASE \E f \in Forward : Spawn(f)
  <2>1. ThreadRule'
    BY <1>0, <1>1, <1>3, <1>5 DEF Spawn, TypeOK, ThreadRule
  <2>2. AddRule'
    BY <1>0, <1>1, <1>3, <1>5 DEF Spawn, TypeOK, ThreadRule, AddRule, RemovalRule
  <2>3. RemovalRule'
    BY <1>0, <1>1, <1>3, <1>5 DEF Spawn, TypeOK, ThreadRule, AddRule, RemovalRule
  <2>4. LastWordWins'
    BY <1>2, <2>2 DEF TypeOK, AddRule, LastWordWins, Known
  <2>5. RemovedIsGone'
    BY <1>0, <1>1, <1>3, <1>5 DEF Spawn, TypeOK, ThreadRule, AddRule, RemovalRule, RemovedIsGone, Removing
  <2> QED
    BY <1>2, <2>1, <2>2, <2>3, <2>4, <2>5 DEF ForwardBooks
<1> QED
  BY <1>1, <1>4, <1>5

LEMMA StepKeepsInv == ForwardBooks /\ [Next]_vars => ForwardBooks'
<1> SUFFICES ASSUME ForwardBooks, [Next]_vars PROVE ForwardBooks'
  OBVIOUS
<1>1. ASSUME NEW f \in Forward, Add(f) \/ AddStep(f) \/ ThreadStep(f)
      PROVE  ForwardBooks'
  BY <1>1, ForwardKeepsInv DEF Add
<1>2. ASSUME NEW j \in Job, JobStep(j) PROVE ForwardBooks'
  BY <1>2, RemovalKeepsInv, ChangeKeepsInv DEF JobStep
<1>3. ASSUME NEW j \in Job, NEW f \in Forward,
             NEW kind \in {"stop", "remove", "update"}, Call(j, kind, f)
      PROVE  ForwardBooks'
  BY <1>3, CallKeepsInv
<1>4. CASE UNCHANGED vars
  BY <1>4
     DEF vars, ForwardBooks, TypeOK, ThreadRule, AddRule, RemovalRule,
         LastWordWins, Known, RemovedIsGone, Removing
<1> QED
  BY <1>1, <1>2, <1>3, <1>4 DEF Next

(* Whoever is told of a forward is told of one that was added; and a        *)
(* command stays in the channel until the thread ends.                      *)
LEMMA ForwardKeepsWaits ==
  ASSUME ForwardBooks, WaitRule, NEW f \in Forward,
         (Spawn(f) /\ UNCHANGED job) \/ AddStep(f) \/ ThreadStep(f)
  PROVE  WaitRule'
<1>0. TypeOK /\ ThreadRule
  BY DEF ForwardBooks
<1>1. CASE Spawn(f) /\ UNCHANGED job
  BY <1>0, <1>1 DEF Spawn, TypeOK, ThreadRule, WaitRule
<1>2. CASE AddStep(f)
  BY <1>0, <1>2 DEF AddStep, InsertSession, List, Register, TypeOK, WaitRule
<1>3. CASE ThreadStep(f)
  <2>1. /\ UNCHANGED <<add, sessions, listed, job>>
        /\ thread[f] \notin {"none", "ended"} /\ add[f] # "none"
        /\ \A g \in Forward : g # f => latest'[g] = latest[g]
    BY <1>0, <1>3
       DEF ThreadStep, Fail, Up, Accept, Opened, Obey, Break, End, Emit,
           TypeOK, ThreadRule
  <2>2. \A g \in Forward : g # f => thread'[g] = thread[g] /\ cmds'[g] = cmds[g]
    BY <1>0, <1>3
       DEF ThreadStep, Fail, Up, Accept, Opened, Obey, Break, End, TypeOK
  <2>3. thread'[f] = "ended" \/ cmds'[f] = cmds[f]
    BY <1>0, <1>3
       DEF ThreadStep, Fail, Up, Accept, Opened, Obey, Break, End, TypeOK
  <2>4. ASSUME NEW j \in Job, job[j].step = "join"
        PROVE  thread'[job[j].of] = "ended" \/ cmds'[job[j].of] > 0
    <3>1. job[j].of \in Forward /\ (thread[job[j].of] = "ended" \/ cmds[job[j].of] > 0)
      BY <2>4 DEF WaitRule, Target
    <3> QED
      BY <2>1, <2>2, <2>3, <3>1
  <2> QED
    BY <2>1, <2>4 DEF WaitRule
<1> QED
  BY <1>1, <1>2, <1>3

LEMMA JobKeepsWaits ==
  ASSUME ForwardBooks, WaitRule, NEW j \in Job, JobStep(j)
  PROVE  WaitRule'
<1>0. TypeOK /\ ThreadRule
  BY DEF ForwardBooks
<1> USE DEF Target
<1>1. CASE Send(j)
  BY <1>0, <1>1 DEF Send, Sent, Over, Idle, TypeOK, WaitRule
<1>2. CASE Take(j)
  BY <1>0, <1>2 DEF Take, Step, TypeOK, WaitRule
<1>3. CASE Shutdown(j)
  BY <1>0, <1>3 DEF Shutdown, Sent, Step, TypeOK, WaitRule
<1>4. CASE Join(j) \/ Forget(j) \/ Unlist(j) \/ ChangeFails(j)
  BY <1>0, <1>4 DEF Join, Forget, Unlist, ChangeFails, Step, Over, Idle, TypeOK, WaitRule
<1>5. CASE AddChanged(j) \/ Restore(j)
  BY <1>0, <1>5 DEF AddChanged, Restore, Spawn, Over, Idle, TypeOK, ThreadRule, WaitRule
<1> QED
  BY <1>1, <1>2, <1>3, <1>4, <1>5 DEF JobStep

LEMMA StepKeepsWaits ==
  ForwardBooks /\ WaitRule /\ [Next]_vars => WaitRule'
<1> SUFFICES ASSUME ForwardBooks, WaitRule, [Next]_vars PROVE WaitRule'
  OBVIOUS
<1>0. TypeOK /\ ThreadRule
  BY DEF ForwardBooks
<1>1. ASSUME NEW j \in Job, NEW f \in Forward,
             NEW kind \in {"stop", "remove", "update"}, Call(j, kind, f)
      PROVE  WaitRule'
  BY <1>0, <1>1 DEF Call, Known, TypeOK, ThreadRule, WaitRule, Target
<1>2. CASE UNCHANGED vars
  BY <1>2 DEF vars, WaitRule
<1> QED
  BY <1>1, <1>2, ForwardKeepsWaits, JobKeepsWaits DEF Next, Add

(* A full channel is that of a thread that has something to obey.           *)
LEMMA WaitsEnd == ForwardBooks /\ WaitRule => NobodyHangs
<1> SUFFICES ASSUME ForwardBooks, WaitRule PROVE NobodyHangs
  OBVIOUS
<1>0. TypeOK /\ ThreadRule
  BY DEF ForwardBooks
<1>1. ASSUME NEW j \in Job, job[j].step \in {"send", "shutdown", "join"} PROVE Unhung(j)
  <2>1. /\ job[j].of \in Forward /\ thread[job[j].of] \in {"starting", "active", "busy", "ended"}
        /\ cmds[job[j].of] \in 0 .. Cap
    BY <1>0, <1>1 DEF TypeOK, ThreadRule, WaitRule, Target
  <2>2. CASE job[j].step \in {"send", "shutdown"}
    BY <2>1, <2>2 DEF Unhung, JobGoesOn, ThreadGoesOn, Room
  <2>3. CASE job[j].step = "join"
    BY <2>1, <2>3 DEF Unhung, JobGoesOn, ThreadGoesOn, WaitRule
  <2> QED
    BY <1>1, <2>2, <2>3
<1>2. ASSUME NEW j \in Job, job[j].step = "take", ~Unhung(j)
      PROVE  \E k \in Job : job[k].step = "send" /\ Unhung(k)
  BY <1>1, <1>2 DEF Unhung, JobGoesOn, Guarded
<1>3. ASSUME NEW j \in Job, job[j].step \in {"forget", "unlist", "again", "restore"}
      PROVE  Unhung(j)
  BY <1>3 DEF Unhung, JobGoesOn
<1> QED
  BY <1>0, <1>1, <1>2, <1>3 DEF NobodyHangs, TypeOK

(* However forward_add, the forward's own thread, stops, removals and       *)
(* changes overlap: a forward that is no longer listed has given its port   *)
(* back and left nothing behind, and a failure the thread reports first is  *)
(* not covered by the registration - except for a forward whose removal     *)
(* was asked for before forward_add was through with it.  And no stop,      *)
(* removal or change waits in vain (NobodyHangs).                           *)
THEOREM ForwardsAreAccountedFor == Spec => []ForwardInv
<1>1. Init => ForwardBooks /\ WaitRule
  BY InitForward DEF Init, Idle, WaitRule, Target
<1>2. ForwardBooks /\ WaitRule /\ [Next]_vars => (ForwardBooks /\ WaitRule)'
  BY StepKeepsInv, StepKeepsWaits
<1>3. ForwardBooks /\ WaitRule => ForwardInv
  BY WaitsEnd DEF ForwardInv
<1> QED
  BY <1>1, <1>2, <1>3, PTL DEF Spec

=============================================================================
