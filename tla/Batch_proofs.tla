---------------------------- MODULE Batch_proofs ----------------------------
(***************************************************************************)
(* Proofs about batches, for every set of hosts and every limit: the batch *)
(* itself (BatchExecution), then those who dispatch one - what a node and  *)
(* an agent are told of it (BatchCaller), and what the batch window shows  *)
(* of it (BatchWindow).  The batch's own proofs are reused for them: a     *)
(* step of the user is a step of the batch, leaves it alone, or begins the *)
(* next one.                                                               *)
(***************************************************************************)
EXTENDS BatchCaller, BatchWindow, FiniteSetTheorems, SequenceTheorems, TLAPS

Elems(s) == {s[i] : i \in DOMAIN s}
Distinct(s) == \A i, j \in DOMAIN s : s[i] = s[j] => i = j

(* Taking the oldest handle off a queue of different hosts leaves the rest. *)
LEMMA TailElems ==
  ASSUME NEW S, NEW s \in Seq(S), s # <<>>, Distinct(s)
  PROVE  /\ Tail(s) \in Seq(S) /\ Len(Tail(s)) = Len(s) - 1
         /\ Head(s) \in Elems(s) /\ Head(s) \in S
         /\ Elems(Tail(s)) = Elems(s) \ {Head(s)}
         /\ Distinct(Tail(s))
<1>1. /\ Tail(s) \in Seq(S) /\ Len(Tail(s)) = Len(s) - 1
      /\ \A i \in 1 .. Len(Tail(s)) : Tail(s)[i] = s[i + 1]
      /\ Head(s) \in S
  BY HeadTailProperties
<1>2. /\ DOMAIN s = 1 .. Len(s) /\ Len(s) \in Nat
      /\ DOMAIN Tail(s) = 1 .. Len(s) - 1
  BY <1>1, LenProperties
<1>3. Len(s) > 0 /\ Head(s) = s[1]
  BY <1>2, EmptySeq
<1>4. Distinct(Tail(s))
  BY <1>1, <1>2 DEF Distinct
<1>5. ASSUME NEW x \in Elems(Tail(s))
      PROVE  x \in Elems(s) /\ x # Head(s)
  <2>1. PICK i \in 1 .. Len(s) - 1 : x = s[i + 1]
    BY <1>1, <1>2 DEF Elems
  <2> QED
    BY <2>1, <1>2, <1>3 DEF Elems, Distinct
<1>6. ASSUME NEW x \in Elems(s), x # Head(s)
      PROVE  x \in Elems(Tail(s))
  <2>1. PICK i \in 2 .. Len(s) : x = s[i]
    BY <1>2, <1>3, <1>6 DEF Elems
  <2>2. i - 1 \in DOMAIN Tail(s) /\ Tail(s)[i - 1] = x
    BY <2>1, <1>1, <1>2
  <2> QED
    BY <2>2 DEF Elems
<1>7. Head(s) \in Elems(s)
  BY <1>2, <1>3 DEF Elems
<1> QED
  BY <1>1, <1>4, <1>5, <1>6, <1>7

(* Appending a host that is not in the queue. *)
LEMMA AppendElems ==
  ASSUME NEW S, NEW s \in Seq(S), NEW x \in S, Distinct(s), x \notin Elems(s)
  PROVE  /\ Append(s, x) \in Seq(S) /\ Len(Append(s, x)) = Len(s) + 1
         /\ Elems(Append(s, x)) = Elems(s) \cup {x}
         /\ Distinct(Append(s, x))
<1>1. /\ Append(s, x) \in Seq(S) /\ Len(Append(s, x)) = Len(s) + 1
      /\ \A i \in 1 .. Len(s) : Append(s, x)[i] = s[i]
      /\ Append(s, x)[Len(s) + 1] = x
  BY AppendProperties
<1>2. /\ DOMAIN s = 1 .. Len(s) /\ Len(s) \in Nat
      /\ DOMAIN Append(s, x) = 1 .. Len(s) + 1
  BY <1>1, LenProperties
<1>3. Distinct(Append(s, x))
  BY <1>1, <1>2 DEF Distinct, Elems
<1>4. Elems(Append(s, x)) \subseteq Elems(s) \cup {x}
  BY <1>1, <1>2 DEF Elems
<1>5. Elems(s) \subseteq Elems(Append(s, x))
  BY <1>1, <1>2 DEF Elems
<1>6. x \in Elems(Append(s, x))
  <2>1. Len(s) + 1 \in DOMAIN Append(s, x)
    BY <1>2
  <2> QED
    BY <2>1, <1>1 DEF Elems
<1> QED
  BY <1>1, <1>3, <1>4, <1>5, <1>6

(* A queue has no more elements than its length. *)
LEMMA ElemsBound ==
  ASSUME NEW S, NEW s \in Seq(S)
  PROVE  IsFiniteSet(Elems(s)) /\ Cardinality(Elems(s)) <= Len(s)
<1>1. DOMAIN s = 1 .. Len(s) /\ Len(s) \in Nat /\ s \in [1 .. Len(s) -> S]
  BY LenProperties
<1>2. s \in [1 .. Len(s) -> Elems(s)]
  BY <1>1 DEF Elems
<1>3. s \in Surjection(1 .. Len(s), Elems(s))
  BY <1>1, <1>2 DEF Surjection, Elems
<1>4. IsFiniteSet(1 .. Len(s)) /\ Cardinality(1 .. Len(s)) = Len(s)
  BY <1>1, FS_Interval
<1> QED
  BY <1>3, <1>4, FS_Surjection

(* Sets of hosts of the batch are finite. *)
LEMMA BatchFinite ==
  ASSUME TypeOK
  PROVE  /\ IsFiniteSet(batch)
         /\ \A T \in SUBSET batch : IsFiniteSet(T) /\ Cardinality(T) \in Nat
BY BatchAssumption, FS_Subset, FS_CardinalityType DEF TypeOK

LEMMA InitInv == Init => Books
<1> SUFFICES ASSUME Init PROVE Books
  OBVIOUS
<1>1. PICK b \in (SUBSET Host) \ {{}} : BatchIs(Dispatched(b))
  BY DEF Init
<1>2. /\ batch = b /\ phase = "loop" /\ todo = b /\ current = NoHost
      /\ handles = <<>> /\ thread = [h \in Host |-> "none"]
      /\ outcome = [h \in Host |-> "none"] /\ success = 0 /\ fail = 0
      /\ pending = {} /\ details = {} /\ history = Open
      /\ lastStatus = "none" /\ done = FALSE /\ cancelled = FALSE
  BY <1>1 DEF BatchIs, Dispatched
<1>3. InHandles = {} /\ Len(handles) = 0 /\ handles \in Seq(batch)
  BY <1>2, EmptySeq DEF InHandles
<1>4. Counted = {} /\ Skipped = {}
  BY <1>2, <1>3 DEF Counted, Skipped
<1>5. TypeOK
  BY <1>2, <1>3 DEF TypeOK, Phase, Thread, Outcome, Open, Init
<1>6. HandlesBound
  BY <1>3, BatchAssumption DEF HandlesBound
<1>7. PlacesAreExact
  BY <1>2, <1>3, <1>4, BatchAssumption DEF PlacesAreExact
<1>8. CountsAreExact
  <2>1. /\ {h \in Counted : outcome[h] = "success"} = {}
        /\ {h \in Counted : outcome[h] = "failed"} = {}
    BY <1>4
  <2> QED
    BY <2>1, <1>2, FS_EmptySet DEF CountsAreExact
<1>9. WrittenInOrder
  BY <1>2 DEF WrittenInOrder
<1> QED
  BY <1>5, <1>6, <1>7, <1>8, <1>9 DEF Books

(* One more host counted as r, and nobody else's outcome changed among the *)
(* counted: that number grows by one and the other stays.                  *)
LEMMA CountOneMore ==
  ASSUME TypeOK, CountsAreExact, NEW C, NEW o, NEW h \in batch,
         h \notin Counted, C = Counted \cup {h}, Counted \subseteq batch,
         \A g \in Counted : o[g] = outcome[g], o[h] \in {"success", "failed"}
  PROVE  /\ Cardinality({g \in C : o[g] = "success"}) =
              success + (IF o[h] = "success" THEN 1 ELSE 0)
         /\ Cardinality({g \in C : o[g] = "failed"}) =
              fail + (IF o[h] = "failed" THEN 1 ELSE 0)
<1> DEFINE Of(r) == {g \in Counted : outcome[g] = r}
           New(r) == {g \in C : o[g] = r}
<1>1. ASSUME NEW r
      PROVE  /\ New(r) = IF o[h] = r THEN Of(r) \cup {h} ELSE Of(r)
             /\ h \notin Of(r) /\ IsFiniteSet(Of(r))
             /\ Cardinality(Of(r)) \in Nat
  <2>1. Of(r) \subseteq batch /\ h \notin Of(r)
    OBVIOUS
  <2>2. IsFiniteSet(Of(r)) /\ Cardinality(Of(r)) \in Nat
    BY <2>1, BatchFinite
  <2> QED
    BY <2>1, <2>2
<1>2. ASSUME NEW r
      PROVE  Cardinality(New(r)) =
               Cardinality(Of(r)) + (IF o[h] = r THEN 1 ELSE 0)
  <2> HIDE DEF Of, New
  <2>1. /\ New(r) = IF o[h] = r THEN Of(r) \cup {h} ELSE Of(r)
        /\ h \notin Of(r) /\ IsFiniteSet(Of(r))
        /\ Cardinality(Of(r)) \in Nat
    BY <1>1
  <2>2. Cardinality(Of(r) \cup {h}) = Cardinality(Of(r)) + 1
    BY <2>1, FS_AddElement
  <2>3. CASE o[h] = r
    BY <2>1, <2>2, <2>3
  <2>4. CASE o[h] # r
    BY <2>1, <2>4
  <2> QED
    BY <2>3, <2>4
<1>3. /\ Cardinality(Of("success")) = success
      /\ Cardinality(Of("failed")) = fail
  BY DEF CountsAreExact
<1> QED
  BY <1>2, <1>3

(* Where the hosts are, as facts about sets. *)
LEMMA HandlesAre ==
  ASSUME TypeOK, PlacesAreExact
  PROVE  /\ InHandles = Elems(handles) /\ Distinct(handles)
         /\ InHandles \subseteq batch /\ Counted \subseteq batch
<1>1. DOMAIN handles = 1 .. Len(handles) /\ handles \in [1 .. Len(handles) -> batch]
  BY LenProperties DEF TypeOK
<1> QED
  BY <1>1 DEF InHandles, Elems, Distinct, PlacesAreExact, Counted

LEMMA JoinKeepsInv ==
  ASSUME Books, Join, phase \in {"slot", "drain"}
  PROVE  Books'
<1> DEFINE h == Head(handles)
<1>1. TypeOK /\ PlacesAreExact /\ CountsAreExact /\ WrittenInOrder /\ HandlesBound
  BY DEF Books
<1>2. /\ handles \in Seq(batch) /\ handles # <<>>
      /\ InHandles = Elems(handles) /\ Distinct(handles)
      /\ InHandles \subseteq batch /\ Counted \subseteq batch
  BY <1>1, HandlesAre DEF TypeOK, Join
<1>3. /\ Tail(handles) \in Seq(batch) /\ Len(Tail(handles)) = Len(handles) - 1
      /\ h \in InHandles /\ h \in batch /\ Distinct(Tail(handles))
      /\ Elems(Tail(handles)) = InHandles \ {h}
  BY <1>2, TailElems
<1>4. /\ handles' = Tail(handles) /\ thread[h] = "over"
      /\ success' = IF outcome[h] = "success" THEN success + 1 ELSE success
      /\ fail' = IF outcome[h] = "success" THEN fail ELSE fail + 1
      /\ pending' = pending \cup {h}
      /\ UNCHANGED <<batch, phase, todo, current, thread, outcome, details,
                     history, lastStatus, done, cancelled, alive>>
  BY DEF Join, threadVars, dbVars
<1>5. InHandles' = InHandles \ {h}
  BY <1>3, <1>4 DEF InHandles, Elems
<1>6. h \notin todo \cup {current} /\ h \notin Counted /\ h \notin Skipped
  BY <1>1, <1>3, <1>4 DEF PlacesAreExact, Counted, Skipped
<1>7. Counted' = Counted \cup {h}
  BY <1>3, <1>4, <1>5, <1>6 DEF Counted
<1>8. Skipped' = Skipped
  BY <1>4 DEF Skipped
<1>9. outcome[h] \in {"success", "failed"}
  BY <1>1, <1>3, <1>4 DEF TypeOK, PlacesAreExact, Outcome
<1>10. TypeOK'
  BY <1>1, <1>3, <1>4 DEF TypeOK
<1>11. HandlesBound'
  <2>1. Len(handles) \in Nat
    BY <1>2, LenProperties
  <2> QED
    BY <1>1, <1>3, <1>4, <2>1, BatchAssumption DEF HandlesBound
<1>12. PlacesAreExact'
  <2>1. \A i, j \in DOMAIN handles' : handles'[i] = handles'[j] => i = j
    BY <1>3, <1>4 DEF Distinct
  <2>2. pending' = Counted' \ Skipped'
    BY <1>1, <1>4, <1>6, <1>7, <1>8 DEF PlacesAreExact
  <2>3. phase' \notin {"loop", "slot", "drain"} => handles' = <<>>
    BY <1>4
  <2> QED
    BY <1>1, <1>4, <1>5, <2>1, <2>2, <2>3 DEF PlacesAreExact
<1>13. CountsAreExact'
  <2>1. /\ Cardinality({g \in Counted' : outcome[g] = "success"}) =
              success + (IF outcome[h] = "success" THEN 1 ELSE 0)
        /\ Cardinality({g \in Counted' : outcome[g] = "failed"}) =
              fail + (IF outcome[h] = "failed" THEN 1 ELSE 0)
    <3> HIDE DEF h
    <3> QED
      BY <1>1, <1>2, <1>3, <1>6, <1>7, <1>9, CountOneMore
  <2> QED
    BY <2>1, <1>1, <1>4, <1>9 DEF CountsAreExact, TypeOK
<1>14. WrittenInOrder'
  BY <1>1, <1>4 DEF WrittenInOrder
<1> QED
  BY <1>10, <1>11, <1>12, <1>13, <1>14 DEF Books

LEMMA SkipKeepsInv ==
  ASSUME Books, NEW h \in Host, Skip(h)
  PROVE  Books'
<1>1. TypeOK /\ PlacesAreExact /\ CountsAreExact /\ WrittenInOrder /\ HandlesBound
  BY DEF Books
<1>2. /\ phase = "loop" /\ h \in todo /\ todo' = todo \ {h}
      /\ fail' = fail + 1 /\ outcome' = [outcome EXCEPT ![h] = "failed"]
      /\ UNCHANGED <<batch, phase, current, handles, thread, success, pending,
                     details, history, lastStatus, done, cancelled, alive>>
  BY DEF Skip, dbVars
<1>3. /\ h \in batch /\ thread[h] = "none" /\ outcome[h] = "none"
      /\ h \notin InHandles /\ h # current /\ h \notin Counted
      /\ Counted \subseteq batch
  BY <1>1, <1>2 DEF TypeOK, PlacesAreExact, Counted
<1>4. InHandles' = InHandles
  BY <1>2 DEF InHandles
<1>5. Counted' = Counted \cup {h}
  BY <1>2, <1>3, <1>4 DEF Counted
<1>6. Skipped' = Skipped \cup {h}
  BY <1>1, <1>2, <1>3 DEF Skipped, TypeOK
<1>7. TypeOK'
  BY <1>1, <1>2 DEF TypeOK, Outcome
<1>8. HandlesBound'
  BY <1>1, <1>2 DEF HandlesBound
<1>9. PlacesAreExact'
  <2>1. h \notin pending
    BY <1>1, <1>3 DEF PlacesAreExact
  <2>2. pending' = Counted' \ Skipped'
    BY <1>1, <1>2, <1>3, <1>5, <1>6 DEF PlacesAreExact
  <2>3. \A g \in batch' : g \in todo' \cup {current'} <=>
                             thread'[g] = "none" /\ outcome'[g] = "none"
    BY <1>1, <1>2, <1>3 DEF PlacesAreExact, TypeOK
  <2>4. \A g \in Host : g # h => outcome'[g] = outcome[g]
    BY <1>1, <1>2 DEF TypeOK
  <2>5. \A g \in Host : thread'[g] = "over" => outcome'[g] # "none"
    BY <1>1, <1>2, <1>3, <2>4 DEF PlacesAreExact
  <2>6. \A g \in Host :
          thread'[g] \in {"spawned", "running"} => outcome'[g] = "none"
    BY <1>1, <1>2, <1>3, <2>4 DEF PlacesAreExact
  <2> QED
    BY <1>1, <1>2, <1>4, <2>2, <2>3, <2>5, <2>6 DEF PlacesAreExact
<1>10. CountsAreExact'
  <2>1. /\ \A g \in Counted : outcome'[g] = outcome[g]
        /\ outcome'[h] = "failed"
    BY <1>1, <1>2, <1>3 DEF TypeOK
  <2>2. /\ Cardinality({g \in Counted' : outcome'[g] = "success"}) = success + 0
        /\ Cardinality({g \in Counted' : outcome'[g] = "failed"}) = fail + 1
    <3> DEFINE c == Counted'
               o == outcome'
    <3>1. /\ c = Counted \cup {h} /\ \A g \in Counted : o[g] = outcome[g]
          /\ o[h] = "failed"
      BY <1>5, <2>1
    <3> HIDE DEF c, o
    <3>2. /\ Cardinality({g \in c : o[g] = "success"}) =
                success + (IF o[h] = "success" THEN 1 ELSE 0)
          /\ Cardinality({g \in c : o[g] = "failed"}) =
                fail + (IF o[h] = "failed" THEN 1 ELSE 0)
      BY <1>1, <1>3, <3>1, CountOneMore
    <3>3. /\ Cardinality({g \in c : o[g] = "success"}) = success + 0
          /\ Cardinality({g \in c : o[g] = "failed"}) = fail + 1
      BY <3>1, <3>2
    <3> QED
      BY <3>3 DEF c, o
  <2> QED
    BY <2>2, <1>1, <1>2 DEF CountsAreExact, TypeOK
<1>11. WrittenInOrder'
  BY <1>1, <1>2 DEF WrittenInOrder
<1> QED
  BY <1>7, <1>8, <1>9, <1>10, <1>11 DEF Books

LEMMA CheckKeepsInv ==
  ASSUME Books, NEW h \in Host, Check(h)
  PROVE  Books'
<1>1. TypeOK /\ PlacesAreExact /\ CountsAreExact /\ WrittenInOrder /\ HandlesBound
  BY DEF Books
<1>2. /\ phase = "loop" /\ h \in todo /\ todo' = todo \ {h} /\ current' = h
      /\ phase' = "slot"
      /\ UNCHANGED <<batch, handles, thread, outcome, success, fail, pending,
                     details, history, lastStatus, done, cancelled, alive>>
  BY DEF Check, threadVars, dbVars
<1>3. /\ h \in batch /\ h \notin InHandles /\ current = NoHost /\ h # NoHost
      /\ NoHost \notin batch
  BY <1>1, <1>2, BatchAssumption DEF TypeOK, PlacesAreExact
<1>4. InHandles' = InHandles
  BY <1>2 DEF InHandles
<1>5. Counted' = Counted /\ Skipped' = Skipped
  BY <1>2, <1>3, <1>4 DEF Counted, Skipped
<1>6. TypeOK'
  BY <1>1, <1>2, <1>3 DEF TypeOK, Phase
<1>7. HandlesBound'
  BY <1>1, <1>2 DEF HandlesBound
<1>8. PlacesAreExact'
  BY <1>1, <1>2, <1>3, <1>4, <1>5 DEF PlacesAreExact
<1>9. CountsAreExact'
  BY <1>1, <1>2, <1>5 DEF CountsAreExact
<1>10. WrittenInOrder'
  BY <1>1, <1>2 DEF WrittenInOrder
<1> QED
  BY <1>6, <1>7, <1>8, <1>9, <1>10 DEF Books

LEMMA SpawnKeepsInv ==
  ASSUME Books, Spawn
  PROVE  Books'
<1>1. TypeOK /\ PlacesAreExact /\ CountsAreExact /\ WrittenInOrder /\ HandlesBound
  BY DEF Books
<1>2. /\ phase = "slot" /\ Len(handles) < MaxConcurrent
      /\ thread' = [thread EXCEPT ![current] = "spawned"]
      /\ handles' = Append(handles, current)
      /\ current' = NoHost /\ phase' = "loop"
      /\ UNCHANGED <<batch, todo, outcome, success, fail, pending, details,
                     history, lastStatus, done, cancelled, alive>>
  BY DEF Spawn, dbVars
<1>3. /\ current \in batch /\ current \in Host /\ current \notin todo
      /\ current \notin InHandles /\ thread[current] = "none"
      /\ outcome[current] = "none" /\ current \notin Counted
      /\ current \notin Skipped /\ NoHost \notin batch
  BY <1>1, <1>2, BatchAssumption DEF TypeOK, PlacesAreExact, Counted, Skipped
<1>4. /\ handles \in Seq(batch) /\ InHandles = Elems(handles)
      /\ Distinct(handles)
  BY <1>1, HandlesAre DEF TypeOK
<1>5. /\ handles' \in Seq(batch) /\ Len(handles') = Len(handles) + 1
      /\ Elems(handles') = InHandles \cup {current} /\ Distinct(handles')
  BY <1>2, <1>3, <1>4, AppendElems
<1>6. InHandles' = InHandles \cup {current}
  BY <1>5 DEF InHandles, Elems
<1>7. Counted' = Counted
  BY <1>2, <1>3, <1>6 DEF Counted
<1>8. \A g \in Host : g # current => thread'[g] = thread[g]
  BY <1>1, <1>2 DEF TypeOK
<1>9. thread'[current] = "spawned"
  BY <1>1, <1>2, <1>3 DEF TypeOK
<1>10. Skipped' = Skipped
  BY <1>1, <1>2, <1>3, <1>8, <1>9 DEF Skipped, TypeOK
<1>11. TypeOK'
  BY <1>1, <1>2, <1>5 DEF TypeOK, Phase, Thread
<1>12. HandlesBound'
  <2>1. Len(handles) \in Nat
    BY <1>4, LenProperties
  <2> QED
    BY <1>2, <1>5, <2>1, BatchAssumption DEF HandlesBound
<1>13. PlacesAreExact'
  <2>1. \A i, j \in DOMAIN handles' : handles'[i] = handles'[j] => i = j
    BY <1>5 DEF Distinct
  <2>2. \A g \in batch : g \in todo' \cup {current'} <=>
                            thread'[g] = "none" /\ outcome'[g] = "none"
    BY <1>1, <1>2, <1>3, <1>8, <1>9 DEF PlacesAreExact, TypeOK
  <2>3. /\ \A g \in Host : thread'[g] \in {"spawned", "running"} => g \in InHandles'
        /\ \A g \in InHandles' : thread'[g] # "none"
        /\ \A g \in Host : thread'[g] = "over" => outcome'[g] # "none"
        /\ \A g \in Host :
              thread'[g] \in {"spawned", "running"} => outcome'[g] = "none"
    <3>1. InHandles \subseteq Host
      BY <1>1, HandlesAre DEF TypeOK
    <3> QED
      BY <3>1, <1>1, <1>2, <1>3, <1>6, <1>8, <1>9 DEF PlacesAreExact
  <2>4. /\ current' # NoHost <=> phase' = "slot"
        /\ current' \notin todo' \cup InHandles' /\ todo' \cap InHandles' = {}
    <3>1. NoHost \notin todo' /\ NoHost \notin InHandles'
      BY <1>1, <1>2, <1>3, <1>6, HandlesAre DEF TypeOK
    <3> QED
      BY <3>1, <1>1, <1>2, <1>3, <1>6 DEF PlacesAreExact
  <2> QED
    BY <1>1, <1>2, <1>7, <1>10, <2>1, <2>2, <2>3, <2>4 DEF PlacesAreExact
<1>14. CountsAreExact'
  BY <1>1, <1>2, <1>7 DEF CountsAreExact
<1>15. WrittenInOrder'
  BY <1>1, <1>2 DEF WrittenInOrder
<1> QED
  BY <1>11, <1>12, <1>13, <1>14, <1>15 DEF Books

(* The rest of the coordinator changes no place of a host. *)
LEMMA WritesKeepInv ==
  ASSUME Books, LoopEnds \/ SaveDetails \/ SaveHistory \/ SaveStatus \/ EmitDone
  PROVE  Books'
<1>1. TypeOK /\ PlacesAreExact /\ CountsAreExact /\ WrittenInOrder /\ HandlesBound
  BY DEF Books
<1>2. /\ UNCHANGED <<batch, todo, current, handles, thread, outcome, success,
                     fail, pending, cancelled, alive>>
      /\ phase # "slot" /\ phase' \in Phase \ {"slot", "loop"}
      /\ phase = "loop" => todo = {} /\ phase' = "drain"
      /\ phase = "drain" => handles = <<>>
  BY DEF LoopEnds, SaveDetails, SaveHistory, SaveStatus, EmitDone, threadVars,
         dbVars, Phase
<1>3. InHandles' = InHandles /\ Counted' = Counted /\ Skipped' = Skipped
  BY <1>2 DEF InHandles, Counted, Skipped
<1>4. TypeOK'
  <2>1. CASE LoopEnds
    BY <1>1, <2>1 DEF TypeOK, LoopEnds, threadVars, dbVars, Phase
  <2>2. CASE SaveDetails
    BY <1>1, <2>2 DEF TypeOK, SaveDetails, threadVars, Phase
  <2>3. CASE SaveHistory
    <3>1. history' \in [completed : BOOLEAN, success : Nat, fail : Nat]
      BY <1>1, <2>3 DEF TypeOK, SaveHistory
    <3> QED
      BY <1>1, <2>3, <3>1 DEF TypeOK, SaveHistory, threadVars, Phase
  <2>4. CASE SaveStatus
    BY <1>1, <2>4 DEF TypeOK, SaveStatus, threadVars, Phase
  <2>5. CASE EmitDone
    BY <1>1, <2>5 DEF TypeOK, EmitDone, threadVars, dbVars, Phase
  <2> QED
    BY <2>1, <2>2, <2>3, <2>4, <2>5
<1>5. HandlesBound'
  BY <1>1, <1>2 DEF HandlesBound
<1>6. PlacesAreExact'
  BY <1>1, <1>2, <1>3 DEF PlacesAreExact, Phase
<1>7. CountsAreExact'
  BY <1>1, <1>2, <1>3 DEF CountsAreExact
<1>8. WrittenInOrder'
  BY <1>1, <1>2 DEF WrittenInOrder, LoopEnds, SaveDetails, SaveHistory,
                    SaveStatus, EmitDone, dbVars
<1> QED
  BY <1>4, <1>5, <1>6, <1>7, <1>8 DEF Books

LEMMA ThreadsKeepInv ==
  ASSUME Books, NEW h \in Host, HostThread(h)
  PROVE  Books'
<1>1. TypeOK /\ PlacesAreExact /\ CountsAreExact /\ WrittenInOrder /\ HandlesBound
  BY DEF Books
<1>2. /\ UNCHANGED <<batch, phase, todo, current, handles, success, fail,
                     pending, details, history, lastStatus, done, cancelled,
                     alive>>
      /\ thread[h] \in {"spawned", "running"}
      /\ \/ /\ thread' = [thread EXCEPT ![h] = "running"]
            /\ outcome' = outcome
         \/ \E r \in {"success", "failed"} :
              /\ thread' = [thread EXCEPT ![h] = "over"]
              /\ outcome' = [outcome EXCEPT ![h] = r]
  BY DEF HostThread, EmitStart, Reporting, Report, coordVars, dbVars
<1>3. /\ h \in InHandles /\ h \notin Counted /\ h \notin Skipped
      /\ outcome[h] = "none" /\ h \notin todo \cup {current}
  BY <1>1, <1>2 DEF PlacesAreExact, Counted, Skipped
<1>4. /\ thread'[h] \in {"running", "over"}
      /\ thread'[h] = "running" => outcome'[h] = "none"
      /\ thread'[h] = "over" => outcome'[h] # "none"
      /\ \A g \in Host : g # h => thread'[g] = thread[g] /\ outcome'[g] = outcome[g]
  BY <1>1, <1>2, <1>3 DEF TypeOK
<1>5. InHandles' = InHandles /\ Counted' = Counted
  BY <1>2 DEF InHandles, Counted
<1>6. Skipped' = Skipped
  BY <1>1, <1>2, <1>3, <1>4 DEF Skipped, TypeOK
<1>7. TypeOK'
  BY <1>1, <1>2 DEF TypeOK, Thread, Outcome
<1>8. HandlesBound'
  BY <1>1, <1>2 DEF HandlesBound
<1>9. PlacesAreExact'
  <2>1. batch \subseteq Host /\ InHandles \subseteq Host
    BY <1>1, HandlesAre DEF TypeOK
  <2>2. \A g \in batch : g \in todo \cup {current} <=>
                            thread'[g] = "none" /\ outcome'[g] = "none"
    BY <1>1, <1>3, <1>4, <2>1 DEF PlacesAreExact
  <2>3. /\ \A g \in Host : thread'[g] \in {"spawned", "running"} => g \in InHandles
        /\ \A g \in InHandles : thread'[g] # "none"
        /\ \A g \in Host : thread'[g] = "over" => outcome'[g] # "none"
        /\ \A g \in Host :
              thread'[g] \in {"spawned", "running"} => outcome'[g] = "none"
    BY <1>1, <1>3, <1>4, <2>1 DEF PlacesAreExact
  <2> QED
    BY <1>1, <1>2, <1>5, <1>6, <2>2, <2>3 DEF PlacesAreExact
<1>10. CountsAreExact'
  <2>1. \A g \in Counted : outcome'[g] = outcome[g]
    BY <1>1, <1>3, <1>4, HandlesAre DEF TypeOK
  <2>2. \A r : {g \in Counted : outcome'[g] = r} = {g \in Counted : outcome[g] = r}
    BY <2>1
  <2> QED
    BY <1>1, <1>2, <1>5, <2>2 DEF CountsAreExact
<1>11. WrittenInOrder'
  BY <1>1, <1>2 DEF WrittenInOrder
<1> QED
  BY <1>7, <1>8, <1>9, <1>10, <1>11 DEF Books

LEMMA NextKeepsInv == Books /\ [Next]_batchVars => Books'
<1> SUFFICES ASSUME Books, [Next]_batchVars PROVE Books'
  OBVIOUS
<1>1. CASE \E h \in Host : Skip(h)
  BY <1>1, SkipKeepsInv
<1>2. CASE \E h \in Host : Check(h)
  BY <1>2, CheckKeepsInv
<1>3. CASE MakeRoom \/ JoinRest
  BY <1>3, JoinKeepsInv DEF MakeRoom, JoinRest
<1>4. CASE Spawn
  BY <1>4, SpawnKeepsInv
<1>5. CASE LoopEnds \/ SaveDetails \/ SaveHistory \/ SaveStatus \/ EmitDone
  BY <1>5, WritesKeepInv
<1>6. CASE \E h \in Host : HostThread(h)
  BY <1>6, ThreadsKeepInv
<1>7. CASE Cancel \/ Exit \/ UNCHANGED batchVars
  <2>1. /\ UNCHANGED <<batch, coordVars, threadVars, dbVars>>
        /\ cancelled' \in {cancelled, TRUE} /\ alive' \in {alive, FALSE}
    BY <1>7 DEF Cancel, Exit, batchVars
  <2>2. InHandles' = InHandles /\ Counted' = Counted /\ Skipped' = Skipped
    BY <2>1 DEF coordVars, threadVars, InHandles, Counted, Skipped
  <2>3. TypeOK'
    BY <2>1 DEF coordVars, threadVars, dbVars, Books, TypeOK
  <2>4. PlacesAreExact' /\ HandlesBound'
    BY <2>1, <2>2 DEF coordVars, threadVars, Books, PlacesAreExact, HandlesBound
  <2>5. CountsAreExact' /\ WrittenInOrder'
    BY <2>1, <2>2 DEF coordVars, threadVars, dbVars, Books, CountsAreExact,
                      WrittenInOrder
  <2> QED
    BY <2>3, <2>4, <2>5 DEF Books
<1> QED
  BY <1>1, <1>2, <1>3, <1>4, <1>5, <1>6, <1>7 DEF Next, BatchNext, Coordinator

(* The coordinator's books are right in every reachable state: types, the   *)
(* queue of handles within the limit, every host in one place, the counts   *)
(* those of the announced outcomes, the rows written in order.              *)
THEOREM BooksAreRight == Spec => []Books
<1>1. Init /\ [][Next]_batchVars => []Books
  BY InitInv, NextKeepsInv, PTL
<1> QED
  BY <1>1, PTL DEF Spec

(* The handles in the queue bound the host threads that run.                *)
LEMMA BooksBound == Books => Inv
<1> SUFFICES ASSUME Books PROVE Cardinality(Live) <= MaxConcurrent
  BY DEF Inv, WindowBound
<1>1. TypeOK /\ PlacesAreExact /\ HandlesBound
  BY DEF Books
<1>2. Live \subseteq InHandles
  BY <1>1 DEF Live, PlacesAreExact
<1>3. handles \in Seq(batch) /\ InHandles = Elems(handles) /\ Len(handles) \in Nat
  BY <1>1, HandlesAre, LenProperties DEF TypeOK
<1>4. IsFiniteSet(InHandles) /\ Cardinality(InHandles) <= Len(handles)
  BY <1>3, ElemsBound
<1>5. Cardinality(Live) <= Cardinality(InHandles)
  BY <1>2, <1>4, FS_Subset
<1>6. Cardinality(Live) \in Nat /\ Cardinality(InHandles) \in Nat
  BY <1>2, <1>4, FS_Subset, FS_CardinalityType
<1> QED
  BY <1>1, <1>3, <1>4, <1>5, <1>6, BatchAssumption DEF HandlesBound

(* The books are right and no more than MaxConcurrent threads run at a time. *)
THEOREM BatchIsBounded == Spec => []Inv
  BY BooksBound, BooksAreRight, PTL

(* Once a task has written its rows every host has an outcome.              *)
LEMMA AllHaveOutcome ==
  ASSUME Books, phase \in {"history", "quick", "done", "finished"}
  PROVE  /\ Counted = batch /\ Live = {}
         /\ \A h \in batch : outcome[h] \in {"success", "failed"}
<1>1. TypeOK /\ PlacesAreExact
  BY DEF Books
<1>2. todo = {} /\ handles = <<>> /\ current = NoHost
  BY <1>1 DEF PlacesAreExact
<1>3. InHandles = {}
  BY <1>2, EmptySeq DEF InHandles
<1>4. Counted = batch
  BY <1>1, <1>2, <1>3, BatchAssumption DEF Counted, TypeOK
<1>5. Live = {}
  BY <1>1, <1>3 DEF Live, PlacesAreExact
<1>6. ASSUME NEW h \in batch
      PROVE  outcome[h] \in {"success", "failed"}
  <2>1. h \in Host /\ h # NoHost /\ h \notin todo \cup {current}
    BY <1>1, <1>2, BatchAssumption DEF TypeOK
  <2>2. thread[h] \in Thread /\ outcome[h] \in Outcome
    BY <1>1, <2>1 DEF TypeOK
  <2>3. thread[h] \notin {"spawned", "running"}
    BY <1>1, <1>3, <2>1 DEF PlacesAreExact
  <2>4. outcome[h] # "none"
    BY <1>1, <2>1, <2>2, <2>3 DEF PlacesAreExact, Thread
  <2> QED
    BY <2>2, <2>4 DEF Outcome
<1> QED
  BY <1>4, <1>5, <1>6

(* The books make a completed row true.                                     *)
LEMMA BooksMakeHistory == Books => HistoryTellsTruth
<1> SUFFICES ASSUME Books, history.completed PROVE
      /\ history.success + history.fail = Cardinality(batch)
      /\ history.success = Cardinality({h \in batch : outcome[h] = "success"})
      /\ details = batch \ Skipped
  BY DEF HistoryTellsTruth
<1>1. phase \in {"quick", "done", "finished"}
  BY DEF Books, WrittenInOrder, Open
<1>2. /\ Counted = batch
      /\ \A h \in batch : outcome[h] \in {"success", "failed"}
  BY <1>1, AllHaveOutcome
<1>3. /\ history.success = success /\ history.fail = fail /\ details = pending
      /\ pending = Counted \ Skipped
  BY <1>1 DEF Books, WrittenInOrder, PlacesAreExact
<1> DEFINE good == {h \in batch : outcome[h] = "success"}
           bad == {h \in batch : outcome[h] = "failed"}
<1>4. success = Cardinality(good) /\ fail = Cardinality(bad)
  BY <1>2 DEF Books, CountsAreExact
<1>5. good \cup bad = batch /\ good \cap bad = {}
  BY <1>2
<1>6. IsFiniteSet(good) /\ IsFiniteSet(bad)
  BY BatchFinite DEF Books
<1>7. Cardinality(good \cup bad) = Cardinality(good) + Cardinality(bad)
  <2> HIDE DEF good, bad
  <2>1. Cardinality(good \cap bad) = 0
    BY <1>5, FS_EmptySet
  <2>2. Cardinality(good \cup bad) =
          Cardinality(good) + Cardinality(bad) - Cardinality(good \cap bad)
    BY <1>6, FS_Union
  <2>3. Cardinality(good) \in Nat /\ Cardinality(bad) \in Nat
    BY <1>6, FS_CardinalityType
  <2> QED
    BY <2>1, <2>2, <2>3
<1> QED
  BY <1>2, <1>3, <1>4, <1>5, <1>7

(* A completed history row agrees with what was announced, and its details  *)
(* are those of the hosts that ran.                                         *)
THEOREM HistoryTellsTruthHolds == Spec => []HistoryTellsTruth
  BY BooksMakeHistory, BooksAreRight, PTL

LEMMA BooksMakeDone == Books => DoneIsLast
  BY AllHaveOutcome DEF Books, WrittenInOrder, DoneIsLast

(* done comes after every output and after every thread has ended.          *)
THEOREM DoneIsLastHolds == Spec => []DoneIsLast
  BY BooksMakeDone, BooksAreRight, PTL

LEMMA OutcomeStays ==
  ASSUME Books, [Next]_batchVars, NEW h \in Host, outcome[h] # "none"
  PROVE  outcome'[h] = outcome[h]
<1>1. TypeOK /\ PlacesAreExact
  BY DEF Books
<1>2. CASE \E g \in Host : Skip(g)
  <2>1. PICK g \in Host : Skip(g)
    BY <1>2
  <2>2. outcome[g] = "none" /\ outcome' = [outcome EXCEPT ![g] = "failed"]
    BY <2>1, <1>1 DEF Skip, PlacesAreExact, TypeOK
  <2> QED
    BY <2>2, <1>1 DEF TypeOK
<1>3. CASE \E g \in Host : Reporting(g)
  <2>1. PICK g \in Host, r \in {"success", "failed"} : Report(g, r)
    BY <1>3 DEF Reporting
  <2>2. outcome[g] = "none" /\ outcome' = [outcome EXCEPT ![g] = r]
    BY <2>1, <1>1 DEF Report, PlacesAreExact
  <2> QED
    BY <2>2, <1>1 DEF TypeOK
<1>4. CASE outcome' = outcome
  BY <1>4
<1> QED
  BY <1>2, <1>3, <1>4 DEF Next, BatchNext, Coordinator, Check, MakeRoom, Join,
     Spawn, LoopEnds, JoinRest, SaveDetails, SaveHistory, SaveStatus, EmitDone,
     HostThread, EmitStart, Cancel, Exit, threadVars, batchVars

(* A host's outcome is announced once and never changes.                    *)
THEOREM ReportedOnceHolds == Spec => ReportedOnce
<1>1. Books /\ [Next]_batchVars =>
        [\A h \in Host : outcome[h] # "none" => outcome'[h] = outcome[h]]_batchVars
  BY OutcomeStays
<1> QED
  BY <1>1, BooksAreRight, PTL DEF Spec, ReportedOnce

(* Since the cancellation, when the hosts S had been started: the host that *)
(* waited for a slot may have got it, and none waits after that.            *)
LateStart(S) ==
  /\ cancelled
  /\ Started = S \/ (phase # "slot" /\ \E h \in Host : Started \ S \subseteq {h})

LEMMA LateStartStays ==
  ASSUME NEW S, Books, [Next]_batchVars, LateStart(S)
  PROVE  LateStart(S)'
<1>1. TypeOK /\ PlacesAreExact
  BY DEF Books
<1>2. cancelled /\ cancelled'
  BY DEF LateStart, Next, BatchNext, Coordinator, Skip, Check, MakeRoom, Join,
         Spawn, LoopEnds, JoinRest, SaveDetails, SaveHistory, SaveStatus,
         EmitDone, HostThread, EmitStart, Reporting, Report, Cancel, Exit,
         batchVars
<1>3. CASE Spawn
  <2>1. current \in Host /\ phase' = "loop"
    BY <1>1, <1>3, BatchAssumption DEF Spawn, PlacesAreExact, TypeOK
  <2>2. Started' = Started \cup {current}
    BY <1>1, <1>3, <2>1 DEF Spawn, Started, TypeOK
  <2>3. Started = S
    BY <1>3 DEF Spawn, LateStart
  <2>4. Started' \ S \subseteq {current}
    BY <2>2, <2>3
  <2> QED
    BY <1>2, <2>1, <2>4 DEF LateStart
<1>4. ASSUME Started' = Started, phase # "slot" => phase' # "slot"
      PROVE  LateStart(S)'
  BY <1>2, <1>4 DEF LateStart
<1>5. CASE \E h \in Host : HostThread(h)
  <2>1. PICK h \in Host : HostThread(h)
    BY <1>5
  <2>2. thread[h] # "none" /\ phase' = phase
        /\ \E t \in {"running", "over"} : thread' = [thread EXCEPT ![h] = t]
    BY <2>1 DEF HostThread, EmitStart, Reporting, Report, coordVars
  <2>3. Started' = Started
    BY <1>1, <2>2 DEF Started, TypeOK
  <2> QED
    BY <1>4, <2>2, <2>3
<1>6. ASSUME thread' = thread, phase # "slot" => phase' # "slot"
      PROVE  LateStart(S)'
  BY <1>4, <1>6 DEF Started
<1>7. CASE \E h \in Host : Skip(h) \/ Check(h)
  BY <1>2, <1>6, <1>7 DEF Skip, Check
<1>8. CASE MakeRoom \/ LoopEnds \/ JoinRest \/ SaveDetails \/ SaveHistory
           \/ SaveStatus \/ EmitDone
  BY <1>6, <1>8 DEF MakeRoom, Join, LoopEnds, JoinRest, SaveDetails,
         SaveHistory, SaveStatus, EmitDone, threadVars
<1>9. CASE Cancel \/ Exit \/ UNCHANGED batchVars
  BY <1>6, <1>9 DEF Cancel, Exit, batchVars, coordVars, threadVars
<1> QED
  BY <1>3, <1>5, <1>7, <1>8, <1>9 DEF Next, BatchNext, Coordinator

LEMMA LateStartIsOne ==
  ASSUME NEW S, LateStart(S)
  PROVE  Cardinality(Started \ S) <= 1
<1>1. PICK h : Started \ S \subseteq {h}
  BY DEF LateStart
<1>2. Started \ S = {} \/ Started \ S = {h}
  BY <1>1
<1>3. Cardinality({}) = 0 /\ Cardinality({h}) = 1
  BY FS_EmptySet, FS_Singleton
<1>4. CASE Started \ S = {}
  BY <1>3, <1>4
<1>5. CASE Started \ S = {h}
  BY <1>3, <1>5
<1> QED
  BY <1>2, <1>4, <1>5

(* After a cancellation one host may still start, the one that waited for a *)
(* slot, however long the batch goes on.                                    *)
THEOREM AtMostOneLateStartHolds ==
  Init /\ [][Next]_batchVars => AtMostOneLateStart
<1> SUFFICES ASSUME NEW S \in SUBSET Host
             PROVE  Init /\ [][Next]_batchVars =>
                      []((cancelled /\ Started = S) => [](Cardinality(Started \ S) <= 1))
  BY DEF AtMostOneLateStart
<1>1. cancelled /\ Started = S => LateStart(S)
  BY DEF LateStart
<1>2. Books /\ [Next]_batchVars /\ LateStart(S) => LateStart(S)'
  BY LateStartStays
<1>3. LateStart(S) => Cardinality(Started \ S) <= 1
  BY LateStartIsOne
<1> QED
  BY <1>1, <1>2, <1>3, InitInv, NextKeepsInv, PTL
------------------------------------------------------------------------------
(* The parts that only the caller's steps can break.                        *)
CallerBooks == Books /\ CallerTypeOK /\ DoneMeansAll /\ ReadsAreFinal

(* Every step is one the batch may take.                                    *)
LEMMA StepIsBatchStep == [CallerNext]_allVars => [Next]_batchVars
  BY DEF CallerNext, allVars, DispatchOk, DispatchFails, ReturnOnDone, ReturnOnCap,
         Return, WaitEnds, ReadRow, ReadDetails, AskAgain, StopRun, BatchGoesOn,
         ProcessExits, Next

(* A complete row and what was written before it do not change any more.    *)
LEMMA CompleteIsFinal ==
  ASSUME Books, [Next]_batchVars
  PROVE  /\ batch' = batch
         /\ history.completed =>
              history' = history /\ details' = details /\ fail' = fail
         /\ done => history.completed /\ done'
<1>1. history.completed => phase \in {"quick", "done", "finished"}
  BY DEF Books, WrittenInOrder, Open
<1>2. done => phase = "finished" /\ history.completed
  BY DEF Books, WrittenInOrder
<1>3. batch' = batch
  BY DEF Next, BatchNext, Coordinator, Skip, Check, MakeRoom, Join, Spawn,
         LoopEnds, JoinRest, SaveDetails, SaveHistory, SaveStatus, EmitDone,
         HostThread, EmitStart, Reporting, Report, Cancel, Exit, batchVars
<1>4. ASSUME phase \in {"quick", "done", "finished"}
      PROVE  history' = history /\ details' = details /\ fail' = fail
  BY <1>4
     DEF Next, BatchNext, Coordinator, Skip, Check, MakeRoom, Join, Spawn,
         LoopEnds, JoinRest, SaveDetails, SaveHistory, SaveStatus, EmitDone,
         HostThread, EmitStart, Reporting, Report, Cancel, Exit, batchVars,
         coordVars, threadVars, dbVars
<1>5. ASSUME done, phase = "finished" PROVE done'
  BY <1>5
     DEF Next, BatchNext, Coordinator, Skip, Check, MakeRoom, Join, Spawn,
         LoopEnds, JoinRest, SaveDetails, SaveHistory, SaveStatus, EmitDone,
         HostThread, EmitStart, Reporting, Report, Cancel, Exit, batchVars,
         coordVars, threadVars, dbVars
<1> QED
  BY <1>1, <1>2, <1>3, <1>4, <1>5

(* A node that hears done folds every host, and its verdict is the count's. *)
LEMMA DoneFoldsAll ==
  ASSUME Books, done
  PROVE  Reported = batch /\ (Fold(batch) <=> fail = 0)
<1>1. phase = "finished"
  BY DEF Books, WrittenInOrder
<1>2. /\ Counted = batch
      /\ \A h \in batch : outcome[h] \in {"success", "failed"}
  BY <1>1, AllHaveOutcome
<1>3. Reported = batch
  BY <1>2 DEF Reported
<1> DEFINE bad == {h \in batch : outcome[h] = "failed"}
<1>4. fail = Cardinality(bad) /\ IsFiniteSet(bad)
  BY <1>2, BatchFinite DEF Books, CountsAreExact
<1>5. fail = 0 <=> bad = {}
  <2> HIDE DEF bad
  <2> QED
    BY <1>4, FS_EmptySet
<1>6. Fold(batch) <=> bad = {}
  BY DEF Fold
<1> QED
  BY <1>3, <1>5, <1>6

LEMMA CallerInitOK == CallerInit => CallerBooks
<1> SUFFICES ASSUME CallerInit PROVE CallerBooks
  OBVIOUS
<1>1. Books
  BY InitInv DEF CallerInit
<1>2. CallerTypeOK
  BY <1>1 DEF Books, CallerInit, CallerTypeOK, Step
<1>3. DoneMeansAll /\ ReadsAreFinal
  BY DEF CallerInit, DoneMeansAll, ReadsAreFinal, Open
<1> QED
  BY <1>1, <1>2, <1>3 DEF CallerBooks

(* Every step of the caller, and of the batch under it, keeps the parts.    *)
LEMMA CallerNextOK == CallerBooks /\ [CallerNext]_allVars => CallerBooks'
<1> SUFFICES ASSUME CallerBooks, [CallerNext]_allVars PROVE CallerBooks'
  OBVIOUS
<1>1. Books /\ CallerTypeOK /\ DoneMeansAll /\ ReadsAreFinal /\ [Next]_batchVars
  BY StepIsBatchStep DEF CallerBooks
<1>2. Books' /\ TypeOK'
  BY <1>1, NextKeepsInv DEF Books
<1>3. /\ batch' = batch
      /\ history.completed =>
           history' = history /\ details' = details /\ fail' = fail
      /\ done => history.completed /\ done'
  BY <1>1, CompleteIsFinal
<1>4. details \subseteq batch
  BY <1>1 DEF Books, TypeOK
<1>5. CASE UNCHANGED callerVars
  <2>1. CallerTypeOK'
    BY <1>1, <1>2, <1>3, <1>5 DEF CallerTypeOK, callerVars
  <2>2. DoneMeansAll'
    BY <1>1, <1>3, <1>5 DEF DoneMeansAll, ReadsAreFinal, callerVars
  <2>3. ReadsAreFinal'
    BY <1>1, <1>3, <1>5 DEF ReadsAreFinal, callerVars
  <2> QED
    BY <1>2, <2>1, <2>2, <2>3 DEF CallerBooks
<1>6. CASE DispatchOk \/ DispatchFails
  <2>1. CallerTypeOK'
    BY <1>1, <1>2, <1>3, <1>6 DEF DispatchOk, DispatchFails, CallerTypeOK, Step
  <2>2. ~heard /\ ~heard'
    BY <1>1, <1>6 DEF DispatchOk, DispatchFails, CallerTypeOK, ReadsAreFinal
  <2>3. DoneMeansAll' /\ ReadsAreFinal'
    BY <1>1, <1>3, <1>6, <2>2
       DEF DispatchOk, DispatchFails, DoneMeansAll, ReadsAreFinal
  <2> QED
    BY <1>2, <2>1, <2>3 DEF CallerBooks
<1>7. CASE ReturnOnDone
  <2>1. Reported = batch /\ (Fold(batch) <=> fail = 0) /\ fail' = fail
    BY <1>1, <1>3, <1>7, DoneFoldsAll DEF ReturnOnDone
  <2>2. CallerTypeOK'
    BY <1>1, <1>2, <1>3, <1>7
       DEF ReturnOnDone, Return, Waiting, Reported, Fold, CallerTypeOK, Step
  <2>3. folded' = batch' /\ (ok' <=> fail' = 0)
    BY <1>3, <1>7, <2>1 DEF ReturnOnDone, Return
  <2>4. DoneMeansAll' /\ ReadsAreFinal'
    BY <1>1, <1>3, <1>7, <2>3
       DEF ReturnOnDone, Return, Waiting, DoneMeansAll, ReadsAreFinal
  <2> QED
    BY <1>2, <2>2, <2>4 DEF CallerBooks
<1>8. CASE ReturnOnCap
  <2>1. ~heard /\ ~heard'
    BY <1>1, <1>8 DEF ReturnOnCap, Return, Waiting, CallerTypeOK, ReadsAreFinal
  <2>2. CallerTypeOK'
    BY <1>1, <1>2, <1>3, <1>8, <2>1
       DEF ReturnOnCap, Return, Waiting, Reported, Fold, CallerTypeOK, Step
  <2>3. DoneMeansAll' /\ ReadsAreFinal'
    BY <1>1, <1>3, <1>8, <2>1
       DEF ReturnOnCap, Return, Waiting, DoneMeansAll, ReadsAreFinal
  <2> QED
    BY <1>2, <2>2, <2>3 DEF CallerBooks
<1>9. CASE WaitEnds
  <2>1. CallerTypeOK'
    BY <1>1, <1>2, <1>3, <1>9 DEF WaitEnds, Waiting, CallerTypeOK, Step, Books, TypeOK
  <2>2. done \in BOOLEAN
    BY <1>1 DEF Books, TypeOK
  <2>3. heard' => done'
    BY <1>3, <1>9, <2>2 DEF WaitEnds
  <2>4. caller' = "agent" /\ step' = "row"
    BY <1>9 DEF WaitEnds, Waiting
  <2>5. DoneMeansAll'
    BY <2>4 DEF DoneMeansAll
  <2>6. row' = row /\ report' = report
    BY <1>9 DEF WaitEnds
  <2>7. ReadsAreFinal'
    BY <1>1, <1>3, <2>3, <2>4, <2>6 DEF ReadsAreFinal
  <2> QED
    BY <1>2, <2>1, <2>5, <2>7 DEF CallerBooks
<1>10. CASE ReadRow
  <2>1. CallerTypeOK'
    BY <1>1, <1>2, <1>3, <1>10 DEF ReadRow, CallerTypeOK, Step
  <2>2. DoneMeansAll'
    BY <1>1, <1>3, <1>10 DEF ReadRow, DoneMeansAll, ReadsAreFinal
  <2>3. ReadsAreFinal'
    BY <1>1, <1>3, <1>10 DEF ReadRow, ReadsAreFinal, CallerTypeOK
  <2> QED
    BY <1>2, <2>1, <2>2, <2>3 DEF CallerBooks
<1>11. CASE ReadDetails
  <2>1. CallerTypeOK'
    BY <1>1, <1>2, <1>3, <1>4, <1>11 DEF ReadDetails, CallerTypeOK, Step
  <2>2. DoneMeansAll'
    BY <1>1, <1>3, <1>11 DEF ReadDetails, DoneMeansAll, ReadsAreFinal
  <2>3. ReadsAreFinal'
    BY <1>1, <1>3, <1>11 DEF ReadDetails, ReadsAreFinal, CallerTypeOK
  <2> QED
    BY <1>2, <2>1, <2>2, <2>3 DEF CallerBooks
<1>12. CASE AskAgain
  <2>1. CallerTypeOK'
    BY <1>1, <1>2, <1>3, <1>12 DEF AskAgain, CallerTypeOK, Step
  <2>2. DoneMeansAll' /\ ReadsAreFinal'
    BY <1>1, <1>3, <1>12 DEF AskAgain, DoneMeansAll, ReadsAreFinal
  <2> QED
    BY <1>2, <2>1, <2>2 DEF CallerBooks
<1>13. CASE StopRun
  <2>1. CallerTypeOK'
    BY <1>1, <1>2, <1>3, <1>13 DEF StopRun, CallerTypeOK, Step
  <2>2. DoneMeansAll' /\ ReadsAreFinal'
    BY <1>1, <1>3, <1>13 DEF StopRun, DoneMeansAll, ReadsAreFinal, CallerTypeOK
  <2> QED
    BY <1>2, <2>1, <2>2 DEF CallerBooks
<1> QED
  BY <1>5, <1>6, <1>7, <1>8, <1>9, <1>10, <1>11, <1>12, <1>13
     DEF CallerNext, BatchGoesOn, ProcessExits, allVars

(* A node that hears done has every output, an agent that is told of a      *)
(* completed run is told all of it, and one that waited for done is told so. *)
THEOREM CallersAreToldTheTruth == CallerSpec => []CallerInv
<1>1. CallerInit /\ [][CallerNext]_allVars => []CallerBooks
  BY CallerInitOK, CallerNextOK, PTL
<1>2. CallerBooks => CallerInv
  <2> SUFFICES ASSUME CallerBooks PROVE ReportIsWhole
    BY DEF CallerBooks, CallerInv
  <2>1. HistoryTellsTruth /\ ReadsAreFinal
    BY BooksMakeHistory DEF CallerBooks
  <2> QED
    BY <2>1 DEF HistoryTellsTruth, ReadsAreFinal, ReportIsWhole
<1> QED
  BY <1>1, <1>2, PTL DEF CallerSpec

(* A caller's batch is a batch.                                            *)
LEMMA CallerRunsBatch ==
  CallerInit /\ [][CallerNext]_allVars => Init /\ [][Next]_batchVars
<1>1. CallerInit => Init
  BY DEF CallerInit
<1> QED
  BY <1>1, StepIsBatchStep, PTL

(* The batch's limit and books hold under its callers too.                  *)
THEOREM CallersKeepTheBooks == CallerSpec => []Inv
<1>1. Init /\ [][Next]_batchVars => []Books
  BY InitInv, NextKeepsInv, PTL
<1> QED
  BY <1>1, CallerRunsBatch, BooksBound, PTL DEF CallerSpec

(* An agent that stops a run stops it: one more host may start, the one     *)
(* that waited for a slot, whenever the stop arrives.                       *)
THEOREM CallersStopInTime == CallerSpec => AtMostOneLateStart
  BY CallerRunsBatch, AtMostOneLateStartHolds, PTL DEF CallerSpec
-----------------------------------------------------------------------------
(* How many steps a batch has left: every part of the measure is a number,  *)
(* and each action moves a host, a handle or the phase one place on.        *)
LEMMA BatchWeights ==
  ASSUME NEW t \in Nat, NEW s \in Nat, NEW e \in Nat, NEW l \in Nat, NEW p \in Nat,
         NEW t1 \in Nat, NEW s1 \in Nat, NEW e1 \in Nat, NEW l1 \in Nat, NEW p1 \in Nat,
         \/ t = t1 + 1 /\ s1 = s /\ e1 = e /\ l1 = l /\ p1 <= p + 4
         \/ t1 = t /\ s1 = s + 1 /\ e1 = e /\ l1 = l + 1 /\ p = p1 + 4
         \/ t1 = t /\ s = s1 + 1 /\ e1 = e + 1 /\ l1 = l /\ p1 = p
         \/ t1 = t /\ s1 = s /\ e = e1 + 1 /\ l1 = l /\ p1 = p
         \/ t1 = t /\ s1 = s /\ e1 = e /\ l = l1 + 1 /\ p1 = p
         \/ t1 = t /\ s1 = s /\ e1 = e /\ l1 = l /\ p = p1 + 1
  PROVE  5 * t1 + 2 * s1 + e1 + l1 + p1 < 5 * t + 2 * s + e + l + p
OBVIOUS

LEMMA OneLess ==
  ASSUME NEW S, IsFiniteSet(S), NEW x \in S
  PROVE  Cardinality(S) = Cardinality(S \ {x}) + 1
<1>1. Cardinality(S \ {x}) = Cardinality(S) - 1
  BY FS_RemoveElement
<1>2. Cardinality(S) \in Nat
  BY FS_CardinalityType
<1> QED
  BY <1>1, <1>2

LEMMA OneMore ==
  ASSUME NEW S, IsFiniteSet(S), NEW x, x \notin S
  PROVE  Cardinality(S \cup {x}) = Cardinality(S) + 1
BY FS_AddElement

LEMMA BatchParts ==
  ASSUME TypeOK
  PROVE  /\ IsFiniteSet(todo) /\ Cardinality(todo) \in Nat
         /\ IsFiniteSet(ToStart) /\ Cardinality(ToStart) \in Nat
         /\ IsFiniteSet(ToEnd) /\ Cardinality(ToEnd) \in Nat
         /\ Len(handles) \in Nat /\ PhaseStepsLeft \in Nat
<1>1. todo \subseteq Host /\ ToStart \subseteq Host /\ ToEnd \subseteq Host
  BY DEF TypeOK, ToStart, ToEnd
<1>2. Len(handles) \in Nat
  BY LenProperties DEF TypeOK
<1>3. PhaseStepsLeft \in Nat
  BY DEF TypeOK, Phase, PhaseStepsLeft
<1> QED
  BY <1>1, <1>2, <1>3, BatchAssumption, FS_Subset, FS_CardinalityType

LEMMA BatchStepsAreNat == TypeOK => BatchStepsLeft \in Nat
<1> SUFFICES ASSUME TypeOK PROVE BatchStepsLeft \in Nat
  OBVIOUS
<1>1. /\ Cardinality(todo) \in Nat /\ Cardinality(ToStart) \in Nat
      /\ Cardinality(ToEnd) \in Nat /\ Len(handles) \in Nat /\ PhaseStepsLeft \in Nat
  BY BatchParts
<1> QED
  BY <1>1 DEF BatchStepsLeft

LEMMA BatchMeasureFalls ==
  ASSUME TypeOK, TypeOK',
         \/ /\ Cardinality(todo) = Cardinality(todo)' + 1
            /\ Cardinality(ToStart)' = Cardinality(ToStart)
            /\ Cardinality(ToEnd)' = Cardinality(ToEnd)
            /\ Len(handles)' = Len(handles) /\ PhaseStepsLeft' <= PhaseStepsLeft + 4
         \/ /\ Cardinality(todo)' = Cardinality(todo)
            /\ Cardinality(ToStart)' = Cardinality(ToStart) + 1
            /\ Cardinality(ToEnd)' = Cardinality(ToEnd)
            /\ Len(handles)' = Len(handles) + 1 /\ PhaseStepsLeft = PhaseStepsLeft' + 4
         \/ /\ Cardinality(todo)' = Cardinality(todo)
            /\ Cardinality(ToStart) = Cardinality(ToStart)' + 1
            /\ Cardinality(ToEnd)' = Cardinality(ToEnd) + 1
            /\ Len(handles)' = Len(handles) /\ PhaseStepsLeft' = PhaseStepsLeft
         \/ /\ Cardinality(todo)' = Cardinality(todo)
            /\ Cardinality(ToStart)' = Cardinality(ToStart)
            /\ Cardinality(ToEnd) = Cardinality(ToEnd)' + 1
            /\ Len(handles)' = Len(handles) /\ PhaseStepsLeft' = PhaseStepsLeft
         \/ /\ Cardinality(todo)' = Cardinality(todo)
            /\ Cardinality(ToStart)' = Cardinality(ToStart)
            /\ Cardinality(ToEnd)' = Cardinality(ToEnd)
            /\ Len(handles) = Len(handles)' + 1 /\ PhaseStepsLeft' = PhaseStepsLeft
         \/ /\ Cardinality(todo)' = Cardinality(todo)
            /\ Cardinality(ToStart)' = Cardinality(ToStart)
            /\ Cardinality(ToEnd)' = Cardinality(ToEnd)
            /\ Len(handles)' = Len(handles) /\ PhaseStepsLeft = PhaseStepsLeft' + 1
  PROVE  BatchStepsLeft' < BatchStepsLeft
<1>1. /\ Cardinality(todo) \in Nat /\ Cardinality(ToStart) \in Nat
      /\ Cardinality(ToEnd) \in Nat /\ Len(handles) \in Nat /\ PhaseStepsLeft \in Nat
  BY BatchParts
<1>2. (TypeOK => /\ Cardinality(todo) \in Nat /\ Cardinality(ToStart) \in Nat
                 /\ Cardinality(ToEnd) \in Nat /\ Len(handles) \in Nat
                 /\ PhaseStepsLeft \in Nat)'
  BY BatchParts, PTL
<1>3. PICK t \in Nat, s \in Nat, e \in Nat, l \in Nat, p \in Nat :
        /\ t = Cardinality(todo) /\ s = Cardinality(ToStart) /\ e = Cardinality(ToEnd)
        /\ l = Len(handles) /\ p = PhaseStepsLeft
  BY <1>1
<1>4. PICK t1 \in Nat, s1 \in Nat, e1 \in Nat, l1 \in Nat, p1 \in Nat :
        /\ t1 = Cardinality(todo)' /\ s1 = Cardinality(ToStart)'
        /\ e1 = Cardinality(ToEnd)' /\ l1 = Len(handles)' /\ p1 = PhaseStepsLeft'
  BY <1>2
<1>5. \/ t = t1 + 1 /\ s1 = s /\ e1 = e /\ l1 = l /\ p1 <= p + 4
      \/ t1 = t /\ s1 = s + 1 /\ e1 = e /\ l1 = l + 1 /\ p = p1 + 4
      \/ t1 = t /\ s = s1 + 1 /\ e1 = e + 1 /\ l1 = l /\ p1 = p
      \/ t1 = t /\ s1 = s /\ e = e1 + 1 /\ l1 = l /\ p1 = p
      \/ t1 = t /\ s1 = s /\ e1 = e /\ l = l1 + 1 /\ p1 = p
      \/ t1 = t /\ s1 = s /\ e1 = e /\ l1 = l /\ p = p1 + 1
  BY <1>3, <1>4
<1>6. 5 * t1 + 2 * s1 + e1 + l1 + p1 < 5 * t + 2 * s + e + l + p
  BY <1>5, BatchWeights
<1> QED
  BY <1>3, <1>4, <1>6 DEF BatchStepsLeft

LEMMA BatchStepCounts == Books /\ BatchNext => BatchStepsLeft' < BatchStepsLeft
<1> SUFFICES ASSUME Books, BatchNext PROVE BatchStepsLeft' < BatchStepsLeft
  OBVIOUS
<1>0. TypeOK /\ TypeOK'
  BY NextKeepsInv DEF Books, Next
<1>f. IsFiniteSet(todo) /\ IsFiniteSet(ToStart) /\ IsFiniteSet(ToEnd)
  BY <1>0, BatchParts
<1>1. ASSUME NEW h \in Host, Skip(h) \/ Check(h) PROVE BatchStepsLeft' < BatchStepsLeft
  <2>1. /\ h \in todo /\ todo' = todo \ {h} /\ phase = "loop"
        /\ phase' \in {"loop", "slot"} /\ UNCHANGED <<thread, handles>>
    BY <1>1 DEF Skip, Check, threadVars
  <2>2. Cardinality(todo) = Cardinality(todo)' + 1
    BY <1>f, <2>1, OneLess
  <2>3. PhaseStepsLeft' <= PhaseStepsLeft + 4
    BY <2>1 DEF PhaseStepsLeft
  <2>4. ToStart' = ToStart /\ ToEnd' = ToEnd
    BY <2>1 DEF ToStart, ToEnd
  <2> QED
    BY <1>0, <2>1, <2>2, <2>3, <2>4, BatchMeasureFalls
<1>2. CASE Spawn
  <2>1. /\ phase = "slot" /\ phase' = "loop" /\ thread' = [thread EXCEPT ![current] = "spawned"]
        /\ handles' = Append(handles, current) /\ UNCHANGED todo
    BY <1>2 DEF Spawn
  <2>2. current \in batch /\ batch \subseteq Host /\ thread \in [Host -> Thread]
        /\ handles \in Seq(batch)
    BY <1>0, <2>1 DEF Books, PlacesAreExact, TypeOK
  <2>3. thread[current] = "none"
    BY <2>2 DEF Books, PlacesAreExact
  <2>4. ToStart' = ToStart \cup {current} /\ current \notin ToStart /\ ToEnd' = ToEnd
    BY <2>1, <2>2, <2>3 DEF ToStart, ToEnd
  <2>5. Cardinality(ToStart)' = Cardinality(ToStart) + 1
    BY <1>f, <2>4, OneMore
  <2>6. Len(handles)' = Len(handles) + 1
    BY <2>1, <2>2, AppendProperties
  <2>7. PhaseStepsLeft = PhaseStepsLeft' + 4
    BY <2>1 DEF PhaseStepsLeft
  <2> QED
    BY <1>0, <2>1, <2>4, <2>5, <2>6, <2>7, BatchMeasureFalls
<1>3. CASE MakeRoom \/ JoinRest
  <2>1. /\ handles # <<>> /\ handles' = Tail(handles)
        /\ UNCHANGED <<todo, thread, phase>>
    BY <1>3 DEF MakeRoom, JoinRest, Join, threadVars
  <2>2. handles \in Seq(batch)
    BY <1>0 DEF TypeOK
  <2>3. Len(handles) \in Nat /\ Len(handles)' = Len(handles) - 1
    BY <2>1, <2>2, HeadTailProperties, LenProperties
  <2>4. Len(handles) = Len(handles)' + 1
    BY <2>3
  <2>5. ToStart' = ToStart /\ ToEnd' = ToEnd /\ PhaseStepsLeft' = PhaseStepsLeft
    BY <2>1 DEF ToStart, ToEnd, PhaseStepsLeft
  <2> QED
    BY <1>0, <2>1, <2>4, <2>5, BatchMeasureFalls
<1>4. CASE LoopEnds \/ SaveDetails \/ SaveHistory \/ SaveStatus \/ EmitDone
  <2>1. UNCHANGED <<todo, thread, handles>>
    BY <1>4 DEF LoopEnds, SaveDetails, SaveHistory, SaveStatus, EmitDone, threadVars
  <2>2. PhaseStepsLeft = PhaseStepsLeft' + 1
    BY <1>4 DEF LoopEnds, SaveDetails, SaveHistory, SaveStatus, EmitDone, PhaseStepsLeft
  <2>3. ToStart' = ToStart /\ ToEnd' = ToEnd
    BY <2>1 DEF ToStart, ToEnd
  <2> QED
    BY <1>0, <2>1, <2>2, <2>3, BatchMeasureFalls
<1>5. ASSUME NEW h \in Host, EmitStart(h) PROVE BatchStepsLeft' < BatchStepsLeft
  <2>1. /\ thread[h] = "spawned" /\ thread' = [thread EXCEPT ![h] = "running"]
        /\ UNCHANGED <<todo, handles, phase>>
    BY <1>5 DEF EmitStart, coordVars
  <2>2. /\ h \in ToStart /\ ToStart' = ToStart \ {h}
        /\ h \notin ToEnd /\ ToEnd' = ToEnd \cup {h}
    BY <1>0, <2>1 DEF TypeOK, ToStart, ToEnd
  <2>3. /\ Cardinality(ToStart) = Cardinality(ToStart)' + 1
        /\ Cardinality(ToEnd)' = Cardinality(ToEnd) + 1
    BY <1>f, <2>2, OneLess, OneMore
  <2>4. PhaseStepsLeft' = PhaseStepsLeft
    BY <2>1 DEF PhaseStepsLeft
  <2> QED
    BY <1>0, <2>1, <2>3, <2>4, BatchMeasureFalls
<1>6. ASSUME NEW h \in Host, Reporting(h) PROVE BatchStepsLeft' < BatchStepsLeft
  <2>1. /\ thread[h] = "running" /\ thread' = [thread EXCEPT ![h] = "over"]
        /\ UNCHANGED <<todo, handles, phase>>
    BY <1>6 DEF Reporting, Report, coordVars
  <2>2. h \in ToEnd /\ ToEnd' = ToEnd \ {h} /\ ToStart' = ToStart
    BY <1>0, <2>1 DEF TypeOK, ToStart, ToEnd
  <2>3. Cardinality(ToEnd) = Cardinality(ToEnd)' + 1
    BY <1>f, <2>2, OneLess
  <2>4. PhaseStepsLeft' = PhaseStepsLeft
    BY <2>1 DEF PhaseStepsLeft
  <2> QED
    BY <1>0, <2>1, <2>2, <2>3, <2>4, BatchMeasureFalls
<1> QED
  BY <1>1, <1>2, <1>3, <1>4, <1>5, <1>6 DEF BatchNext, Coordinator, HostThread

(* A handle in the queue is that of a thread that was started; so the       *)
(* oldest one has ended, or its command runs.                               *)
LEMMA WaitingIsForCommands == Books => WaitsOnlyForCommands
<1> SUFFICES ASSUME Books, phase # "finished", ~CoordinatorGoesOn
             PROVE  Head(handles) \in Live
  BY DEF WaitsOnlyForCommands
<1>0. TypeOK /\ PlacesAreExact
  BY DEF Books
<1>1. phase \in {"slot", "drain"}
  BY <1>0 DEF TypeOK, Phase, CoordinatorGoesOn
<1>2. handles # <<>>
  <2>1. Len(<<>>) = 0
    OBVIOUS
  <2> QED
    BY <1>1, <2>1, BatchAssumption DEF CoordinatorGoesOn
<1>3. Head(handles) \in InHandles /\ Head(handles) \in batch
  BY <1>0, <1>2, HandlesAre, TailElems DEF TypeOK
<1>4. thread[Head(handles)] \in {"spawned", "running", "over"}
  BY <1>0, <1>3 DEF TypeOK, PlacesAreExact, Thread
<1>5. thread[Head(handles)] # "over"
  BY <1>1, <1>2 DEF CoordinatorGoesOn
<1> QED
  BY <1>0, <1>3, <1>4, <1>5 DEF TypeOK, Live

(* Every batch that is dispatched ends as soon as its commands do: it takes *)
(* a bounded number of steps and waits for nothing but a running command,   *)
(* whatever the limit and the cancellation (execute_command).               *)
THEOREM BatchIsFinite ==
  Spec => [](BatchStepsLeft \in Nat) /\ BatchStepsRunOut /\ []WaitsOnlyForCommands
<1>1. Books => BatchStepsLeft \in Nat
  BY BatchStepsAreNat DEF Books
<1>2. Books /\ [Next]_batchVars => [BatchNext => BatchStepsLeft' < BatchStepsLeft]_batchVars
  BY BatchStepCounts
<1> QED
  BY <1>1, <1>2, WaitingIsForCommands, InitInv, NextKeepsInv, PTL
     DEF Spec, BatchStepsRunOut

(* The same under a caller, which never adds work to a batch.               *)
COROLLARY CallersBatchIsFinite ==
  CallerSpec => [](BatchStepsLeft \in Nat) /\ BatchStepsRunOut /\ []WaitsOnlyForCommands
<1>1. Books => BatchStepsLeft \in Nat
  BY BatchStepsAreNat DEF Books
<1>2. Books /\ [Next]_batchVars => [BatchNext => BatchStepsLeft' < BatchStepsLeft]_batchVars
  BY BatchStepCounts
<1> QED
  BY <1>1, <1>2, WaitingIsForCommands, InitInv, NextKeepsInv, CallerRunsBatch, PTL
     DEF CallerSpec, BatchStepsRunOut
-----------------------------------------------------------------------------
(* The batch window.  Its task and the batch agree as long as it listens.  *)
WindowBooks ==
  /\ WindowTypeOK
  /\ alive
  /\ executing <=> listening
  /\ dispatch = "ok" => Books
  /\ dispatch = "none" => ~listening
  /\ dispatch = "sent" => want # {}

(* Before the batch is dispatched the hosts it is for wait; from then on    *)
(* a row that shows a result shows the one that was heard.                  *)
RowsFollow ==
  /\ listening /\ dispatch \in {"sent", "error"} =>
       /\ \A h \in want : rows[h] = "pending"
       /\ seenStart = {} /\ seenOutput = {} /\ polled = "start"
  /\ listening /\ dispatch = "ok" =>
       \A h \in batch :
         /\ h \in seenOutput => outcome[h] # "none"
         /\ rows[h] \in {"success", "failed"} =>
              h \in seenOutput /\ rows[h] = outcome[h]

(* A row still says running, though nobody works for it.                    *)
LeftRunning(h) == rows[h] = "running" /\ h \in overtaken

(* Nothing was heard of a batch that is not yet dispatched; the results     *)
(* heard of one that is stay, but for the starts they overtook; and the     *)
(* rows no batch is for have settled.                                       *)
RowsStand ==
  /\ dispatch \in {"sent", "error"} =>
       seenStart = {} /\ seenOutput = {} /\ want \cap overtaken = {}
  /\ dispatch = "ok" => \A h \in batch \cap seenOutput : outcome[h] # "none"
  /\ listening /\ dispatch = "ok" => \A h \in batch \cap overtaken : rows[h] = "running"
  /\ ResultsStay
  /\ listening =>
       \A h \in Host \ (IF dispatch = "ok" THEN batch ELSE want) :
         rows[h] \in {"absent", "success"} \/ LeftRunning(h)
  /\ ~listening =>
       \/ \A h \in Active : LeftRunning(h)
       \/ dispatch = "error" /\ \A h \in Host : rows[h] # "failed"

WindowFacts == WindowBooks /\ RowsFollow
ScreenFacts == WindowFacts /\ RowsStand

LEMMA InitWindow == WindowInit => ScreenFacts
<1> SUFFICES ASSUME WindowInit PROVE ScreenFacts
  OBVIOUS
<1>1. TypeOK
  <2>1. <<>> \in Seq(batch) /\ BatchIs([Dispatched({}) EXCEPT !.phase = "finished"])
    BY DEF WindowInit
  <2>2. /\ batch = {} /\ phase = "finished" /\ todo = {} /\ current = NoHost
        /\ handles = <<>> /\ thread = [h \in Host |-> "none"]
        /\ outcome = [h \in Host |-> "none"] /\ success = 0 /\ fail = 0
        /\ pending = {} /\ details = {} /\ history = Open
        /\ lastStatus = "none" /\ done = FALSE /\ cancelled = FALSE
    BY <2>1 DEF BatchIs, Dispatched
  <2>3. alive = TRUE
    BY DEF WindowInit
  <2> QED
    BY <2>1, <2>2, <2>3 DEF TypeOK, Phase, Thread, Outcome, Open
<1>2. WindowTypeOK
  <2>1. rows \in [Host -> Status]
    BY DEF WindowInit, Status
  <2>2. tasks \in 0 .. MaxTasks
    BY WindowAssumption DEF WindowInit
  <2> QED
    BY <1>1, <2>1, <2>2 DEF WindowInit, WindowTypeOK
<1>3. WindowBooks /\ RowsFollow
  BY <1>2 DEF WindowInit, WindowBooks, RowsFollow
<1>4. Active = {}
  BY DEF WindowInit, Active
<1>5. RowsStand
  BY <1>4 DEF WindowInit, RowsStand, ResultsStay
<1> QED
  BY <1>3, <1>5 DEF ScreenFacts, WindowFacts

(* A new batch starts with books in order.                                  *)
LEMMA DispatchBegins ==
  ASSUME WindowBooks, WorkerDispatches
  PROVE  Books' /\ batch' = want
         /\ thread' = [h \in Host |-> "none"] /\ outcome' = [h \in Host |-> "none"]
<1>1. BatchIs(Dispatched(want))'
  BY DEF WorkerDispatches, BatchIs, Dispatched
<1>2. want \in (SUBSET Host) \ {{}} /\ alive' = TRUE
  BY DEF WindowBooks, WindowTypeOK, WorkerDispatches
<1>3. Init'
  BY <1>1, <1>2 DEF Init, WorkerDispatches, Dispatched, BatchIs
<1>4. (Init => Books)'
  BY InitInv, PTL
<1> QED
  BY <1>3, <1>4 DEF WorkerDispatches, Dispatched

(* What the batch does by itself leaves what was announced.                 *)
LEMMA BatchKeepsOutcomes ==
  ASSUME WindowBooks, dispatch = "ok", [Next]_batchVars
  PROVE  Books' /\ batch' = batch
         /\ \A h \in Host : outcome[h] # "none" => outcome'[h] = outcome[h]
<1>1. Books
  BY DEF WindowBooks
<1>2. batch' = batch
  BY DEF Next, BatchNext, Coordinator, Skip, Check, MakeRoom, Join, Spawn,
         LoopEnds, JoinRest, SaveDetails, SaveHistory, SaveStatus, EmitDone,
         HostThread, EmitStart, Reporting, Report, Cancel, Exit, batchVars
<1> QED
  BY <1>1, <1>2, NextKeepsInv, OutcomeStays

(* The batch's own steps and the cancellation leave the window alone.       *)
LEMMA BatchStepsKeepWindow ==
  ASSUME WindowFacts, BatchStep \/ CancelArrives
  PROVE  WindowFacts'
<1>1. /\ dispatch = "ok" /\ [Next]_batchVars
      /\ UNCHANGED <<rows, executing, listening, dispatch, want, polled,
                     seenStart, seenOutput, overtaken, tasks>>
      /\ asked' \in BOOLEAN
  BY DEF WindowFacts, WindowBooks, WindowTypeOK, BatchStep, CancelArrives, windowVars, Next, BatchNext,
         HostThread
<1>2. Books' /\ batch' = batch
      /\ \A h \in Host : outcome[h] # "none" => outcome'[h] = outcome[h]
  BY <1>1, BatchKeepsOutcomes DEF WindowFacts
<1>3. alive'
  BY DEF WindowFacts, WindowBooks, BatchStep, CancelArrives, Coordinator, Skip, Check, MakeRoom, Join, Spawn,
         LoopEnds, JoinRest, SaveDetails, SaveHistory, SaveStatus, EmitDone,
         HostThread, EmitStart, Reporting, Report, Cancel
<1>4. WindowBooks'
  BY <1>1, <1>2, <1>3 DEF WindowFacts, WindowBooks, WindowTypeOK, Books
<1>5. RowsFollow'
  <2>1. batch \subseteq Host
    BY DEF WindowFacts, WindowBooks, WindowTypeOK, TypeOK
  <2> QED
    BY <1>1, <1>2, <2>1 DEF RowsFollow, WindowFacts
<1> QED
  BY <1>4, <1>5 DEF WindowFacts

(* A dispatch: the rows it is for wait.                                     *)
LEMMA BeginKeepsWindow ==
  ASSUME WindowFacts, NEW hosts \in SUBSET Host, hosts # {}, Begin(hosts),
         rows' \in [Host -> Status], \A h \in hosts : rows'[h] = "pending"
  PROVE  WindowFacts'
<1>1. TypeOK'
  BY DEF WindowFacts, WindowBooks, WindowTypeOK, Begin, TypeOK, batchVars,
         coordVars, threadVars, dbVars
<1>2. tasks' \in 0 .. MaxTasks /\ overtaken' \subseteq Host
  BY WindowAssumption DEF WindowFacts, WindowBooks, WindowTypeOK, Begin
<1>3. alive'
  BY DEF WindowFacts, WindowBooks, Begin, batchVars
<1>4. WindowBooks'
  BY <1>1, <1>2, <1>3 DEF WindowBooks, WindowTypeOK, Begin
<1>5. RowsFollow'
  BY DEF Begin, RowsFollow
<1> QED
  BY <1>4, <1>5 DEF WindowFacts

LEMMA NextKeepsWindow == WindowFacts /\ [WindowNext]_screenVars => WindowFacts'
<1> SUFFICES ASSUME WindowFacts, [WindowNext]_screenVars PROVE WindowFacts'
  OBVIOUS
<1>0. /\ WindowBooks /\ RowsFollow /\ WindowTypeOK /\ TypeOK
      /\ rows \in [Host -> Status] /\ batch \subseteq Host
      /\ outcome \in [Host -> Outcome]
  BY DEF WindowFacts, WindowBooks, WindowTypeOK, TypeOK
<1>1. ASSUME UNCHANGED batchVars
      PROVE  /\ TypeOK' /\ alive' /\ batch' = batch /\ outcome' = outcome
             /\ Books => Books'
  <2>1. Books => Books'
    BY <1>1, NextKeepsInv
  <2>2. TypeOK'
    BY <1>0, <1>1 DEF TypeOK, batchVars, coordVars, threadVars, dbVars
  <2> QED
    BY <1>0, <1>1, <2>1, <2>2 DEF WindowBooks, batchVars, threadVars
<1>2. ASSUME NEW hosts \in SUBSET Host, Execute(hosts)
      PROVE  WindowFacts'
  <2>1. rows' = [h \in Host |-> IF h \in hosts THEN "pending" ELSE "absent"]
        /\ hosts # {} /\ Begin(hosts)
    BY <1>2 DEF Execute
  <2>2. rows' \in [Host -> Status] /\ \A h \in hosts : rows'[h] = "pending"
    BY <2>1 DEF Status
  <2> QED
    BY <2>1, <2>2, BeginKeepsWindow
<1>3. CASE RetryFailed
  <2> DEFINE failed == {h \in Host : rows[h] = "failed"}
  <2>1. rows' = [h \in Host |-> IF h \in failed THEN "pending" ELSE rows[h]]
        /\ failed # {} /\ Begin(failed)
    BY <1>3 DEF RetryFailed
  <2>2. rows' \in [Host -> Status] /\ \A h \in failed : rows'[h] = "pending"
    BY <1>0, <2>1 DEF Status
  <2> QED
    BY <2>1, <2>2, BeginKeepsWindow
<1>4. CASE WorkerDispatches
  <2>1. /\ Books' /\ batch' = want
        /\ thread' = [h \in Host |-> "none"] /\ outcome' = [h \in Host |-> "none"]
    BY <1>0, <1>4, DispatchBegins
  <2>2. /\ dispatch = "sent" /\ dispatch' = "ok"
        /\ UNCHANGED <<alive, rows, executing, listening, want, polled, seenStart,
                       seenOutput, overtaken, asked, tasks>>
    BY <1>4 DEF WorkerDispatches
  <2>3. WindowBooks'
    BY <1>0, <2>1, <2>2 DEF WindowBooks, WindowTypeOK, Books
  <2>4. RowsFollow'
    BY <1>0, <2>1, <2>2 DEF RowsFollow
  <2> QED
    BY <2>3, <2>4 DEF WindowFacts
<1>5. CASE WorkerRefuses
  <2>1. WindowBooks'
    BY <1>0, <1>1, <1>5 DEF WorkerRefuses, WindowBooks, WindowTypeOK
  <2>2. RowsFollow'
    BY <1>0, <1>5 DEF WorkerRefuses, RowsFollow
  <2> QED
    BY <2>1, <2>2 DEF WindowFacts
<1>6. CASE HearError
  <2>1. WindowBooks'
    BY <1>0, <1>1, <1>6 DEF HearError, WindowBooks, WindowTypeOK
  <2>2. RowsFollow'
    BY <1>6 DEF HearError, RowsFollow
  <2> QED
    BY <2>1, <2>2 DEF WindowFacts
<1>7. ASSUME NEW h \in Host, TakeStart(h)
      PROVE  WindowFacts'
  <2>1. rows' = [rows EXCEPT ![h] = "running"] /\ rows' \in [Host -> Status]
    BY <1>0, <1>7 DEF TakeStart, Status
  <2>2. WindowBooks'
    BY <1>0, <1>1, <1>7, <2>1 DEF TakeStart, WindowBooks, WindowTypeOK
  <2>3. RowsFollow'
    BY <1>0, <1>1, <1>7, <2>1 DEF TakeStart, Hears, RowsFollow
  <2> QED
    BY <2>2, <2>3 DEF WindowFacts
<1>8. ASSUME NEW h \in Host, TakeOutput(h)
      PROVE  WindowFacts'
  <2>1. h \in batch /\ outcome[h] # "none" /\ outcome[h] \in Status
    BY <1>0, <1>8 DEF TakeOutput, UnreadOutputs, OutputsSent, Outcome, Status
  <2>2. rows' = [rows EXCEPT ![h] = outcome[h]] /\ rows' \in [Host -> Status]
    BY <1>0, <1>8, <2>1 DEF TakeOutput
  <2>3. WindowBooks'
    BY <1>0, <1>1, <1>8, <2>2 DEF TakeOutput, WindowBooks, WindowTypeOK
  <2>4. RowsFollow'
    BY <1>0, <1>1, <1>8, <2>1, <2>2 DEF TakeOutput, Hears, RowsFollow
  <2> QED
    BY <2>3, <2>4 DEF WindowFacts
<1>9. CASE TakeDone
  <2>1. rows' \in [Host -> Status]
    <3>1. \A h \in UnreadOutputs : outcome[h] \in Status
      BY <1>0 DEF UnreadOutputs, OutputsSent, Outcome, Status
    <3> QED
      BY <1>0, <1>9, <3>1 DEF TakeDone
  <2>2. OutputsSent \subseteq Host
    BY <1>0 DEF OutputsSent
  <2>3. WindowBooks'
    BY <1>0, <1>1, <1>9, <2>1, <2>2
       DEF TakeDone, Hears, WindowBooks, WindowTypeOK
  <2>4. RowsFollow'
    BY <1>9 DEF TakeDone, RowsFollow
  <2> QED
    BY <2>3, <2>4 DEF WindowFacts
<1>10. CASE PollNext
  <2>1. WindowBooks'
    BY <1>0, <1>1, <1>10 DEF PollNext, WindowBooks, WindowTypeOK
  <2>2. RowsFollow'
    BY <1>0, <1>1, <1>10 DEF PollNext, Hears, RowsFollow
  <2> QED
    BY <2>1, <2>2 DEF WindowFacts
<1>11. CASE Stop \/ Clear
  <2>1. rows' \in [Host -> Status] /\ ~executing' /\ ~listening'
        /\ executing' \in BOOLEAN /\ listening' \in BOOLEAN /\ asked' \in BOOLEAN
    BY <1>0, <1>11 DEF Stop, Clear, Status, WindowTypeOK
  <2>2. UNCHANGED <<batchVars, dispatch, want, polled, seenStart, seenOutput,
                    overtaken, tasks>>
    BY <1>11 DEF Stop, Clear
  <2>3. WindowBooks'
    BY <1>0, <1>1, <2>1, <2>2 DEF WindowBooks, WindowTypeOK
  <2>4. RowsFollow'
    BY <2>1 DEF RowsFollow
  <2> QED
    BY <2>3, <2>4 DEF WindowFacts
<1>12. CASE UNCHANGED screenVars
  <2>1. WindowBooks'
    BY <1>0, <1>1, <1>12 DEF screenVars, windowVars, WindowBooks, WindowTypeOK
  <2>2. RowsFollow'
    BY <1>0, <1>1, <1>12 DEF screenVars, windowVars, RowsFollow
  <2> QED
    BY <2>1, <2>2 DEF WindowFacts
<1> QED
  BY <1>2, <1>3, <1>4, <1>5, <1>6, <1>7, <1>8, <1>9, <1>10, <1>11, <1>12,
     BatchStepsKeepWindow DEF WindowNext, Listener

(* The results on show stand, whatever the order their events are read in.  *)
LEMMA NextKeepsRows ==
  ASSUME ScreenFacts, [WindowNext]_screenVars
  PROVE  RowsStand'
<1>0. /\ WindowBooks /\ RowsFollow /\ RowsStand /\ batch \subseteq Host
      /\ rows \in [Host -> Status] /\ outcome \in [Host -> Outcome]
      /\ want \subseteq Host /\ (executing <=> listening)
  BY DEF ScreenFacts, WindowFacts, WindowBooks, WindowTypeOK, TypeOK
<1>1. UNCHANGED batchVars => batch' = batch /\ outcome' = outcome
  BY DEF batchVars, threadVars
<1>2. ASSUME NEW hosts \in SUBSET Host, Execute(hosts)
      PROVE  RowsStand'
  BY <1>2 DEF Execute, Begin, RowsStand, ResultsStay
<1>3. CASE RetryFailed
  <2> DEFINE failed == {h \in Host : rows[h] = "failed"}
  <2>1. rows' = [h \in Host |-> IF h \in failed THEN "pending" ELSE rows[h]]
        /\ failed # {} /\ Begin(failed) /\ ~listening
    BY <1>0, <1>3 DEF RetryFailed
  <2>2. \A h \in Active : LeftRunning(h)
    BY <1>0, <2>1 DEF RowsStand
  <2>3. \A h \in Host \ failed : rows[h] \in {"absent", "success"} \/ LeftRunning(h)
    BY <1>0, <2>2 DEF Active, Status
  <2>4. /\ want' = failed /\ dispatch' = "sent" /\ listening'
        /\ seenStart' = {} /\ seenOutput' = {} /\ overtaken' = overtaken \ failed
    BY <2>1 DEF Begin
  <2>5. \A h \in Host \ failed : rows'[h] = rows[h]
    BY <2>1
  <2> QED
    BY <2>3, <2>4, <2>5 DEF RowsStand, ResultsStay, LeftRunning
<1>4. CASE WorkerDispatches
  <2>1. batch' = want
    BY <1>0, <1>4, DispatchBegins
  <2>2. /\ dispatch = "sent" /\ dispatch' = "ok"
        /\ UNCHANGED <<rows, executing, listening, want, seenStart, seenOutput,
                       overtaken>>
    BY <1>4 DEF WorkerDispatches
  <2>3. seenStart = {} /\ seenOutput = {} /\ want \cap overtaken = {}
    BY <1>0, <2>2 DEF RowsStand
  <2>4. ~listening => \A h \in Active' : LeftRunning(h)'
    BY <1>0, <2>2 DEF RowsStand, Active, LeftRunning
  <2>5. listening => \A h \in Host \ want :
          rows[h] \in {"absent", "success"} \/ LeftRunning(h)
    BY <1>0, <2>2 DEF RowsStand
  <2> QED
    BY <2>1, <2>2, <2>3, <2>4, <2>5 DEF RowsStand, ResultsStay, LeftRunning
<1>5. CASE WorkerRefuses
  <2>1. dispatch = "sent" /\ dispatch' = "error"
        /\ UNCHANGED <<rows, listening, want, seenStart, seenOutput, overtaken>>
    BY <1>5 DEF WorkerRefuses
  <2>2. ~listening => \A h \in Active' : LeftRunning(h)'
    BY <1>0, <2>1 DEF RowsStand, Active, LeftRunning
  <2> QED
    BY <1>0, <2>1, <2>2 DEF RowsStand, ResultsStay, LeftRunning
<1>6. CASE HearError
  <2>1. \A h \in Host : rows'[h] # "failed"
    BY <1>0, <1>6 DEF HearError, RowsFollow, RowsStand, LeftRunning
  <2> QED
    BY <1>0, <1>6, <2>1 DEF HearError, RowsStand, ResultsStay
<1>7. ASSUME NEW h \in Host, TakeStart(h)
      PROVE  RowsStand'
  <2>1. h \in batch /\ listening /\ executing /\ dispatch = "ok"
    BY <1>0, <1>7 DEF TakeStart, Hears, UnreadStarts, StartsSent
  <2>2. rows'[h] = "running" /\ \A g \in Host \ {h} : rows'[g] = rows[g]
    BY <1>0, <1>7 DEF TakeStart
  <2>3. /\ seenStart' = seenStart \cup {h} /\ overtaken' = overtaken \cup ({h} \cap seenOutput)
        /\ UNCHANGED <<batch, outcome, executing, listening, dispatch, want, seenOutput>>
    BY <1>1, <1>7 DEF TakeStart
  <2>4. ResultsStay'
    BY <1>0, <2>1, <2>2, <2>3 DEF RowsStand, ResultsStay
  <2>5. \A g \in Host : g # h /\ LeftRunning(g) => LeftRunning(g)'
    BY <2>2, <2>3 DEF LeftRunning
  <2> QED
    BY <1>0, <2>1, <2>2, <2>3, <2>4, <2>5 DEF RowsStand
<1>8. ASSUME NEW h \in Host, TakeOutput(h)
      PROVE  RowsStand'
  <2>1. h \in batch /\ h \notin seenOutput /\ outcome[h] # "none"
        /\ listening /\ executing /\ dispatch = "ok"
    BY <1>0, <1>8 DEF TakeOutput, Hears, UnreadOutputs, OutputsSent
  <2>2. h \notin overtaken
    BY <1>0, <2>1 DEF RowsStand, ResultsStay
  <2>3. rows'[h] = outcome[h] /\ \A g \in Host \ {h} : rows'[g] = rows[g]
    BY <1>0, <1>8 DEF TakeOutput
  <2>4. /\ seenOutput' = seenOutput \cup {h}
        /\ UNCHANGED <<batch, outcome, executing, listening, dispatch, want,
                       seenStart, overtaken>>
    BY <1>1, <1>8 DEF TakeOutput
  <2>5. ResultsStay'
    BY <1>0, <2>1, <2>2, <2>3, <2>4 DEF RowsStand, ResultsStay
  <2>6. \A g \in Host : g # h /\ LeftRunning(g) => LeftRunning(g)'
    BY <2>3, <2>4 DEF LeftRunning
  <2> QED
    BY <1>0, <2>1, <2>2, <2>3, <2>4, <2>5, <2>6 DEF RowsStand
<1>9. CASE TakeDone
  <2>1. /\ listening /\ executing /\ dispatch = "ok" /\ done
        /\ ~listening' /\ ~executing'
    BY <1>0, <1>9 DEF TakeDone, Hears
  <2>2. \A h \in batch : outcome[h] \in {"success", "failed"}
    BY <1>0, <2>1, AllHaveOutcome DEF WindowBooks, Books, WrittenInOrder
  <2>3. /\ seenOutput' = batch /\ seenOutput \cap batch = batch \ UnreadOutputs
        /\ UNCHANGED <<batch, outcome, dispatch, want, seenStart, overtaken>>
    BY <1>1, <1>9, <2>2 DEF TakeDone, OutputsSent, UnreadOutputs
  <2>4. \A h \in Host : rows'[h] = IF h \in UnreadOutputs THEN outcome[h] ELSE rows[h]
    BY <1>9 DEF TakeDone
  <2>5. overtaken \cap batch \subseteq seenStart \cap seenOutput
        /\ \A h \in (batch \cap seenOutput) \ overtaken : rows[h] = outcome[h]
    BY <1>0, <2>1 DEF RowsStand, ResultsStay
  <2>6. ResultsStay'
    BY <1>0, <2>1, <2>3, <2>4, <2>5 DEF ResultsStay
  <2>7. ASSUME NEW h \in Host, rows'[h] \in {"pending", "running"}
        PROVE  LeftRunning(h)'
    <3>1. CASE h \in batch
      <4>1. h \notin UnreadOutputs /\ rows'[h] = rows[h]
        BY <2>2, <2>4, <2>7, <3>1
      <4>2. h \in seenOutput
        BY <2>3, <3>1, <4>1
      <4>3. h \in overtaken
        BY <2>2, <2>5, <2>7, <3>1, <4>1, <4>2
      <4>4. rows[h] = "running"
        BY <1>0, <2>1, <3>1, <4>3 DEF RowsStand
      <4> QED
        BY <2>3, <4>1, <4>3, <4>4 DEF LeftRunning
    <3>2. CASE h \notin batch
      <4>1. rows'[h] = rows[h]
        BY <2>4, <3>2 DEF UnreadOutputs, OutputsSent
      <4>2. rows[h] \in {"absent", "success"} \/ LeftRunning(h)
        BY <1>0, <2>1, <3>2 DEF RowsStand
      <4> QED
        BY <2>3, <2>7, <4>1, <4>2 DEF LeftRunning
    <3> QED
      BY <3>1, <3>2
  <2>8. \A h \in Active' : LeftRunning(h)'
    BY <2>7 DEF Active
  <2> QED
    BY <2>1, <2>2, <2>3, <2>6, <2>8 DEF RowsStand
<1>10. CASE PollNext
  <2>1. UNCHANGED <<batch, outcome, rows, executing, listening, dispatch, want,
                    seenStart, seenOutput, overtaken>>
    BY <1>1, <1>10 DEF PollNext
  <2> QED
    BY <1>0, <2>1 DEF RowsStand, ResultsStay, Active, LeftRunning
<1>11. CASE Stop
  <2>1. /\ executing /\ listening /\ ~executing' /\ ~listening'
        /\ rows' = [h \in Host |-> IF h \in Active THEN "failed" ELSE rows[h]]
        /\ UNCHANGED <<batch, outcome, dispatch, want, seenStart, seenOutput, overtaken>>
    BY <1>0, <1>1, <1>11 DEF Stop
  <2>2. Active' = {}
    BY <2>1 DEF Active
  <2>3. dispatch = "ok" =>
          \A h \in batch \cap seenOutput : outcome[h] \in {"success", "failed"}
    BY <1>0 DEF RowsStand, Outcome
  <2>4. ResultsStay'
    BY <1>0, <2>1, <2>3 DEF RowsStand, ResultsStay, Active
  <2> QED
    BY <1>0, <2>1, <2>2, <2>4 DEF RowsStand
<1>12. CASE Clear
  <2>1. /\ ~executing' /\ ~listening' /\ rows' = [h \in Host |-> "absent"]
        /\ UNCHANGED <<batch, outcome, dispatch, want, seenStart, seenOutput, overtaken>>
    BY <1>1, <1>12 DEF Clear
  <2>2. Active' = {}
    BY <2>1 DEF Active
  <2>3. ResultsStay'
    BY <1>0, <2>1 DEF RowsStand, ResultsStay
  <2> QED
    BY <1>0, <2>1, <2>2, <2>3 DEF RowsStand
<1>13. CASE BatchStep \/ CancelArrives
  <2>1. UNCHANGED <<rows, executing, listening, dispatch, want, seenStart,
                    seenOutput, overtaken>>
        /\ dispatch = "ok" /\ [Next]_batchVars
    BY <1>13 DEF BatchStep, CancelArrives, windowVars, Next, BatchNext
  <2>2. batch' = batch
        /\ \A h \in Host : outcome[h] # "none" => outcome'[h] = outcome[h]
    BY <1>0, <2>1, BatchKeepsOutcomes
  <2>3. \A h \in batch \cap seenOutput : outcome'[h] = outcome[h] /\ outcome[h] # "none"
    BY <1>0, <2>1, <2>2 DEF RowsStand
  <2>4. ResultsStay'
    BY <1>0, <2>1, <2>2, <2>3 DEF RowsStand, ResultsStay
  <2>5. Active' = Active /\ \A h \in Host : LeftRunning(h)' <=> LeftRunning(h)
    BY <2>1 DEF Active, LeftRunning
  <2> QED
    BY <1>0, <2>1, <2>2, <2>3, <2>4, <2>5 DEF RowsStand, Active
<1>14. CASE UNCHANGED screenVars
  <2>1. UNCHANGED <<batch, outcome, rows, executing, listening, dispatch, want,
                    seenStart, seenOutput, overtaken>>
    BY <1>1, <1>14 DEF screenVars, windowVars
  <2> QED
    BY <1>0, <2>1 DEF RowsStand, ResultsStay, Active, LeftRunning
<1> QED
  BY <1>2, <1>3, <1>4, <1>5, <1>6, <1>7, <1>8, <1>9, <1>10, <1>11, <1>12,
     <1>13, <1>14 DEF WindowNext, Listener, ScreenFacts

(* Once the user stopped or the batch is over no event changes a row.       *)
THEOREM NoLateEventHolds == WindowSpec => NoLateEvent
<1> DEFINE Late == ~executing /\ ~executing' =>
                     rows' = rows \/ rows' = [h \in Host |-> "absent"]
<1>1. WindowFacts /\ [WindowNext]_screenVars => [Late]_screenVars
  <2> SUFFICES ASSUME WindowFacts, WindowNext, ~executing, ~executing'
               PROVE  rows' = rows \/ rows' = [h \in Host |-> "absent"]
    OBVIOUS
  <2>1. ~listening
    BY DEF WindowFacts, WindowBooks
  <2> QED
    BY <2>1
       DEF WindowNext, Execute, RetryFailed, Begin, WorkerDispatches,
           WorkerRefuses, Listener, HearError, TakeStart, TakeOutput, TakeDone,
           PollNext, Hears, Stop, Clear, CancelArrives, BatchStep, windowVars
<1>2. WindowInit => WindowFacts
  BY InitWindow DEF ScreenFacts
<1> QED
  BY <1>1, <1>2, NextKeepsWindow, PTL DEF WindowSpec, NoLateEvent

(* A result in a row of the batch listened to is the one its host reported, *)
(* in whatever order its events are read.                                   *)
THEOREM RowsAreReportedHolds == WindowSpec => []RowsAreReported
<1>1. WindowFacts => RowsAreReported
  BY DEF WindowFacts, RowsFollow, RowsAreReported
<1>2. WindowInit => WindowFacts
  BY InitWindow DEF ScreenFacts
<1> QED
  BY <1>1, <1>2, NextKeepsWindow, PTL DEF WindowSpec

(* The rows and the batch agree: a result that was heard stays on show, and *)
(* once the window says that it is over no host is waited for.  The only    *)
(* row left at running is one whose start was read after its result.        *)
THEOREM WindowAgrees == WindowSpec => []WindowInv
<1>1. ScreenFacts /\ [WindowNext]_screenVars => ScreenFacts'
  BY NextKeepsWindow, NextKeepsRows DEF ScreenFacts
<1>2. ScreenFacts => WindowInv
  BY DEF ScreenFacts, WindowFacts, WindowBooks, RowsFollow, RowsStand,
         LeftRunning, WindowInv, RowsAreReported, RowsSettled
<1> QED
  BY <1>1, <1>2, InitWindow, PTL DEF WindowSpec

(* A retry, a late event or a stop never takes a success back; what does is *)
(* the host's own start, read after its result.                             *)
THEOREM SuccessIsKeptHolds == WindowSpec => SuccessIsKept
<1> DEFINE Kept(h) ==
      \/ rows'[h] = "success"
      \/ rows'[h] = "running" /\ h \in seenOutput /\ h \in overtaken' \ overtaken
      \/ executing' /\ ~executing /\ \A g \in Host : rows'[g] \in {"absent", "pending"}
      \/ rows' = [g \in Host |-> "absent"]
         KeptAll == \A h \in Host : rows[h] = "success" => Kept(h)
<1>1. ScreenFacts /\ [WindowNext]_screenVars => ScreenFacts'
  BY NextKeepsWindow, NextKeepsRows DEF ScreenFacts
<1>2. ScreenFacts /\ [WindowNext]_screenVars =>
        [KeptAll]_screenVars
  <2> SUFFICES ASSUME ScreenFacts, WindowNext, NEW h \in Host,
                      rows[h] = "success"
               PROVE  Kept(h)
    OBVIOUS
  <2>0. /\ RowsFollow /\ ResultsStay /\ rows \in [Host -> Status]
    BY DEF ScreenFacts, WindowFacts, WindowBooks, WindowTypeOK, RowsStand
  <2>1. ASSUME NEW g \in Host, TakeStart(g)
        PROVE  Kept(h)
    <3>1. g \in batch /\ g \notin seenStart /\ listening /\ dispatch = "ok"
      BY <2>1 DEF TakeStart, Hears, UnreadStarts, StartsSent
    <3>2. g \notin overtaken
      BY <2>0, <3>1 DEF ResultsStay
    <3>3. CASE g = h
      <4>1. h \in seenOutput
        BY <2>0, <3>1, <3>3 DEF RowsFollow
      <4>2. rows'[h] = "running" /\ h \in overtaken'
        BY <2>0, <2>1, <3>3, <4>1 DEF TakeStart
      <4> QED
        BY <3>2, <3>3, <4>1, <4>2
    <3>4. CASE g # h
      BY <2>0, <2>1, <3>4 DEF TakeStart
    <3> QED
      BY <3>3, <3>4
  <2>2. h \notin UnreadOutputs \/ ~(listening /\ dispatch = "ok")
    BY <2>0 DEF RowsFollow, UnreadOutputs, OutputsSent
  <2>3. ASSUME NEW g \in Host, TakeOutput(g)
        PROVE  rows'[h] = "success"
    BY <2>0, <2>2, <2>3 DEF TakeOutput, Hears
  <2>4. CASE TakeDone
    BY <2>0, <2>2, <2>4 DEF TakeDone, Hears
  <2>5. ASSUME NEW hosts \in SUBSET Host, Execute(hosts)
        PROVE  Kept(h)
    BY <2>5 DEF Execute, Begin
  <2>6. CASE RetryFailed
    BY <2>6 DEF RetryFailed
  <2>7. CASE Stop
    BY <2>7 DEF Stop, Active
  <2>8. CASE Clear
    BY <2>8 DEF Clear
  <2>9. CASE rows' = rows
    BY <2>9
  <2> QED
    BY <2>1, <2>3, <2>4, <2>5, <2>6, <2>7, <2>8, <2>9
       DEF WindowNext, WorkerDispatches, WorkerRefuses, Listener, HearError,
           PollNext, CancelArrives, BatchStep, windowVars
<1> QED
  BY <1>1, <1>2, InitWindow, PTL DEF WindowSpec, SuccessIsKept

(* The core of ExecutionEnds: an executing window has its task, and there   *)
(* is always something for the task to hear or a running command to wait    *)
(* for (run_task, stop).                                                    *)
THEOREM WindowGoesOnHolds == WindowSpec => []WindowGoesOn
<1>1. WindowFacts => WindowGoesOn
  <2> SUFFICES ASSUME WindowFacts, executing PROVE
        /\ listening /\ dispatch \in {"sent", "error", "ok"}
        /\ dispatch = "ok" => done \/ CoordinatorGoesOn \/ Head(handles) \in Live
    BY DEF WindowGoesOn
  <2>1. listening /\ dispatch \in {"sent", "error", "ok"} /\ alive
    BY DEF WindowFacts, WindowBooks, WindowTypeOK
  <2>2. ASSUME dispatch = "ok" PROVE done \/ CoordinatorGoesOn \/ Head(handles) \in Live
    <3>1. Books
      BY <2>2 DEF WindowFacts, WindowBooks
    <3>2. done <=> phase = "finished"
      BY <3>1 DEF Books, WrittenInOrder
    <3> QED
      BY <2>1, <3>1, <3>2, WaitingIsForCommands DEF WaitsOnlyForCommands
  <2> QED
    BY <2>1, <2>2
<1>2. WindowInit => WindowFacts
  BY InitWindow DEF ScreenFacts
<1> QED
  BY <1>1, <1>2, NextKeepsWindow, PTL DEF WindowSpec

==============================================================================
