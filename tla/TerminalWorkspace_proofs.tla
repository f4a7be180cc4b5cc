---------------------- MODULE TerminalWorkspace_proofs ----------------------
(***************************************************************************)
(* Proofs about the terminal's tabs, for every set of hosts and any number *)
(* of tabs and of connection attempts.                                     *)
(***************************************************************************)
EXTENDS TerminalWorkspace, FiniteSetTheorems, SequenceTheorems, TLAPS

Tabs == Range(tabs)

(* The types of the tab bar and of what belongs to a tab.                   *)
BarTypes ==
    /\ tabs \in Seq(Keys) /\ IsInjective(tabs)
    /\ host \in [Keys -> Hosts \cup {Local, None}]
    /\ active \in {None} \cup Keys
    /\ saving \subseteq Keys
    /\ running \in {"yes", "quit", "windowless", "exited"}

(* Keys are given out one after another, and an open tab has one.           *)
KeysInOrder ==
    /\ \E n \in 0 .. MaxTabs : \A k \in Keys : host[k] # None <=> k <= n
    /\ \A k \in Tabs : host[k] # None

BarInv == BarTypes /\ KeysInOrder /\ ActiveIsOpen

(* The types of panes, attempts and sessions.                               *)
SessionTypes ==
    /\ pane \in [Keys -> [Parts -> Panes]]
    /\ attempts \in Seq([key: Keys, part: Parts, phase: Phases])
    /\ Len(attempts) <= MaxAttempts
    /\ open \subseteq Attempts /\ closing \subseteq Attempts

(* What a part shows was put there by one of the four constructors, and     *)
(* only an open tab shows anything.                                         *)
PanesAreMade == \A k \in Keys, p \in Parts :
    LET v == pane[k][p]
    IN  /\ \/ v = NoPane
           \/ v.attempt # None /\ v = Waiting(v.attempt)
           \/ v.session # None /\ v = Showing(v.session)
           \/ v = Failed(v.session)
        /\ k \notin Tabs => v = NoPane

(* A session in a pane is that of an answered attempt made for that pane,   *)
(* and one being hung up is that of an answered attempt too.                *)
SessionsAreAnswers ==
    /\ \A k \in Keys, p \in Parts :
         LET s == pane[k][p].session
         IN  s # None => /\ s \in DOMAIN attempts /\ attempts[s].key = k
                         /\ attempts[s].part = p /\ attempts[s].phase = "settled"
    /\ \A s \in closing : s \in DOMAIN attempts /\ attempts[s].phase = "settled"

(* A pane waits for the last attempt made for it.                           *)
WaitsForTheLast == \A k \in Keys, p \in Parts :
    pane[k][p].attempt # None =>
        \A a \in DOMAIN attempts :
            attempts[a].key = k /\ attempts[a].part = p => a <= pane[k][p].attempt

(* A registered session is on show, unanswered or being hung up, and none   *)
(* on show is being hung up.                                                *)
SessionsAreHeld ==
    /\ open \subseteq Shown \cup Undelivered \cup closing
    /\ Shown \cap closing = {}

SessionInv ==
    /\ SessionTypes /\ PanesAreMade /\ SessionsAreAnswers
    /\ SpinnersWait /\ WaitsForTheLast /\ SessionsAreHeld

WorkspaceIInv == BarInv /\ SessionInv
------------------------------------------------------------------------------
(* The tabs that stay are those that are not closed, each once.             *)
LEMMA RemainingTabs ==
  ASSUME tabs \in Seq(Keys), IsInjective(tabs), NEW closed
  PROVE  /\ Remaining(closed) \in Seq(Keys)
         /\ IsInjective(Remaining(closed))
         /\ Range(Remaining(closed)) = Tabs \ closed
<1> DEFINE kept == {i \in DOMAIN tabs : tabs[i] \notin closed}
           below(i) == {j \in kept : j <= i}
           place == [i \in kept |-> Cardinality(below(i))]
           size == Cardinality(kept)
           rest == Remaining(closed)
           at(n) == CHOOSE i \in kept : Cardinality(below(i)) = n
<1>1. /\ DOMAIN tabs = 1 .. Len(tabs) /\ Len(tabs) \in Nat
      /\ kept \subseteq 1 .. Len(tabs) /\ kept \subseteq Nat
  OBVIOUS
<1>2. IsFiniteSet(kept) /\ size \in Nat
  <2>1. IsFiniteSet(1 .. Len(tabs))
    BY <1>1, FS_Interval
  <2> QED
    BY <1>1, <2>1, FS_Subset, FS_CardinalityType
<1>3. ASSUME NEW i \in kept
      PROVE  place[i] \in 1 .. size
  <2>1. IsFiniteSet(below(i)) /\ Cardinality(below(i)) \in Nat
        /\ Cardinality(below(i)) <= size
    BY <1>2, FS_Subset, FS_CardinalityType
  <2>2. below(i) # {}
    BY <1>1, <1>3
  <2>3. Cardinality(below(i)) # 0
    BY <2>1, <2>2, FS_EmptySet
  <2> QED
    BY <2>1, <2>3, <1>2
<1>4. ASSUME NEW i \in kept, NEW j \in kept, i < j
      PROVE  place[i] # place[j]
  <2>1. below(i) \subseteq below(j) /\ j \in below(j) /\ j \notin below(i)
    BY <1>1, <1>4
  <2>2. IsFiniteSet(below(j)) /\ IsFiniteSet(below(i))
    BY <1>2, FS_Subset
  <2>3. Cardinality(below(i)) < Cardinality(below(j))
    BY <2>1, <2>2, FS_Subset, FS_CardinalityType
  <2>4. Cardinality(below(i)) \in Nat /\ Cardinality(below(j)) \in Nat
    BY <2>2, FS_CardinalityType
  <2> QED
    BY <2>3, <2>4
<1>5. place \in Injection(kept, 1 .. size)
  <2>1. place \in [kept -> 1 .. size]
    BY <1>3
  <2>2. \A i, j \in kept : place[i] = place[j] => i = j
    BY <1>1, <1>4
  <2> QED
    BY <2>1, <2>2 DEF Injection, IsInjective
<1>6. place \in Surjection(kept, 1 .. size)
  <2>1. IsFiniteSet(1 .. size) /\ Cardinality(1 .. size) = size
    BY <1>2, FS_Interval
  <2> QED
    BY <2>1, <1>5, FS_Injection
<1>7. \A n \in 1 .. size : at(n) \in kept /\ place[at(n)] = n
  <2> SUFFICES ASSUME NEW n \in 1 .. size
               PROVE  at(n) \in kept /\ place[at(n)] = n
    OBVIOUS
  <2>1. PICK i \in kept : place[i] = n
    BY <1>6 DEF Surjection
  <2>2. Cardinality(below(i)) = n
    BY <2>1
  <2>3. at(n) \in kept /\ Cardinality(below(at(n))) = n
    BY <2>2
  <2> QED
    BY <2>3
<1>8. rest = [n \in 1 .. size |-> tabs[at(n)]]
  BY DEF Remaining
<1>9. /\ \A i \in kept : tabs[i] \in Keys /\ tabs[i] \in Tabs \ closed
      /\ \A k \in Tabs \ closed : \E i \in kept : k = tabs[i]
      /\ \A i, j \in kept : tabs[i] = tabs[j] => i = j
  BY <1>1 DEF Range, Tabs, IsInjective
<1>10. \A i \in kept : place[i] \in 1 .. size /\ at(place[i]) = i
  BY <1>3, <1>5, <1>7 DEF Injection, IsInjective
<1> HIDE DEF kept, below, place, size, at, rest
<1>11. rest \in Seq(Keys) /\ DOMAIN rest = 1 .. size
  <2>1. \A n \in 1 .. size : tabs[at(n)] \in Keys
    BY <1>7, <1>9
  <2> QED
    BY <2>1, <1>8, <1>2
<1>12. \A n \in 1 .. size : rest[n] = tabs[at(n)]
  BY <1>8
<1>13. ASSUME NEW m \in 1 .. size, NEW n \in 1 .. size, rest[m] = rest[n]
       PROVE  m = n
  <2>1. at(m) = at(n)
    BY <1>7, <1>9, <1>12, <1>13
  <2> QED
    BY <2>1, <1>7
<1>14. ASSUME NEW k \in Range(rest)
       PROVE  k \in Tabs \ closed
  <2>1. PICK n \in 1 .. size : k = tabs[at(n)]
    BY <1>11, <1>12 DEF Range
  <2> QED
    BY <2>1, <1>7, <1>9
<1>15. ASSUME NEW k \in Tabs \ closed
       PROVE  k \in Range(rest)
  <2>1. PICK i \in kept : k = tabs[i]
    BY <1>9
  <2>2. rest[place[i]] = k /\ place[i] \in DOMAIN rest
    BY <2>1, <1>10, <1>11, <1>12
  <2> QED
    BY <2>2 DEF Range
<1> QED
  BY <1>11, <1>13, <1>14, <1>15 DEF IsInjective, rest

(* The tab that becomes active after a close is one of those that stay.     *)
LEMMA ActiveStays ==
  ASSUME tabs \in Seq(Keys), IsInjective(tabs), NEW closed, NEW preferred
  PROVE  IF Remaining(closed) = <<>> THEN ActiveAfterClose(closed, preferred) = None
         ELSE ActiveAfterClose(closed, preferred) \in Range(Remaining(closed))
<1> DEFINE rest == Remaining(closed)
<1>1. rest \in Seq(Keys)
  BY RemainingTabs
<1>2. DOMAIN rest = 1 .. Len(rest) /\ Len(rest) \in Nat
  BY <1>1
<1>3. rest # <<>> => Last(rest) \in Range(rest)
  BY <1>1, <1>2 DEF Last, Range
<1>4. \A i \in DOMAIN rest : rest[i] \in Range(rest)
  BY DEF Range
<1>5. rest = <<>> => Range(rest) = {} /\ DOMAIN rest = {}
  BY DEF Range
<1> HIDE DEF rest
<1>6. ActiveAfterClose(closed, preferred) \in Range(rest) \/ rest = <<>>
  BY <1>3, <1>4 DEF ActiveAfterClose, rest
<1>7. rest = <<>> => ActiveAfterClose(closed, preferred) = None
  BY <1>5 DEF ActiveAfterClose, rest
<1> QED
  BY <1>6, <1>7 DEF rest

------------------------------------------------------------------------------
(* The tab bar.  A step that moves the focus to an open tab at most.        *)
LEMMA FocusKeepsBar ==
  ASSUME BarInv, tabs' = tabs, host' = host, active' = active \/ active' \in Tabs,
         saving' \subseteq Keys,
         running' \in {"yes", "quit", "windowless", "exited"}
  PROVE  BarInv'
<1>1. Tabs \subseteq Keys /\ (tabs = <<>> => Tabs = {})
  BY DEF BarInv, BarTypes, Tabs, Range
<1>2. BarTypes' /\ KeysInOrder'
  BY <1>1 DEF BarInv, BarTypes, KeysInOrder, Tabs
<1>3. ActiveIsOpen'
  BY <1>1 DEF BarInv, ActiveIsOpen, IsOpen, Tabs
<1> QED
  BY <1>2, <1>3 DEF BarInv

(* The next key is one that no tab has had.                                 *)
LEMMA NextKey ==
  ASSUME BarInv, Opened < MaxTabs
  PROVE  /\ Opened \in Nat /\ Opened + 1 \in Keys /\ Opened + 1 \notin Tabs
         /\ \A k \in Keys : host[k] # None <=> k <= Opened
<1>1. PICK n \in 0 .. MaxTabs : \A k \in Keys : host[k] # None <=> k <= n
  BY DEF BarInv, KeysInOrder
<1>2. {k \in Keys : host[k] # None} = 1 .. n
  BY <1>1, WorkspaceAssumption DEF Keys
<1>3. Opened = n
  <2>1. Cardinality(1 .. n) = n
    BY FS_Interval
  <2> QED
    BY <1>2, <2>1 DEF Opened
<1>4. Opened + 1 \in Keys
  BY <1>3, WorkspaceAssumption DEF Keys
<1>5. host[Opened + 1] = None
  BY <1>1, <1>3, <1>4
<1> QED
  BY <1>1, <1>3, <1>4, <1>5 DEF BarInv, KeysInOrder

(* A new tab is the last of the bar and the active one.                     *)
LEMMA NewTab ==
  ASSUME BarInv, NEW h \in Hosts \cup {Local}, PushTab(h)
  PROVE  /\ BarInv'
         /\ Tabs' = Tabs \cup {Opened + 1}
<1> DEFINE n == Opened
<1>1. /\ n < MaxTabs /\ tabs' = Append(tabs, n + 1)
      /\ host' = [host EXCEPT ![n + 1] = h] /\ active' = n + 1
      /\ saving' = saving /\ running' = running
  BY DEF PushTab, StartConnect
<1>2. /\ n \in Nat /\ n + 1 \in Keys /\ n + 1 \notin Tabs
      /\ \A k \in Keys : host[k] # None <=> k <= n
  BY <1>1, NextKey
<1> HIDE DEF n
<1>3. BarTypes /\ KeysInOrder
  BY DEF BarInv
<1>4. /\ tabs \in Seq(Keys) /\ tabs' \in Seq(Keys)
      /\ DOMAIN tabs = 1 .. Len(tabs) /\ Len(tabs) \in Nat
      /\ DOMAIN tabs' = 1 .. Len(tabs) + 1
      /\ \A i \in 1 .. Len(tabs) : tabs'[i] = tabs[i]
      /\ tabs'[Len(tabs) + 1] = n + 1
  BY <1>1, <1>2, <1>3 DEF BarTypes
<1>5. Tabs' = Tabs \cup {n + 1}
  BY <1>4 DEF Tabs, Range
<1>6. IsInjective(tabs')
  <2>1. \A i \in 1 .. Len(tabs) : tabs[i] \in Tabs
    BY <1>4 DEF Tabs, Range
  <2>2. \A i, j \in 1 .. Len(tabs) : tabs[i] = tabs[j] => i = j
    BY <1>3, <1>4 DEF BarTypes, IsInjective
  <2>3. ASSUME NEW i \in 1 .. Len(tabs) + 1, NEW j \in 1 .. Len(tabs) + 1,
               tabs'[i] = tabs'[j]
        PROVE  i = j
    BY <2>1, <2>2, <2>3, <1>2, <1>4
  <2> QED
    BY <2>3, <1>4 DEF IsInjective
<1>7. /\ host' \in [Keys -> Hosts \cup {Local, None}]
      /\ \A k \in Keys : host'[k] = IF k = n + 1 THEN h ELSE host[k]
  BY <1>1, <1>2, <1>3 DEF BarTypes
<1>8. BarTypes'
  BY <1>1, <1>2, <1>3, <1>4, <1>6, <1>7 DEF BarTypes
<1>9. KeysInOrder'
  <2>1. h # None
    BY WorkspaceAssumption
  <2>2. n + 1 \in 0 .. MaxTabs
    BY <1>2, WorkspaceAssumption DEF Keys
  <2>3. \A k \in Keys : host'[k] # None <=> k <= n + 1
    BY <1>2, <1>7, <2>1 DEF Keys
  <2>4. \A k \in Tabs' : k \in Keys /\ host'[k] # None
    <3>1. Tabs \subseteq Keys
      BY <1>3 DEF BarTypes, Tabs, Range
    <3> QED
      BY <3>1, <1>2, <1>3, <1>5, <1>7, <2>1 DEF KeysInOrder
  <2> QED
    BY <2>2, <2>3, <2>4 DEF KeysInOrder
<1>10. ActiveIsOpen'
  <2>1. tabs' # <<>>
    BY <1>4
  <2> QED
    BY <2>1, <1>1, <1>5 DEF ActiveIsOpen, IsOpen, Tabs
<1> QED
  BY <1>5, <1>8, <1>9, <1>10 DEF BarInv, n

(* Closing takes tabs off the bar and moves the focus to one that stays.    *)
LEMMA ClosingKeepsBar ==
  ASSUME BarInv, NEW closed, NEW preferred, CloseTabs(closed, preferred),
         running' \in {"yes", "quit", "windowless", "exited"}
  PROVE  BarInv' /\ Tabs' = Tabs \ closed
<1>1. /\ active' = ActiveAfterClose(closed, preferred)
      /\ tabs' = Remaining(closed) /\ host' = host /\ saving' = saving
  BY DEF CloseTabs
<1>2. /\ tabs' \in Seq(Keys) /\ IsInjective(tabs') /\ Tabs' = Tabs \ closed
      /\ IF tabs' = <<>> THEN active' = None ELSE active' \in Tabs'
  BY <1>1, RemainingTabs, ActiveStays DEF BarInv, BarTypes, Tabs
<1>3. Tabs' \subseteq Keys
  BY <1>2 DEF Tabs, Range
<1>4. BarTypes'
  BY <1>1, <1>2, <1>3 DEF BarInv, BarTypes
<1>5. KeysInOrder'
  BY <1>1, <1>2 DEF BarInv, KeysInOrder
<1>6. ActiveIsOpen'
  BY <1>2 DEF ActiveIsOpen, IsOpen, Tabs
<1> QED
  BY <1>2, <1>4, <1>5, <1>6 DEF BarInv

(* What a close takes away are open tabs.                                   *)
LEMMA TargetsAreTabs ==
  ASSUME BarInv, NEW k \in Tabs, NEW mode \in Modes
  PROVE  Targets(k, mode) \subseteq Tabs
<1> DEFINE at == CHOOSE i \in DOMAIN tabs : tabs[i] = k
<1>1. /\ tabs \in Seq(Keys) /\ DOMAIN tabs = 1 .. Len(tabs) /\ Len(tabs) \in Nat
      /\ at \in 1 .. Len(tabs)
  BY DEF BarInv, BarTypes, Tabs, Range
<1> HIDE DEF at
<1>2. \A i \in 1 .. Len(tabs) : tabs[i] \in Tabs
  BY <1>1 DEF Tabs, Range
<1>3. Range(SubSeq(tabs, 1, at - 1)) \subseteq Tabs
  <2>1. /\ DOMAIN SubSeq(tabs, 1, at - 1) = 1 .. at - 1
        /\ \A i \in 1 .. at - 1 : SubSeq(tabs, 1, at - 1)[i] = tabs[i]
    BY <1>1
  <2> QED
    BY <2>1, <1>1, <1>2 DEF Range
<1>4. Range(SubSeq(tabs, at + 1, Len(tabs))) \subseteq Tabs
  <2>1. /\ DOMAIN SubSeq(tabs, at + 1, Len(tabs)) = 1 .. Len(tabs) - at
        /\ \A i \in 1 .. Len(tabs) - at :
              SubSeq(tabs, at + 1, Len(tabs))[i] = tabs[at + i]
    BY <1>1
  <2> QED
    BY <2>1, <1>1, <1>2 DEF Range
<1> QED
  BY <1>3, <1>4 DEF Targets, Modes, Tabs, at

------------------------------------------------------------------------------
(* The sessions.  One is on show when any part of any tab has it.           *)
LEMMA ShownSomewhere ==
  ASSUME BarInv, PanesAreMade
  PROVE  \A s : s \in Shown <=>
            s # None /\ \E k \in Keys, p \in Parts : pane[k][p].session = s
<1>1. Tabs \subseteq Keys
  BY DEF BarInv, BarTypes, Tabs, Range
<1>2. \A k \in Keys, p \in Parts : pane[k][p].session # None => k \in Tabs
  BY DEF PanesAreMade, NoPane
<1> QED
  BY <1>1, <1>2 DEF Shown, Sessions, Tabs

LEMMA ShownSomewhereThen ==
  ASSUME BarInv', PanesAreMade'
  PROVE  \A s : s \in Shown' <=>
            s # None /\ \E k \in Keys, p \in Parts : pane'[k][p].session = s
<1>1. Tabs' \subseteq Keys
  BY DEF BarInv, BarTypes, Tabs, Range
<1>2. \A k \in Keys, p \in Parts : pane'[k][p].session # None => k \in Tabs'
  BY DEF PanesAreMade, NoPane
<1> QED
  BY <1>1, <1>2 DEF Shown, Sessions, Tabs

(* One part of one tab changes.                                             *)
LEMMA OnePart ==
  ASSUME SessionTypes, NEW k \in Keys, NEW p \in Parts, NEW v \in Panes,
         pane' = [pane EXCEPT ![k][p] = v]
  PROVE  /\ pane' \in [Keys -> [Parts -> Panes]]
         /\ \A j \in Keys, q \in Parts :
               pane'[j][q] = IF j = k /\ q = p THEN v ELSE pane[j][q]
  BY DEF SessionTypes

(* What the constructors make.                                              *)
LEMMA PanesByName ==
  ASSUME NEW a \in Attempts
  PROVE  /\ NoPane \in Panes /\ Waiting(a) \in Panes /\ Showing(a) \in Panes
         /\ Failed(a) \in Panes /\ Failed(None) \in Panes
         /\ a # None
         /\ NoPane.state = "None" /\ NoPane.attempt = None /\ NoPane.session = None
         /\ Waiting(a).state = "Connecting" /\ Waiting(a).attempt = a
         /\ Waiting(a).session = None
         /\ Showing(a).state = "Connected" /\ Showing(a).attempt = None
         /\ Showing(a).session = a
         /\ \A s \in {None, a} : /\ Failed(s).state = "Error"
                                 /\ Failed(s).attempt = None
                                 /\ Failed(s).session = s
  BY WorkspaceAssumption
     DEF NoPane, Waiting, Showing, Failed, Panes, Attempts, None

(* A session is in one part of one tab only.                                *)
LEMMA OnePlace ==
  ASSUME SessionsAreAnswers, NEW k \in Keys, NEW p \in Parts,
         NEW j \in Keys, NEW q \in Parts,
         pane[k][p].session # None, pane[k][p].session = pane[j][q].session
  PROVE  k = j /\ p = q
  BY DEF SessionsAreAnswers

(* A part of a tab waits for a new attempt; the session it had is hung up.  *)
LEMMA WaitingBegins ==
  ASSUME BarInv, BarInv', SessionInv, NEW k \in Keys, NEW p \in Parts,
         BeginAttempt(k, p), Tabs' = Tabs \cup {k}, open' = open,
         pane' = [pane EXCEPT ![k][p] = Waiting(NextAttempt)],
         closing' = closing \cup ({pane[k][p].session} \ {None})
  PROVE  SessionInv'
<1> DEFINE n == Len(attempts) + 1
<1>0. /\ SessionTypes /\ PanesAreMade /\ SessionsAreAnswers
      /\ SpinnersWait /\ WaitsForTheLast /\ SessionsAreHeld
  BY DEF SessionInv
<1>1. /\ attempts' \in Seq([key: Keys, part: Parts, phase: Phases])
      /\ Len(attempts') <= MaxAttempts
      /\ n \in Attempts /\ n \notin DOMAIN attempts
      /\ DOMAIN attempts' = DOMAIN attempts \cup {n}
      /\ \A a \in DOMAIN attempts : attempts'[a] = attempts[a] /\ a <= n
      /\ attempts'[n].key = k /\ attempts'[n].part = p
      /\ attempts'[n].phase = "connecting"
  <2>1. [key |-> k, part |-> p, phase |-> "connecting"]
          \in [key: Keys, part: Parts, phase: Phases]
    BY DEF Phases
  <2>2. /\ attempts \in Seq([key: Keys, part: Parts, phase: Phases])
        /\ Len(attempts) \in Nat /\ Len(attempts) < MaxAttempts
        /\ DOMAIN attempts = 1 .. Len(attempts)
    BY <1>0 DEF SessionTypes, BeginAttempt
  <2>3. attempts' = Append(attempts, [key |-> k, part |-> p, phase |-> "connecting"])
    BY DEF BeginAttempt
  <2>4. /\ attempts' \in Seq([key: Keys, part: Parts, phase: Phases])
        /\ Len(attempts') = n /\ DOMAIN attempts' = 1 .. n
        /\ \A a \in 1 .. Len(attempts) : attempts'[a] = attempts[a]
        /\ attempts'[n] = [key |-> k, part |-> p, phase |-> "connecting"]
    BY <2>1, <2>2, <2>3
  <2> QED
    BY <2>2, <2>4, WorkspaceAssumption DEF Attempts
<1>2. /\ Waiting(n) \in Panes /\ n # None
      /\ Waiting(n).state = "Connecting" /\ Waiting(n).attempt = n
      /\ Waiting(n).session = None
  BY <1>1, PanesByName
<1>3. /\ pane' \in [Keys -> [Parts -> Panes]]
      /\ \A j \in Keys, q \in Parts :
            pane'[j][q] = IF j = k /\ q = p THEN Waiting(n) ELSE pane[j][q]
  BY <1>0, <1>2, OnePart DEF NextAttempt
<1>4. /\ \A a \in DOMAIN attempts' : attempts'[a].phase \in {"up", "settled"} =>
            a \in DOMAIN attempts
      /\ Undelivered' = Undelivered
  BY <1>1 DEF Undelivered
<1> DEFINE s == pane[k][p].session
<1>5. s # None => s \in DOMAIN attempts /\ attempts[s].phase = "settled" /\ s \in Attempts
  <2>1. DOMAIN attempts \subseteq Attempts
    BY <1>0, WorkspaceAssumption DEF SessionTypes, Attempts
  <2> QED
    BY <1>0, <2>1 DEF SessionsAreAnswers
<1> HIDE DEF n, s
<1>6. SessionTypes'
  BY <1>0, <1>1, <1>3, <1>5 DEF SessionTypes, s
<1>7. PanesAreMade'
  BY <1>0, <1>2, <1>3 DEF PanesAreMade
<1>8. SessionsAreAnswers'
  <2>1. ASSUME NEW j \in Keys, NEW q \in Parts, pane'[j][q].session # None
        PROVE  pane'[j][q] = pane[j][q]
    BY <1>2, <1>3, <2>1
  <2>2. \A x \in closing' : x \in DOMAIN attempts /\ attempts[x].phase = "settled"
    BY <1>0, <1>5 DEF SessionsAreAnswers, s
  <2> QED
    BY <1>0, <1>1, <2>1, <2>2 DEF SessionsAreAnswers
<1>9. SpinnersWait'
  BY <1>0, <1>1, <1>2, <1>3 DEF SpinnersWait
<1>10. WaitsForTheLast'
  <2> SUFFICES ASSUME NEW j \in Keys, NEW q \in Parts, pane'[j][q].attempt # None,
                      NEW a \in DOMAIN attempts',
                      attempts'[a].key = j, attempts'[a].part = q
               PROVE  a <= pane'[j][q].attempt
    BY DEF WaitsForTheLast
  <2>1. CASE j = k /\ q = p
    <3>1. pane'[j][q].attempt = n /\ n \in Nat
      BY <2>1, <1>1, <1>2, <1>3 DEF Attempts
    <3> QED
      BY <3>1, <1>1
  <2>2. CASE ~(j = k /\ q = p)
    <3>1. pane'[j][q] = pane[j][q] /\ a # n
      BY <2>2, <1>1, <1>3
    <3> QED
      BY <3>1, <1>0, <1>1 DEF WaitsForTheLast
  <2> QED
    BY <2>1, <2>2
<1>11. SessionsAreHeld'
  <2>1. \A x : x \in Shown' <=> x \in Shown /\ x # s
    <3>1. \A x : x \in Shown' <=>
             x # None /\ \E j \in Keys, q \in Parts : pane'[j][q].session = x
      BY <1>7, ShownSomewhereThen
    <3>2. \A x : x \in Shown <=>
             x # None /\ \E j \in Keys, q \in Parts : pane[j][q].session = x
      BY <1>0, ShownSomewhere
    <3>3. \A j \in Keys, q \in Parts :
             pane[j][q].session = s /\ s # None => j = k /\ q = p
      BY <1>0, OnePlace DEF s
    <3>4. ASSUME NEW x \in Shown'
          PROVE  x \in Shown /\ x # s
      <4>1. PICK j \in Keys, q \in Parts : pane'[j][q].session = x /\ x # None
        BY <3>1
      <4>2. ~(j = k /\ q = p) /\ pane[j][q].session = x
        BY <4>1, <1>2, <1>3
      <4> QED
        BY <4>1, <4>2, <3>2, <3>3
    <3>5. ASSUME NEW x \in Shown, x # s
          PROVE  x \in Shown'
      <4>1. PICK j \in Keys, q \in Parts : pane[j][q].session = x /\ x # None
        BY <3>2
      <4>2. pane'[j][q].session = x
        BY <4>1, <3>5, <1>3 DEF s
      <4> QED
        BY <4>1, <4>2, <3>1
    <3> QED
      BY <3>4, <3>5
  <2>2. closing' = closing \cup ({s} \ {None})
    BY DEF s
  <2>3. open' \subseteq Shown' \cup Undelivered' \cup closing'
    <3>1. s = None => s \notin Shown
      BY DEF Shown, Sessions
    <3> QED
      BY <2>1, <2>2, <3>1, <1>0, <1>4 DEF SessionsAreHeld
  <2> QED
    BY <2>1, <2>2, <2>3, <1>0 DEF SessionsAreHeld
<1> QED
  BY <1>6, <1>7, <1>8, <1>9, <1>10, <1>11 DEF SessionInv

(* Parts are emptied and their sessions hung up, tabs and all or not.       *)
LEMMA PartsAreEmptied ==
  ASSUME BarInv, BarInv', SessionInv, NEW gone \in [Keys -> SUBSET Parts],
         attempts' = attempts, open' = open, Tabs' \subseteq Tabs,
         pane' \in [Keys -> [Parts -> Panes]],
         \A k \in Keys, p \in Parts :
             pane'[k][p] = IF p \in gone[k] THEN NoPane ELSE pane[k][p],
         \A k \in Tabs \ Tabs', p \in Parts : p \in gone[k],
         \A s : s \in closing' <=>
             \/ s \in closing
             \/ s # None /\ \E k \in Keys, p \in Parts :
                   p \in gone[k] /\ pane[k][p].session = s
  PROVE  SessionInv'
<1>0. /\ SessionTypes /\ PanesAreMade /\ SessionsAreAnswers
      /\ SpinnersWait /\ WaitsForTheLast /\ SessionsAreHeld
  BY DEF SessionInv
<1>1. /\ NoPane.state = "None" /\ NoPane.attempt = None /\ NoPane.session = None
  BY DEF NoPane
<1>2. \A s \in closing' : /\ s \in DOMAIN attempts /\ attempts[s].phase = "settled"
                          /\ s \in Attempts
  <2>1. DOMAIN attempts \subseteq Attempts
    BY <1>0, WorkspaceAssumption DEF SessionTypes, Attempts
  <2> QED
    BY <1>0, <2>1 DEF SessionsAreAnswers
<1>3. SessionTypes'
  BY <1>0, <1>2 DEF SessionTypes
<1>4. PanesAreMade'
  <2>1. Tabs \subseteq Keys
    BY DEF BarInv, BarTypes, Tabs, Range
  <2> QED
    BY <1>0, <2>1 DEF PanesAreMade
<1>5. SessionsAreAnswers'
  BY <1>0, <1>1, <1>2 DEF SessionsAreAnswers
<1>6. SpinnersWait'
  BY <1>0, <1>1 DEF SpinnersWait
<1>7. WaitsForTheLast'
  BY <1>0, <1>1 DEF WaitsForTheLast
<1>8. \A s : s \in Shown' <=>
         s # None /\ \E k \in Keys, p \in Parts : pane'[k][p].session = s
  BY <1>4, ShownSomewhereThen
<1>9. \A s : s \in Shown <=>
         s # None /\ \E k \in Keys, p \in Parts : pane[k][p].session = s
  BY <1>0, ShownSomewhere
<1>10. ASSUME NEW s \in Shown'
       PROVE  s \in Shown /\ s \notin closing'
  <2>1. PICK k \in Keys, p \in Parts : pane'[k][p].session = s /\ s # None
    BY <1>8
  <2>2. p \notin gone[k] /\ pane[k][p].session = s
    BY <2>1, <1>1
  <2>3. s \in Shown
    BY <2>1, <2>2, <1>9
  <2>4. s \notin closing
    BY <2>3, <1>0 DEF SessionsAreHeld
  <2>5. ASSUME NEW j \in Keys, NEW q \in Parts, q \in gone[j], pane[j][q].session = s
        PROVE  FALSE
    BY <2>1, <2>2, <2>5, <1>0, OnePlace
  <2> QED
    BY <2>1, <2>3, <2>4, <2>5
<1>11. ASSUME NEW s \in Shown
       PROVE  s \in Shown' \/ s \in closing'
  <2>1. PICK k \in Keys, p \in Parts : pane[k][p].session = s /\ s # None
    BY <1>9
  <2>2. CASE p \in gone[k]
    BY <2>1, <2>2
  <2>3. CASE p \notin gone[k]
    BY <2>1, <2>3, <1>8
  <2> QED
    BY <2>2, <2>3
<1>12. SessionsAreHeld'
  <2>1. closing \subseteq closing' /\ Undelivered' = Undelivered
    BY DEF Undelivered
  <2> QED
    BY <2>1, <1>0, <1>10, <1>11 DEF SessionsAreHeld
<1> QED
  BY <1>3, <1>4, <1>5, <1>6, <1>7, <1>12 DEF SessionInv

(* An attempt gets on.                                                      *)
LEMMA OneAttempt ==
  ASSUME SessionTypes, NEW a \in DOMAIN attempts, NEW phase \in Phases,
         attempts' = [attempts EXCEPT ![a].phase = phase]
  PROVE  /\ attempts' \in Seq([key: Keys, part: Parts, phase: Phases])
         /\ Len(attempts') = Len(attempts) /\ DOMAIN attempts' = DOMAIN attempts
         /\ \A b \in DOMAIN attempts :
               /\ attempts'[b].key = attempts[b].key
               /\ attempts'[b].part = attempts[b].part
               /\ attempts'[b].phase = IF b = a THEN phase ELSE attempts[b].phase
         /\ attempts[a].key \in Keys /\ attempts[a].part \in Parts
         /\ a \in Attempts
<1>1. /\ attempts \in Seq([key: Keys, part: Parts, phase: Phases])
      /\ Len(attempts) \in Nat /\ DOMAIN attempts = 1 .. Len(attempts)
      /\ Len(attempts) <= MaxAttempts
  BY DEF SessionTypes
<1>2. attempts[a] \in [key: Keys, part: Parts, phase: Phases]
  BY <1>1, ElementOfSeq
<1>3. [attempts[a] EXCEPT !.phase = phase] \in [key: Keys, part: Parts, phase: Phases]
  BY <1>2
<1>4. attempts' = [attempts EXCEPT ![a] = [attempts[a] EXCEPT !.phase = phase]]
  OBVIOUS
<1>5. /\ attempts' \in Seq([key: Keys, part: Parts, phase: Phases])
      /\ Len(attempts') = Len(attempts) /\ DOMAIN attempts' = DOMAIN attempts
  BY <1>1, <1>3, <1>4
<1>6. \A b \in DOMAIN attempts :
         attempts'[b] = IF b = a THEN [attempts[a] EXCEPT !.phase = phase] ELSE attempts[b]
  BY <1>4
<1>7. /\ [attempts[a] EXCEPT !.phase = phase].key = attempts[a].key
      /\ [attempts[a] EXCEPT !.phase = phase].part = attempts[a].part
      /\ [attempts[a] EXCEPT !.phase = phase].phase = phase
  BY <1>2
<1> QED
  BY <1>1, <1>2, <1>5, <1>6, <1>7, WorkspaceAssumption DEF Attempts

(* A connection comes up or fails.                                          *)
LEMMA AnswersKeepSessions ==
  ASSUME BarInv', SessionInv, Tabs' = Tabs, NEW a \in DOMAIN attempts,
         ConnectionComesUp(a) \/ ConnectionFails(a)
  PROVE  SessionInv'
<1>0. /\ SessionTypes /\ PanesAreMade /\ SessionsAreAnswers
      /\ SpinnersWait /\ WaitsForTheLast /\ SessionsAreHeld
  BY DEF SessionInv
<1>1. PICK phase \in {"up", "failed"} :
        /\ attempts' = [attempts EXCEPT ![a].phase = phase]
        /\ open' = IF phase = "up" THEN open \cup {a} ELSE open
        /\ attempts[a].phase = "connecting"
        /\ UNCHANGED <<pane, closing, tabs>>
  BY DEF ConnectionComesUp, ConnectionFails
<1>2. /\ attempts' \in Seq([key: Keys, part: Parts, phase: Phases])
      /\ Len(attempts') = Len(attempts) /\ DOMAIN attempts' = DOMAIN attempts
      /\ \A b \in DOMAIN attempts :
            /\ attempts'[b].key = attempts[b].key
            /\ attempts'[b].part = attempts[b].part
            /\ attempts'[b].phase = IF b = a THEN phase ELSE attempts[b].phase
      /\ a \in Attempts
  <2>1. phase \in Phases
    BY DEF Phases
  <2> QED
    BY <2>1, <1>0, <1>1, OneAttempt
<1>3. SessionTypes'
  BY <1>0, <1>1, <1>2 DEF SessionTypes
<1>4. PanesAreMade'
  BY <1>0, <1>1 DEF PanesAreMade
<1>5. SessionsAreAnswers'
  BY <1>0, <1>1, <1>2 DEF SessionsAreAnswers
<1>6. SpinnersWait'
  BY <1>0, <1>1, <1>2 DEF SpinnersWait
<1>7. WaitsForTheLast'
  BY <1>0, <1>1, <1>2 DEF WaitsForTheLast
<1>8. SessionsAreHeld'
  <2>1. Shown' = Shown
    BY <1>1 DEF Shown, Sessions, Tabs
  <2>2. Undelivered' = IF phase = "up" THEN Undelivered \cup {a} ELSE Undelivered
    BY <1>1, <1>2 DEF Undelivered
  <2> QED
    BY <2>1, <2>2, <1>0, <1>1 DEF SessionsAreHeld
<1> QED
  BY <1>3, <1>4, <1>5, <1>6, <1>7, <1>8 DEF SessionInv

(* The view takes an answer: the part that waits for it shows it, or it is  *)
(* no longer wanted and hung up.                                            *)
LEMMA FinishKeepsSessions ==
  ASSUME BarInv, BarInv', SessionInv, Tabs' = Tabs, NEW a \in DOMAIN attempts,
         FinishAttempt(a)
  PROVE  SessionInv'
<1> DEFINE k == attempts[a].key
           p == attempts[a].part
           came == attempts[a].phase = "up"
<1>0. /\ SessionTypes /\ PanesAreMade /\ SessionsAreAnswers
      /\ SpinnersWait /\ WaitsForTheLast /\ SessionsAreHeld
  BY DEF SessionInv
<1>1. /\ attempts[a].phase \in {"up", "failed"} /\ open' = open
      /\ attempts' = [attempts EXCEPT ![a].phase = "settled"]
  BY DEF FinishAttempt
<1>2. /\ attempts' \in Seq([key: Keys, part: Parts, phase: Phases])
      /\ Len(attempts') = Len(attempts) /\ DOMAIN attempts' = DOMAIN attempts
      /\ \A b \in DOMAIN attempts :
            /\ attempts'[b].key = attempts[b].key
            /\ attempts'[b].part = attempts[b].part
            /\ attempts'[b].phase = IF b = a THEN "settled" ELSE attempts[b].phase
      /\ k \in Keys /\ p \in Parts /\ a \in Attempts
  <2>1. "settled" \in Phases
    BY DEF Phases
  <2> QED
    BY <2>1, <1>0, <1>1, OneAttempt
<1>3. /\ NoPane.session = None /\ Waiting(a).session = None /\ a # None
      /\ Showing(a) \in Panes /\ Showing(a).state = "Connected"
      /\ Showing(a).attempt = None /\ Showing(a).session = a
      /\ Failed(None) \in Panes /\ Failed(None).state = "Error"
      /\ Failed(None).attempt = None /\ Failed(None).session = None
  BY <1>2, PanesByName
<1>4. \A x : x \in Undelivered' <=> x \in Undelivered /\ x # a
  BY <1>2 DEF Undelivered
<1>5. a \in Undelivered <=> came
  BY DEF Undelivered
<1>6. a \notin Shown /\ a \notin closing
  <2>1. attempts[a].phase # "settled"
    BY <1>1
  <2>2. \A s : s \in Shown => s # None /\ \E j \in Keys, q \in Parts : pane[j][q].session = s
    BY <1>0, ShownSomewhere
  <2> QED
    BY <2>1, <2>2, <1>0 DEF SessionsAreAnswers
<1>7. CASE Current(a)
  <2> DEFINE v == IF came THEN Showing(a) ELSE Failed(None)
  <2>1. pane' = [pane EXCEPT ![k][p] = v] /\ closing' = closing
    BY <1>7 DEF FinishAttempt
  <2>2. /\ v \in Panes /\ v.attempt = None /\ v.state \in {"Connected", "Error"}
        /\ v.session = IF came THEN a ELSE None
        /\ v.state = "Connected" => came
        /\ (v = Showing(v.session) /\ v.session # None) \/ v = Failed(v.session)
    BY <1>3
  <2>3. /\ pane' \in [Keys -> [Parts -> Panes]]
        /\ \A j \in Keys, q \in Parts :
              pane'[j][q] = IF j = k /\ q = p THEN v ELSE pane[j][q]
    BY <2>1, <2>2, <1>0, <1>2, OnePart
  <2>4. k \in Tabs /\ pane[k][p].attempt = a /\ pane[k][p].session = None
    <3>1. k \in Tabs /\ pane[k][p].attempt = a
      BY <1>7 DEF Current, IsOpen, Tabs
    <3>2. /\ NoPane.attempt = None
          /\ \A s : Showing(s).attempt = None /\ Failed(s).attempt = None
      BY DEF NoPane, Showing, Failed
    <3>3. pane[k][p] = Waiting(a)
      BY <3>1, <3>2, <1>0, <1>2, <1>3 DEF PanesAreMade
    <3> QED
      BY <3>1, <3>3, <1>3
  <2> HIDE DEF v, k, p, came
  <2>5. SessionTypes'
    BY <2>1, <2>3, <1>0, <1>1, <1>2 DEF SessionTypes
  <2>6. PanesAreMade'
    BY <2>2, <2>3, <2>4, <1>0 DEF PanesAreMade
  <2>7. SessionsAreAnswers'
    <3>1. attempts'[a].key = k /\ attempts'[a].part = p /\ attempts'[a].phase = "settled"
      BY <1>2 DEF k, p
    <3>2. ASSUME NEW j \in Keys, NEW q \in Parts, pane'[j][q].session # None
          PROVE  LET x == pane'[j][q].session
                 IN  /\ x \in DOMAIN attempts' /\ attempts'[x].key = j
                     /\ attempts'[x].part = q /\ attempts'[x].phase = "settled"
      <4>1. CASE j = k /\ q = p
        BY <4>1, <3>1, <3>2, <2>2, <2>3, <1>2
      <4>2. CASE ~(j = k /\ q = p)
        <5>1. pane'[j][q] = pane[j][q]
          BY <4>2, <2>3
        <5> DEFINE x == pane[j][q].session
        <5>2. /\ x \in DOMAIN attempts /\ attempts[x].key = j
              /\ attempts[x].part = q /\ attempts[x].phase = "settled"
          BY <5>1, <3>2, <1>0 DEF SessionsAreAnswers
        <5>3. /\ attempts'[x].key = j /\ attempts'[x].part = q
              /\ attempts'[x].phase = "settled" /\ x \in DOMAIN attempts'
          BY <5>2, <1>2
        <5> QED
          BY <5>1, <5>3
      <4> QED
        BY <4>1, <4>2
    <3>3. \A x \in closing' : x \in DOMAIN attempts' /\ attempts'[x].phase = "settled"
      BY <2>1, <1>0, <1>2 DEF SessionsAreAnswers
    <3> QED
      BY <3>2, <3>3 DEF SessionsAreAnswers
  <2>8. SpinnersWait'
    <3>1. \A j \in Keys, q \in Parts : pane[j][q].attempt = a => j = k /\ q = p
      BY <1>0, <1>3 DEF SpinnersWait, k, p
    <3> SUFFICES ASSUME NEW j \in Keys, NEW q \in Parts
                 PROVE  LET w == pane'[j][q]
                        IN  /\ w.state = "Connecting" <=> w.attempt # None
                            /\ w.state = "Connecting" =>
                                  /\ w.attempt \in DOMAIN attempts'
                                  /\ attempts'[w.attempt].key = j
                                  /\ attempts'[w.attempt].part = q
                                  /\ attempts'[w.attempt].phase # "settled"
                            /\ w.state = "Connected" => w.session # None
      BY DEF SpinnersWait
    <3>2. CASE j = k /\ q = p
      <4>1. pane'[j][q] = v
        BY <3>2, <2>3
      <4> QED
        BY <4>1, <2>2, <1>3
    <3>3. CASE ~(j = k /\ q = p)
      <4>1. pane'[j][q] = pane[j][q] /\ pane[j][q].attempt # a
        BY <3>1, <3>3, <2>3
      <4> DEFINE w == pane[j][q]
      <4>2. /\ w.state = "Connecting" <=> w.attempt # None
            /\ w.state = "Connecting" => /\ w.attempt \in DOMAIN attempts
                                         /\ attempts[w.attempt].key = j
                                         /\ attempts[w.attempt].part = q
                                         /\ attempts[w.attempt].phase # "settled"
            /\ w.state = "Connected" => w.session # None
        BY <1>0 DEF SpinnersWait
      <4>3. ASSUME w.state = "Connecting"
            PROVE  /\ w.attempt \in DOMAIN attempts' /\ attempts'[w.attempt].key = j
                   /\ attempts'[w.attempt].part = q
                   /\ attempts'[w.attempt].phase # "settled"
        BY <4>1, <4>2, <4>3, <1>2
      <4> HIDE DEF w
      <4>4. pane'[j][q] = w
        BY <4>1 DEF w
      <4> QED
        BY <4>2, <4>3, <4>4
    <3> QED
      BY <3>2, <3>3
  <2>9. WaitsForTheLast'
    BY <2>2, <2>3, <1>0, <1>2 DEF WaitsForTheLast
  <2>10. \A x : x \in Shown' <=> x \in Shown \/ (came /\ x = a)
    <3>1. \A x : x \in Shown' <=>
             x # None /\ \E j \in Keys, q \in Parts : pane'[j][q].session = x
      BY <2>6, ShownSomewhereThen
    <3>2. \A x : x \in Shown <=>
             x # None /\ \E j \in Keys, q \in Parts : pane[j][q].session = x
      BY <1>0, ShownSomewhere
    <3>3. ASSUME NEW x \in Shown'
          PROVE  x \in Shown \/ (came /\ x = a)
      BY <3>1, <3>2, <2>2, <2>3
    <3>4. ASSUME NEW x \in Shown
          PROVE  x \in Shown'
      <4>1. PICK j \in Keys, q \in Parts : pane[j][q].session = x /\ x # None
        BY <3>2
      <4>2. pane'[j][q].session = x
        BY <4>1, <2>3, <2>4
      <4> QED
        BY <4>1, <4>2, <3>1
    <3>5. came => a \in Shown'
      <4>1. pane'[k][p] = v
        BY <2>3, <1>2
      <4> QED
        BY <4>1, <3>1, <2>2, <1>2, <1>3
    <3> QED
      BY <3>3, <3>4, <3>5
  <2>11. SessionsAreHeld'
    BY <2>1, <2>10, <1>0, <1>1, <1>4, <1>5, <1>6 DEF SessionsAreHeld
  <2> QED
    BY <2>5, <2>6, <2>7, <2>8, <2>9, <2>11 DEF SessionInv
<1>8. CASE ~Current(a)
  <2>1. /\ pane' = pane
        /\ closing' = IF came THEN closing \cup {a} ELSE closing
    BY <1>8 DEF FinishAttempt
  <2>2. \A j \in Keys, q \in Parts : pane[j][q].attempt # a
    <3>1. SUFFICES ASSUME NEW j \in Keys, NEW q \in Parts, pane[j][q].attempt = a
                   PROVE  FALSE
      OBVIOUS
    <3>2. j = k /\ q = p
      BY <3>1, <1>0, <1>3 DEF SpinnersWait
    <3>3. j \in Tabs
      BY <3>1, <1>0, <1>3 DEF PanesAreMade, NoPane
    <3> QED
      BY <3>1, <3>2, <3>3, <1>8 DEF Current, IsOpen, Tabs
  <2> HIDE DEF k, p, came
  <2>3. SessionTypes'
    BY <2>1, <1>0, <1>1, <1>2 DEF SessionTypes
  <2>4. PanesAreMade'
    BY <2>1, <1>0 DEF PanesAreMade
  <2>5. SessionsAreAnswers'
    BY <2>1, <1>0, <1>2 DEF SessionsAreAnswers
  <2>6. SpinnersWait'
    BY <2>1, <2>2, <1>0, <1>2 DEF SpinnersWait
  <2>7. WaitsForTheLast'
    BY <2>1, <1>0, <1>2 DEF WaitsForTheLast
  <2>8. Shown' = Shown
    BY <2>1 DEF Shown, Sessions, Tabs
  <2>9. SessionsAreHeld'
    BY <2>1, <2>8, <1>0, <1>1, <1>4, <1>5, <1>6 DEF SessionsAreHeld
  <2> QED
    BY <2>3, <2>4, <2>5, <2>6, <2>7, <2>9 DEF SessionInv
<1> QED
  BY <1>7, <1>8

(* A session is hung up, or a write finds it gone.                          *)
LEMMA GoneKeepsSessions ==
  ASSUME SessionInv, Tabs' = Tabs, NEW s,
         Disconnect(s) \/ WriteFindsItClosed(s)
  PROVE  SessionInv'
<1>0. /\ SessionTypes /\ PanesAreMade /\ SessionsAreAnswers
      /\ SpinnersWait /\ WaitsForTheLast /\ SessionsAreHeld
  BY DEF SessionInv
<1>1. /\ UNCHANGED <<pane, attempts, tabs>> /\ open' = open \ {s}
      /\ closing' \in {closing, closing \ {s}}
  BY DEF Disconnect, WriteFindsItClosed
<1>2. Shown' = Shown /\ Undelivered' = Undelivered
  BY <1>1 DEF Shown, Sessions, Tabs, Undelivered
<1> QED
  BY <1>0, <1>1, <1>2
     DEF SessionInv, SessionTypes, PanesAreMade, SessionsAreAnswers, SpinnersWait,
         WaitsForTheLast, SessionsAreHeld

(* A report marks the host's tabs; they keep their sessions.                *)
LEMMA ReportKeepsSessions ==
  ASSUME BarInv, BarInv', SessionInv, Tabs' = Tabs, NEW h, OnConnectionStatus(h)
  PROVE  SessionInv'
<1> DEFINE hit == {k \in Tabs : host[k] = h /\ pane[k]["main"].state = "Connected"}
           mark(k) == [pane[k] EXCEPT !["main"] = Failed(pane[k]["main"].session)]
<1>0. /\ SessionTypes /\ PanesAreMade /\ SessionsAreAnswers
      /\ SpinnersWait /\ WaitsForTheLast /\ SessionsAreHeld
  BY DEF SessionInv
<1>1. /\ UNCHANGED <<attempts, open, closing>>
      /\ pane' = [k \in Keys |-> IF k \in hit THEN mark(k) ELSE pane[k]]
  BY DEF OnConnectionStatus, Tabs
<1>2. \A s \in {None} \cup Attempts :
        /\ Failed(s) \in Panes /\ Failed(s).state = "Error"
        /\ Failed(s).attempt = None /\ Failed(s).session = s
  BY DEF Failed, Panes, None
<1>3. \A k \in Keys, p \in Parts :
        /\ pane[k][p] \in Panes /\ pane[k][p].session \in {None} \cup Attempts
        /\ pane[k] \in [Parts -> Panes]
  <2>1. \A v \in Panes : v.session \in {None} \cup Attempts
    BY DEF Panes
  <2> QED
    BY <2>1, <1>0 DEF SessionTypes
<1>4. \A k \in Keys, p \in Parts :
        IF k \in hit /\ p = "main"
        THEN pane'[k][p] = Failed(pane[k][p].session) /\ pane[k][p].state = "Connected"
        ELSE pane'[k][p] = pane[k][p]
  BY <1>1, <1>3
<1>5. pane' \in [Keys -> [Parts -> Panes]]
  <2>1. \A k \in Keys : mark(k) \in [Parts -> Panes]
    BY <1>2, <1>3 DEF Parts
  <2> QED
    BY <2>1, <1>1, <1>3
<1> HIDE DEF hit, mark
<1>6. \A k \in Keys, p \in Parts :
        /\ pane'[k][p].session = pane[k][p].session
        /\ pane'[k][p].attempt = pane[k][p].attempt
        /\ \/ pane'[k][p] = pane[k][p]
           \/ /\ pane[k][p].state = "Connected" /\ pane'[k][p].state = "Error"
              /\ pane'[k][p] = Failed(pane[k][p].session) /\ k \in Tabs
  <2> SUFFICES ASSUME NEW k \in Keys, NEW p \in Parts
               PROVE  /\ pane'[k][p].session = pane[k][p].session
                      /\ pane'[k][p].attempt = pane[k][p].attempt
                      /\ \/ pane'[k][p] = pane[k][p]
                         \/ /\ pane[k][p].state = "Connected"
                            /\ pane'[k][p].state = "Error"
                            /\ pane'[k][p] = Failed(pane[k][p].session)
                            /\ k \in Tabs
    OBVIOUS
  <2>1. pane[k][p].state = "Connected" => pane[k][p].attempt = None
    BY <1>0 DEF SpinnersWait
  <2>2. k \in hit => k \in Tabs
    BY DEF hit
  <2> QED
    BY <2>1, <2>2, <1>2, <1>3, <1>4
<1>7. SessionTypes'
  BY <1>0, <1>1, <1>5 DEF SessionTypes
<1>8. PanesAreMade'
  BY <1>0, <1>6 DEF PanesAreMade
<1>9. SessionsAreAnswers'
  BY <1>0, <1>1, <1>6 DEF SessionsAreAnswers
<1>10. SpinnersWait'
  BY <1>0, <1>1, <1>6 DEF SpinnersWait
<1>11. WaitsForTheLast'
  BY <1>0, <1>1, <1>6 DEF WaitsForTheLast
<1>12. \A x : x \in Shown' <=> x \in Shown
  BY <1>0, <1>6, <1>8, ShownSomewhere, ShownSomewhereThen
<1>13. SessionsAreHeld'
  BY <1>0, <1>1, <1>12 DEF SessionsAreHeld, Undelivered
<1> QED
  BY <1>7, <1>8, <1>9, <1>10, <1>11, <1>13 DEF SessionInv

------------------------------------------------------------------------------
LEMMA InitWorkspace == WorkspaceInit => WorkspaceIInv
<1> SUFFICES ASSUME WorkspaceInit
             PROVE  WorkspaceIInv
  OBVIOUS
<1>1. tabs = <<>> /\ Tabs = {} /\ attempts = <<>> /\ open = {} /\ closing = {}
  BY DEF WorkspaceInit, Tabs, Range
<1>2. BarTypes
  BY WorkspaceAssumption DEF WorkspaceInit, BarTypes, IsInjective
<1>3. KeysInOrder
  <2>1. 0 \in 0 .. MaxTabs /\ \A k \in Keys : ~(k <= 0) /\ host[k] = None
    BY WorkspaceAssumption DEF WorkspaceInit, Keys
  <2> QED
    BY <2>1, <1>1 DEF KeysInOrder
<1>4. ActiveIsOpen
  BY DEF WorkspaceInit, ActiveIsOpen
<1>5. \A k \in Keys, p \in Parts : pane[k][p] = NoPane
  BY DEF WorkspaceInit
<1>6. NoPane \in Panes /\ NoPane.state = "None" /\ NoPane.attempt = None /\ NoPane.session = None
  BY DEF NoPane, Panes, None
<1>7. SessionTypes
  <2>1. pane \in [Keys -> [Parts -> Panes]]
    BY <1>6 DEF WorkspaceInit
  <2> QED
    BY <2>1, <1>1, WorkspaceAssumption DEF SessionTypes
<1>8. PanesAreMade /\ SessionsAreAnswers /\ SpinnersWait /\ WaitsForTheLast
  BY <1>1, <1>5, <1>6 DEF PanesAreMade, SessionsAreAnswers, SpinnersWait, WaitsForTheLast
<1>9. SessionsAreHeld
  BY <1>1 DEF SessionsAreHeld, Shown, Sessions, Tabs
<1> QED
  BY <1>2, <1>3, <1>4, <1>7, <1>8, <1>9 DEF WorkspaceIInv, BarInv, SessionInv

(* A step that touches neither panes nor attempts nor sessions.             *)
LEMMA SameSessions ==
  ASSUME SessionInv, Tabs' = Tabs, UNCHANGED <<pane, attempts, open, closing>>
  PROVE  SessionInv'
<1>1. Shown' = Shown /\ Undelivered' = Undelivered
  BY DEF Shown, Sessions, Tabs, Undelivered
<1> QED
  BY <1>1
     DEF SessionInv, SessionTypes, PanesAreMade, SessionsAreAnswers, SpinnersWait,
         WaitsForTheLast, SessionsAreHeld

(* Closing tabs, by hand or by quitting.                                    *)
LEMMA ClosingKeepsInv ==
  ASSUME WorkspaceIInv, NEW closed \in SUBSET Tabs, NEW preferred,
         CloseTabs(closed, preferred),
         running' \in {"yes", "quit", "windowless", "exited"}
  PROVE  WorkspaceIInv'
<1> DEFINE gone == [k \in Keys |-> IF k \in closed THEN Parts ELSE {}]
<1>0. BarInv /\ SessionInv
  BY DEF WorkspaceIInv
<1>1. BarInv' /\ Tabs' = Tabs \ closed
  BY <1>0, ClosingKeepsBar
<1>2. /\ attempts' = attempts /\ open' = open
      /\ pane' = [k \in Keys |-> IF k \in closed THEN [p \in Parts |-> NoPane] ELSE pane[k]]
      /\ closing' = closing \cup Sessions(closed)
  BY DEF CloseTabs
<1>3. gone \in [Keys -> SUBSET Parts] /\ Tabs \subseteq Keys
  BY <1>0 DEF BarInv, BarTypes, Tabs, Range
<1>4. NoPane \in Panes
  BY DEF NoPane, Panes, None
<1>5. pane' \in [Keys -> [Parts -> Panes]]
  BY <1>0, <1>2, <1>4 DEF SessionInv, SessionTypes
<1>6. \A k \in Keys, p \in Parts :
         /\ pane'[k][p] = IF p \in gone[k] THEN NoPane ELSE pane[k][p]
         /\ p \in gone[k] <=> k \in closed
  BY <1>2
<1>7. \A s : s \in closing' <=>
         \/ s \in closing
         \/ s # None /\ \E k \in Keys, p \in Parts :
               p \in gone[k] /\ pane[k][p].session = s
  BY <1>2, <1>3, <1>6 DEF Sessions
<1> HIDE DEF gone
<1>8. \A k \in Tabs \ Tabs', p \in Parts : p \in gone[k]
  BY <1>1, <1>3, <1>6
<1>9. Tabs' \subseteq Tabs
  BY <1>1
<1>10. SessionInv'
  BY <1>0, <1>1, <1>2, <1>3, <1>5, <1>6, <1>7, <1>8, <1>9, PartsAreEmptied
<1> QED
  BY <1>1, <1>10 DEF WorkspaceIInv

(* A part of an open tab is emptied.                                        *)
LEMMA CloseSplitKeepsInv ==
  ASSUME WorkspaceIInv, NEW k \in Keys, CloseSplit(k)
  PROVE  WorkspaceIInv'
<1> DEFINE gone == [j \in Keys |-> IF j = k THEN {"split"} ELSE {}]
<1>0. BarInv /\ SessionInv /\ SessionTypes
  BY DEF WorkspaceIInv, SessionInv
<1>1. /\ UNCHANGED <<tabs, host, active, attempts, saving, open, running>>
      /\ pane' = [pane EXCEPT ![k]["split"] = NoPane]
      /\ closing' = closing \cup ({pane[k]["split"].session} \ {None})
  BY DEF CloseSplit
<1>2. BarInv' /\ Tabs' = Tabs
  <2>1. saving' \subseteq Keys /\ running' \in {"yes", "quit", "windowless", "exited"}
    BY <1>0, <1>1 DEF BarInv, BarTypes
  <2> QED
    BY <2>1, <1>0, <1>1, FocusKeepsBar DEF Tabs
<1>3. "split" \in Parts /\ NoPane \in Panes
  BY DEF NoPane, Panes, Parts, None
<1>4. gone \in [Keys -> SUBSET Parts]
  BY <1>3
<1>5. /\ pane' \in [Keys -> [Parts -> Panes]]
      /\ \A j \in Keys, q \in Parts :
            pane'[j][q] = IF j = k /\ q = "split" THEN NoPane ELSE pane[j][q]
  BY <1>0, <1>1, <1>3, OnePart
<1>6. \A j \in Keys, q \in Parts : q \in gone[j] <=> j = k /\ q = "split"
  OBVIOUS
<1> HIDE DEF gone
<1>7. \A s : s \in closing' <=>
         \/ s \in closing
         \/ s # None /\ \E j \in Keys, q \in Parts :
               q \in gone[j] /\ pane[j][q].session = s
  BY <1>1, <1>3, <1>6
<1>8. \A j \in Keys, q \in Parts :
         pane'[j][q] = IF q \in gone[j] THEN NoPane ELSE pane[j][q]
  BY <1>5, <1>6
<1>9. SessionInv'
  BY <1>0, <1>1, <1>2, <1>4, <1>5, <1>7, <1>8, PartsAreEmptied
<1> QED
  BY <1>2, <1>9 DEF WorkspaceIInv

(* A tab connects again.                                                    *)
LEMMA ReconnectKeepsInv ==
  ASSUME WorkspaceIInv, NEW k \in Tabs, StartConnect(k),
         UNCHANGED <<tabs, host, open, running>>, saving' \subseteq saving
  PROVE  WorkspaceIInv'
<1>0. BarInv /\ SessionInv /\ k \in Keys
  BY DEF WorkspaceIInv, BarInv, BarTypes, Tabs, Range
<1>1. /\ BeginAttempt(k, "main") /\ active' = k
      /\ pane' = [pane EXCEPT ![k]["main"] = Waiting(NextAttempt)]
      /\ closing' = closing \cup ({pane[k]["main"].session} \ {None})
  BY DEF StartConnect
<1>2. /\ saving' \subseteq Keys /\ running' \in {"yes", "quit", "windowless", "exited"}
      /\ Tabs' = Tabs
  BY <1>0 DEF BarInv, BarTypes, Tabs
<1>3. BarInv'
  BY <1>0, <1>1, <1>2, FocusKeepsBar
<1>4. Tabs' = Tabs \cup {k} /\ "main" \in Parts
  BY <1>2 DEF Parts
<1>5. SessionInv'
  BY <1>0, <1>1, <1>3, <1>4, WaitingBegins
<1> QED
  BY <1>3, <1>5 DEF WorkspaceIInv

(* A new tab begins its connection.                                         *)
LEMMA PushKeepsInv ==
  ASSUME WorkspaceIInv, NEW h \in Hosts \cup {Local}, PushTab(h)
  PROVE  WorkspaceIInv'
<1> DEFINE k == Opened + 1
<1>0. BarInv /\ SessionInv
  BY DEF WorkspaceIInv
<1>1. BarInv' /\ Tabs' = Tabs \cup {k}
  BY <1>0, NewTab
<1>2. k \in Keys
  BY <1>0, NextKey DEF PushTab
<1>3. /\ BeginAttempt(k, "main") /\ open' = open
      /\ pane' = [pane EXCEPT ![k]["main"] = Waiting(NextAttempt)]
      /\ closing' = closing \cup ({pane[k]["main"].session} \ {None})
  BY DEF PushTab, StartConnect
<1> HIDE DEF k
<1>4. "main" \in Parts
  BY DEF Parts
<1>5. SessionInv'
  BY <1>0, <1>1, <1>2, <1>3, <1>4, WaitingBegins
<1> QED
  BY <1>1, <1>5 DEF WorkspaceIInv

(* Every step of the view, of the background and of the process.            *)
LEMMA StepKeepsInv == WorkspaceIInv /\ [WorkspaceNext]_vars => WorkspaceIInv'
<1> SUFFICES ASSUME WorkspaceIInv, [WorkspaceNext]_vars
             PROVE  WorkspaceIInv'
  OBVIOUS
<1>0. BarInv /\ SessionInv
  BY DEF WorkspaceIInv
<1>1. /\ saving \subseteq Keys /\ Tabs \subseteq Keys
      /\ running \in {"yes", "quit", "windowless", "exited"}
  BY <1>0 DEF BarInv, BarTypes, Tabs, Range
<1>2. \A k : IsOpen(k) <=> k \in Tabs
  BY DEF IsOpen, Tabs
<1>3. ASSUME tabs' = tabs, host' = host, active' = active \/ active' \in Tabs,
             saving' \subseteq Keys, running' \in {"yes", "quit", "windowless", "exited"}
      PROVE  BarInv' /\ Tabs' = Tabs
  BY <1>0, <1>3, FocusKeepsBar DEF Tabs
<1>4. ASSUME tabs' = tabs, host' = host, active' = active \/ active' \in Tabs,
             saving' \subseteq Keys, running' \in {"yes", "quit", "windowless", "exited"},
             UNCHANGED <<pane, attempts, open, closing>>
      PROVE  WorkspaceIInv'
  BY <1>0, <1>3, <1>4, SameSessions DEF WorkspaceIInv
<1>5. CASE OpenAny
  <2>1. CASE OpenLocal
    BY <2>1, PushKeepsInv DEF OpenLocal
  <2>2. ASSUME NEW h \in Hosts, OpenHost(h)
        PROVE  WorkspaceIInv'
    BY <2>2, PushKeepsInv DEF OpenHost
  <2>3. ASSUME NEW h \in Hosts, FocusHost(h)
        PROVE  WorkspaceIInv'
    <3>1. active' \in Tabs
      BY <2>3 DEF FocusHost, Alive, Tabs, Range
    <3> QED
      BY <3>1, <2>3, <1>1, <1>4 DEF FocusHost
  <2> QED
    BY <2>1, <2>2, <2>3, <1>5 DEF OpenAny
<1>6. ASSUME NEW k \in Keys, OnTab(k)
      PROVE  WorkspaceIInv'
  <2>1. CASE SetActive(k)
    BY <2>1, <1>1, <1>2, <1>4 DEF SetActive
  <2>2. CASE Retry(k)
    BY <2>2, <1>2, ReconnectKeepsInv DEF Retry
  <2>3. CASE SaveAuth(k)
    BY <2>3, <1>1, <1>4 DEF SaveAuth
  <2>4. CASE OpenSplit(k)
    <3>1. /\ BarInv' /\ Tabs' = Tabs /\ k \in Tabs
      BY <2>4, <1>1, <1>2, <1>3 DEF OpenSplit
    <3>2. /\ BeginAttempt(k, "split") /\ open' = open /\ closing' = closing
          /\ pane' = [pane EXCEPT ![k]["split"] = Waiting(NextAttempt)]
          /\ pane[k]["split"].state = "None"
      BY <2>4 DEF OpenSplit
    <3>3. pane[k]["split"].session = None
      <4>1. /\ NoPane.session = None
            /\ \A s : /\ Waiting(s).state = "Connecting" /\ Showing(s).state = "Connected"
                     /\ Failed(s).state = "Error"
        BY DEF NoPane, Waiting, Showing, Failed
      <4>2. pane[k]["split"] = NoPane
        BY <3>2, <4>1, <1>0 DEF SessionInv, PanesAreMade, Parts
      <4> QED
        BY <4>1, <4>2
    <3>4. /\ Tabs' = Tabs \cup {k} /\ "split" \in Parts
          /\ closing' = closing \cup ({pane[k]["split"].session} \ {None})
      BY <3>1, <3>2, <3>3 DEF Parts
    <3>5. SessionInv'
      BY <1>0, <3>1, <3>2, <3>4, WaitingBegins
    <3> QED
      BY <3>1, <3>5 DEF WorkspaceIInv
  <2>5. CASE CloseSplit(k)
    BY <2>5, CloseSplitKeepsInv
  <2> QED
    BY <2>1, <2>2, <2>3, <2>4, <2>5, <1>6 DEF OnTab
<1>7. ASSUME NEW k \in Keys, AuthSaved(k)
      PROVE  WorkspaceIInv'
  <2>1. CASE IsOpen(k)
    <3>1. /\ StartConnect(k) /\ UNCHANGED <<tabs, host, open, running>>
          /\ saving' \subseteq saving /\ k \in Tabs
      BY <2>1, <1>2, <1>7 DEF AuthSaved
    <3> QED
      BY <3>1, ReconnectKeepsInv
  <2>2. CASE ~IsOpen(k)
    BY <2>2, <1>1, <1>4, <1>7 DEF AuthSaved
  <2> QED
    BY <2>1, <2>2
<1>8. ASSUME NEW k \in Keys, AuthNotSaved(k)
      PROVE  WorkspaceIInv'
  BY <1>1, <1>4, <1>8 DEF AuthNotSaved
<1>9. ASSUME NEW k \in Keys, NEW mode \in Modes, Close(k, mode)
      PROVE  WorkspaceIInv'
  <2>1. /\ k \in Tabs /\ running' = running
        /\ CloseTabs(Targets(k, mode), IF mode \in {"all", "tab"} THEN None ELSE k)
    BY <1>2, <1>9 DEF Close
  <2>2. Targets(k, mode) \in SUBSET Tabs
    BY <2>1, <1>0, TargetsAreTabs
  <2> QED
    BY <2>1, <2>2, <1>1, ClosingKeepsInv
<1>10. ASSUME NEW a \in DOMAIN attempts, Background(a)
       PROVE  WorkspaceIInv'
  <2>1. CASE ConnectionComesUp(a) \/ ConnectionFails(a)
    <3>1. BarInv' /\ Tabs' = Tabs
      BY <2>1, <1>1, <1>3 DEF ConnectionComesUp, ConnectionFails
    <3> QED
      BY <2>1, <3>1, <1>0, AnswersKeepSessions DEF WorkspaceIInv
  <2>2. CASE FinishAttempt(a)
    <3>1. active' = active \/ active' \in Tabs
      BY <2>2, <1>2 DEF FinishAttempt, Current
    <3>2. BarInv' /\ Tabs' = Tabs
      BY <2>2, <3>1, <1>1, <1>3 DEF FinishAttempt
    <3> QED
      BY <2>2, <3>2, <1>0, FinishKeepsSessions DEF WorkspaceIInv
  <2> QED
    BY <2>1, <2>2, <1>10 DEF Background
<1>11. ASSUME NEW s \in Attempts, Disconnect(s) \/ WriteFindsItClosed(s)
       PROVE  WorkspaceIInv'
  <2>1. BarInv' /\ Tabs' = Tabs
    BY <1>1, <1>3, <1>11 DEF Disconnect, WriteFindsItClosed
  <2> QED
    BY <2>1, <1>0, <1>11, GoneKeepsSessions DEF WorkspaceIInv
<1>12. ASSUME NEW h \in Hosts, OnConnectionStatus(h)
       PROVE  WorkspaceIInv'
  <2>1. BarInv' /\ Tabs' = Tabs
    BY <1>1, <1>3, <1>12 DEF OnConnectionStatus
  <2> QED
    BY <2>1, <1>0, <1>12, ReportKeepsSessions DEF WorkspaceIInv
<1>13. CASE Quit
  <2>1. CASE tabs = <<>>
    BY <2>1, <1>1, <1>4, <1>13 DEF Quit
  <2>2. CASE tabs # <<>>
    <3>1. CloseTabs(Tabs, None) /\ running' = "quit"
      BY <2>2, <1>13 DEF Quit, Tabs
    <3> QED
      BY <3>1, ClosingKeepsInv
  <2> QED
    BY <2>1, <2>2
<1>14. CASE LastWindowClosed \/ Exit \/ Exited \/ UNCHANGED vars
  BY <1>1, <1>4, <1>14 DEF LastWindowClosed, Exit, Exited, vars
<1> QED
  BY <1>5, <1>6, <1>7, <1>8, <1>9, <1>10, <1>11, <1>12, <1>13, <1>14 DEF WorkspaceNext
------------------------------------------------------------------------------
LEMMA WorkspaceIInvHolds == WorkspaceSpec => []WorkspaceIInv
<1>1. WorkspaceInit => WorkspaceIInv
  BY InitWorkspace
<1>2. WorkspaceIInv /\ [WorkspaceNext]_vars => WorkspaceIInv'
  BY StepKeepsInv
<1> QED
  BY <1>1, <1>2, PTL DEF WorkspaceSpec

(* The view is consistent: a spinner waits for an attempt that will answer  *)
(* it, and the active tab is an open one whichever tabs were closed         *)
(* (active_key_after_close, finish_connect, finish_split).                  *)
THEOREM WorkspaceIsConsistent == WorkspaceSpec => []WorkspaceInv
<1>1. WorkspaceIInv => WorkspaceInv
  BY DEF WorkspaceIInv, WorkspaceInv, WorkspaceTypeOK, BarInv, BarTypes,
         SessionInv, SessionTypes
<1> QED
  BY <1>1, WorkspaceIInvHolds, PTL

(* No session leaks, and none that a pane shows is hung up: whatever is     *)
(* retried, split or closed while connections are on their way              *)
(* (start_connect, finish_connect, finish_split, close_split, close_tabs).  *)
THEOREM SessionsDoNotLeak == WorkspaceSpec => []NoSessionLeaks
<1>1. WorkspaceIInv => NoSessionLeaks
  <2> SUFFICES ASSUME WorkspaceIInv
               PROVE  NoSessionLeaks
    OBVIOUS
  <2>1. BarInv /\ PanesAreMade /\ SessionsAreAnswers /\ SessionsAreHeld
    BY DEF WorkspaceIInv, SessionInv
  <2>2. \A s \in Shown \cup closing : attempts[s].phase = "settled"
    BY <2>1, ShownSomewhere DEF SessionsAreAnswers
  <2>3. Shown \cap Undelivered = {} /\ closing \cap Undelivered = {}
    BY <2>2 DEF Undelivered
  <2>4. \A k1, k2 \in Keys, p1, p2 \in Parts :
          /\ pane[k1][p1].session # None
          /\ pane[k1][p1].session = pane[k2][p2].session
          => k1 = k2 /\ p1 = p2
    BY <2>1, OnePlace
  <2> QED
    BY <2>1, <2>3, <2>4 DEF NoSessionLeaks, SessionsAreHeld
<1> QED
  BY <1>1, WorkspaceIInvHolds, PTL

(* Only an answer puts a new session into a part, and only the answer that  *)
(* the part waits for.                                                      *)
LEMMA OnlyAnswersAreShown ==
  ASSUME WorkspaceIInv, [WorkspaceNext]_vars, NEW k \in Keys, NEW p \in Parts,
         pane'[k][p].session \notin {None, pane[k][p].session}
  PROVE  pane'[k][p].session = pane[k][p].attempt
<1>0. SessionTypes /\ SessionInv /\ DOMAIN attempts \subseteq Attempts
  BY WorkspaceAssumption DEF WorkspaceIInv, SessionInv, SessionTypes, Attempts
<1>1. /\ NoPane.session = None
      /\ \A a : Waiting(a).session = None /\ Showing(a).session = a /\ Failed(a).session = a
  BY DEF NoPane, Waiting, Showing, Failed
<1>2. ASSUME NEW j \in Keys, NEW q \in Parts, NEW v, v.session = None,
             pane' = [pane EXCEPT ![j][q] = v]
      PROVE  FALSE
  BY <1>0, <1>2 DEF SessionTypes
<1>3. ASSUME NEW j \in Keys, StartConnect(j)
      PROVE  FALSE
  <2>1. "main" \in Parts /\ Waiting(NextAttempt).session = None
    BY <1>1 DEF Parts
  <2> QED
    BY <2>1, <1>2, <1>3 DEF StartConnect
<1>4. ASSUME NEW closed, NEW preferred, CloseTabs(closed, preferred)
      PROVE  FALSE
  BY <1>0, <1>1, <1>4 DEF CloseTabs, SessionTypes
<1>5. pane' # pane
  OBVIOUS
<1>6. CASE OpenAny
  <2>1. ASSUME NEW h \in Hosts \cup {Local}, PushTab(h)
        PROVE  FALSE
    <3>1. Opened + 1 \in Keys
      BY <2>1, NextKey DEF WorkspaceIInv, PushTab
    <3> QED
      BY <2>1, <3>1, <1>3 DEF PushTab
  <2> QED
    BY <2>1, <1>5, <1>6 DEF OpenAny, OpenLocal, OpenHost, FocusHost
<1>7. ASSUME NEW j \in Keys, OnTab(j) \/ AuthSaved(j) \/ AuthNotSaved(j)
      PROVE  FALSE
  <2>1. CASE OpenSplit(j)
    <3>1. "split" \in Parts /\ Waiting(NextAttempt).session = None
      BY <1>1 DEF Parts
    <3> QED
      BY <2>1, <3>1, <1>2 DEF OpenSplit
  <2>2. CASE CloseSplit(j)
    <3>1. "split" \in Parts
      BY DEF Parts
    <3> QED
      BY <2>2, <3>1, <1>1, <1>2 DEF CloseSplit
  <2> QED
    BY <2>1, <2>2, <1>3, <1>5, <1>7
       DEF OnTab, SetActive, Retry, SaveAuth, AuthSaved, AuthNotSaved
<1>8. ASSUME NEW j \in Keys, NEW mode \in Modes, Close(j, mode)
      PROVE  FALSE
  BY <1>4, <1>8 DEF Close
<1>9. ASSUME NEW a \in DOMAIN attempts, Background(a)
      PROVE  pane'[k][p].session = pane[k][p].attempt
  <2>1. FinishAttempt(a) /\ Current(a)
    BY <1>5, <1>9 DEF Background, ConnectionComesUp, ConnectionFails, FinishAttempt
  <2> DEFINE j == attempts[a].key
             q == attempts[a].part
             v == IF attempts[a].phase = "up" THEN Showing(a) ELSE Failed(None)
  <2>2. pane' = [pane EXCEPT ![j][q] = v] /\ pane[j][q].attempt = a
    BY <2>1 DEF FinishAttempt, Current
  <2>3. v.session \in {None, a}
    BY <1>1
  <2> HIDE DEF j, q, v
  <2>4. pane'[k][p] = IF k = j /\ p = q THEN v ELSE pane[k][p]
    BY <2>2, <1>0 DEF SessionTypes
  <2> QED
    BY <2>2, <2>3, <2>4
<1>10. ASSUME NEW h \in Hosts, OnConnectionStatus(h)
       PROVE  FALSE
  <2>1. pane' = [i \in Keys |->
          IF i \in {j \in Range(tabs) : host[j] = h /\ pane[j]["main"].state = "Connected"}
          THEN [pane[i] EXCEPT !["main"] = Failed(pane[i]["main"].session)]
          ELSE pane[i]]
    BY <1>10 DEF OnConnectionStatus
  <2>2. pane'[k] = pane[k] \/ pane'[k] = [pane[k] EXCEPT !["main"] = Failed(pane[k]["main"].session)]
    BY <2>1
  <2>3. pane[k] \in [Parts -> Panes]
    BY <1>0 DEF SessionTypes
  <2> QED
    BY <2>2, <2>3, <1>1
<1> QED
  BY <1>4, <1>5, <1>6, <1>7, <1>8, <1>9, <1>10
     DEF WorkspaceNext, Disconnect, WriteFindsItClosed, Quit, LastWindowClosed, Exit,
         Exited, vars

(* The last attempt wins: a session that appears in a part of a tab is that *)
(* of the last attempt made for the part, in whatever order attempts are    *)
(* answered (the attempt check of finish_connect and finish_split).         *)
THEOREM LastAttemptWinsHolds == WorkspaceSpec => LastAttemptWins
<1> DEFINE LastIsShown ==
        \A k \in Keys, p \in Parts :
            LET s == pane'[k][p].session
            IN  s \notin {None, pane[k][p].session} =>
                    \A a \in DOMAIN attempts :
                        attempts[a].key = k /\ attempts[a].part = p => a <= s
<1>1. WorkspaceIInv /\ [WorkspaceNext]_vars => [LastIsShown]_vars
  <2> SUFFICES ASSUME WorkspaceIInv, [WorkspaceNext]_vars
               PROVE  LastIsShown
    OBVIOUS
  <2> QED
    BY OnlyAnswersAreShown DEF WorkspaceIInv, SessionInv, WaitsForTheLast
<1>2. WorkspaceSpec => [][LastIsShown]_vars
  BY <1>1, WorkspaceIInvHolds, PTL DEF WorkspaceSpec
<1> QED
  BY <1>2 DEF LastAttemptWins

==============================================================================
