------------------------- MODULE RemoteFiles_proofs -------------------------
(***************************************************************************)
(* Proofs about the file panel, the sessions behind it and the editor over *)
(* them.  Each has an inductive invariant of its own; a step of the whole  *)
(* is a step of the panel or leaves it alone, and the sessions need of the *)
(* panel only that it forgets neither its host nor that of a transfer.     *)
(***************************************************************************)
EXTENDS RemoteEditor, FiniteSetTheorems, SequenceTheorems, TLAPS

(* A set that stands for something or for nothing.                          *)
AtMostOne(S, T) == S = {} \/ \E x \in T : S = {x}

Request == [host: Hosts, path: Paths, phase: {"asked", "ok", "failed"}]
Open == [host: Hosts, phase: {"asked", "ok", "failed"}]
TransferRow ==
  [host: SUBSET Hosts, row: Row, thread: Outcomes, event: BOOLEAN, answer: BOOLEAN]

(* The types of the panel.                                                  *)
PanelTypes ==
  /\ AtMostOne(host, Hosts)
  /\ session \in {"Idle", "Connecting", "Ready", "Failed"}
  /\ opens \in Seq(Open)
  /\ requests \in Seq(Request)
  /\ path \in Paths
  /\ AtMostOne(listing, Hosts \X Paths)
  /\ loading \in BOOLEAN
  /\ transfer \in [Transfers -> TransferRow]
  /\ told \in [Transfers -> 0 .. 2]

(* A transfer that was started has a host, the panel has one from then on,   *)
(* and the event of a transfer comes after its thread's end.                *)
TransferRule ==
  \A t \in Transfers :
    /\ transfer[t].row = "none" => transfer[t] = NotStarted
    /\ transfer[t].row # "none" => host # {} /\ \E h \in Hosts : transfer[t].host = {h}
    /\ transfer[t].event => transfer[t].thread # "running"

(* The inductive invariant of the panel.                                    *)
PanelIInv ==
  /\ PanelTypes
  /\ SessionIsOfHost /\ SpinnerTellsTruth /\ ShowsLastAsked /\ TransferTruth
  /\ TransferRule

OpenerRow == [step: OpenPlace, host: SUBSET Hosts, session: Session]
CallRow ==
  [step: CallPlace, host: SUBSET Hosts, session: Session, again: BOOLEAN, failed: Session]

(* The types of the sessions.                                               *)
SessionsTypes ==
  /\ cast \in Casts
  /\ table \in [Hosts -> Session]
  /\ made \in Session
  /\ broken \subseteq 1 .. made
  /\ opener \in [Openers -> OpenerRow]
  /\ call \in [Calls -> CallRow]
  /\ lent \in [Transfers -> Session]

(* A session that was opened, that nobody finds in the table and that no    *)
(* call has failed on.                                                      *)
Clean(s) ==
  /\ s \in 1 .. made
  /\ \A h \in Hosts : table[h] # s
  /\ \A c \in Calls : call[c].failed # s

(* Who is about to put a session into the table.                            *)
OpenerHas(o) == opener[o].step = "insert"
CallHas(c) == call[c].step = "insert"

(* What is known anywhere was opened, hence a session that is opened now is  *)
(* known nowhere ...                                                        *)
KnownAreMade ==
  /\ \A h \in Hosts : table[h] <= made
  /\ \A c \in Calls : call[c].failed <= made

(* ... and neither found nor failed on before it is put into the table, by   *)
(* the one thread that has it.                                              *)
HandsAreClean ==
  /\ \A o \in Openers : OpenerHas(o) => Clean(opener[o].session)
  /\ \A c \in Calls : CallHas(c) => Clean(call[c].session)

HandsDiffer ==
  /\ \A o, p \in Openers :
       OpenerHas(o) /\ OpenerHas(p) /\ opener[o].session = opener[p].session => o = p
  /\ \A c, d \in Calls :
       CallHas(c) /\ CallHas(d) /\ call[c].session = call[d].session => c = d
  /\ \A o \in Openers, c \in Calls :
       OpenerHas(o) /\ CallHas(c) => opener[o].session # call[c].session

(* Whoever is under way has a host, and a call that has not begun has not    *)
(* failed.                                                                  *)
PlaceRule ==
  /\ \A o \in Openers : opener[o].step # "none" => \E h \in Hosts : opener[o].host = {h}
  /\ \A c \in Calls : call[c].step # "none" => \E h \in Hosts : call[c].host = {h}
  /\ \A c \in Calls : call[c].step = "none" => ~call[c].again /\ call[c].failed = 0
  /\ \A c \in PanelCalls : call[c].step # "none" => host # {}
  /\ \A t \in Transfers : lent[t] # 0 => transfer[t].row # "none"

(* The inductive invariant of the sessions.                                 *)
SessionsIInv ==
  /\ SessionsTypes /\ KnownAreMade /\ HandsAreClean /\ HandsDiffer
  /\ PlaceRule /\ LentStays /\ RetryIsFresh

(* The types of the editor.                                                 *)
LoadRow == [call: Loads, file: Files, text: AnyText]
EditorTypes ==
  /\ window \in {"open", "asking", "closing", "closed"}
  /\ AtMostOne(current, Files)
  /\ text \in AnyText /\ original \in AnyText
  /\ dirty \in BOOLEAN /\ saving \in BOOLEAN /\ mixed \in BOOLEAN
  /\ saved \in {<<>>} \cup (Files \X AnyText)
  /\ saves \in 0 .. MaxSaves
  /\ loads \in Seq(LoadRow)
  /\ left \in {"not", "clean", "saved", "failed", "unfinished", "discarded"}
  /\ remote \in [Files -> AnyText]

(* A save is on its way while its call is, what it wrote stays in the file   *)
(* until it ends, and no load is on its way with it unless mixed says so.   *)
SaveRule ==
  /\ saving <=> call[Save].step \notin {"none", "over"}
  /\ saving => saved \in Files \X AnyText
  /\ At(Save, "ok") => remote[saved[1]] = saved[2]
  /\ saving /\ ~mixed => Loading = {}
  /\ saving /\ ~mixed /\ window # "closed" => current = {saved[1]}
  /\ left = "saved" => window = "closed" /\ ~saving

(* A load that has read its file carries what is in it.                     *)
LoadRule ==
  \A i \in Loading : At(loads[i].call, "ok") /\ ~mixed => remote[loads[i].file] = loads[i].text

(* What the editor compares with is in the file.                            *)
OriginalIsStored ==
  window # "closed" /\ current # {} /\ ~saving /\ ~mixed => remote[The(current)] = original

(* The inductive invariant of the editor.                                   *)
EditorIInv ==
  /\ EditorTypes /\ DirtyIsExact /\ SavedIsStored
  /\ SaveRule /\ LoadRule /\ OriginalIsStored
------------------------------------------------------------------------------
(* An answer to an entry of a queue changes its phase and nothing else.     *)
LEMMA AnsweredQueue ==
  ASSUME NEW R, NEW q \in Seq(R), NEW i \in DOMAIN q, NEW phase,
         [q[i] EXCEPT !.phase = phase] \in R
  PROVE  LET q2 == Answered(q, i, phase)
         IN  /\ q2 \in Seq(R) /\ Len(q2) = Len(q)
             /\ q2[i] = [q[i] EXCEPT !.phase = phase]
             /\ \A j \in 1 .. Len(q) : j # i => q2[j] = q[j]
<1>1. i \in 1 .. Len(q)
  BY LenProperties
<1>2. Answered(q, i, phase) = [q EXCEPT ![i] = [q[i] EXCEPT !.phase = phase]]
  BY DEF Answered
<1> QED
  BY <1>1, <1>2, ExceptSeq

(* What is appended is last.                                                *)
LEMMA AppendedQueue ==
  ASSUME NEW R, NEW q \in Seq(R), NEW e \in R
  PROVE  LET q2 == Append(q, e)
         IN  /\ q2 \in Seq(R) /\ Len(q2) = Len(q) + 1 /\ Len(q2) \in Nat /\ q2 # <<>>
             /\ q2[Len(q2)] = e
             /\ \A j \in 1 .. Len(q) : q2[j] = q[j]
  OBVIOUS

LEMMA TheOne == \A x : The({x}) = x
  BY DEF The

LEMMA AtMostOneIsSmall ==
  ASSUME NEW S, NEW T, AtMostOne(S, T) PROVE S \subseteq T /\ Cardinality(S) <= 1
<1>1. CASE S = {}
  BY <1>1, FS_EmptySet
<1>2. CASE S # {}
  <2>1. PICK x \in T : S = {x}
    BY <1>2 DEF AtMostOne
  <2>2. Cardinality({x}) = 1
    BY FS_Singleton
  <2> QED
    BY <2>1, <2>2
<1> QED
  BY <1>1, <1>2
------------------------------------------------------------------------------
(* The panel.  A listing that is asked for is the last one.                 *)
LEMMA Navigated ==
  ASSUME PanelIInv, host # {}, NEW p \in Paths, Navigate(p)
  PROVE  /\ requests' \in Seq(Request) /\ loading' \in BOOLEAN
         /\ path' = path /\ listing' = listing
         /\ SpinnerTellsTruth' /\ ShowsLastAsked'
<1> DEFINE r == [host |-> CHOOSE h \in host : TRUE, path |-> p, phase |-> "asked"]
<1>1. r \in Request
  BY DEF PanelIInv, PanelTypes, AtMostOne, Request
<1>2. requests \in Seq(Request) /\ requests' = Append(requests, r)
  BY DEF PanelIInv, PanelTypes, Navigate
<1>3. /\ requests' \in Seq(Request) /\ Len(requests') \in Nat \ {0}
      /\ requests'[Len(requests')] = r
  <2> HIDE DEF r
  <2> QED
    BY <1>1, <1>2, AppendedQueue
<1>4. loading' = TRUE /\ path' = path /\ listing' = listing
  BY DEF Navigate
<1>5. DOMAIN requests' = 1 .. Len(requests') /\ Len(requests') \in DOMAIN requests'
  BY <1>3, LenProperties
<1>6. SpinnerTellsTruth'
  BY <1>3, <1>4, <1>5 DEF SpinnerTellsTruth, Asked
<1>7. ShowsLastAsked'
  BY <1>3, <1>4 DEF PanelIInv, ShowsLastAsked
<1> QED
  BY <1>3, <1>4, <1>6, <1>7

(* The parts of the invariant that speak of the same variables.             *)
PanelHead == AtMostOne(host, Hosts) /\ session \in {"Idle", "Connecting", "Ready", "Failed"}
               /\ opens \in Seq(Open) /\ SessionIsOfHost
PanelList == /\ requests \in Seq(Request) /\ path \in Paths
             /\ AtMostOne(listing, Hosts \X Paths) /\ loading \in BOOLEAN
             /\ SpinnerTellsTruth /\ ShowsLastAsked
PanelRows == /\ transfer \in [Transfers -> TransferRow] /\ told \in [Transfers -> 0 .. 2]
             /\ TransferTruth /\ TransferRule

LEMMA PanelParts == PanelIInv <=> PanelHead /\ PanelList /\ PanelRows
  BY DEF PanelIInv, PanelTypes, PanelHead, PanelList, PanelRows

LEMMA PanelParts1 == PanelIInv' <=> PanelHead' /\ PanelList' /\ PanelRows'
  BY DEF PanelIInv, PanelTypes, PanelHead, PanelList, PanelRows

LEMMA HeadSame ==
  ASSUME PanelHead, UNCHANGED <<host, session, opens>> PROVE PanelHead'
  BY DEF PanelHead, SessionIsOfHost

LEMMA ListSame ==
  ASSUME PanelList, UNCHANGED listVars PROVE PanelList'
  BY DEF PanelList, listVars, SpinnerTellsTruth, Asked, ShowsLastAsked

LEMMA ListNavigated ==
  ASSUME PanelIInv, host # {}, NEW p \in Paths, Navigate(p) PROVE PanelList'
  BY Navigated, PanelParts DEF PanelList

LEMMA RowsSame ==
  ASSUME PanelRows, UNCHANGED transferVars, host = {} \/ host' # {} PROVE PanelRows'
  BY DEF PanelRows, transferVars, TransferTruth, TransferRule

LEMMA OpenSessionKeeps ==
  ASSUME PanelIInv, NEW h \in Hosts, OpenSession(h) PROVE PanelIInv'
<1> DEFINE o == [host |-> h, phase |-> "asked"]
<1>1. o \in Open
  BY DEF Open
<1>2. opens \in Seq(Open) /\ opens' = Append(opens, o)
  BY DEF PanelIInv, PanelTypes, OpenSession
<1>3. opens' \in Seq(Open) /\ opens' # <<>> /\ opens'[Len(opens')] = o
  <2> HIDE DEF o
  <2> QED
    BY <1>1, <1>2, AppendedQueue
<1>4. host' = {h} /\ session' = "Connecting"
  BY DEF OpenSession
<1>5. PanelHead'
  BY <1>3, <1>4 DEF PanelHead, SessionIsOfHost, AtMostOne
<1>6. PanelList'
  <2>1. UNCHANGED <<requests, loading>>
    BY DEF OpenSession
  <2>2. SpinnerTellsTruth'
    BY <2>1 DEF PanelIInv, SpinnerTellsTruth, Asked
  <2>3. path' \in Paths /\ AtMostOne(listing', Hosts \X Paths)
    BY PanelAssumption DEF PanelIInv, PanelTypes, OpenSession, AtMostOne
  <2>4. ShowsLastAsked'
    <3>1. CASE host # {h}
      BY <3>1, <2>1 DEF OpenSession, ShowsLastAsked
    <3>2. CASE host = {h}
      BY <3>2, <2>1 DEF OpenSession, PanelIInv, ShowsLastAsked
    <3> QED
      BY <3>1, <3>2
  <2> QED
    BY <2>1, <2>2, <2>3, <2>4, PanelParts DEF PanelList
<1>7. PanelRows'
  BY <1>4, PanelParts, RowsSame DEF OpenSession
<1> QED
  BY <1>5, <1>6, <1>7, PanelParts1

(* A step that answers an open leaves the host, which is there.             *)
LEMMA OpensAnswered ==
  ASSUME PanelIInv, NEW i, Asked(opens, i), NEW phase \in {"ok", "failed"},
         opens' = Answered(opens, i, phase), host' = host,
         session' = IF CurrentOpen(i) THEN IF phase = "ok" THEN "Ready" ELSE "Failed"
                    ELSE session
  PROVE  PanelHead' /\ host # {}
<1>1. opens \in Seq(Open) /\ i \in 1 .. Len(opens) /\ Len(opens) \in Nat
  BY LenProperties DEF PanelIInv, PanelTypes, Asked
<1>2. /\ opens[i] \in Open /\ [opens[i] EXCEPT !.phase = phase] \in Open
      /\ [opens[i] EXCEPT !.phase = phase].phase = phase
      /\ [opens[i] EXCEPT !.phase = phase].host = opens[i].host
  <2>1. opens[i] \in Open
    BY <1>1, ElementOfSeq
  <2> QED
    BY <2>1 DEF Open
<1>3. /\ opens' \in Seq(Open) /\ Len(opens') = Len(opens)
      /\ opens'[i] = [opens[i] EXCEPT !.phase = phase]
      /\ \A j \in 1 .. Len(opens) : j # i => opens'[j] = opens[j]
  BY <1>1, <1>2, AnsweredQueue DEF Asked
<1>4. opens # <<>> /\ opens' # <<>> /\ Len(opens) \in 1 .. Len(opens)
  BY <1>1, <1>3
<1> DEFINE last == opens[Len(opens)]
<1>5. last \in Open /\ host = {last.host}
  BY <1>1, <1>4 DEF PanelIInv, SessionIsOfHost
<1>6. opens'[Len(opens')].host = last.host
  <2>1. CASE i = Len(opens)
    BY <2>1, <1>2, <1>3
  <2>2. CASE i # Len(opens)
    BY <2>2, <1>3, <1>4
  <2> QED
    BY <2>1, <2>2
<1>7. CASE i = Len(opens)
  <2>1. opens'[Len(opens')].phase = phase
    BY <1>2, <1>3, <1>7
  <2>2. session' = IF phase = "ok" THEN "Ready" ELSE "Failed"
    BY <1>7 DEF CurrentOpen
  <2> QED
    BY <1>3, <1>4, <1>5, <1>6, <2>1, <2>2 DEF PanelHead, SessionIsOfHost, AtMostOne, Open
<1>8. CASE i # Len(opens)
  <2>1. opens'[Len(opens')] = last
    BY <1>3, <1>4, <1>8
  <2>2. session' = session
    BY <1>8 DEF CurrentOpen
  <2> QED
    BY <1>3, <1>4, <1>5, <2>1, <2>2
    DEF PanelHead, SessionIsOfHost, AtMostOne, PanelIInv, PanelTypes, Open
<1> QED
  BY <1>5, <1>7, <1>8

LEMMA OpenSucceedsKeeps ==
  ASSUME PanelIInv, NEW i, NEW home \in Paths, OpenSucceeds(i, home) PROVE PanelIInv'
<1>1. PanelHead' /\ host # {} /\ host' = host
  BY OpensAnswered DEF OpenSucceeds, listVars
<1>2. PanelList'
  BY <1>1, ListNavigated, ListSame, PanelParts DEF OpenSucceeds
<1>3. PanelRows'
  BY <1>1, PanelParts, RowsSame DEF OpenSucceeds
<1> QED
  BY <1>1, <1>2, <1>3, PanelParts1

LEMMA OpenFailsKeeps ==
  ASSUME PanelIInv, NEW i, OpenFails(i) PROVE PanelIInv'
<1>1. PanelHead' /\ host # {} /\ host' = host
  BY OpensAnswered DEF OpenFails
<1>2. PanelList' /\ PanelRows'
  BY <1>1, ListSame, PanelParts, RowsSame DEF OpenFails
<1> QED
  BY <1>1, <1>2, PanelParts1

LEMMA UserNavigatesKeeps ==
  ASSUME PanelIInv, NEW p \in Paths, UserNavigates(p) PROVE PanelIInv'
<1>1. PanelHead' /\ PanelRows'
  BY PanelParts, HeadSame, RowsSame DEF UserNavigates
<1>2. PanelList'
  BY ListNavigated DEF UserNavigates
<1> QED
  BY <1>1, <1>2, PanelParts1

LEMMA ListingAnswersKeep ==
  ASSUME PanelIInv, NEW i, ListingAnswers(i) PROVE PanelIInv'
<1>1. requests \in Seq(Request) /\ i \in 1 .. Len(requests) /\ Len(requests) \in Nat
  BY LenProperties
  DEF PanelIInv, PanelTypes, ListingAnswers, ListingArrives, ListingFails, Asked
<1>2. PICK phase \in {"ok", "failed"} :
        /\ requests' = Answered(requests, i, phase)
        /\ \/ phase = "ok" /\ ListingArrives(i)
           \/ phase = "failed" /\ ListingFails(i)
  BY DEF ListingAnswers, ListingArrives, ListingFails
<1>3. /\ requests[i] \in Request /\ [requests[i] EXCEPT !.phase = phase] \in Request
      /\ [requests[i] EXCEPT !.phase = phase].phase = phase
      /\ [requests[i] EXCEPT !.phase = phase].host = requests[i].host
      /\ [requests[i] EXCEPT !.phase = phase].path = requests[i].path
  <2>1. requests[i] \in Request
    BY <1>1, ElementOfSeq
  <2> QED
    BY <2>1 DEF Request
<1>4. /\ requests' \in Seq(Request) /\ Len(requests') = Len(requests)
      /\ requests'[i] = [requests[i] EXCEPT !.phase = phase]
      /\ \A j \in 1 .. Len(requests) : j # i => requests'[j] = requests[j]
      /\ DOMAIN requests' = 1 .. Len(requests) /\ DOMAIN requests = 1 .. Len(requests)
  BY <1>1, <1>3, <1>2, AnsweredQueue, LenProperties
<1>5. requests'[i].phase = phase /\ requests'[i].host = requests[i].host
        /\ requests'[i].path = requests[i].path
  BY <1>3, <1>4
<1>6. Len(requests) \in 1 .. Len(requests) /\ requests # <<>>
  BY <1>1
<1>7. PanelList'
  <2>1. CASE i = Len(requests) /\ phase = "ok"
    <3>1. /\ loading' = FALSE /\ path' = requests[i].path
          /\ listing' = {<<requests[i].host, requests[i].path>>}
      BY <2>1, <1>2 DEF ListingArrives, CurrentRequest
    <3>2. SpinnerTellsTruth'
      BY <1>4, <1>5, <2>1, <3>1 DEF SpinnerTellsTruth, Asked
    <3>3. ShowsLastAsked'
      <4> DEFINE l == <<requests[i].host, requests[i].path>>
      <4>1. listing' = {l} /\ l[2] = path'
        BY <3>1
      <4>2. l = <<requests'[Len(requests')].host, requests'[Len(requests')].path>>
        BY <1>4, <1>5, <2>1
      <4> HIDE DEF l
      <4> QED
        BY <4>1, <4>2 DEF ShowsLastAsked
    <3> QED
      BY <1>3, <1>4, <3>1, <3>2, <3>3 DEF PanelList, AtMostOne, Request
  <2>2. CASE i = Len(requests) /\ phase = "failed"
    <3>1. loading' = FALSE /\ UNCHANGED <<path, listing>>
      BY <2>2, <1>2 DEF ListingFails, CurrentRequest
    <3>3. SpinnerTellsTruth' /\ ShowsLastAsked'
      BY <1>4, <1>5, <2>2, <3>1, PanelParts
      DEF SpinnerTellsTruth, Asked, ShowsLastAsked, PanelList
    <3> QED
      BY <1>4, <3>1, <3>3, PanelParts DEF PanelList
  <2>3. CASE i # Len(requests)
    <3>1. UNCHANGED <<loading, path, listing>>
      BY <2>3 DEF ListingAnswers, ListingArrives, ListingFails, CurrentRequest
    <3>2. requests'[Len(requests')] = requests[Len(requests)] /\ requests' # <<>>
      BY <1>1, <1>4, <1>6, <2>3
    <3>3. SpinnerTellsTruth' /\ ShowsLastAsked'
      BY <1>4, <1>6, <3>1, <3>2, PanelParts
      DEF SpinnerTellsTruth, Asked, ShowsLastAsked, PanelList
    <3> QED
      BY <1>4, <3>1, <3>3, PanelParts DEF PanelList
  <2> QED
    BY <2>1, <2>2, <2>3
<1>8. PanelHead' /\ PanelRows'
  BY PanelParts, HeadSame, RowsSame DEF ListingAnswers, ListingArrives, ListingFails
<1> QED
  BY <1>7, <1>8, PanelParts1

LEMMA StartTransferKeeps ==
  ASSUME PanelIInv, NEW t \in Transfers, StartTransfer(t) PROVE PanelIInv'
<1>1. PanelHead' /\ PanelList'
  BY PanelParts, HeadSame, ListSame DEF StartTransfer
<1>2. PanelRows'
  <2> DEFINE r == [NotStarted EXCEPT !.host = host, !.row = "Transferring", !.answer = TRUE]
  <2>1. /\ transfer' = [transfer EXCEPT ![t] = r] /\ host' = host /\ told' = told
        /\ transfer[t].row = "none"
    BY DEF StartTransfer, NotStarted
  <2>2. PICK h \in Hosts : host = {h}
    BY DEF PanelIInv, PanelTypes, AtMostOne, StartTransfer
  <2>3. /\ r \in TransferRow /\ r.row = "Transferring" /\ ~r.event /\ r.host = {h}
    BY <2>2 DEF NotStarted, TransferRow, Row, Outcomes
  <2>4. transfer' \in [Transfers -> TransferRow] /\ transfer'[t] = r
        /\ \A u \in Transfers : u # t => transfer'[u] = transfer[u]
    <3> HIDE DEF r
    <3> QED
      BY <2>1, <2>3 DEF PanelIInv, PanelTypes
  <2>5. TransferTruth'
    <3> SUFFICES ASSUME NEW u \in Transfers
                 PROVE  /\ transfer'[u].row = "Done" => transfer'[u].thread = "done"
                        /\ transfer'[u].row = "Error" => transfer'[u].thread = "failed"
                        /\ told'[u] = IF transfer'[u].row \in {"Done", "Error"} THEN 1 ELSE 0
      BY DEF TransferTruth
    <3> HIDE DEF r
    <3>1. CASE u = t
      BY <3>1, <2>1, <2>3, <2>4 DEF PanelIInv, TransferTruth
    <3>2. CASE u # t
      BY <3>2, <2>1, <2>4 DEF PanelIInv, TransferTruth
    <3> QED
      BY <3>1, <3>2
  <2>6. TransferRule'
    <3> HIDE DEF r
    <3> QED
      BY <2>1, <2>2, <2>3, <2>4 DEF PanelIInv, TransferRule
  <2> QED
    BY <2>1, <2>4, <2>5, <2>6 DEF PanelIInv, PanelTypes, PanelRows
<1> QED
  BY <1>1, <1>2, PanelParts1

(* A row that was started is replaced by one of the same host that tells    *)
(* the truth.                                                               *)
LEMMA RowChanges ==
  ASSUME PanelIInv, NEW t \in Transfers, NEW r \in TransferRow,
         transfer' = [transfer EXCEPT ![t] = r], host' = host,
         transfer[t].row # "none", r.row # "none", r.host = transfer[t].host,
         r.event => r.thread # "running",
         r.row = "Done" => r.thread = "done",
         r.row = "Error" => r.thread = "failed",
         told' \in [Transfers -> 0 .. 2],
         told'[t] = IF r.row \in {"Done", "Error"} THEN 1 ELSE 0,
         \A u \in Transfers : u # t => told'[u] = told[u]
  PROVE  PanelRows'
<1>1. /\ transfer' \in [Transfers -> TransferRow] /\ transfer'[t] = r
      /\ \A u \in Transfers : u # t => transfer'[u] = transfer[u]
  BY DEF PanelIInv, PanelTypes
<1>2. TransferTruth'
  <2> SUFFICES ASSUME NEW u \in Transfers
               PROVE  /\ transfer'[u].row = "Done" => transfer'[u].thread = "done"
                      /\ transfer'[u].row = "Error" => transfer'[u].thread = "failed"
                      /\ told'[u] = IF transfer'[u].row \in {"Done", "Error"} THEN 1 ELSE 0
    BY DEF TransferTruth
  <2>1. CASE u = t
    BY <2>1, <1>1
  <2>2. CASE u # t
    BY <2>2, <1>1 DEF PanelIInv, TransferTruth
  <2> QED
    BY <2>1, <2>2
<1>3. TransferRule'
  BY <1>1 DEF PanelIInv, TransferRule
<1> QED
  BY <1>1, <1>2, <1>3 DEF PanelRows

LEMMA ThreadStepKeeps ==
  ASSUME PanelIInv, NEW t \in Transfers, ThreadStep(t) PROVE PanelIInv'
<1>1. /\ Running(t) /\ UNCHANGED <<host, session, opens, listVars, told>>
      /\ \E o \in {"done", "failed"}, e \in BOOLEAN :
           transfer' = [transfer EXCEPT ![t] = [transfer[t] EXCEPT !.thread = o, !.event = e]]
  <2>1. CASE ThreadRefuses(t)
    <3>1. transfer[t] \in TransferRow
      BY DEF PanelIInv, PanelTypes
    <3>2. [transfer[t] EXCEPT !.thread = "failed"]
            = [transfer[t] EXCEPT !.thread = "failed", !.event = transfer[t].event]
      BY <3>1 DEF TransferRow
    <3>3. transfer[t].event \in BOOLEAN
      BY <3>1 DEF TransferRow
    <3> QED
      BY <2>1, <3>2, <3>3 DEF ThreadRefuses
  <2>2. CASE \E o \in {"done", "failed"} : ThreadEnds(t, o)
    BY <2>2 DEF ThreadEnds
  <2> QED
    BY <2>1, <2>2 DEF ThreadStep
<1>2. PICK o \in {"done", "failed"}, e \in BOOLEAN :
        transfer' = [transfer EXCEPT ![t] = [transfer[t] EXCEPT !.thread = o, !.event = e]]
  BY <1>1
<1> DEFINE r == [transfer[t] EXCEPT !.thread = o, !.event = e]
<1>3. transfer[t] \in TransferRow
  BY DEF PanelIInv, PanelTypes
<1>4. /\ r \in TransferRow /\ r.row = transfer[t].row /\ r.host = transfer[t].host
      /\ r.thread = o
  BY <1>3 DEF TransferRow, Outcomes
<1>5. transfer[t].row = "Transferring"
  BY <1>1, <1>3 DEF Running, PanelIInv, TransferTruth, TransferRow, Row
<1>6. told \in [Transfers -> 0 .. 2] /\ told[t] = 0
  BY <1>5 DEF PanelIInv, PanelTypes, TransferTruth
<1>7. PanelRows'
  <2> HIDE DEF r
  <2> QED
    BY <1>1, <1>2, <1>4, <1>5, <1>6, RowChanges DEF r
<1>8. PanelHead' /\ PanelList'
  BY <1>1, PanelParts, HeadSame, ListSame
<1> QED
  BY <1>7, <1>8, PanelParts1

(* The first of the event and the failed answer ends the row, the second    *)
(* changes nothing of it.                                                   *)
LEMMA FinishKeeps ==
  ASSUME PanelIInv, NEW t \in Transfers, NEW seen \in TransferRow, Finish(t, seen),
         seen.row = transfer[t].row, seen.thread = transfer[t].thread,
         seen.host = transfer[t].host, seen.event => transfer[t].event,
         seen.row # "none", seen.thread # "running", host' = host
  PROVE  PanelRows'
<1>1. told \in [Transfers -> 0 .. 2] /\ seen.thread \in {"done", "failed"}
  BY DEF PanelIInv, PanelTypes, TransferRow, Outcomes
<1>2. CASE seen.row = "Transferring"
  <2> DEFINE r == [seen EXCEPT !.row = IF seen.thread = "done" THEN "Done" ELSE "Error"]
  <2>1. transfer' = [transfer EXCEPT ![t] = r] /\ told' = [told EXCEPT ![t] = @ + 1]
    BY <1>2 DEF Finish
  <2>2. /\ r \in TransferRow /\ r.thread = seen.thread /\ r.host = seen.host
        /\ r.event = seen.event
        /\ r.row = IF seen.thread = "done" THEN "Done" ELSE "Error"
    BY DEF TransferRow, Row
  <2>3. told[t] = 0
    BY <1>2 DEF PanelIInv, TransferTruth
  <2>4. /\ told' \in [Transfers -> 0 .. 2] /\ told'[t] = 1
        /\ \A u \in Transfers : u # t => told'[u] = told[u]
    BY <1>1, <2>1, <2>3
  <2> HIDE DEF r
  <2> QED
    BY <1>1, <2>1, <2>2, <2>4, RowChanges
<1>3. CASE seen.row # "Transferring"
  <2>1. transfer' = [transfer EXCEPT ![t] = seen] /\ told' = told
    BY <1>3 DEF Finish
  <2> QED
    BY <1>1, <2>1, RowChanges DEF PanelIInv, TransferTruth, TransferRule
<1> QED
  BY <1>2, <1>3

LEMMA HeardKeeps ==
  ASSUME PanelIInv, NEW t \in Transfers, Heard(t) PROVE PanelIInv'
<1>1. transfer[t] \in TransferRow /\ UNCHANGED <<host, session, opens>>
  BY DEF PanelIInv, PanelTypes, Heard, OnDone, OnAnswer
<1>2. PanelHead'
  BY <1>1, PanelParts, HeadSame
<1>3. CASE OnDone(t)
  <2> DEFINE seen == [transfer[t] EXCEPT !.event = FALSE]
  <2>1. /\ seen \in TransferRow /\ seen.row = transfer[t].row
        /\ seen.thread = transfer[t].thread /\ seen.host = transfer[t].host /\ ~seen.event
    BY <1>1 DEF TransferRow
  <2>2. transfer[t].row # "none" /\ transfer[t].thread # "running" /\ host # {}
    BY <1>3 DEF OnDone, PanelIInv, TransferRule, NotStarted
  <2>3. PanelRows'
    <3>1. Finish(t, seen)
      BY <1>3 DEF OnDone
    <3> HIDE DEF seen
    <3> QED
      BY <1>1, <2>1, <2>2, <3>1, FinishKeeps
  <2>4. PanelList'
    <3>1. path \in Paths
      BY DEF PanelIInv, PanelTypes
    <3> QED
      BY <1>3, <2>2, <3>1, ListNavigated, ListSame, PanelParts DEF OnDone
  <2> QED
    BY <1>2, <2>3, <2>4, PanelParts1
<1>4. CASE OnAnswer(t)
  <2> DEFINE seen == [transfer[t] EXCEPT !.answer = FALSE]
  <2>1. /\ seen \in TransferRow /\ seen.row = transfer[t].row
        /\ seen.thread = transfer[t].thread /\ seen.host = transfer[t].host
        /\ seen.event = transfer[t].event
    BY <1>1 DEF TransferRow
  <2>2. transfer[t].row # "none" /\ transfer[t].thread # "running"
    BY <1>4 DEF OnAnswer, PanelIInv, TransferRule, NotStarted
  <2>3. CASE transfer[t].thread = "failed"
    <3>1. Finish(t, seen)
      BY <1>4, <2>3 DEF OnAnswer
    <3> HIDE DEF seen
    <3> QED
      BY <1>1, <1>2, <1>4, <2>1, <2>2, <3>1, FinishKeeps, ListSame, PanelParts, PanelParts1
      DEF OnAnswer
  <2>4. CASE transfer[t].thread # "failed"
    <3>1. transfer' = [transfer EXCEPT ![t] = seen] /\ told' = told /\ UNCHANGED listVars
      BY <1>4, <2>4 DEF OnAnswer
    <3>2. told \in [Transfers -> 0 .. 2]
      BY DEF PanelIInv, PanelTypes
    <3>3. PanelRows'
      <4> HIDE DEF seen
      <4> QED
        BY <1>1, <2>1, <2>2, <3>1, <3>2, RowChanges DEF PanelIInv, TransferTruth, TransferRule
    <3> QED
      BY <1>2, <3>1, <3>3, ListSame, PanelParts, PanelParts1
  <2> QED
    BY <2>3, <2>4
<1> QED
  BY <1>3, <1>4 DEF Heard

LEMMA PanelInitInv == PanelInit => PanelIInv
<1> SUFFICES ASSUME PanelInit PROVE PanelIInv
  OBVIOUS
<1>1. transfer \in [Transfers -> TransferRow]
  BY DEF PanelInit, NotStarted, TransferRow, Row, Outcomes
<1>2. PanelTypes
  <2>1. <<>> \in Seq(Open) /\ <<>> \in Seq(Request)
    BY EmptySeq
  <2>2. told \in [Transfers -> 0 .. 2] /\ path \in Paths
    BY PanelAssumption DEF PanelInit
  <2>3. AtMostOne(host, Hosts) /\ AtMostOne(listing, Hosts \X Paths)
    BY DEF PanelInit, AtMostOne
  <2> QED
    BY <1>1, <2>1, <2>2, <2>3 DEF PanelInit, PanelTypes
<1>3. SessionIsOfHost /\ ShowsLastAsked
  BY DEF PanelInit, SessionIsOfHost, ShowsLastAsked
<1>4. SpinnerTellsTruth
  BY DEF PanelInit, SpinnerTellsTruth, Asked
<1>5. TransferTruth /\ TransferRule
  BY DEF PanelInit, NotStarted, TransferTruth, TransferRule
<1> QED
  BY <1>2, <1>3, <1>4, <1>5 DEF PanelIInv

LEMMA PanelNextInv == PanelIInv /\ [PanelNext]_vars => PanelIInv'
<1> SUFFICES ASSUME PanelIInv, [PanelNext]_vars PROVE PanelIInv'
  OBVIOUS
<1>1. CASE User
  <2>1. path \in Paths
    BY DEF PanelIInv, PanelTypes
  <2> QED
    BY <1>1, <2>1, OpenSessionKeeps, UserNavigatesKeeps, StartTransferKeeps DEF User, Refresh
<1>2. CASE \E i \in 1 .. MaxOpens : OpenAnswers(i)
  <2>1. Home \in Paths /\ Root \in Paths
    BY PanelAssumption
  <2> QED
    BY <1>2, <2>1, OpenSucceedsKeeps, OpenFailsKeeps DEF OpenAnswers
<1>3. CASE \E i \in 1 .. MaxRequests : ListingAnswers(i)
  BY <1>3, ListingAnswersKeep
<1>4. CASE \E t \in Transfers : ThreadStep(t) \/ Heard(t)
  BY <1>4, ThreadStepKeeps, HeardKeeps
<1>5. CASE UNCHANGED vars
  BY <1>5, PanelParts, PanelParts1, HeadSame, ListSame, RowsSame
  DEF vars, listVars, transferVars
<1> QED
  BY <1>1, <1>2, <1>3, <1>4, <1>5 DEF PanelNext

LEMMA PanelIInvIsEnough == PanelIInv => PanelInv
<1> SUFFICES ASSUME PanelIInv PROVE PanelInv
  OBVIOUS
<1>1. AtMostOne(host, Hosts) /\ AtMostOne(listing, Hosts \X Paths)
  BY DEF PanelIInv, PanelTypes
<1>2. host \subseteq Hosts /\ Cardinality(host) <= 1
  BY <1>1, AtMostOneIsSmall
<1>3. listing \subseteq Hosts \X Paths /\ Cardinality(listing) <= 1
  BY <1>1, AtMostOneIsSmall
<1>4. PanelTypeOK
  BY <1>2, <1>3 DEF PanelIInv, PanelTypes, PanelTypeOK, Open, Request, TransferRow
<1> QED
  BY <1>4 DEF PanelIInv, PanelInv

(* The panel is consistent whatever the order in which opens, listings and  *)
(* transfers answer (the checks of open_seq and remote_seq, and             *)
(* finish_transfer), for any number of each.                                *)
THEOREM PanelIsConsistent == PanelSpec => []PanelInv
<1>1. PanelInit => PanelIInv
  BY PanelInitInv
<1>2. PanelIInv /\ [PanelNext]_vars => PanelIInv'
  BY PanelNextInv
<1> QED
  BY <1>1, <1>2, PanelIInvIsEnough, PTL DEF PanelSpec
------------------------------------------------------------------------------
(* The sessions behind it.  What they rely on in a step of the panel.       *)
PanelStays ==
  /\ host # {} => host' # {}
  /\ \A t \in Transfers : transfer[t].row # "none" =>
       transfer'[t].row # "none" /\ transfer'[t].host = transfer[t].host

LEMMA PanelStepStays == PanelIInv /\ [PanelNext]_vars => PanelStays
<1> SUFFICES ASSUME PanelIInv, [PanelNext]_vars PROVE PanelStays
  OBVIOUS
<1> USE DEF PanelStays
<1>1. transfer \in [Transfers -> TransferRow]
  BY DEF PanelIInv, PanelTypes
<1>2. CASE User
  <2>1. ASSUME NEW t \in Transfers, StartTransfer(t) PROVE PanelStays
    <3>1. /\ transfer[t].row = "none" /\ host' = host
          /\ \A u \in Transfers : u # t => transfer'[u] = transfer[u]
      BY <1>1, <2>1 DEF StartTransfer, NotStarted
    <3> QED
      BY <3>1
  <2> QED
    BY <1>2, <2>1 DEF User, OpenSession, UserNavigates, Refresh, transferVars
<1>3. CASE \E i \in 1 .. MaxOpens : OpenAnswers(i)
  BY <1>3 DEF OpenAnswers, OpenSucceeds, OpenFails, transferVars
<1>4. CASE \E i \in 1 .. MaxRequests : ListingAnswers(i)
  BY <1>4 DEF ListingAnswers, ListingArrives, ListingFails, transferVars
<1>5. ASSUME NEW t \in Transfers, ThreadStep(t) PROVE PanelStays
  <2>1. /\ host' = host /\ \A u \in Transfers : u # t => transfer'[u] = transfer[u]
        /\ transfer'[t].row = transfer[t].row /\ transfer'[t].host = transfer[t].host
    BY <1>1, <1>5 DEF ThreadStep, ThreadRefuses, ThreadEnds, TransferRow
  <2> QED
    BY <2>1
<1>6. ASSUME NEW t \in Transfers, Heard(t) PROVE PanelStays
  <2>1. ASSUME NEW seen \in TransferRow, seen.row = transfer[t].row,
               seen.host = transfer[t].host,
               Finish(t, seen) \/ transfer' = [transfer EXCEPT ![t] = seen]
        PROVE  /\ \A u \in Transfers : u # t => transfer'[u] = transfer[u]
               /\ transfer'[t].host = transfer[t].host
               /\ transfer[t].row # "none" => transfer'[t].row # "none"
    BY <1>1, <2>1 DEF Finish, TransferRow
  <2>2. host' = host
    BY <1>6 DEF Heard, OnDone, OnAnswer
  <2>3. CASE OnDone(t)
    <3> DEFINE seen == [transfer[t] EXCEPT !.event = FALSE]
    <3>1. seen \in TransferRow /\ seen.row = transfer[t].row /\ seen.host = transfer[t].host
      BY <1>1 DEF TransferRow
    <3>2. Finish(t, seen)
      BY <2>3 DEF OnDone
    <3> HIDE DEF seen
    <3> QED
      BY <2>1, <2>2, <3>1, <3>2
  <2>4. CASE OnAnswer(t)
    <3> DEFINE seen == [transfer[t] EXCEPT !.answer = FALSE]
    <3>1. seen \in TransferRow /\ seen.row = transfer[t].row /\ seen.host = transfer[t].host
      BY <1>1 DEF TransferRow
    <3>2. Finish(t, seen) \/ transfer' = [transfer EXCEPT ![t] = seen]
      BY <2>4 DEF OnAnswer
    <3> HIDE DEF seen
    <3> QED
      BY <2>1, <2>2, <3>1, <3>2
  <2> QED
    BY <1>6, <2>3, <2>4 DEF Heard
<1>7. CASE UNCHANGED vars
  BY <1>7 DEF vars
<1> QED
  BY <1>2, <1>3, <1>4, <1>5, <1>6, <1>7 DEF PanelNext

LEMMA LentSame ==
  ASSUME SessionsIInv, PanelStays, UNCHANGED <<table, lent>> PROVE LentStays'
  BY DEF SessionsIInv, PlaceRule, PanelStays, LentStays

(* An entry nobody holds the guard of is replaced.                          *)
LEMMA LentReplaced ==
  ASSUME SessionsIInv, TransferRule, PanelStays, NEW h \in Hosts, Free({h}), NEW s,
         table' = [table EXCEPT ![h] = s], lent' = lent
  PROVE  LentStays'
<1> SUFFICES ASSUME NEW t \in Transfers, lent[t] # 0
             PROVE  {lent[t]} = {table'[g] : g \in transfer'[t].host}
  BY DEF LentStays
<1>1. transfer[t].row # "none" /\ transfer'[t].host = transfer[t].host
  BY DEF SessionsIInv, PlaceRule, PanelStays
<1>2. PICK g \in Hosts : transfer[t].host = {g}
  BY <1>1 DEF TransferRule
<1>3. g # h
  BY <1>2 DEF Free
<1>4. {lent[t]} = {table[k] : k \in {g}}
  BY <1>2 DEF SessionsIInv, LentStays
<1>5. table'[g] = table[g]
  BY <1>3 DEF SessionsIInv, SessionsTypes
<1> QED
  BY <1>1, <1>2, <1>4, <1>5

LEMMA PlacesStay ==
  ASSUME SessionsIInv, PanelStays, UNCHANGED <<opener, call, lent>> PROVE PlaceRule'
  BY DEF SessionsIInv, PlaceRule, PanelStays

LEMMA SessionsSame ==
  ASSUME SessionsIInv, PanelStays, UNCHANGED sessionVars PROVE SessionsIInv'
<1>1. UNCHANGED <<cast, table, made, broken, opener, call, lent>>
  BY DEF sessionVars
<1>2. LentStays' /\ PlaceRule'
  BY <1>1, LentSame, PlacesStay
<1>3. SessionsTypes' /\ KnownAreMade' /\ RetryIsFresh'
  BY <1>1 DEF SessionsIInv, SessionsTypes, KnownAreMade, RetryIsFresh
<1>4. HandsAreClean' /\ HandsDiffer'
  BY <1>1 DEF SessionsIInv, HandsAreClean, HandsDiffer, OpenerHas, CallHas, Clean
<1> QED
  BY <1>2, <1>3, <1>4 DEF SessionsIInv

(* Somebody who opens a session goes on with none in hand.                  *)
LEMMA OpenerGoesOn ==
  ASSUME SessionsIInv, PanelStays, NEW o \in Openers, NEW r \in OpenerRow,
         opener' = [opener EXCEPT ![o] = r], UNCHANGED <<cast, table, made, broken, call, lent>>,
         r.step \notin {"insert", "none"}, \E h \in Hosts : r.host = {h}
  PROVE  SessionsIInv'
<1>1. /\ opener' \in [Openers -> OpenerRow] /\ opener'[o] = r
      /\ \A p \in Openers : p # o => opener'[p] = opener[p]
  BY DEF SessionsIInv, SessionsTypes
<1>2. SessionsTypes' /\ KnownAreMade' /\ RetryIsFresh' /\ LentStays'
  BY <1>1, LentSame DEF SessionsIInv, SessionsTypes, KnownAreMade, RetryIsFresh
<1>3. HandsAreClean'
  BY <1>1 DEF SessionsIInv, HandsAreClean, OpenerHas, CallHas, Clean
<1>4. HandsDiffer'
  BY <1>1 DEF SessionsIInv, HandsDiffer, OpenerHas, CallHas
<1>5. PlaceRule'
  BY <1>1 DEF SessionsIInv, PlaceRule, PanelStays
<1> QED
  BY <1>2, <1>3, <1>4, <1>5 DEF SessionsIInv

(* A call goes on with none in hand, and what it says it failed on is       *)
(* nothing another one is about to store.                                   *)
FailedRight(r) ==
  /\ r.failed <= made
  /\ \A s \in 1 .. made : Clean(s) => r.failed # s
  /\ r.again /\ r.failed # 0 =>
       r.step \in {"ok", "failed", "over"} \/ \A h \in r.host : table'[h] # r.failed

LEMMA CallGoesOn ==
  ASSUME SessionsIInv, PanelStays, NEW c \in Calls, NEW r \in CallRow,
         call' = [call EXCEPT ![c] = r], UNCHANGED <<cast, table, made, broken, opener, lent>>,
         r.step \notin {"insert", "none"}, \E h \in Hosts : r.host = {h},
         FailedRight(r), c \in PanelCalls => host # {}
  PROVE  SessionsIInv'
<1>1. /\ call' \in [Calls -> CallRow] /\ call'[c] = r
      /\ \A d \in Calls : d # c => call'[d] = call[d]
  BY DEF SessionsIInv, SessionsTypes
<1>2. SessionsTypes' /\ LentStays'
  BY <1>1, LentSame DEF SessionsIInv, SessionsTypes
<1>3. KnownAreMade'
  BY <1>1 DEF SessionsIInv, KnownAreMade, FailedRight
<1>4. RetryIsFresh'
  BY <1>1 DEF SessionsIInv, RetryIsFresh, FailedRight
<1>5. ASSUME NEW s, Clean(s)
      PROVE  /\ s \in 1 .. made' /\ \A h \in Hosts : table'[h] # s
             /\ \A d \in Calls : call'[d].failed # s
  BY <1>1, <1>5 DEF Clean, FailedRight
<1>6. HandsAreClean'
  <2>1. ASSUME NEW d \in Calls, CallHas(d)' PROVE Clean(call[d].session) /\ call'[d] = call[d]
    BY <1>1, <2>1 DEF SessionsIInv, HandsAreClean, CallHas
  <2>2. \A p \in Openers : OpenerHas(p) => Clean(opener[p].session)
    BY DEF SessionsIInv, HandsAreClean
  <2> QED
    BY <1>5, <2>1, <2>2 DEF HandsAreClean, OpenerHas, CallHas, Clean
<1>7. HandsDiffer'
  BY <1>1 DEF SessionsIInv, HandsDiffer, OpenerHas, CallHas
<1>8. PlaceRule'
  BY <1>1, SessionsAssumption DEF SessionsIInv, PlaceRule, PanelStays
<1> QED
  BY <1>2, <1>3, <1>4, <1>6, <1>7, <1>8 DEF SessionsIInv

(* A session is opened: its number is new.                                  *)
LEMMA NewIsClean ==
  ASSUME SessionsIInv, made' = made + 1, UNCHANGED table,
         \A c \in Calls : call'[c].failed = call[c].failed
  PROVE  /\ made' \in 1 .. made' /\ \A h \in Hosts : table'[h] # made'
         /\ \A c \in Calls : call'[c].failed # made'
         /\ KnownAreMade'
         /\ \A s : Clean(s) =>
              /\ s # made' /\ s \in 1 .. made'
              /\ \A h \in Hosts : table'[h] # s
              /\ \A c \in Calls : call'[c].failed # s
<1>1. made \in Nat
  BY SessionsAssumption DEF SessionsIInv, SessionsTypes, Session
<1>2. \A h \in Hosts : table[h] \in Nat
  BY SessionsAssumption DEF SessionsIInv, SessionsTypes, Session
<1>3. \A c \in Calls : call[c].failed \in Nat
  BY SessionsAssumption DEF SessionsIInv, SessionsTypes, Session, CallRow
<1> QED
  BY <1>1, <1>2, <1>3 DEF SessionsIInv, KnownAreMade, Clean

LEMMA OpenedKeeps ==
  ASSUME SessionsIInv, PanelStays, NEW o \in Openers, Opened(o) PROVE SessionsIInv'
<1> DEFINE r == [opener[o] EXCEPT !.step = "insert", !.session = made + 1]
<1>1. made \in Session /\ made < MaxSessions /\ made + 1 \in Session /\ made' = made + 1
      /\ UNCHANGED <<vars, cast, table, broken, call, lent>>
  BY SessionsAssumption DEF SessionsIInv, SessionsTypes, Session, Opened
<1>2. opener[o] \in OpenerRow /\ opener[o].step = "connect"
  BY DEF SessionsIInv, SessionsTypes, Opened
<1>3. r \in OpenerRow /\ r.step = "insert" /\ r.session = made' /\ r.host = opener[o].host
  BY <1>1, <1>2 DEF OpenerRow, OpenPlace
<1>4. /\ opener' \in [Openers -> OpenerRow] /\ opener'[o] = r
      /\ \A p \in Openers : p # o => opener'[p] = opener[p]
  <2>1. opener' = [opener EXCEPT ![o] = r]
    BY DEF Opened
  <2> HIDE DEF r
  <2> QED
    BY <1>3, <2>1 DEF SessionsIInv, SessionsTypes
<1> HIDE DEF r
<1>5. SessionsTypes'
  <2>1. broken \subseteq 1 .. made'
    BY <1>1, SessionsAssumption DEF SessionsIInv, SessionsTypes, Session
  <2> QED
    BY <1>1, <1>4, <2>1 DEF SessionsIInv, SessionsTypes
<1>6. /\ made' \in 1 .. made' /\ \A h \in Hosts : table'[h] # made'
      /\ \A c \in Calls : call'[c].failed # made'
      /\ KnownAreMade'
      /\ \A s : Clean(s) =>
              /\ s # made' /\ s \in 1 .. made'
              /\ \A h \in Hosts : table'[h] # s
              /\ \A c \in Calls : call'[c].failed # s
  BY <1>1, NewIsClean
<1>7. HandsAreClean'
  <2>1. \A p \in Openers : OpenerHas(p)' =>
          opener'[p].session = made' \/ Clean(opener'[p].session)
    BY <1>3, <1>4 DEF SessionsIInv, HandsAreClean, OpenerHas
  <2>2. \A c \in Calls : CallHas(c) => Clean(call[c].session)
    BY DEF SessionsIInv, HandsAreClean
  <2> QED
    BY <1>1, <1>6, <2>1, <2>2 DEF HandsAreClean, OpenerHas, CallHas, Clean
<1>8. HandsDiffer'
  <2>1. \A p \in Openers : p # o /\ OpenerHas(p)' => opener'[p].session # made'
    BY <1>4, <1>6 DEF SessionsIInv, HandsAreClean, OpenerHas
  <2>2. \A c \in Calls : CallHas(c)' => call'[c].session # made'
    BY <1>1, <1>6 DEF SessionsIInv, HandsAreClean, CallHas
  <2> QED
    BY <1>1, <1>3, <1>4, <2>1, <2>2 DEF SessionsIInv, HandsDiffer, OpenerHas, CallHas
<1>9. PlaceRule'
  <2>1. \E h \in Hosts : r.host = {h}
    BY <1>2, <1>3 DEF SessionsIInv, PlaceRule
  <2> QED
    BY <1>1, <1>4, <2>1 DEF SessionsIInv, PlaceRule, PanelStays
<1>10. LentStays' /\ RetryIsFresh'
  BY <1>1, LentSame DEF SessionsIInv, RetryIsFresh
<1> QED
  BY <1>5, <1>6, <1>7, <1>8, <1>9, <1>10 DEF SessionsIInv

LEMMA CallOpenedKeeps ==
  ASSUME SessionsIInv, PanelStays, NEW c \in Calls, CallOpened(c) PROVE SessionsIInv'
<1> DEFINE r == [call[c] EXCEPT !.step = "insert", !.session = made + 1]
<1>1. made \in Session /\ made < MaxSessions /\ made + 1 \in Session /\ made' = made + 1
      /\ UNCHANGED <<vars, cast, table, broken, opener, lent>>
  BY SessionsAssumption DEF SessionsIInv, SessionsTypes, Session, CallOpened
<1>2. call[c] \in CallRow /\ call[c].step = "connect"
  BY DEF SessionsIInv, SessionsTypes, CallOpened, At
<1>3. /\ r \in CallRow /\ r.step = "insert" /\ r.session = made' /\ r.host = call[c].host
      /\ r.again = call[c].again /\ r.failed = call[c].failed
  BY <1>1, <1>2 DEF CallRow, CallPlace
<1>4. /\ call' \in [Calls -> CallRow] /\ call'[c] = r
      /\ \A d \in Calls : d # c => call'[d] = call[d]
  <2>1. call' = [call EXCEPT ![c] = r]
    BY DEF CallOpened
  <2> HIDE DEF r
  <2> QED
    BY <1>3, <2>1 DEF SessionsIInv, SessionsTypes
<1> HIDE DEF r
<1>5. SessionsTypes'
  <2>1. broken \subseteq 1 .. made'
    BY <1>1, SessionsAssumption DEF SessionsIInv, SessionsTypes, Session
  <2> QED
    BY <1>1, <1>4, <2>1 DEF SessionsIInv, SessionsTypes
<1>6. /\ made' \in 1 .. made' /\ \A h \in Hosts : table'[h] # made'
      /\ \A d \in Calls : call'[d].failed # made'
      /\ KnownAreMade'
      /\ \A s : Clean(s) =>
              /\ s # made' /\ s \in 1 .. made'
              /\ \A h \in Hosts : table'[h] # s
              /\ \A d \in Calls : call'[d].failed # s
  <2>1. \A d \in Calls : call'[d].failed = call[d].failed
    BY <1>3, <1>4
  <2> QED
    BY <1>1, <2>1, NewIsClean
<1>7. HandsAreClean'
  <2>1. \A d \in Calls : CallHas(d)' => call'[d].session = made' \/ Clean(call'[d].session)
    BY <1>3, <1>4 DEF SessionsIInv, HandsAreClean, CallHas
  <2>2. \A p \in Openers : OpenerHas(p) => Clean(opener[p].session)
    BY DEF SessionsIInv, HandsAreClean
  <2> QED
    BY <1>1, <1>6, <2>1, <2>2 DEF HandsAreClean, OpenerHas, CallHas, Clean
<1>8. HandsDiffer'
  <2>1. \A d \in Calls : d # c /\ CallHas(d)' => call'[d].session # made'
    BY <1>4, <1>6 DEF SessionsIInv, HandsAreClean, CallHas
  <2>2. \A p \in Openers : OpenerHas(p)' => opener'[p].session # made'
    BY <1>1, <1>6 DEF SessionsIInv, HandsAreClean, OpenerHas
  <2> QED
    BY <1>1, <1>3, <1>4, <2>1, <2>2 DEF SessionsIInv, HandsDiffer, OpenerHas, CallHas
<1>9. PlaceRule'
  <2>1. /\ \E h \in Hosts : r.host = {h}
        /\ c \in PanelCalls => host' # {}
    BY <1>2, <1>3 DEF SessionsIInv, PlaceRule, PanelStays
  <2> QED
    BY <1>1, <1>3, <1>4, <2>1, SessionsAssumption DEF SessionsIInv, PlaceRule, PanelStays
<1>10. LentStays'
  BY <1>1, LentSame
<1>11. RetryIsFresh'
  BY <1>1, <1>2, <1>3, <1>4 DEF SessionsIInv, RetryIsFresh
<1> QED
  BY <1>5, <1>6, <1>7, <1>8, <1>9, <1>10, <1>11 DEF SessionsIInv

(* What is put into the table is nothing a call failed on, and what is      *)
(* clean and not that stays clean.                                          *)
LEMMA TableChanges ==
  ASSUME SessionsIInv, NEW h \in Hosts, NEW s \in Session, s = 0 \/ Clean(s), made' = made,
         \A g \in Hosts : table'[g] = IF g = h THEN s ELSE table[g],
         \A c \in Calls : call'[c].failed = call[c].failed
  PROVE  /\ KnownAreMade'
         /\ \A x : Clean(x) /\ x # s =>
              /\ x \in 1 .. made' /\ \A g \in Hosts : table'[g] # x
              /\ \A c \in Calls : call'[c].failed # x
<1>1. made \in Nat /\ s <= made
  BY SessionsAssumption DEF SessionsIInv, SessionsTypes, Session, Clean
<1> QED
  BY <1>1 DEF SessionsIInv, KnownAreMade, Clean

LEMMA RemovedKeeps ==
  ASSUME SessionsIInv, TransferRule, PanelStays, NEW c \in Calls, Drops(c) \/ Evicts(c)
  PROVE  SessionsIInv'
<1>1. call[c] \in CallRow /\ call[c].step \in {"drop", "evict"}
  BY DEF SessionsIInv, SessionsTypes, Drops, Evicts, At
<1>2. PICK h \in Hosts : call[c].host = {h}
  BY <1>1 DEF SessionsIInv, PlaceRule
<1>3. table' = [table EXCEPT ![h] = 0] /\ Free({h})
        /\ UNCHANGED <<cast, made, broken, opener, lent>>
  BY <1>2, TheOne DEF Drops, Evicts, Put
<1>4. PICK r \in CallRow :
        /\ call' = [call EXCEPT ![c] = r]
        /\ r.step \in {"connect", "ensure"} /\ r.host = {h} /\ r.failed = call[c].failed
        /\ r.again = call[c].again \/ r.step = "ensure"
  <2>1. CASE Drops(c)
    <3> DEFINE r == [call[c] EXCEPT !.step = "connect"]
    <3>1. /\ r \in CallRow /\ r.step = "connect" /\ r.host = {h}
          /\ r.failed = call[c].failed /\ r.again = call[c].again
      BY <1>1, <1>2 DEF CallRow, CallPlace
    <3>2. call' = [call EXCEPT ![c] = r]
      BY <2>1 DEF Drops, Goes
    <3> HIDE DEF r
    <3> QED
      BY <3>1, <3>2
  <2>2. CASE Evicts(c)
    <3> DEFINE r == [call[c] EXCEPT !.step = "ensure", !.again = TRUE]
    <3>1. /\ r \in CallRow /\ r.step = "ensure" /\ r.host = {h} /\ r.failed = call[c].failed
      BY <1>1, <1>2 DEF CallRow, CallPlace
    <3>2. call' = [call EXCEPT ![c] = r]
      BY <2>2 DEF Evicts
    <3> HIDE DEF r
    <3> QED
      BY <3>1, <3>2
  <2> QED
    BY <2>1, <2>2
<1>5. /\ call' \in [Calls -> CallRow] /\ call'[c] = r
      /\ \A d \in Calls : d # c => call'[d] = call[d]
  BY <1>4 DEF SessionsIInv, SessionsTypes
<1>6. /\ table' \in [Hosts -> Session] /\ KnownAreMade'
      /\ \A g \in Hosts : table'[g] = IF g = h THEN 0 ELSE table[g]
      /\ \A x : Clean(x) /\ x # 0 =>
              /\ x \in 1 .. made' /\ \A g \in Hosts : table'[g] # x
              /\ \A d \in Calls : call'[d].failed # x
  <2>1. 0 \in Session /\ \A d \in Calls : call'[d].failed = call[d].failed
    BY <1>4, <1>5, SessionsAssumption DEF Session
  <2>2. /\ table' \in [Hosts -> Session]
        /\ \A g \in Hosts : table'[g] = IF g = h THEN 0 ELSE table[g]
    BY <1>3, <2>1 DEF SessionsIInv, SessionsTypes
  <2>3. made' = made
    BY <1>3
  <2> QED
    BY <2>1, <2>2, <2>3, TableChanges
<1>7. SessionsTypes'
  BY <1>3, <1>5, <1>6 DEF SessionsIInv, SessionsTypes
<1>8. HandsAreClean'
  <2>1. \A x : Clean(x) => x # 0
    BY DEF Clean
  <2>2. \A d \in Calls : CallHas(d)' => Clean(call'[d].session)
    BY <1>4, <1>5 DEF SessionsIInv, HandsAreClean, CallHas
  <2>3. \A p \in Openers : OpenerHas(p) => Clean(opener[p].session)
    BY DEF SessionsIInv, HandsAreClean
  <2> QED
    BY <1>3, <1>6, <2>1, <2>2, <2>3 DEF HandsAreClean, OpenerHas, CallHas, Clean
<1>9. HandsDiffer'
  BY <1>3, <1>4, <1>5 DEF SessionsIInv, HandsDiffer, OpenerHas, CallHas
<1>10. PlaceRule'
  <2>1. c \in PanelCalls => host' # {}
    BY <1>1 DEF SessionsIInv, PlaceRule, PanelStays
  <2> QED
    BY <1>3, <1>4, <1>5, <2>1, SessionsAssumption DEF SessionsIInv, PlaceRule, PanelStays
<1>11. LentStays'
  BY <1>3, LentReplaced
<1>12. RetryIsFresh'
  <2> SUFFICES ASSUME NEW d \in Calls, call'[d].again, call'[d].failed # 0,
                      call'[d].step \notin {"ok", "failed", "over"},
                      NEW g \in call'[d].host
               PROVE  table'[g] # call'[d].failed
    BY DEF RetryIsFresh
  <2>1. g \in Hosts
    BY <1>5 DEF CallRow
  <2>2. CASE g = h
    BY <2>1, <2>2, <1>6
  <2>3. CASE g # h
    <3>1. d # c
      BY <1>4, <1>5, <2>3
    <3> QED
      BY <1>5, <1>6, <2>1, <2>3, <3>1 DEF SessionsIInv, RetryIsFresh
  <2> QED
    BY <2>2, <2>3
<1> QED
  BY <1>6, <1>7, <1>8, <1>9, <1>10, <1>11, <1>12 DEF SessionsIInv

LEMMA ZeroIsSession == 0 \in Session
  BY SessionsAssumption DEF Session

LEMMA InsertsKeeps ==
  ASSUME SessionsIInv, TransferRule, PanelStays, NEW o \in Openers, Inserts(o)
  PROVE  SessionsIInv'
<1> DEFINE s == opener[o].session
<1> DEFINE r == [opener[o] EXCEPT !.step = "over", !.session = 0]
<1>1. opener[o] \in OpenerRow /\ OpenerHas(o) /\ Clean(s) /\ s \in Session
  BY DEF SessionsIInv, SessionsTypes, HandsAreClean, Inserts, OpenerHas, OpenerRow
<1>2. PICK h \in Hosts : opener[o].host = {h}
  BY <1>1 DEF SessionsIInv, PlaceRule, OpenerHas
<1>3. table' = [table EXCEPT ![h] = s] /\ Free({h}) /\ UNCHANGED <<cast, made, broken, call, lent>>
  BY <1>2, TheOne DEF Inserts, Put
<1>4. r \in OpenerRow /\ r.step = "over" /\ r.host = {h}
  BY <1>1, <1>2, ZeroIsSession DEF OpenerRow, OpenPlace
<1>5. /\ opener' \in [Openers -> OpenerRow] /\ opener'[o] = r
      /\ \A p \in Openers : p # o => opener'[p] = opener[p]
  <2>1. opener' = [opener EXCEPT ![o] = r]
    BY DEF Inserts, Answers
  <2> HIDE DEF r
  <2> QED
    BY <1>4, <2>1 DEF SessionsIInv, SessionsTypes
<1> HIDE DEF r, s
<1>6. /\ table' \in [Hosts -> Session] /\ KnownAreMade'
      /\ \A g \in Hosts : table'[g] = IF g = h THEN s ELSE table[g]
      /\ \A x : Clean(x) /\ x # s =>
              /\ x \in 1 .. made' /\ \A g \in Hosts : table'[g] # x
              /\ \A d \in Calls : call'[d].failed # x
  <2>1. /\ table' \in [Hosts -> Session]
        /\ \A g \in Hosts : table'[g] = IF g = h THEN s ELSE table[g]
    BY <1>1, <1>3 DEF SessionsIInv, SessionsTypes
  <2>2. made' = made /\ \A d \in Calls : call'[d].failed = call[d].failed
    BY <1>3
  <2> QED
    BY <1>1, <2>1, <2>2, TableChanges
<1>7. SessionsTypes'
  BY <1>3, <1>5, <1>6 DEF SessionsIInv, SessionsTypes
<1>8. HandsAreClean'
  <2>1. \A p \in Openers : OpenerHas(p)' =>
          Clean(opener'[p].session) /\ opener'[p].session # s
    BY <1>1, <1>4, <1>5 DEF SessionsIInv, HandsAreClean, HandsDiffer, OpenerHas, s
  <2>2. \A c \in Calls : CallHas(c) => Clean(call[c].session) /\ call[c].session # s
    BY <1>1 DEF SessionsIInv, HandsAreClean, HandsDiffer, CallHas, s
  <2>3. \A c \in Calls : CallHas(c)' => CallHas(c) /\ call'[c] = call[c]
    BY <1>3 DEF CallHas
  <2> QED
    BY <1>6, <2>1, <2>2, <2>3 DEF HandsAreClean, Clean
<1>9. HandsDiffer'
  BY <1>3, <1>4, <1>5 DEF SessionsIInv, HandsDiffer, OpenerHas, CallHas
<1>10. PlaceRule'
  BY <1>3, <1>4, <1>5 DEF SessionsIInv, PlaceRule, PanelStays
<1>11. LentStays'
  BY <1>3, LentReplaced
<1>12. RetryIsFresh'
  <2>1. \A d \in Calls : call[d].host \subseteq Hosts /\ call[d].failed # s
    BY <1>1 DEF SessionsIInv, SessionsTypes, CallRow, Clean
  <2> QED
    BY <1>3, <1>6, <2>1 DEF SessionsIInv, RetryIsFresh
<1> QED
  BY <1>6, <1>7, <1>8, <1>9, <1>10, <1>11, <1>12 DEF SessionsIInv

LEMMA CallInsertsKeeps ==
  ASSUME SessionsIInv, TransferRule, PanelStays, NEW c \in Calls, CallInserts(c)
  PROVE  SessionsIInv'
<1> DEFINE s == call[c].session
<1> DEFINE r == [call[c] EXCEPT !.step = "act", !.session = 0]
<1>1. call[c] \in CallRow /\ CallHas(c) /\ Clean(s) /\ s \in Session
  BY DEF SessionsIInv, SessionsTypes, HandsAreClean, CallInserts, CallHas, CallRow, At
<1>2. PICK h \in Hosts : call[c].host = {h}
  BY <1>1 DEF SessionsIInv, PlaceRule, CallHas
<1>3. /\ table' = [table EXCEPT ![h] = s] /\ Free({h})
      /\ UNCHANGED <<cast, made, broken, opener, lent>>
  BY <1>2, TheOne DEF CallInserts, Put
<1>4. /\ r \in CallRow /\ r.step = "act" /\ r.host = {h}
      /\ r.failed = call[c].failed /\ r.again = call[c].again
  BY <1>1, <1>2, ZeroIsSession DEF CallRow, CallPlace
<1>5. /\ call' \in [Calls -> CallRow] /\ call'[c] = r
      /\ \A d \in Calls : d # c => call'[d] = call[d]
  <2>1. call' = [call EXCEPT ![c] = r]
    BY DEF CallInserts
  <2> HIDE DEF r
  <2> QED
    BY <1>4, <2>1 DEF SessionsIInv, SessionsTypes
<1> HIDE DEF r, s
<1>6. /\ table' \in [Hosts -> Session] /\ KnownAreMade'
      /\ \A g \in Hosts : table'[g] = IF g = h THEN s ELSE table[g]
      /\ \A x : Clean(x) /\ x # s =>
              /\ x \in 1 .. made' /\ \A g \in Hosts : table'[g] # x
              /\ \A d \in Calls : call'[d].failed # x
  <2>1. /\ table' \in [Hosts -> Session]
        /\ \A g \in Hosts : table'[g] = IF g = h THEN s ELSE table[g]
    BY <1>1, <1>3 DEF SessionsIInv, SessionsTypes
  <2>2. made' = made /\ \A d \in Calls : call'[d].failed = call[d].failed
    BY <1>3, <1>4, <1>5
  <2> QED
    BY <1>1, <2>1, <2>2, TableChanges
<1>7. SessionsTypes'
  BY <1>3, <1>5, <1>6 DEF SessionsIInv, SessionsTypes
<1>8. HandsAreClean'
  <2>1. \A d \in Calls : CallHas(d)' => Clean(call'[d].session) /\ call'[d].session # s
    BY <1>1, <1>4, <1>5 DEF SessionsIInv, HandsAreClean, HandsDiffer, CallHas, s
  <2>2. \A p \in Openers : OpenerHas(p) => Clean(opener[p].session) /\ opener[p].session # s
    BY <1>1 DEF SessionsIInv, HandsAreClean, HandsDiffer, OpenerHas, s
  <2>3. \A p \in Openers : OpenerHas(p)' => OpenerHas(p) /\ opener'[p] = opener[p]
    BY <1>3 DEF OpenerHas
  <2> QED
    BY <1>6, <2>1, <2>2, <2>3 DEF HandsAreClean, Clean
<1>9. HandsDiffer'
  BY <1>3, <1>4, <1>5 DEF SessionsIInv, HandsDiffer, OpenerHas, CallHas
<1>10. PlaceRule'
  <2>1. c \in PanelCalls => host' # {}
    BY <1>1 DEF SessionsIInv, PlaceRule, PanelStays, CallHas
  <2> QED
    BY <1>3, <1>4, <1>5, <2>1, SessionsAssumption DEF SessionsIInv, PlaceRule, PanelStays
<1>11. LentStays'
  BY <1>3, LentReplaced
<1>12. RetryIsFresh'
  <2>1. \A d \in Calls : /\ call'[d].host \subseteq Hosts /\ call'[d].failed # s
                         /\ call'[d].host = call[d].host /\ call'[d].again = call[d].again
                         /\ call'[d].failed = call[d].failed
    BY <1>1, <1>2, <1>4, <1>5 DEF SessionsIInv, SessionsTypes, CallRow, Clean
  <2>2. \A d \in Calls : call[d].step \in {"ok", "failed", "over"} => call'[d].step = call[d].step
    BY <1>1, <1>5 DEF CallHas
  <2> QED
    BY <1>6, <2>1, <2>2 DEF SessionsIInv, RetryIsFresh
<1> QED
  BY <1>6, <1>7, <1>8, <1>9, <1>10, <1>11, <1>12 DEF SessionsIInv

LEMMA LentKeeps ==
  ASSUME SessionsIInv, TransferRule, PanelStays, NEW t \in Transfers,
         TransferBegins(t) \/ TransferEnds(t)
  PROVE  SessionsIInv'
<1>1. UNCHANGED <<cast, table, made, broken, opener, call>>
  BY DEF TransferBegins, TransferEnds, threadVars
<1>2. KnownAreMade' /\ RetryIsFresh' /\ HandsAreClean' /\ HandsDiffer'
  BY <1>1
  DEF SessionsIInv, KnownAreMade, RetryIsFresh, HandsAreClean, HandsDiffer, OpenerHas,
      CallHas, Clean
<1>3. /\ lent' \in [Transfers -> Session]
      /\ \A u \in Transfers : u # t => lent'[u] = lent[u]
      /\ lent'[t] # 0 =>
           /\ transfer[t].row # "none"
           /\ \E h \in Hosts : transfer[t].host = {h} /\ lent'[t] = table[h]
  <2>1. CASE TransferBegins(t)
    <3>1. transfer[t].row # "none"
      BY <2>1 DEF TransferBegins, Running
    <3>2. PICK h \in Hosts : transfer[t].host = {h}
      BY <3>1 DEF TransferRule
    <3>3. lent' = [lent EXCEPT ![t] = table[h]]
      BY <2>1, <3>2, TheOne DEF TransferBegins, Entry
    <3>4. table[h] \in Session
      BY DEF SessionsIInv, SessionsTypes
    <3> QED
      BY <3>1, <3>2, <3>3, <3>4 DEF SessionsIInv, SessionsTypes
  <2>2. CASE TransferEnds(t)
    <3>1. lent' = [lent EXCEPT ![t] = 0] /\ 0 \in Session
      BY <2>2, SessionsAssumption DEF TransferEnds, Session
    <3> QED
      BY <3>1 DEF SessionsIInv, SessionsTypes
  <2> QED
    BY <2>1, <2>2
<1>4. LentStays'
  <2> SUFFICES ASSUME NEW u \in Transfers, lent'[u] # 0
               PROVE  {lent'[u]} = {table'[h] : h \in transfer'[u].host}
    BY DEF LentStays
  <2>1. CASE u = t
    <3>1. transfer'[u].host = transfer[u].host
      BY <1>3, <2>1 DEF PanelStays
    <3> QED
      BY <1>1, <1>3, <2>1, <3>1
  <2>2. CASE u # t
    <3>1. transfer'[u].host = transfer[u].host
      BY <1>3, <2>2 DEF PanelStays, SessionsIInv, PlaceRule
    <3> QED
      BY <1>1, <1>3, <2>2, <3>1 DEF SessionsIInv, LentStays
  <2> QED
    BY <2>1, <2>2
<1>5. PlaceRule'
  <2>1. \A u \in Transfers : lent'[u] # 0 => transfer'[u].row # "none"
    BY <1>3 DEF SessionsIInv, PlaceRule, PanelStays
  <2> QED
    BY <1>1, <2>1 DEF SessionsIInv, PlaceRule, PanelStays
<1>6. SessionsTypes'
  BY <1>1, <1>3 DEF SessionsIInv, SessionsTypes
<1> QED
  BY <1>2, <1>4, <1>5, <1>6 DEF SessionsIInv

LEMMA BreaksKeeps ==
  ASSUME SessionsIInv, NEW s \in 1 .. made, Breaks(s) PROVE SessionsIInv'
<1>1. UNCHANGED <<vars, cast, table, made, opener, call, lent>> /\ broken' = broken \cup {s}
  BY DEF Breaks, threadVars
<1>2. SessionsTypes'
  BY <1>1 DEF SessionsIInv, SessionsTypes
<1>3. KnownAreMade' /\ RetryIsFresh' /\ HandsAreClean' /\ HandsDiffer'
  BY <1>1
  DEF SessionsIInv, KnownAreMade, RetryIsFresh, HandsAreClean, HandsDiffer, OpenerHas,
      CallHas, Clean
<1>4. LentStays' /\ PlaceRule'
  BY <1>1 DEF SessionsIInv, LentStays, PlaceRule, vars
<1> QED
  BY <1>2, <1>3, <1>4 DEF SessionsIInv
------------------------------------------------------------------------------
(* Every step of the sessions is one of the panel, or leaves it alone.      *)
LEMMA CallAnsweredIsPanelStep ==
  ASSUME PanelIInv, PlaceRule, NEW c \in Calls, CallAnswered(c) PROVE [PanelNext]_vars
<1>1. CASE c \in PanelCalls /\ Room /\ Navigate(path)
  <2>1. host # {}
    BY <1>1 DEF PlaceRule, CallAnswered
  <2>2. UserNavigates(path)
    BY <1>1, <2>1 DEF CallAnswered, UserNavigates
  <2> QED
    BY <2>2 DEF PanelNext, User, Refresh
<1>2. CASE UNCHANGED listVars
  BY <1>2 DEF CallAnswered, vars, listVars, transferVars
<1> QED
  BY <1>1, <1>2 DEF CallAnswered

LEMMA OpenerStepIsPanelStep ==
  ASSUME NEW o \in Openers, OpenerStep(o) PROVE [PanelNext]_vars
<1>1. CASE o \in Others
  BY <1>1, SessionsAssumption
  DEF OpenerStep, Finds, FindsNone, Opened, NotOpened, Inserts, Answers, vars
<1>2. CASE o \notin Others
  <2>1. o \in 1 .. MaxOpens
    BY <1>2 DEF Openers
  <2>2. ASSUME NEW s, Answers(o, s) PROVE OpenAnswers(o)
    BY <1>2, <2>2 DEF Answers, OpenAnswers
  <2>3. CASE Finds(o) \/ Inserts(o)
    BY <2>1, <2>2, <2>3 DEF Finds, Inserts, PanelNext
  <2>4. CASE NotOpened(o)
    BY <1>2, <2>1, <2>4 DEF NotOpened, OpenAnswers, PanelNext
  <2>5. CASE FindsNone(o) \/ Opened(o)
    BY <2>5 DEF FindsNone, Opened
  <2> QED
    BY <2>3, <2>4, <2>5 DEF OpenerStep
<1> QED
  BY <1>1, <1>2

LEMMA CallStepIsPanelStep ==
  ASSUME NEW c \in Calls, CallStep(c) PROVE UNCHANGED vars
  BY DEF CallStep, EnsureFinds, EnsureMisses, Drops, CallOpened, CallNotOpened, CallInserts,
         Acts, ActsInVain, Evicts

LEMMA HostsAreHosts == SessionsTypes => cast.hosts \subseteq Hosts
  BY SessionsAssumption DEF SessionsTypes

LEMMA WorkIsPanelStep ==
  ASSUME PanelIInv, SessionsIInv, NEW calls \in SUBSET Calls, Work(calls)
  PROVE  [PanelNext]_vars
<1>1. cast.hosts \subseteq Hosts /\ PlaceRule
  BY HostsAreHosts DEF SessionsIInv
<1>2. ASSUME NEW h \in cast.hosts, PanelOpens(h) PROVE [PanelNext]_vars
  BY <1>1, <1>2 DEF PanelOpens, PanelNext, User
<1>3. CASE PanelActs
  BY <1>3 DEF PanelActs, PanelNext, User
<1>4. ASSUME NEW o \in Others, NEW h \in cast.hosts, OtherOpens(o, h) PROVE [PanelNext]_vars
  BY <1>4 DEF OtherOpens
<1>5. ASSUME NEW s \in 1 .. made, Breaks(s) PROVE [PanelNext]_vars
  BY <1>5 DEF Breaks
<1>6. ASSUME NEW i \in 1 .. MaxRequests, PanelLists(i) PROVE [PanelNext]_vars
  <2>1. ListingAnswers(i)
    BY <1>6 DEF PanelLists, Lists, ListingAnswers
  <2> QED
    BY <2>1 DEF PanelNext
<1>7. ASSUME NEW t \in Transfers, TransferStep(t) \/ PanelHears(t) PROVE [PanelNext]_vars
  <2>1. CASE TransferBegins(t)
    BY <2>1 DEF TransferBegins
  <2>2. CASE TransferRefused(t) \/ TransferEnds(t)
    <3>1. ThreadStep(t)
      BY <2>2 DEF TransferRefused, TransferEnds, ThreadStep
    <3> QED
      BY <3>1 DEF PanelNext
  <2>3. CASE PanelHears(t)
    BY <2>3 DEF PanelHears, PanelNext
  <2> QED
    BY <1>7, <2>1, <2>2, <2>3 DEF TransferStep
<1>8. ASSUME NEW c \in calls, NEW h, CallBegins(c, h) PROVE [PanelNext]_vars
  BY <1>8 DEF CallBegins
<1> QED
  BY <1>1, <1>2, <1>3, <1>4, <1>5, <1>6, <1>7, <1>8,
     OpenerStepIsPanelStep, CallStepIsPanelStep, CallAnsweredIsPanelStep
  DEF Work
------------------------------------------------------------------------------
(* Every step of the sessions keeps their invariant.                        *)
LEMMA OpensKeep ==
  ASSUME SessionsIInv, PanelStays, NEW h \in Hosts,
         PanelOpens(h) \/ \E o \in Others : OtherOpens(o, h)
  PROVE  SessionsIInv'
<1> DEFINE r == [step |-> "look", host |-> {h}, session |-> 0]
<1>1. r \in OpenerRow /\ r.step = "look" /\ r.host = {h}
  BY ZeroIsSession DEF OpenerRow, OpenPlace
<1>2. PICK o : opener' = [opener EXCEPT ![o] = r] /\ (o = Len(opens) + 1 \/ o \in Others)
  BY DEF PanelOpens, OtherOpens
<1>3. UNCHANGED <<cast, table, made, broken, call, lent>>
  BY DEF PanelOpens, OtherOpens
<1> HIDE DEF r
<1>4. CASE o \in Openers
  BY <1>1, <1>2, <1>3, <1>4, OpenerGoesOn
<1>5. CASE o \notin Openers
  <2>1. opener' = opener
    BY <1>2, <1>5 DEF SessionsIInv, SessionsTypes
  <2> QED
    BY <1>3, <2>1, SessionsSame DEF sessionVars
<1> QED
  BY <1>4, <1>5

LEMMA OpenerStepKeeps ==
  ASSUME SessionsIInv, TransferRule, PanelStays, NEW o \in Openers, OpenerStep(o)
  PROVE  SessionsIInv'
<1>1. opener[o] \in OpenerRow
  BY DEF SessionsIInv, SessionsTypes
<1>2. CASE Finds(o) \/ NotOpened(o)
  <2> DEFINE r == [opener[o] EXCEPT !.step = "over", !.session = 0]
  <2>1. opener[o].step # "none"
    BY <1>2 DEF Finds, NotOpened
  <2>2. PICK h \in Hosts : opener[o].host = {h}
    BY <2>1 DEF SessionsIInv, PlaceRule
  <2>3. r \in OpenerRow /\ r.step = "over" /\ r.host = {h}
    BY <1>1, <2>2, ZeroIsSession DEF OpenerRow, OpenPlace
  <2>4. opener' = [opener EXCEPT ![o] = r] /\ UNCHANGED <<cast, table, made, broken, call, lent>>
    BY <1>2 DEF Finds, NotOpened, Answers
  <2> HIDE DEF r
  <2> QED
    BY <2>3, <2>4, OpenerGoesOn
<1>3. CASE FindsNone(o)
  <2> DEFINE r == [opener[o] EXCEPT !.step = "connect"]
  <2>1. opener[o].step # "none"
    BY <1>3 DEF FindsNone
  <2>2. PICK h \in Hosts : opener[o].host = {h}
    BY <2>1 DEF SessionsIInv, PlaceRule
  <2>3. r \in OpenerRow /\ r.step = "connect" /\ r.host = {h}
    BY <1>1, <2>2 DEF OpenerRow, OpenPlace
  <2>4. opener' = [opener EXCEPT ![o] = r] /\ UNCHANGED <<cast, table, made, broken, call, lent>>
    BY <1>3 DEF FindsNone
  <2> HIDE DEF r
  <2> QED
    BY <2>3, <2>4, OpenerGoesOn
<1> QED
  BY <1>2, <1>3, OpenedKeeps, InsertsKeeps DEF OpenerStep

LEMMA FailedOnEntry ==
  ASSUME SessionsIInv, NEW f, f = 0 \/ (\E h \in Hosts : f = table[h])
  PROVE  f \in Session /\ f <= made /\ \A s \in 1 .. made : Clean(s) => f # s
<1>1. 0 <= made
  BY SessionsAssumption DEF SessionsIInv, SessionsTypes, Session
<1> QED
  BY <1>1, ZeroIsSession DEF SessionsIInv, SessionsTypes, KnownAreMade, Clean

(* A call that begins, once more or for the first time, has failed nowhere. *)
LEMMA BeginsKeeps ==
  ASSUME SessionsIInv, PanelStays, NEW c \in Calls, NEW h \in Hosts,
         NEW r \in CallRow, call' = [call EXCEPT ![c] = r],
         UNCHANGED <<cast, table, made, broken, opener, lent>>,
         r.step = "ensure", r.host = {h}, ~r.again, r.failed = 0,
         c \in PanelCalls => host # {}
  PROVE  SessionsIInv'
<1>1. FailedRight(r)
  BY FailedOnEntry DEF FailedRight
<1> QED
  BY <1>1, CallGoesOn

LEMMA CallBeginsKeeps ==
  ASSUME PanelIInv, SessionsIInv, PanelStays, NEW c \in Calls, NEW h \in HostsOf(c),
         CallBegins(c, h)
  PROVE  SessionsIInv'
<1> DEFINE r == [call[c] EXCEPT !.step = "ensure", !.host = {h}]
<1>1. call[c] \in CallRow /\ ~call[c].again /\ call[c].failed = 0
  BY DEF SessionsIInv, SessionsTypes, PlaceRule, CallBegins, At
<1>2. h \in Hosts /\ (c \in PanelCalls => host # {})
  BY HostsAreHosts DEF HostsOf, SessionsIInv, PanelIInv, PanelTypes, AtMostOne
<1>3. r \in CallRow /\ r.step = "ensure" /\ r.host = {h} /\ ~r.again /\ r.failed = 0
  BY <1>1, <1>2 DEF CallRow, CallPlace
<1>4. call' = [call EXCEPT ![c] = r] /\ UNCHANGED <<cast, table, made, broken, opener, lent>>
  BY DEF CallBegins
<1> HIDE DEF r
<1> QED
  BY <1>2, <1>3, <1>4, BeginsKeeps

(* A call goes to another place with what it has.                           *)
LEMMA GoesKeeps ==
  ASSUME SessionsIInv, PanelStays, NEW c \in Calls, NEW step \in CallPlace \ {"insert", "none"},
         Goes(c, step), UNCHANGED <<cast, table, made, broken, opener, lent>>,
         call[c].step # "none",
         call[c].step \in {"ok", "failed", "over"} => step \in {"ok", "failed", "over"}
  PROVE  SessionsIInv'
<1> DEFINE r == [call[c] EXCEPT !.step = step]
<1>1. call[c] \in CallRow
  BY DEF SessionsIInv, SessionsTypes
<1>2. /\ r \in CallRow /\ r.step = step /\ r.host = call[c].host
      /\ r.again = call[c].again /\ r.failed = call[c].failed
  BY <1>1 DEF CallRow
<1>3. call' = [call EXCEPT ![c] = r]
  BY DEF Goes
<1> HIDE DEF r
<1>4. (\E h \in Hosts : r.host = {h}) /\ (c \in PanelCalls => host # {})
  BY <1>2 DEF SessionsIInv, PlaceRule
<1>5. FailedRight(r)
  BY <1>2 DEF SessionsIInv, FailedRight, KnownAreMade, Clean, RetryIsFresh
<1> QED
  BY <1>2, <1>3, <1>4, <1>5, CallGoesOn

LEMMA AttemptFailsKeeps ==
  ASSUME SessionsIInv, PanelStays, NEW c \in Calls, NEW f,
         f = 0 \/ (\E h \in Hosts : f = table[h]),
         AttemptFails(c, f), UNCHANGED <<cast, table, made, broken, opener, lent>>,
         call[c].step # "none"
  PROVE  SessionsIInv'
<1> DEFINE place == IF call[c].again \/ c \in Reads THEN "failed" ELSE "evict"
<1> DEFINE r == [call[c] EXCEPT !.step = place, !.failed = f]
<1>1. call[c] \in CallRow
  BY DEF SessionsIInv, SessionsTypes
<1>2. f \in Session /\ f <= made /\ \A s \in 1 .. made : Clean(s) => f # s
  BY FailedOnEntry
<1>3. /\ r \in CallRow /\ r.step = place /\ r.host = call[c].host
      /\ r.again = call[c].again /\ r.failed = f
  BY <1>1, <1>2 DEF CallRow, CallPlace
<1>4. call' = [call EXCEPT ![c] = r]
  BY DEF AttemptFails
<1>5. place \in {"failed", "evict"} /\ (call[c].again => place = "failed")
  OBVIOUS
<1> HIDE DEF r, place
<1>6. (\E h \in Hosts : r.host = {h}) /\ (c \in PanelCalls => host # {})
  BY <1>3 DEF SessionsIInv, PlaceRule
<1>7. FailedRight(r)
  BY <1>2, <1>3, <1>5 DEF FailedRight
<1> QED
  BY <1>3, <1>4, <1>5, <1>6, <1>7, CallGoesOn

LEMMA CallStepKeeps ==
  ASSUME SessionsIInv, TransferRule, PanelStays, NEW c \in Calls,
         CallStep(c) \/ CallAnswered(c)
  PROVE  SessionsIInv'
<1>1. CASE EnsureFinds(c) \/ EnsureMisses(c) \/ Acts(c) \/ CallAnswered(c)
  <2>1. PICK step \in {"act", "drop", "ok", "over"} :
          /\ Goes(c, step) /\ (call[c].step \in {"ok", "failed"} => step = "over")
          /\ call[c].step \notin {"none", "over"}
    BY <1>1 DEF EnsureFinds, EnsureMisses, Acts, CallAnswered, At
  <2>2. UNCHANGED <<cast, table, made, broken, opener, lent>>
    BY <1>1 DEF EnsureFinds, EnsureMisses, Acts, CallAnswered
  <2>3. step \in CallPlace \ {"insert", "none"}
    BY <2>1 DEF CallPlace
  <2> QED
    BY <2>1, <2>2, <2>3, GoesKeeps
<1>2. CASE CallNotOpened(c) \/ ActsInVain(c)
  <2>1. call[c].step # "none" /\ UNCHANGED <<cast, table, made, broken, opener, lent>>
    BY <1>2 DEF CallNotOpened, ActsInVain, At
  <2>2. PICK h \in Hosts : call[c].host = {h}
    BY <2>1 DEF SessionsIInv, PlaceRule
  <2>3. AttemptFails(c, 0) \/ AttemptFails(c, table[h])
    BY <1>2, <2>2, TheOne DEF CallNotOpened, ActsInVain, Entry
  <2> QED
    BY <2>1, <2>3, AttemptFailsKeeps
<1> QED
  BY <1>1, <1>2, RemovedKeeps, CallOpenedKeeps, CallInsertsKeeps DEF CallStep

LEMMA WorkKeepsSessions ==
  ASSUME PanelIInv, SessionsIInv, PanelStays, NEW calls \in SUBSET Calls, Work(calls)
  PROVE  SessionsIInv'
<1>1. TransferRule /\ cast.hosts \subseteq Hosts
  BY HostsAreHosts DEF PanelIInv, SessionsIInv
<1>2. ASSUME NEW h \in cast.hosts, PanelOpens(h) \/ \E o \in Others : OtherOpens(o, h)
      PROVE  SessionsIInv'
  BY <1>1, <1>2, OpensKeep
<1>3. CASE PanelActs \/ (\E i \in 1 .. MaxRequests : PanelLists(i))
             \/ \E t \in Transfers : PanelHears(t) \/ TransferRefused(t)
  BY <1>3, SessionsSame DEF PanelActs, PanelLists, PanelHears, TransferRefused
<1>4. ASSUME NEW t \in Transfers, TransferStep(t) \/ PanelHears(t) PROVE SessionsIInv'
  BY <1>1, <1>3, <1>4, LentKeeps DEF TransferStep
<1>5. ASSUME NEW c \in calls,
             (\E h \in HostsOf(c) : CallBegins(c, h)) \/ CallStep(c) \/ CallAnswered(c)
      PROVE  SessionsIInv'
  BY <1>1, <1>5, CallBeginsKeeps, CallStepKeeps
<1> QED
  BY <1>1, <1>2, <1>3, <1>4, <1>5, BreaksKeeps, OpenerStepKeeps DEF Work
------------------------------------------------------------------------------
(* The editor.  Its calls are calls that nobody else makes.                 *)
LEMMA MineAreCalls ==
  /\ Mine \subseteq Calls /\ Mine \cap PanelCalls = {} /\ Calls \ Mine \subseteq Calls
  /\ Save \in Mine /\ Loads \subseteq Mine /\ Save \notin Loads
  BY EditorAssumption, SessionsAssumption DEF Mine

LEMMA LoadIsOne ==
  ASSUME EditorTypes, NEW i \in DOMAIN loads
  PROVE  i \in 1 .. Len(loads) /\ loads[i] \in LoadRow /\ loads[i].call \in Loads
         /\ loads[i].file \in Files /\ loads[i].text \in AnyText
<1>1. loads \in Seq(LoadRow)
  BY DEF EditorTypes
<1>2. i \in 1 .. Len(loads) /\ loads[i] \in LoadRow
  BY <1>1, LenProperties, ElementOfSeq
<1> QED
  BY <1>2 DEF LoadRow

(* What a step of the editor is to the sessions.                            *)
LEMMA EditorStepKinds ==
  ASSUME EditorTypes, [EditorNext]_everything
  PROVE  \/ Work(Calls \ Mine) \/ UNCHANGED allVars
         \/ \E c \in Mine, h \in cast.hosts : Asks(c, h)
         \/ \E c \in Mine : CallStep(c) \/ CallAnswered(c)
<1>1. CASE EditorUser
  BY <1>1, MineAreCalls
  DEF EditorUser, UserSaves, CloseSaves, SaveBegins, LoadFile, Type, CloseClean, CloseAsks,
      CloseSavesNot, CloseDiscards, CloseAgain, Leave
<1>2. CASE EditorSystem
  <2>1. ASSUME NEW c \in Mine, MyCall(c) PROVE CallStep(c)
    BY <2>1 DEF MyCall, CallStep
  <2>2. ASSUME NEW i \in Loading, LoadReads(i) \/ LoadFails(i) \/ LoadEnds(i)
        PROVE  loads[i].call \in Mine /\ (CallStep(loads[i].call) \/ CallAnswered(loads[i].call))
    <3>1. loads[i].call \in Mine
      BY LoadIsOne, MineAreCalls DEF Loading
    <3> QED
      BY <2>2, <3>1 DEF LoadReads, LoadFails, LoadEnds, CallStep
  <2>3. CASE SaveWrites \/ SaveBreaksOff \/ SaveEnds
    BY <2>3, MineAreCalls DEF SaveWrites, SaveBreaksOff, SaveEnds, CallStep
  <2> QED
    BY <1>2, <2>1, <2>2, <2>3 DEF EditorSystem
<1>3. CASE UNCHANGED everything
  BY <1>3 DEF everything, allVars
<1> QED
  BY <1>1, <1>2, <1>3 DEF EditorNext

(* The panel sees a step of its own or none, and the sessions keep their    *)
(* invariant.                                                               *)
LEMMA EditorIsPanelStep ==
  ASSUME PanelIInv, SessionsIInv, EditorTypes, [EditorNext]_everything
  PROVE  [PanelNext]_vars
<1>1. CASE Work(Calls \ Mine)
  BY <1>1, MineAreCalls, WorkIsPanelStep
<1>2. CASE UNCHANGED allVars
  BY <1>2 DEF allVars
<1>3. ASSUME NEW c \in Mine, NEW h, Asks(c, h) PROVE UNCHANGED vars
  BY <1>3 DEF Asks, panelVars
<1>4. ASSUME NEW c \in Mine, CallStep(c) \/ CallAnswered(c) PROVE [PanelNext]_vars
  BY <1>4, MineAreCalls, CallStepIsPanelStep, CallAnsweredIsPanelStep DEF SessionsIInv
<1> QED
  BY <1>1, <1>2, <1>3, <1>4, EditorStepKinds

LEMMA EditorKeepsSessions ==
  ASSUME PanelIInv, SessionsIInv, EditorTypes, [EditorNext]_everything
  PROVE  SessionsIInv'
<1>1. PanelStays /\ TransferRule
  BY EditorIsPanelStep, PanelStepStays DEF PanelIInv
<1>2. CASE Work(Calls \ Mine)
  BY <1>1, <1>2, MineAreCalls, WorkKeepsSessions
<1>3. CASE UNCHANGED allVars
  BY <1>1, <1>3, SessionsSame DEF allVars
<1>4. ASSUME NEW c \in Mine, NEW h \in cast.hosts, Asks(c, h) PROVE SessionsIInv'
  <2> DEFINE r == [step |-> "ensure", host |-> {h}, session |-> 0, again |-> FALSE, failed |-> 0]
  <2>1. h \in Hosts /\ c \in Calls /\ c \notin PanelCalls
    BY HostsAreHosts, MineAreCalls DEF SessionsIInv
  <2>2. r \in CallRow /\ r.step = "ensure" /\ r.host = {h} /\ ~r.again /\ r.failed = 0
    BY <2>1, ZeroIsSession DEF CallRow, CallPlace
  <2>3. call' = [call EXCEPT ![c] = r] /\ UNCHANGED <<cast, table, made, broken, opener, lent>>
    BY <1>4 DEF Asks, panelVars
  <2> HIDE DEF r
  <2> QED
    BY <1>1, <2>1, <2>2, <2>3, BeginsKeeps
<1>5. ASSUME NEW c \in Mine, CallStep(c) \/ CallAnswered(c) PROVE SessionsIInv'
  BY <1>1, <1>5, MineAreCalls, CallStepKeeps
<1> QED
  BY <1>2, <1>3, <1>4, <1>5, EditorStepKinds

(* Where a call is after one of its steps.                                  *)
LEMMA CallMoves ==
  ASSUME SessionsTypes, NEW c \in Calls, CallStep(c) \/ CallAnswered(c)
  PROVE  /\ \A d \in Calls : d # c => call'[d] = call[d]
         /\ call[c].step \notin {"none", "over"}
         /\ Acts(c) => call[c].step = "act" /\ call'[c].step = "ok"
         /\ CallAnswered(c) => call[c].step \in {"ok", "failed"} /\ call'[c].step = "over"
         /\ ~Acts(c) /\ ~CallAnswered(c) =>
              call[c].step # "ok" /\ call'[c].step \notin {"none", "over", "ok"}
<1>1. call \in [Calls -> CallRow] /\ call[c] \in CallRow
  BY DEF SessionsTypes
<1>2. CASE EnsureFinds(c) \/ EnsureMisses(c) \/ Drops(c) \/ Evicts(c)
  BY <1>1, <1>2 DEF EnsureFinds, EnsureMisses, Drops, Evicts, Goes, At, CallRow, Acts, CallAnswered
<1>3. CASE CallOpened(c) \/ CallInserts(c)
  BY <1>1, <1>3 DEF CallOpened, CallInserts, At, CallRow, Acts, CallAnswered
<1>4. CASE CallNotOpened(c) \/ ActsInVain(c)
  <2>1. PICK f : AttemptFails(c, f)
    BY <1>4 DEF CallNotOpened, ActsInVain
  <2>2. /\ \A d \in Calls : d # c => call'[d] = call[d]
        /\ call'[c].step \in {"failed", "evict"}
    BY <1>1, <2>1 DEF AttemptFails, CallRow
  <2>3. call[c].step \in {"connect", "act"}
    BY <1>4 DEF CallNotOpened, ActsInVain, At
  <2>4. ~Acts(c) /\ ~CallAnswered(c)
    BY <1>1, <2>2, <2>3 DEF Acts, CallAnswered, Goes, CallRow
  <2> QED
    BY <2>2, <2>3, <2>4
<1>5. CASE Acts(c)
  BY <1>1, <1>5 DEF Acts, At, Goes, CallRow, CallAnswered
<1>6. CASE CallAnswered(c)
  BY <1>1, <1>6 DEF Acts, At, Goes, CallRow, CallAnswered
<1> QED
  BY <1>2, <1>3, <1>4, <1>5, <1>6 DEF CallStep

LEMMA AskMoves ==
  ASSUME SessionsTypes, NEW c \in Calls, NEW h, Asks(c, h)
  PROVE  /\ \A d \in Calls : d # c => call'[d] = call[d]
         /\ call[c].step \in {"none", "over"} /\ call'[c].step = "ensure"
  BY DEF SessionsTypes, Asks

LEMMA WorkLeavesMine ==
  ASSUME SessionsTypes, Work(Calls \ Mine), NEW c \in Mine PROVE call'[c] = call[c]
<1>1. ASSUME NEW d \in Calls \ Mine, CallStep(d) \/ CallAnswered(d) PROVE call'[c] = call[c]
  BY <1>1, CallMoves, MineAreCalls
<1>2. ASSUME NEW d \in Calls \ Mine, NEW h, CallBegins(d, h) PROVE call'[c] = call[c]
  BY <1>2, MineAreCalls DEF SessionsTypes, CallBegins
<1>3. ASSUME NEW o \in Openers, OpenerStep(o) PROVE call' = call
  BY <1>3 DEF OpenerStep, Finds, FindsNone, Opened, NotOpened, Inserts
<1>4. ASSUME NEW t \in Transfers, TransferStep(t) \/ PanelHears(t) PROVE call' = call
  BY <1>4 DEF TransferStep, TransferBegins, TransferRefused, TransferEnds, PanelHears,
       sessionVars, threadVars
<1>5. CASE PanelActs \/ \E i \in 1 .. MaxRequests : PanelLists(i)
  BY <1>5 DEF PanelActs, PanelLists, sessionVars
<1>6. CASE \/ \E h \in cast.hosts : PanelOpens(h)
           \/ \E o \in Others, h \in cast.hosts : OtherOpens(o, h)
           \/ \E s \in 1 .. made : Breaks(s)
  BY <1>6 DEF PanelOpens, OtherOpens, Breaks, threadVars
<1> QED
  BY <1>1, <1>2, <1>3, <1>4, <1>5, <1>6 DEF Work

(* Loads that are on their way afterwards were so before, unless begun.     *)
LEMMA LoadingShrinks ==
  ASSUME EditorTypes, DOMAIN loads' = DOMAIN loads,
         \A i \in DOMAIN loads : loads'[i].call = loads[i].call,
         \A c \in Loads : call[c].step = "over" => call'[c].step = "over"
  PROVE  Loading' \subseteq Loading
  BY LoadIsOne DEF Loading

(* Nothing of the editor changes, nor what is ready of its calls.           *)
LEMMA EditorSame ==
  ASSUME EditorIInv, UNCHANGED editorVars,
         \A c \in Mine, s \in {"none", "over", "ok"} : call'[c].step = s <=> call[c].step = s
  PROVE  EditorIInv'
<1>1. UNCHANGED <<window, current, text, original, dirty, saving, saved, saves, loads, left,
                  remote, mixed>>
  BY DEF editorVars, windowVars
<1>2. EditorTypes
  BY DEF EditorIInv
<1>3. Loading' \subseteq Loading
  <2>1. DOMAIN loads' = DOMAIN loads /\ \A i \in DOMAIN loads : loads'[i].call = loads[i].call
    BY <1>1
  <2>2. \A c \in Loads : call[c].step = "over" => call'[c].step = "over"
    BY MineAreCalls
  <2> QED
    BY <1>2, <2>1, <2>2, LoadingShrinks
<1>4. EditorTypes' /\ DirtyIsExact' /\ SavedIsStored'
  BY <1>1 DEF EditorIInv, EditorTypes, DirtyIsExact, SavedIsStored
<1>5. SaveRule'
  BY <1>1, <1>3, MineAreCalls DEF EditorIInv, SaveRule, At
<1>6. LoadRule'
  <2> SUFFICES ASSUME NEW i \in Loading', call'[loads[i].call].step = "ok", ~mixed
               PROVE  remote[loads[i].file] = loads[i].text
    BY <1>1 DEF LoadRule, At
  <2>1. i \in Loading /\ loads[i].call \in Mine
    BY <1>2, <1>3, LoadIsOne, MineAreCalls DEF Loading
  <2>2. call[loads[i].call].step = "ok"
    BY <2>1
  <2> QED
    BY <2>1, <2>2 DEF EditorIInv, LoadRule, At
<1>7. OriginalIsStored'
  BY <1>1 DEF EditorIInv, OriginalIsStored, The
<1> QED
  BY <1>4, <1>5, <1>6, <1>7 DEF EditorIInv

(* The calls of the editor that neither end nor become ready.               *)
LEMMA UneventfulKeeps ==
  ASSUME SessionsTypes, EditorIInv,
         \/ Work(Calls \ Mine) /\ UNCHANGED editorVars
         \/ \E c \in Mine : MyCall(c)
         \/ \E i \in Loading : LoadFails(i)
         \/ UNCHANGED everything
  PROVE  EditorIInv'
<1>1. CASE Work(Calls \ Mine) /\ UNCHANGED editorVars
  BY <1>1, WorkLeavesMine, EditorSame
<1>2. ASSUME NEW c \in Mine, UNCHANGED editorVars,
             CallStep(c), ~Acts(c), ~CallAnswered(c)
      PROVE  EditorIInv'
  <2>1. \A d \in Mine, s \in {"none", "over", "ok"} : call'[d].step = s <=> call[d].step = s
    BY <1>2, CallMoves, MineAreCalls
  <2> QED
    BY <1>2, <2>1, EditorSame
<1>3. ASSUME NEW c \in Mine, MyCall(c) PROVE EditorIInv'
  <2>1. CallStep(c) /\ UNCHANGED editorVars
    BY <1>3 DEF MyCall, CallStep
  <2>2. call \in [Calls -> CallRow] /\ c \in Calls
    BY MineAreCalls DEF SessionsTypes
  <2>3. ~Acts(c) /\ ~CallAnswered(c)
    BY <1>3, <2>2
    DEF MyCall, EnsureFinds, EnsureMisses, Drops, CallOpened, CallNotOpened, CallInserts, Evicts,
        At, Acts, CallAnswered
  <2> QED
    BY <1>2, <2>1, <2>3
<1>4. ASSUME NEW i \in Loading, LoadFails(i) PROVE EditorIInv'
  <2> DEFINE c == loads[i].call
  <2>1. c \in Mine /\ c \in Calls
    BY LoadIsOne, MineAreCalls DEF Loading, EditorIInv
  <2>2. ActsInVain(c) /\ UNCHANGED editorVars
    BY <1>4 DEF LoadFails
  <2> HIDE DEF c
  <2>3. CallStep(c)
    BY <2>2 DEF CallStep
  <2>4. ~CallAnswered(c)
    BY <2>2 DEF ActsInVain, CallAnswered, At
  <2>5. ~Acts(c)
    <3>1. call'[c].step \in {"failed", "evict"}
      BY <2>1, <2>2 DEF ActsInVain, AttemptFails, SessionsTypes, CallRow
    <3> QED
      BY <2>1, <2>3, <3>1, CallMoves
  <2> QED
    BY <1>2, <2>1, <2>2, <2>3, <2>4, <2>5
<1>5. CASE UNCHANGED everything
  BY <1>5, EditorSame DEF everything, allVars, sessionVars, threadVars
<1> QED
  BY <1>1, <1>3, <1>4, <1>5

(* A load is ready: what it carries is in the file.                         *)
LEMMA LoadReadsKeeps ==
  ASSUME SessionsTypes, EditorIInv, NEW i \in Loading, LoadReads(i) PROVE EditorIInv'
<1> DEFINE c == loads[i].call
<1> DEFINE r == [loads[i] EXCEPT !.text = remote[loads[i].file]]
<1>1. /\ i \in DOMAIN loads /\ i \in 1 .. Len(loads) /\ loads[i] \in LoadRow
      /\ c \in Loads /\ c \in Mine /\ c \in Calls /\ c # Save
      /\ loads \in Seq(LoadRow)
  BY LoadIsOne, MineAreCalls DEF Loading, EditorIInv, EditorTypes
<1>2. /\ UNCHANGED <<window, current, text, original, dirty, saving, saved, saves, left, remote,
                     mixed>>
      /\ loads' = [loads EXCEPT ![i] = r] /\ Acts(c)
  BY DEF LoadReads
<1>3. /\ \A d \in Calls : d # c => call'[d] = call[d]
      /\ call[c].step = "act" /\ call'[c].step = "ok"
  BY <1>1, <1>2, CallMoves DEF CallStep
<1>4. /\ r \in LoadRow /\ r.call = c /\ r.file = loads[i].file
      /\ r.text = remote[loads[i].file]
  <2>1. remote[loads[i].file] \in AnyText
    BY <1>1 DEF EditorIInv, EditorTypes, LoadRow
  <2> QED
    BY <1>1, <2>1 DEF LoadRow
<1> HIDE DEF r
<1>5. /\ loads' \in Seq(LoadRow) /\ DOMAIN loads' = DOMAIN loads /\ loads'[i] = r
      /\ \A j \in DOMAIN loads : j # i => loads'[j] = loads[j]
  BY <1>1, <1>2, <1>4, ExceptSeq, LenProperties
<1> HIDE DEF c
<1>6. Loading' \subseteq Loading
  <2>1. \A j \in DOMAIN loads : loads'[j].call = loads[j].call
    BY <1>4, <1>5 DEF c
  <2>2. \A d \in Loads : call[d].step = "over" => call'[d].step = "over"
    BY <1>3, MineAreCalls
  <2> QED
    BY <1>5, <2>1, <2>2, LoadingShrinks DEF EditorIInv
<1>7. EditorTypes' /\ DirtyIsExact' /\ SavedIsStored' /\ OriginalIsStored'
  BY <1>2, <1>5
  DEF EditorIInv, EditorTypes, DirtyIsExact, SavedIsStored, OriginalIsStored, The
<1>8. SaveRule'
  <2>1. call'[Save] = call[Save]
    BY <1>1, <1>3, MineAreCalls
  <2> QED
    BY <1>2, <1>6, <2>1 DEF EditorIInv, SaveRule, At
<1>9. LoadRule'
  <2> SUFFICES ASSUME NEW j \in Loading', call'[loads'[j].call].step = "ok", ~mixed
               PROVE  remote[loads'[j].file] = loads'[j].text
    BY <1>2 DEF LoadRule, At
  <2>1. j \in Loading /\ j \in DOMAIN loads /\ loads[j].call \in Calls
    BY <1>6, LoadIsOne, MineAreCalls DEF Loading, EditorIInv
  <2>2. CASE j = i
    BY <1>4, <1>5, <2>2
  <2>3. CASE j # i
    <3>1. loads'[j] = loads[j]
      BY <1>5, <2>1, <2>3
    <3>2. loads[j].call # c
      <4>1. j \in Nat /\ i \in Nat
        BY <1>1, <2>1, LoadIsOne DEF EditorIInv
      <4> QED
        BY <1>1, <2>1, <2>3, <4>1 DEF Loading, c
    <3> QED
      BY <1>3, <2>1, <3>1, <3>2 DEF EditorIInv, LoadRule, At
  <2> QED
    BY <2>2, <2>3
<1> QED
  BY <1>7, <1>8, <1>9 DEF EditorIInv

(* A load ends, the last one in the editor.                                 *)
LEMMA LoadEndsKeeps ==
  ASSUME SessionsTypes, EditorIInv, NEW i \in Loading, LoadEnds(i) PROVE EditorIInv'
<1> DEFINE c == loads[i].call
<1>1. /\ i \in DOMAIN loads /\ loads[i].file \in Files /\ loads[i].text \in AnyText
      /\ c \in Loads /\ c \in Mine /\ c \in Calls /\ c # Save
  BY LoadIsOne, MineAreCalls DEF Loading, EditorIInv
<1>2. /\ UNCHANGED <<window, saving, saved, saves, loads, left, remote, mixed>>
      /\ CallAnswered(c)
      /\ \/ /\ At(c, "ok") /\ window # "closed"
            /\ current' = {loads[i].file}
            /\ text' = loads[i].text /\ original' = loads[i].text
            /\ dirty' = FALSE
         \/ UNCHANGED <<current, text, original, dirty>>
  BY DEF LoadEnds
<1>3. /\ \A d \in Calls : d # c => call'[d] = call[d]
      /\ call'[c].step = "over"
  BY <1>1, <1>2, CallMoves
<1>4. Loading # {}
  OBVIOUS
<1> HIDE DEF c
<1>5. Loading' \subseteq Loading
  <2>1. \A d \in Loads : call[d].step = "over" => call'[d].step = "over"
    BY <1>3, MineAreCalls
  <2> QED
    BY <1>2, <2>1, LoadingShrinks DEF EditorIInv
<1>6. EditorTypes'
  BY <1>1, <1>2 DEF EditorIInv, EditorTypes, AtMostOne
<1>7. DirtyIsExact' /\ SavedIsStored'
  BY <1>2 DEF EditorIInv, DirtyIsExact, SavedIsStored
<1>8. SaveRule'
  <2>1. call'[Save] = call[Save] /\ ~(saving /\ ~mixed)
    BY <1>1, <1>3, <1>4, MineAreCalls DEF EditorIInv, SaveRule
  <2> QED
    BY <1>2, <2>1 DEF EditorIInv, SaveRule, At
<1>9. LoadRule'
  <2> SUFFICES ASSUME NEW j \in Loading', call'[loads[j].call].step = "ok", ~mixed
               PROVE  remote[loads[j].file] = loads[j].text
    BY <1>2 DEF LoadRule, At
  <2>1. j \in Loading /\ loads[j].call \in Calls
    BY <1>5, LoadIsOne, MineAreCalls DEF Loading, EditorIInv
  <2>2. call[loads[j].call].step = "ok"
    BY <1>3, <2>1
  <2> QED
    BY <2>1, <2>2 DEF EditorIInv, LoadRule, At
<1>10. OriginalIsStored'
  <2>1. CASE UNCHANGED <<current, text, original, dirty>>
    BY <1>2, <2>1 DEF EditorIInv, OriginalIsStored, The
  <2>2. CASE At(c, "ok") /\ current' = {loads[i].file} /\ original' = loads[i].text
    <3>1. ~mixed => remote[loads[i].file] = loads[i].text
      BY <2>2 DEF EditorIInv, LoadRule, c
    <3>2. The(current)' = loads[i].file
      <4>1. The(current)' = The(current')
        BY DEF The
      <4> QED
        BY <2>2, <4>1, TheOne
    <3> QED
      BY <1>2, <2>2, <3>1, <3>2 DEF OriginalIsStored
  <2> QED
    BY <1>2, <2>1, <2>2
<1> QED
  BY <1>6, <1>7, <1>8, <1>9, <1>10 DEF EditorIInv

LEMMA LoadFileKeeps ==
  ASSUME SessionsTypes, EditorIInv, NEW c \in Loads, NEW f \in Files, NEW h,
         LoadFile(c, f, h)
  PROVE  EditorIInv'
<1> DEFINE r == [call |-> c, file |-> f, text |-> Cut]
<1>1. /\ UNCHANGED <<window, current, text, original, dirty, saving, saved, saves, left, remote>>
      /\ loads' = Append(loads, r) /\ mixed' = (mixed \/ saving) /\ Asks(c, h)
  BY DEF LoadFile
<1>2. r \in LoadRow /\ r.call = c
  BY DEF LoadRow, AnyText
<1>3. c \in Calls /\ c # Save /\ Save \in Calls
  BY MineAreCalls
<1>4. /\ \A d \in Calls : d # c => call'[d] = call[d]
      /\ call[c].step \in {"none", "over"} /\ call'[c].step = "ensure"
  BY <1>1, <1>3, AskMoves
<1>5. loads \in Seq(LoadRow) /\ Len(loads) \in Nat /\ DOMAIN loads = 1 .. Len(loads)
  BY LenProperties DEF EditorIInv, EditorTypes
<1> HIDE DEF r
<1>6. /\ loads' \in Seq(LoadRow) /\ DOMAIN loads' = 1 .. Len(loads) + 1
      /\ loads'[Len(loads) + 1] = r
      /\ \A j \in 1 .. Len(loads) : loads'[j] = loads[j]
  BY <1>1, <1>2, <1>5, AppendedQueue, LenProperties
<1>7. EditorTypes' /\ DirtyIsExact' /\ SavedIsStored' /\ OriginalIsStored'
  <2>1. mixed' \in BOOLEAN
    BY <1>1 DEF EditorIInv, EditorTypes
  <2> QED
    BY <1>1, <1>6, <2>1
    DEF EditorIInv, EditorTypes, DirtyIsExact, SavedIsStored, OriginalIsStored, The
<1>8. SaveRule'
  <2>1. call'[Save] = call[Save] /\ ~(saving' /\ ~mixed')
    BY <1>1, <1>3, <1>4
  <2> QED
    BY <1>1, <2>1 DEF EditorIInv, SaveRule, At
<1>9. LoadRule'
  <2> SUFFICES ASSUME NEW j \in Loading', call'[loads'[j].call].step = "ok", ~mixed'
               PROVE  remote[loads'[j].file] = loads'[j].text
    BY <1>1 DEF LoadRule, At
  <2>1. j \in 1 .. Len(loads) + 1
    BY <1>6 DEF Loading
  <2>2. loads'[j].call # c
    BY <1>4
  <2>3. j \in DOMAIN loads /\ loads'[j] = loads[j]
    BY <1>2, <1>5, <1>6, <2>1, <2>2
  <2>4. loads[j].call \in Calls
    BY <2>3, LoadIsOne, MineAreCalls DEF EditorIInv
  <2>5. call'[loads[j].call] = call[loads[j].call]
    BY <1>4, <2>2, <2>3, <2>4
  <2>6. j \in Loading
    <3>1. \A k \in DOMAIN loads : k \in DOMAIN loads' /\ loads'[k] = loads[k]
      BY <1>5, <1>6
    <3> QED
      BY <2>3, <2>5, <3>1 DEF Loading
  <2> QED
    BY <1>1, <2>3, <2>5, <2>6 DEF EditorIInv, LoadRule, At
<1> QED
  BY <1>7, <1>8, <1>9 DEF EditorIInv

(* The user types, or leaves: no call moves.                                *)
LEMMA WindowKeeps ==
  ASSUME EditorIInv, UNCHANGED allVars,
         \/ \E x \in Texts : Type(x)
         \/ CloseClean \/ CloseAsks \/ CloseSavesNot \/ CloseDiscards \/ CloseAgain
  PROVE  EditorIInv'
<1>1. /\ UNCHANGED <<call, current, original, saving, saved, saves, loads, remote, mixed>>
      /\ window' # "closed" => window # "closed" /\ left' = left
  BY DEF Type, CloseClean, CloseAsks, CloseSavesNot, CloseDiscards, CloseAgain, Leave,
         allVars, sessionVars, threadVars
<1>2. window' \in {"open", "asking", "closing", "closed"} /\ dirty' \in BOOLEAN
        /\ text' \in AnyText
        /\ left' \in {"not", "clean", "saved", "failed", "unfinished", "discarded"}
  BY DEF Type, CloseClean, CloseAsks, CloseSavesNot, CloseDiscards, CloseAgain, Leave, AnyText,
         EditorIInv, EditorTypes
<1>3. EditorTypes'
  BY <1>1, <1>2 DEF EditorIInv, EditorTypes
<1>4. Loading' = Loading
  BY <1>1 DEF Loading
<1>5. DirtyIsExact'
  BY DEF EditorIInv, DirtyIsExact, Type, CloseClean, CloseAsks, CloseSavesNot, CloseDiscards,
         CloseAgain, Leave
<1>6. left' # "saved" \/ (left' = left /\ window' = window)
  BY DEF EditorIInv, SaveRule, Type, CloseClean, CloseAsks, CloseSavesNot, CloseDiscards,
         CloseAgain, Leave
<1>7. SavedIsStored' /\ SaveRule'
  BY <1>1, <1>4, <1>6 DEF EditorIInv, SavedIsStored, SaveRule, At
<1>8. LoadRule' /\ OriginalIsStored'
  BY <1>1, <1>4 DEF EditorIInv, LoadRule, OriginalIsStored, At, The
<1> QED
  BY <1>3, <1>5, <1>7, <1>8 DEF EditorIInv

(* A save leaves the loads of its window alone.                             *)
LEMMA SaveLeavesLoads ==
  ASSUME EditorTypes, \A d \in Calls : d # Save => call'[d] = call[d], UNCHANGED loads
  PROVE  Loading' \subseteq Loading
         /\ \A i \in Loading : call'[loads[i].call] = call[loads[i].call]
<1>1. \A d \in Loads : call'[d] = call[d]
  BY MineAreCalls
<1>2. Loading' \subseteq Loading
  BY <1>1, LoadingShrinks
<1>3. \A i \in Loading : loads[i].call \in Loads
  BY LoadIsOne DEF Loading
<1> QED
  BY <1>1, <1>2, <1>3

LEMMA SaveBeginsKeeps ==
  ASSUME SessionsTypes, EditorIInv, NEW h, UserSaves(h) \/ CloseSaves(h) PROVE EditorIInv'
<1>1. /\ SaveBegins(h)
      /\ window # "closed" /\ window' \in {"open", "asking", "closing", "closed"}
  BY DEF UserSaves, CloseSaves, Usable, EditorIInv, EditorTypes
<1>2. /\ UNCHANGED <<current, text, original, dirty, loads, left, remote>>
      /\ saving' = TRUE /\ saved' = <<The(current), text>> /\ saves' = saves + 1
      /\ mixed' = (mixed \/ Loading # {})
      /\ ~saving /\ saves < MaxSaves /\ Asks(Save, h)
  BY <1>1 DEF SaveBegins
<1>3. PICK f \in Files : current = {f}
  BY <1>1 DEF SaveBegins, EditorIInv, EditorTypes, AtMostOne
<1>4. saved' = <<f, text>> /\ saved' \in Files \X AnyText /\ saved'[1] = f
  BY <1>2, <1>3, TheOne DEF EditorIInv, EditorTypes
<1>5. /\ \A d \in Calls : d # Save => call'[d] = call[d]
      /\ call'[Save].step = "ensure"
  BY <1>2, MineAreCalls, AskMoves
<1>6. /\ Loading' \subseteq Loading
      /\ \A i \in Loading : call'[loads[i].call] = call[loads[i].call]
  BY <1>2, <1>5, SaveLeavesLoads DEF EditorIInv
<1>7. left # "saved"
  BY <1>1 DEF EditorIInv, SaveRule
<1>8. EditorTypes'
  <2>1. saves' \in 0 .. MaxSaves
    BY <1>2, EditorAssumption DEF EditorIInv, EditorTypes
  <2>2. mixed' \in BOOLEAN
    BY <1>2 DEF EditorIInv, EditorTypes
  <2> QED
    BY <1>1, <1>2, <1>4, <2>1, <2>2 DEF EditorIInv, EditorTypes
<1>9. DirtyIsExact' /\ SavedIsStored' /\ OriginalIsStored'
  BY <1>1, <1>2, <1>7 DEF EditorIInv, DirtyIsExact, SavedIsStored, OriginalIsStored
<1>10. SaveRule'
  BY <1>2, <1>3, <1>4, <1>5, <1>6, <1>7 DEF EditorIInv, SaveRule, At
<1>11. LoadRule'
  BY <1>2, <1>6 DEF EditorIInv, LoadRule, At
<1> QED
  BY <1>8, <1>9, <1>10, <1>11 DEF EditorIInv

(* The write of a save, whatever becomes of it, changes files only while    *)
(* nothing relies on them.                                                  *)
LEMMA WriteKeeps ==
  ASSUME SessionsTypes, EditorIInv, SaveWrites \/ SaveBreaksOff PROVE EditorIInv'
<1>1. UNCHANGED <<window, current, text, original, dirty, saving, saved, saves, loads, left,
                  mixed>>
  BY DEF SaveWrites, SaveBreaksOff, windowVars
<1>2. /\ call[Save].step = "act"
      /\ Acts(Save) \/ ActsInVain(Save)
  BY DEF SaveWrites, SaveBreaksOff, Acts, ActsInVain, At
<1>3. saving /\ left # "saved" /\ saved \in Files \X AnyText /\ saved[1] \in Files
        /\ saved[2] \in AnyText
  BY <1>2 DEF EditorIInv, SaveRule
<1>4. /\ \A d \in Calls : d # Save => call'[d] = call[d]
      /\ call'[Save].step \notin {"none", "over"}
      /\ call'[Save].step = "ok" => Acts(Save)
  <2>1. CallStep(Save) /\ ~CallAnswered(Save)
    BY <1>2 DEF CallStep, CallAnswered
  <2> QED
    BY <2>1, MineAreCalls, CallMoves
<1>5. /\ Loading' \subseteq Loading
      /\ \A i \in Loading : call'[loads[i].call] = call[loads[i].call]
  BY <1>1, <1>4, SaveLeavesLoads DEF EditorIInv
<1>6. remote' \in [Files -> AnyText]
  <2>1. Cut \in AnyText /\ remote \in [Files -> AnyText]
    BY DEF EditorIInv, EditorTypes, AnyText
  <2> QED
    BY <1>3, <2>1 DEF SaveWrites, SaveBreaksOff
<1>7. Acts(Save) => remote'[saved[1]] = saved[2]
  <2>1. ASSUME Acts(Save) PROVE SaveWrites
    <3>1. call'[Save].step = "ok"
      BY <2>1, MineAreCalls, CallMoves DEF CallStep
    <3>2. ActsInVain(Save) => call'[Save].step # "ok"
      BY MineAreCalls DEF ActsInVain, AttemptFails, SessionsTypes, CallRow
    <3> QED
      BY <3>1, <3>2 DEF SaveBreaksOff
  <2> QED
    BY <1>3, <2>1 DEF SaveWrites, EditorIInv, EditorTypes
<1>8. EditorTypes' /\ DirtyIsExact' /\ SavedIsStored' /\ OriginalIsStored'
  BY <1>1, <1>3, <1>6
  DEF EditorIInv, EditorTypes, DirtyIsExact, SavedIsStored, OriginalIsStored
<1>9. SaveRule'
  BY <1>1, <1>3, <1>4, <1>5, <1>7 DEF EditorIInv, SaveRule, At
<1>10. LoadRule'
  BY <1>1, <1>3, <1>5 DEF EditorIInv, LoadRule, SaveRule
<1> QED
  BY <1>8, <1>9, <1>10 DEF EditorIInv

LEMMA SaveEndsKeeps ==
  ASSUME SessionsTypes, EditorIInv, SaveEnds PROVE EditorIInv'
<1> DEFINE ok == At(Save, "ok")
<1>1. /\ UNCHANGED <<current, text, saved, saves, loads, remote>>
      /\ saving' = FALSE /\ mixed' = (mixed \/ ~ok) /\ CallAnswered(Save)
      /\ \/ /\ ok /\ window # "closed"
            /\ original' = saved[2] /\ dirty' = (text # saved[2])
         \/ (~ok \/ window = "closed") /\ UNCHANGED <<original, dirty>>
      /\ \/ window = "closing" /\ window' = "closed" /\ left' = IF ok THEN "saved" ELSE "failed"
         \/ window # "closing" /\ UNCHANGED <<window, left>>
  BY DEF SaveEnds, AfterSave
<1>2. /\ \A d \in Calls : d # Save => call'[d] = call[d]
      /\ call[Save].step \in {"ok", "failed"} /\ call'[Save].step = "over"
  BY <1>1, MineAreCalls, CallMoves
<1>3. saving /\ left # "saved" /\ saved[2] \in AnyText /\ (ok => remote[saved[1]] = saved[2])
  BY <1>2 DEF EditorIInv, SaveRule
<1> HIDE DEF ok
<1>4. /\ Loading' \subseteq Loading
      /\ \A i \in Loading : call'[loads[i].call] = call[loads[i].call]
  BY <1>1, <1>2, SaveLeavesLoads DEF EditorIInv
<1>5. EditorTypes'
  <2>1. original' \in AnyText /\ dirty' \in BOOLEAN
    BY <1>1, <1>3 DEF EditorIInv, EditorTypes
  <2>2. mixed' \in BOOLEAN /\ saving' \in BOOLEAN
    BY <1>1 DEF EditorIInv, EditorTypes, ok
  <2>3. /\ window' \in {"open", "asking", "closing", "closed"}
        /\ left' \in {"not", "clean", "saved", "failed", "unfinished", "discarded"}
    BY <1>1 DEF EditorIInv, EditorTypes
  <2> QED
    BY <1>1, <2>1, <2>2, <2>3 DEF EditorIInv, EditorTypes
<1>6. DirtyIsExact'
  <2>1. CASE ok /\ window # "closed"
    <3>1. original' = saved[2] /\ dirty' = (text # saved[2]) /\ text' = text
      BY <1>1, <2>1
    <3> QED
      BY <3>1 DEF DirtyIsExact
  <2>2. CASE ~ok \/ window = "closed"
    <3>1. UNCHANGED <<text, original, dirty>> /\ (window' # "closed" => window # "closed")
      BY <1>1, <2>2
    <3> QED
      BY <3>1 DEF EditorIInv, DirtyIsExact
  <2> QED
    BY <2>1, <2>2
<1>10. SavedIsStored'
  BY <1>1, <1>3 DEF SavedIsStored
<1>7. SaveRule'
  BY <1>1, <1>2, <1>3 DEF EditorIInv, SaveRule, At
<1>8. LoadRule'
  BY <1>1, <1>4 DEF EditorIInv, LoadRule, At
<1>9. OriginalIsStored'
  <2> SUFFICES ASSUME window' # "closed", current # {}, ~mixed'
               PROVE  remote[The(current)] = original'
    BY <1>1 DEF OriginalIsStored, The
  <2>1. ok /\ ~mixed /\ window # "closed" /\ original' = saved[2]
    BY <1>1
  <2>2. The(current) = saved[1]
    BY <1>3, <2>1, TheOne DEF EditorIInv, SaveRule
  <2> QED
    BY <1>3, <2>1, <2>2
<1> QED
  BY <1>5, <1>6, <1>7, <1>8, <1>9, <1>10 DEF EditorIInv

LEMMA EditorKeepsItself ==
  ASSUME SessionsTypes, EditorIInv, [EditorNext]_everything PROVE EditorIInv'
<1>1. CASE EditorUser
  <2>1. CASE \E h \in cast.hosts : UserSaves(h) \/ CloseSaves(h)
    BY <2>1, SaveBeginsKeeps
  <2>2. CASE \E h \in cast.hosts, c \in Loads, f \in Files : LoadFile(c, f, h)
    BY <2>2, LoadFileKeeps
  <2>3. CASE (\E x \in Texts : Type(x))
               \/ CloseClean \/ CloseAsks \/ CloseSavesNot \/ CloseDiscards \/ CloseAgain
    <3>1. UNCHANGED allVars
      BY <2>3 DEF Type, CloseClean, CloseAsks, CloseSavesNot, CloseDiscards, CloseAgain, Leave
    <3> QED
      BY <2>3, <3>1, WindowKeeps
  <2> QED
    BY <1>1, <2>1, <2>2, <2>3 DEF EditorUser
<1>2. CASE EditorSystem
  BY <1>2, UneventfulKeeps, LoadReadsKeeps, LoadEndsKeeps, WriteKeeps, SaveEndsKeeps
  DEF EditorSystem
<1> QED
  BY <1>1, <1>2, UneventfulKeeps DEF EditorNext
------------------------------------------------------------------------------
(* The whole.                                                               *)
FilesIInv == PanelIInv /\ SessionsIInv /\ EditorIInv

LEMMA FilesInit == EditorInit => FilesIInv
<1> SUFFICES ASSUME EditorInit PROVE FilesIInv
  OBVIOUS
<1> USE DEF EditorInit, SessionsInit
<1>1. PanelIInv
  BY PanelInitInv
<1>2. SessionsTypes
  BY ZeroIsSession DEF SessionsTypes, OpenerRow, OpenPlace, CallRow, CallPlace
<1>3. KnownAreMade /\ HandsAreClean /\ HandsDiffer /\ PlaceRule /\ LentStays /\ RetryIsFresh
  <2>1. PanelCalls \subseteq Calls
    BY SessionsAssumption
  <2> QED
    BY <2>1
    DEF KnownAreMade, HandsAreClean, HandsDiffer, PlaceRule, LentStays, RetryIsFresh, OpenerHas,
        CallHas
<1>4. (CHOOSE x \in Texts : TRUE) \in Texts
  BY EditorAssumption
<1>5. EditorTypes
  <2>1. <<>> \in Seq(LoadRow) /\ 0 \in 0 .. MaxSaves /\ Cut \in AnyText
    BY EmptySeq, EditorAssumption DEF AnyText
  <2>2. remote \in [Files -> AnyText]
    BY <1>4 DEF AnyText
  <2> QED
    BY <2>1, <2>2 DEF EditorTypes, AtMostOne
<1>6. Loading = {} /\ call[Save].step = "none"
  BY MineAreCalls DEF Loading
<1>7. SaveRule /\ LoadRule /\ DirtyIsExact /\ SavedIsStored /\ OriginalIsStored
  BY <1>6 DEF SaveRule, LoadRule, DirtyIsExact, SavedIsStored, OriginalIsStored, At
<1> QED
  BY <1>1, <1>2, <1>3, <1>5, <1>7 DEF FilesIInv, SessionsIInv, EditorIInv

LEMMA FilesNext == FilesIInv /\ [EditorNext]_everything => FilesIInv' /\ [PanelNext]_vars
<1> SUFFICES ASSUME FilesIInv, [EditorNext]_everything PROVE FilesIInv' /\ [PanelNext]_vars
  OBVIOUS
<1>1. PanelIInv /\ SessionsIInv /\ EditorIInv /\ SessionsTypes /\ EditorTypes
  BY DEF FilesIInv, SessionsIInv, EditorIInv
<1>2. [PanelNext]_vars /\ PanelIInv'
  BY <1>1, EditorIsPanelStep, PanelNextInv
<1>3. SessionsIInv' /\ EditorIInv'
  BY <1>1, EditorKeepsSessions, EditorKeepsItself
<1> QED
  BY <1>2, <1>3 DEF FilesIInv

LEMMA FilesAlways == EditorSpec => []FilesIInv
  BY FilesInit, FilesNext, PTL DEF EditorSpec

LEMMA FilesAreEnough == FilesIInv => PanelInv /\ SessionsInv /\ EditorInv
<1> SUFFICES ASSUME FilesIInv PROVE PanelInv /\ SessionsInv /\ EditorInv
  OBVIOUS
<1> USE DEF FilesIInv
<1>1. PanelInv
  BY PanelIInvIsEnough
<1>2. SessionsTypeOK
  BY <1>1 DEF PanelInv, SessionsIInv, SessionsTypes, SessionsTypeOK, OpenerRow, CallRow
<1>3. HandsAreFresh
  <2>1. ASSUME NEW x \in InHand
        PROVE  \/ \E o \in Openers : OpenerHas(o) /\ x = <<o, opener[o].session>>
               \/ \E c \in Calls : CallHas(c) /\ x = <<c, call[c].session>>
    BY DEF InHand, OpenerHas, CallHas
  <2>2. ASSUME NEW x \in InHand PROVE Clean(x[2])
    BY <2>1 DEF SessionsIInv, HandsAreClean
  <2>3. ASSUME NEW x \in InHand, NEW y \in InHand, x[2] = y[2] PROVE x = y
    BY <2>1, <2>3 DEF SessionsIInv, HandsDiffer
  <2> QED
    BY <2>2, <2>3 DEF HandsAreFresh, Clean
<1>4. SessionsInv
  BY <1>2, <1>3 DEF SessionsIInv, SessionsInv
<1>5. EditorTypeOK
  BY AtMostOneIsSmall DEF EditorIInv, EditorTypes, EditorTypeOK, LoadRow
<1>6. CleanIsStored
  BY DEF EditorIInv, DirtyIsExact, OriginalIsStored, CleanIsStored
<1> QED
  BY <1>1, <1>4, <1>5, <1>6 DEF EditorIInv, EditorInv

(* The panel over the threads of the sessions takes only steps that the     *)
(* panel's own specification allows: the safety part of ImplementsPanel.    *)
THEOREM SessionsServeThePanel == EditorSpec => PanelSpec
<1>1. EditorInit => PanelInit
  BY DEF EditorInit, SessionsInit
<1> QED
  BY <1>1, FilesNext, FilesAlways, PTL DEF EditorSpec, PanelSpec

(* The panel is consistent over those threads too.                          *)
THEOREM PanelStaysConsistent == EditorSpec => []PanelInv
  BY FilesAlways, FilesAreEnough, PTL

(* A transfer keeps its session to its end, a retry never meets the session *)
(* that failed, and no session is in two hands (sftp.rs), for any number of *)
(* hosts, opens, calls and transfers.                                       *)
THEOREM SessionsAreSound == EditorSpec => []SessionsInv
  BY FilesAlways, FilesAreEnough, PTL

(* A text shown as clean is in the file, the mark is right, and a window    *)
(* that was left after its save succeeded has left that text in the file    *)
(* (editor/window.rs), for any number of files, texts, loads and saves.     *)
THEOREM EditorKeepsTexts == EditorSpec => []EditorInv
  BY FilesAlways, FilesAreEnough, PTL
==============================================================================
